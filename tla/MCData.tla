------------------------------- MODULE MCData -------------------------------
EXTENDS Commands, Pictures, CameraClient, Abilities

VARIABLE subject

\* Up to four bytes of which none, some or all bits are set.
ShortMetadata == UNION {[1..n -> {0, 166, 255}] : n \in 1..4}

\* No range, a slow one, and one that is too fast.
SomeRates == {<<>>, <<1, 1>>, <<1, 3>>}
SomeMishaps == {{"crossing", "settings"}, {"prepare", "commit", "fast"}, {"prepare", "fast"}, {}}

\* At the limits and just beyond them.
Profile(f, w, h, r) == [format |-> f, width |-> w, height |-> h, rate |-> r]
SomeProfiles ==
  {Profile("YUV_420_SP", 320, 240, 30), Profile("YUV_420_SP", 1920, 1080, 60), Profile("YUV_420_SP", 319, 1079, 24),
   Profile("YUV_420_SP", 1921, 1081, 25), Profile("RGBA_8888", 1919, 1080, 0), Profile("RGBA_8888", 560, 420, 15),
   Profile("JPEG", 4096, 3072, 0), Profile("JPEG", 4097, 3072, 0), Profile("JPEG", 65536, 192, 0),
   Profile("YCBCR_P010", 640, 480, 30), Profile("DNG", 640, 480, 30)}

\* A camera with a fault has one profile.
SomeCameras ==
  {c \in Cameras : (c.fault # "none" => Len(c.profiles) = 1 /\ c.codecs = Codecs) /\ (Len(c.profiles) = 2 => c.codecs # {})}

\* Subjects that share no state, each explored while the others rest.
Init ==
  /\ subject \in {"commands", "pictures", "client", "abilities"}
  /\ CommandInit
  /\ IF subject = "pictures" THEN PictureInit ELSE PictureIdle
  /\ ClientInit /\ (subject # "client" => mishaps = {})
  /\ AbilityInit(IF subject = "abilities" THEN SomeCameras ELSE {RestingCamera})
Next ==
  /\ UNCHANGED subject
  /\ \/ subject = "commands" /\ CommandNext /\ UNCHANGED <<pictureVars, clientVars, abilityVars>>
     \/ subject = "pictures" /\ PictureNext /\ UNCHANGED <<commandVars, clientVars, abilityVars>>
     \/ subject = "client" /\ ClientNext /\ UNCHANGED <<commandVars, pictureVars, abilityVars>>
     \/ subject = "abilities" /\ AbilityNext /\ UNCHANGED <<commandVars, pictureVars, clientVars>>
Spec == Init /\ [][Next]_<<subject, commandVars, pictureVars, clientVars, abilityVars>>
=============================================================================
