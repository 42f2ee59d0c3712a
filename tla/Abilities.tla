----------------------------- MODULE Abilities -----------------------------
(***************************************************************************)
(* What a sink announces of a camera, and whether it can keep the promise. *)
(* DCameraHandler reads the capabilities of the camera framework and makes *)
(* the item that the distributed hardware framework carries to the source; *)
(* there the virtual camera offers it to applications, and what they       *)
(* choose comes back as the description of a stream.  On its way it meets  *)
(* limits that are written down separately: of the callback for the HDF    *)
(* driver, of both pipelines, both codecs, the client of the camera and    *)
(* the service of the sink.                                                *)
(*                                                                         *)
(* A resolution and its rates are sequences under a format, as in the      *)
(* item; the hash, the metadata and the names of the item are left out.    *)
(***************************************************************************)
EXTENDS Integers, Sequences

CONSTANTS Profiles,  \* what a camera may offer: its format, width, height and rate
          Modes      \* scene modes

ASSUME ProfilesAssumption ==
  Profiles \subseteq [format : STRING, width : Nat \ {0}, height : Nat \ {0}, rate : Nat]
\* A product of 2^31 or more is out of what TLC counts, and not a picture's size.
ASSUME ProfileSizesAssumption == \A p \in Profiles : p.width <= 2147483647 \div p.height

VARIABLES
  device,    \* a camera of the framework, and the encoders of the device
  item,      \* what Query announces of it, or NoItem
  sinkDevs,  \* the cameras InitSink has made devices for, or "unmade"
  stream,    \* the stream the virtual camera asks for, or NoStream
  served     \* "no", "refused" or "yes"

abilityVars == <<device, item, sinkDevs, stream, served>>

Codecs == {"avc", "hevc"}
NoItem == [announced |-> FALSE]
NoStream == [kind |-> "none"]
Offers == {<<>>} \union {<<p>> : p \in Profiles} \union {<<p, q>> : p, q \in Profiles}

\* A camera may be foreign, hidden by the build, without capabilities of one
\* mode or of all, or in use; each alone.
Faults == {"none", "external", "hidden", "incapable", "mode", "busy"}
Cameras ==
  {c \in [profiles : Offers, modes : SUBSET Modes, codecs : SUBSET Codecs, fault : Faults]
     : c.fault = "mode" => c.modes # {}}

RestingCamera == [profiles |-> <<>>, modes |-> {}, codecs |-> {}, fault |-> "external"]
AbilityInit(cameras) ==
  /\ device \in cameras
  /\ item = NoItem /\ sinkDevs = "unmade" /\ stream = NoStream /\ served = "no"
----------------------------------------------------------------------------
(* The handler of the sink.                                                *)

\* CovertToDcameraFormat and, in the client, ConvertToCameraFormat.
CovertToDcameraFormat ==
  [f \in {"RGBA_8888", "YCBCR_420_888", "YUV_420_SP", "JPEG", "YCBCR_P010", "YCRCB_P010"} |->
     IF f = "YUV_420_SP" THEN "YCRCB_420_SP" ELSE f]
ConvertToCameraFormat ==
  [f \in {"RGBA_8888", "YCBCR_420_888", "YCRCB_420_SP", "JPEG"} |->
     IF f = "YCRCB_420_SP" THEN "YUV_420_SP" ELSE f]

WithinContinuous(p) == p.width \in 320..1920 /\ p.height \in 240..1080
WithinSnapshot(p) ==
  p.width <= 65535 /\ 320 * 240 <= p.width * p.height /\ p.width * p.height <= 4096 * 3072
\* A slip: a video is measured as a photo is.
IsValidByArea(type, p) == WithinSnapshot(p)
IsValid(type, p) == IF type = "continuous" THEN WithinContinuous(p) ELSE WithinSnapshot(p)

\* Those of a list that are in a set, in their order.
Sublist(list, S) ==
  LET kept[i \in 0..Len(list)] ==
        IF i = 0 THEN <<>> ELSE IF list[i] \in S THEN Append(kept[i - 1], list[i]) ELSE kept[i - 1]
  IN  kept[Len(list)]
Members(list) == {list[i] : i \in DOMAIN list}

\* ProcessProfile: a format is announced although none of its sizes may be.
Known(profiles) == Sublist(profiles, {p \in Members(profiles) : p.format \in DOMAIN CovertToDcameraFormat})
Renamed(p) == [format |-> CovertToDcameraFormat[p.format], width |-> p.width, height |-> p.height, rate |-> p.rate]
Named(profiles) == [i \in DOMAIN Known(profiles) |-> Renamed(Known(profiles)[i])]
OfFormat(type, profiles, f) ==
  Sublist(Named(profiles), {p \in Members(Named(profiles)) : p.format = f /\ IsValid(type, p)})
ProcessProfile(type, profiles) ==
  LET formats == {p.format : p \in Members(Named(profiles))}
      Each(f) == OfFormat(type, profiles, f)
  IN [formats |-> formats,
      resolution |-> [f \in formats |-> [i \in DOMAIN Each(f) |-> <<Each(f)[i].width, Each(f)[i].height>>]],
      fps |-> [f \in formats |-> [i \in DOMAIN Each(f) |-> Each(f)[i].rate]]]

ConfigFormatphoto(c) == ProcessProfile("snapshot", c.profiles)
ConfigFormatvideo(c) == ProcessProfile("continuous", c.profiles)
Config(c) == LET preview == ConfigFormatvideo(c)
             IN [photo |-> ConfigFormatphoto(c), preview |-> preview, video |-> preview]

\* Only encoders in hardware are announced.
CreateAVCodecList(c) == Codecs \intersect c.codecs

\* One mode without capabilities, or a camera that cannot be opened for its
\* metadata, leaves nothing of the item.
CreateDHItem(c) ==
  IF c.fault \in {"incapable", "mode", "busy"} THEN NoItem
  ELSE [announced |-> TRUE, codecs |-> CreateAVCodecList(c),
        config |-> [m \in {"root"} \union c.modes |-> Config(c)]]

Query ==
  /\ item = NoItem
  /\ item' = IF device.fault \in {"external", "hidden"} THEN NoItem ELSE CreateDHItem(device)
  /\ UNCHANGED <<device, sinkDevs, stream, served>>

\* GetCameras decides by itself which cameras have a device.
GetCameras ==
  /\ sinkDevs = "unmade"
  /\ sinkDevs' = IF device.fault \in {"external", "incapable"} THEN "none" ELSE "camera"
  /\ UNCHANGED <<device, item, stream, served>>
----------------------------------------------------------------------------
(* The virtual camera: a stream of a kind, with a format and a resolution  *)
(* of the item, the rate at the place of the resolution, and a codec that  *)
(* both ends have.                                                         *)
Ask ==
  /\ item # NoItem /\ sinkDevs # "unmade" /\ stream = NoStream
  /\ \E m \in DOMAIN item.config, kind \in {"photo", "preview", "video"}, codec \in item.codecs :
       LET offer == item.config[m][kind]
       IN \E f \in offer.formats : \E i \in DOMAIN offer.resolution[f] :
            stream' = [kind |-> kind, codec |-> codec, format |-> f, rate |-> offer.fps[f][i],
                       width |-> offer.resolution[f][i][1], height |-> offer.resolution[f][i][2]]
  /\ UNCHANGED <<device, item, sinkDevs, served>>
----------------------------------------------------------------------------
(* The limits the stream meets.                                            *)

\* CheckStreamInfo and CheckCaptureInfo of the callback.
CheckStreamInfo(s) == s.width * s.height <= 10000 * 10000

\* IsInPipelineRange of the pipelines, IsInEncoderRange and IsInDecoderRange.
InSinkRange(s) == s.width \in 320..1920 /\ s.height \in 240..1080
InSourceRange(s) == s.width \in 320..4160 /\ s.height \in 240..3120

\* The rate of the sink's pipeline is asked for; the source always has 30.
IsInPipelineRange(s) == InSinkRange(s) /\ s.rate \in 0..30
IsInEncoderRange(s) == InSinkRange(s) /\ s.rate \in 0..30
IsInDecoderRange(s) == InSourceRange(s)

\* InitEncoderMetadataFormat: the codec, and a buffer for the largest frame.
GetPipelineFormat(format) == IF format = "RGBA_8888" THEN "RGBA_8888" ELSE "NV21"
FrameSize(s) ==
  IF GetPipelineFormat(s.format) = "RGBA_8888" THEN 4 * s.width * s.height ELSE (3 * s.width * s.height) \div 2
MaxInputSize(s) == IF GetPipelineFormat(s.format) = "RGBA_8888" THEN 1920 * 1080 * 4 ELSE (1920 * 1080 * 3) \div 2
InitEncoderMetadataFormat(s) == s.codec \in device.codecs /\ FrameSize(s) <= MaxInputSize(s)

\* The client asks the framework for an output of a profile the camera has.
CreateOutput(s) ==
  /\ s.format \in DOMAIN ConvertToCameraFormat
  /\ \E i \in DOMAIN device.profiles :
       LET p == device.profiles[i]
       IN p.format = ConvertToCameraFormat[s.format] /\ p.width = s.width /\ p.height = s.height

Serves(s) ==
  /\ CheckStreamInfo(s)
  /\ sinkDevs = "camera"
  /\ CreateOutput(s)
  /\ s.kind # "photo" =>
       IsInPipelineRange(s) /\ IsInEncoderRange(s) /\ InitEncoderMetadataFormat(s) /\ InSourceRange(s) /\ IsInDecoderRange(s)

Serve ==
  /\ stream # NoStream /\ served = "no"
  /\ served' = IF Serves(stream) THEN "yes" ELSE "refused"
  /\ UNCHANGED <<device, item, sinkDevs, stream>>

AbilityNext == Query \/ GetCameras \/ Ask \/ Serve
AbilitySpec == AbilityInit(Cameras) /\ [][AbilityNext]_abilityVars
----------------------------------------------------------------------------
(* The bitrate of the encoder for a size.                                  *)

\* ENCODER_BITRATE_TABLE, in the order of the map.
ENCODER_BITRATE_TABLE ==
  <<[size |-> 320 * 240, bitrate |-> 500000], [size |-> 480 * 360, bitrate |-> 1110000],
    [size |-> 640 * 360, bitrate |-> 1500000], [size |-> 640 * 480, bitrate |-> 1800000],
    [size |-> 720 * 540, bitrate |-> 2100000], [size |-> 960 * 540, bitrate |-> 2300000],
    [size |-> 960 * 720, bitrate |-> 2800000], [size |-> 1280 * 720, bitrate |-> 3400000],
    [size |-> 1440 * 1080, bitrate |-> 5000000], [size |-> 1920 * 1080, bitrate |-> 6000000]>>
Distance(a, b) == IF a < b THEN b - a ELSE a - b

\* An equal distance goes to the later entry.
Largest(size) == [distance |-> 1920 * 1080 - size, bitrate |-> 6000000]
Better(size, best, i) ==
  LET entry == ENCODER_BITRATE_TABLE[i]
  IN IF Distance(size, entry.size) <= best.distance
     THEN [distance |-> Distance(size, entry.size), bitrate |-> entry.bitrate] ELSE best
MatchedBitrate(size) ==
  LET best[i \in 0..Len(ENCODER_BITRATE_TABLE)] ==
        IF i = 0 THEN Largest(size) ELSE Better(size, best[i - 1], i)
  IN  best[Len(ENCODER_BITRATE_TABLE)].bitrate
----------------------------------------------------------------------------
(* Properties.                                                             *)

\* What the sink announces is served: a stream the virtual camera makes of an
\* item passes every limit on its way, in sizes, formats, codecs and devices.
\* It is refused only with one of the two 10-bit formats, which the client has no
\* name for, or, if it is encoded, with a rate above 30, which nobody leaves out
\* of the item.
AnnouncedIsServed ==
  served = "refused" =>
    \/ stream.format \in {"YCBCR_P010", "YCRCB_P010"}
    \/ stream.kind # "photo" /\ stream.rate > 30

\* The rate of a resolution is one the camera has for it, and the bitrate of an
\* encoded stream is that of a size of the table none is nearer to.
RatesFit ==
  served = "yes" =>
    /\ \E i \in DOMAIN device.profiles :
         LET p == device.profiles[i] IN <<p.width, p.height, p.rate>> = <<stream.width, stream.height, stream.rate>>
    /\ stream.kind # "photo" =>
         LET size == stream.width * stream.height
             nearest == CHOOSE e \in Members(ENCODER_BITRATE_TABLE) :
                          \A d \in Members(ENCODER_BITRATE_TABLE) :
                            Distance(size, e.size) < Distance(size, d.size)
                            \/ (Distance(size, e.size) = Distance(size, d.size) /\ e.size >= d.size)
         IN MatchedBitrate(size) = nearest.bitrate

\* Together: the sink keeps what it has promised of its cameras.
PromiseIsKept == AnnouncedIsServed /\ RatesFit
=============================================================================
