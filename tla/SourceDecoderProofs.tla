------------------------ MODULE SourceDecoderProofs ------------------------
(***************************************************************************)
(* What SourceDecoder promises, proved for every bound of its queues and   *)
(* any number of frames: a picture leaves with the info of its own frame,  *)
(* and the node does not crash before it is destroyed.                     *)
(***************************************************************************)
EXTENDS SourceDecoder, TLAPS

Positive == Nat \ {0}
Info(n) == [n |-> n, head |-> IsHead(n)]
Infos == {Info(n) : n \in Positive}
Pictures == [n : Nat, info : Nat]
Astray == "astray" \in causes
Queueing == at \in {"queue", "queueAgain"}
Popping == at \in {"pop", "popAgain"}

(* What a Tail and an Append do to a sequence, by index.                   *)
LEMMA TailFacts ==
  ASSUME NEW S, NEW s \in Seq(S), s # <<>>
  PROVE  /\ Tail(s) \in Seq(S) /\ Len(s) \in Nat /\ Len(s) >= 1 /\ Len(Tail(s)) = Len(s) - 1
         /\ DOMAIN s = 1 .. Len(s) /\ DOMAIN Tail(s) = 1 .. Len(s) - 1
         /\ Head(s) = s[1] /\ Head(s) \in S /\ \A i \in 1 .. Len(s) - 1 : Tail(s)[i] = s[i + 1]
  OBVIOUS

LEMMA AppendFacts ==
  ASSUME NEW S, NEW s \in Seq(S), NEW x \in S
  PROVE  /\ Append(s, x) \in Seq(S) /\ Len(s) \in Nat /\ Len(Append(s, x)) = Len(s) + 1
         /\ DOMAIN s = 1 .. Len(s) /\ DOMAIN Append(s, x) = 1 .. Len(s) + 1
         /\ Append(s, x) # <<>> /\ (s # <<>> => Append(s, x)[1] = s[1]) /\ (s = <<>> => Append(s, x)[1] = x)
         /\ Append(s, x)[Len(s) + 1] = x /\ \A i \in 1 .. Len(s) : Append(s, x)[i] = s[i]
  OBVIOUS

(* n of the elements of s are in X: c counts them from each place on.      *)
Counts(c, s, X) ==
  /\ c \in [1 .. Len(s) + 1 -> Nat] /\ c[Len(s) + 1] = 0
  /\ \A i \in 1 .. Len(s) : c[i] = c[i + 1] + (IF s[i] \in X THEN 1 ELSE 0)
Number(s, X, n) == \E c : Counts(c, s, X) /\ c[1] = n

(* How many there are in no sequence, in a tail and with one more.         *)
LEMMA NumberOfNone == \A X, n : Number(<<>>, X, n) <=> n = 0
<1> TAKE X, n
<1>1. ASSUME n = 0 PROVE Number(<<>>, X, n)
  <2> DEFINE c == [i \in 1 .. 1 |-> 0]
  <2>1. Counts(c, <<>>, X) /\ c[1] = n
    BY <1>1 DEF Counts
  <2> QED BY <2>1 DEF Number
<1>2. ASSUME Number(<<>>, X, n) PROVE n = 0
  BY <1>2 DEF Number, Counts
<1> QED BY <1>1, <1>2

LEMMA NumberOfTail ==
  ASSUME NEW S, NEW s \in Seq(S), s # <<>>, NEW X, NEW n, Number(s, X, n)
  PROVE  \E m \in Nat : Number(Tail(s), X, m) /\ n = m + (IF s[1] \in X THEN 1 ELSE 0)
<1>1. PICK c : Counts(c, s, X) /\ c[1] = n
  BY DEF Number
<1> DEFINE r == Tail(s)
           d == [i \in 1 .. Len(s) |-> c[i + 1]]
<1>2. /\ Len(s) \in Nat /\ Len(s) >= 1 /\ Len(r) = Len(s) - 1
      /\ \A i \in 1 .. Len(s) - 1 : r[i] = s[i + 1]
  BY TailFacts
<1> HIDE DEF r
<1>3. \A i \in 1 .. Len(s) : i + 1 \in 1 .. Len(s) + 1 /\ c[i + 1] \in Nat /\ d[i] = c[i + 1]
  <2>1. \A i \in 1 .. Len(s) : i + 1 \in 1 .. Len(s) + 1
    BY <1>2
  <2>2. \A i \in 1 .. Len(s) + 1 : c[i] \in Nat
    BY <1>1 DEF Counts
  <2> QED BY <2>1, <2>2
<1>4. Counts(d, r, X)
  <2>1. Len(r) + 1 = Len(s)
    BY <1>2
  <2>2. d \in [1 .. Len(r) + 1 -> Nat] /\ d[Len(r) + 1] = 0
    BY <1>1, <1>2, <1>3, <2>1 DEF Counts
  <2>3. ASSUME NEW i \in 1 .. Len(r) PROVE d[i] = d[i + 1] + (IF r[i] \in X THEN 1 ELSE 0)
    <3>1. i \in 1 .. Len(s) /\ i + 1 \in 1 .. Len(s) /\ r[i] = s[i + 1]
      BY <1>2
    <3>2. c[i + 1] = c[i + 1 + 1] + (IF s[i + 1] \in X THEN 1 ELSE 0)
      BY <1>1, <3>1 DEF Counts
    <3> QED BY <1>3, <3>1, <3>2
  <2> QED BY <2>2, <2>3 DEF Counts
<1>5. d[1] = c[2] /\ c[2] \in Nat /\ n = c[2] + (IF s[1] \in X THEN 1 ELSE 0)
  BY <1>1, <1>2, <1>3 DEF Counts
<1> QED BY <1>4, <1>5 DEF Number, r

LEMMA NumberOfAppend ==
  ASSUME NEW S, NEW s \in Seq(S), NEW x \in S, NEW X, NEW n, Number(s, X, n)
  PROVE  Number(Append(s, x), X, n + (IF x \in X THEN 1 ELSE 0))
<1>1. PICK c : Counts(c, s, X) /\ c[1] = n
  BY DEF Number
<1> DEFINE a == Append(s, x)
           e == IF x \in X THEN 1 ELSE 0
           d == [i \in 1 .. Len(s) + 2 |-> IF i = Len(s) + 2 THEN 0 ELSE c[i] + e]
<1>2. /\ Len(s) \in Nat /\ Len(a) = Len(s) + 1 /\ a[Len(s) + 1] = x
      /\ \A i \in 1 .. Len(s) : a[i] = s[i]
  BY AppendFacts
<1>e. e \in Nat
  OBVIOUS
<1> HIDE DEF a
<1>3. \A i \in 1 .. Len(s) + 1 : c[i] \in Nat
  BY <1>1 DEF Counts
<1>4. Counts(d, a, X)
  <2>1. d \in [1 .. Len(a) + 1 -> Nat] /\ d[Len(a) + 1] = 0
    BY <1>2, <1>3
  <2>2. ASSUME NEW i \in 1 .. Len(a) PROVE d[i] = d[i + 1] + (IF a[i] \in X THEN 1 ELSE 0)
    <3>1. CASE i = Len(s) + 1
      <4>1. d[i] = c[Len(s) + 1] + e /\ d[i + 1] = 0 /\ a[i] = x /\ c[Len(s) + 1] = 0
        BY <3>1, <1>1, <1>2 DEF Counts
      <4> QED BY <4>1, <1>e
    <3>2. CASE i # Len(s) + 1
      <4>1. i \in 1 .. Len(s) /\ i + 1 \in 1 .. Len(s) + 1
        BY <3>2, <1>2
      <4>2. d[i] = c[i] + e /\ d[i + 1] = c[i + 1] + e /\ a[i] = s[i]
        BY <4>1, <1>2
      <4>3. c[i] = c[i + 1] + (IF s[i] \in X THEN 1 ELSE 0) /\ c[i] \in Nat /\ c[i + 1] \in Nat
        BY <1>1, <1>3, <4>1 DEF Counts
      <4> HIDE DEF e
      <4> QED BY <4>2, <4>3, <1>e
    <3> QED BY <3>1, <3>2
  <2> QED BY <2>1, <2>2 DEF Counts
<1>5. d[1] = n + e
  BY <1>1, <1>2
<1> QED BY <1>4, <1>5 DEF Number, a

----------------------------------------------------------------------------
(* Types, and what is so in each stage of creating and destroying the      *)
(* pipeline: nothing before it is made, no decoder after its release, and  *)
(* the frame P has in its hands is the oldest of its queue.                *)
FlagsInv == coded \in BOOLEAN /\ decoding \in BOOLEAN /\ process \in BOOLEAN /\ crashed \in BOOLEAN
ShapeInv ==
  /\ control \in {"none", "decoder", "flagged", "running", "halting", "undecoded", "joinE", "unthreaded",
                  "headless", "joinP", "done"}
  /\ decoder \in {"null", "started", "stopped"} /\ error \in {"none", "begun", "tested", "done"}
  /\ at \in {"idle", "feed", "feedAgain", "queue", "queueAgain", "pop", "popAgain"}
  /\ output \in {"none", "aligned", "rendered"} /\ eAt \in {"off", "idle", "post"}
  /\ fed \in Nat /\ held \in Nat /\ free \in Nat /\ picture \in Pictures
QueuesInv ==
  /\ tasks \in Seq(Nat) /\ inputs \in Seq(Positive) /\ infos \in Seq(Infos)
  /\ codec \in [free : Nat, queued : Seq(Positive)]
  /\ surface \in Seq(Positive) /\ events \in Seq(Pictures)
Early == control \in {"none", "decoder"}
Emptied == control \in {"headless", "joinP", "done"}
Blank ==
  /\ inputs = <<>> /\ infos = <<>> /\ codec.queued = <<>> /\ surface = <<>> /\ output = "none"
  /\ at = "idle"
StageInv ==
  /\ Early => Blank /\ tasks = <<>> /\ events = <<>> /\ eAt # "post"
  /\ control = "none" => decoder = "null" /\ error = "none" /\ eAt = "off" /\ ~coded
  /\ control = "decoder" => decoder # "null"
  /\ control \in {"flagged", "running"} /\ coded => decoder # "null"
  /\ control \in {"undecoded", "joinE"} \/ Released => decoder = "null"
  /\ Released => eAt = "off" /\ events = <<>> /\ surface = <<>>
  /\ decoding => control \in {"flagged", "running"}
  /\ decoder # "null" => coded /\ eAt # "off"
  /\ error # "none" => coded
OwnInv ==
  /\ inputs # <<>> \/ Queueing \/ Popping => coded
  /\ output # "none" => codec.queued # <<>> /\ ~IsHead(codec.queued[1])
  /\ Queueing \/ Popping => /\ held \in Positive
                            /\ ~Emptied => inputs # <<>> /\ held = inputs[1] /\ free > 0
  /\ eAt = "post" => picture.n # 0
(* E has a task for each picture in the surface, but for one that is just  *)
(* rendered.                                                               *)
Shown == IF output = "rendered" THEN 1 ELSE 0
CountInv == eAt # "off" => \E n \in Nat : Number(events, {Get}, n) /\ Len(surface) = n + Shown
TypeInv == FlagsInv /\ ShapeInv /\ QueuesInv /\ StageInv /\ OwnInv /\ CountInv

(* The pipeline has not been made.                                         *)
LEMMA InitTypes == Init => TypeInv
<1> SUFFICES ASSUME Init PROVE TypeInv
  OBVIOUS
<1> USE DEF Init
<1>0. FlagsInv
  BY DEF FlagsInv
<1>1. ShapeInv
  <2>1. picture \in Pictures /\ fed \in Nat
    BY DEF Pictures, Get
  <2> QED BY <2>1 DEF ShapeInv
<1>2. QueuesInv
  BY DEF QueuesInv, NoCodec
<1>3. StageInv /\ OwnInv /\ CountInv
  BY DEF StageInv, OwnInv, CountInv, Early, Blank, Released, Queueing, Popping, NoCodec
<1> QED BY <1>0, <1>1, <1>2, <1>3 DEF TypeInv

(* A task that asks for a picture finds one in the surface.                *)
LEMMA PictureWaits ==
  ASSUME QueuesInv, CountInv, eAt # "off", events # <<>>, Head(events) = Get
  PROVE  surface # <<>> /\ Len(surface) >= 1 + Shown
<1>1. PICK n \in Nat : Number(events, {Get}, n) /\ Len(surface) = n + Shown
  BY DEF CountInv
<1>2. events \in Seq(Pictures) /\ surface \in Seq(Positive)
  BY DEF QueuesInv
<1>3. PICK m \in Nat : n = m + (IF events[1] \in {Get} THEN 1 ELSE 0)
  BY <1>1, <1>2, NumberOfTail
<1>4. events[1] = Get
  BY <1>2, TailFacts
<1>5. Len(surface) >= 1 + Shown
  BY <1>1, <1>3, <1>4 DEF Shown
<1> QED BY <1>2, <1>5 DEF Shown

(* Each step keeps the flags.                                              *)
LEMMA FlagsStep == TypeInv /\ [Next]_vars => FlagsInv'
<1> SUFFICES ASSUME TypeInv, [Next]_vars PROVE FlagsInv'
  OBVIOUS
<1>s. FlagsInv
  BY DEF TypeInv
<1>1. CASE CreatePipeline
  BY <1>1, <1>s, Zenon DEF CreatePipeline, InitDecoder, InitNode, CreateDataProcessPipeline, CreationFails, FlagsInv
<1>2. CASE Destroys(DestroyPipeline /\ UNCHANGED tasks) \/ Destroys(Destroying)
  BY <1>2, <1>s, Zenon DEF Destroys, DestroyPipeline, Destroying, ReleaseVideoDecoder, ReleaseCodecEvent, ReleaseProcessNode,
     JoinsPipeline, FlagsInv
<1>3. CASE FeedStreamToContinue
  BY <1>3, <1>s, Zenon DEF FeedStreamToContinue, FlagsInv, nodeVars
<1>4. CASE PassesThrough \/ ProcessData \/ FeedsAgain
  <2>1. UNCHANGED <<coded, decoding, process>> /\ crashed' \in {crashed, Headless}
    BY <1>4, Zenon DEF PassesThrough, ProcessData, FeedsAgain, TakesTask, nodeVars
  <2>2. Headless \in BOOLEAN
    BY DEF Headless
  <2> QED BY <1>s, <2>1, <2>2, Zenon DEF FlagsInv
<1>5. ASSUME NEW again \in BOOLEAN, Feeds(again) \/ QueueInputBuffer(again) \/ PopsInput(again) PROVE FlagsInv'
  BY <1>5, <1>s, Zenon DEF Feeds, QueueInputBuffer, PopsInput, FlagsInv, nodeVars
<1>6. CASE CodecRuns
  BY <1>6, <1>s, Zenon DEF CodecRuns, FlagsInv, nodeVars
<1>7. CASE EventRuns
  BY <1>7, <1>s, Zenon DEF EventRuns, GetDecoderOutputBuffer, CopyDecodedImage, PostOutputDataBuffers, DecodeDone, FlagsInv,
     nodeVars
<1>8. CASE OnError
  BY <1>8, <1>s, Zenon DEF OnError, OnErrorBegins, OnErrorTests, StopsDecoder, FlagsInv
<1>9. CASE UNCHANGED vars
  BY <1>9, <1>s, Zenon DEF vars, nodeVars, FlagsInv
<1> QED BY <1>1, <1>2, <1>3, <1>4, <1>5, <1>6, <1>7, <1>8, <1>9 DEF Next, PipelineRuns

(* Each step keeps the types, and leaves each queue with frames, infos and *)
(* pictures.                                                               *)
LEMMA ShapeStep == TypeInv /\ [Next]_vars => ShapeInv' /\ QueuesInv'
<1> SUFFICES ASSUME TypeInv, [Next]_vars PROVE ShapeInv' /\ QueuesInv'
  OBVIOUS
<1> USE SizesAssumption
<1>s. ShapeInv /\ QueuesInv /\ StageInv /\ OwnInv /\ CountInv
  BY DEF TypeInv
<1>c. codec = [free |-> codec.free, queued |-> codec.queued] /\ codec.free \in Nat /\ codec.queued \in Seq(Positive)
  BY <1>s DEF QueuesInv
<1>q. /\ codec.queued # <<>> => /\ Tail(codec.queued) \in Seq(Positive) /\ Head(codec.queued) \in Positive
                                /\ <<Head(codec.queued)>> \in Seq(Positive)
      /\ tasks # <<>> => Tail(tasks) \in Seq(Nat) /\ Head(tasks) \in Nat
      /\ inputs # <<>> => Tail(inputs) \in Seq(Positive) /\ Head(inputs) \in Positive
      /\ infos # <<>> => Tail(infos) \in Seq(Infos) /\ Head(infos) \in Infos
      /\ events # <<>> => Tail(events) \in Seq(Pictures)
  <2>1. codec.queued # <<>> => Tail(codec.queued) \in Seq(Positive) /\ Head(codec.queued) \in Positive
    BY <1>c, TailFacts
  <2> QED BY <1>s, <2>1, TailFacts DEF QueuesInv
<1>p. Positive \subseteq Nat /\ <<>> \in Seq(Positive) /\ <<>> \in Seq(Infos) /\ <<>> \in Seq(Pictures) /\ <<>> \in Seq(Nat)
  BY DEF Positive
<1>g. Get \in Pictures /\ Again \in Nat
  BY DEF Get, Pictures, Again
<1>k. Consumed = [free |-> codec.free + 1, queued |-> Tail(codec.queued)]
  BY DEF Consumed
<1>1. CASE CreatePipeline
  <2>1. codec' \in [free : Nat, queued : Seq(Positive)]
    <3>1. codec' = codec \/ codec' = [free |-> Indexes, queued |-> <<>>]
      BY <1>1, Zenon DEF CreatePipeline, InitDecoder, InitNode, CreateDataProcessPipeline, CreationFails
    <3>2. Indexes \in Nat
      OBVIOUS
    <3>3. [free |-> Indexes, queued |-> <<>>] \in [free : Nat, queued : Seq(Positive)]
      BY <1>p, <3>2
    <3> QED BY <1>s, <3>1, <3>3 DEF QueuesInv
  <2>2. UNCHANGED <<fed, tasks, at, held, inputs, free, infos, output, surface, events, picture, error>>
    BY <1>1 DEF CreatePipeline, pVars
  <2>3. ShapeInv'
    <3>1. /\ control' \in {"decoder", "flagged", "running", "halting", "done"} /\ decoder' \in {decoder, "started"}
          /\ eAt' \in {eAt, "idle"}
      BY <1>1 DEF CreatePipeline, InitDecoder, InitNode, CreateDataProcessPipeline, CreationFails
    <3> QED BY <1>s, <2>2, <3>1 DEF ShapeInv
  <2> QED BY <1>s, <2>1, <2>2, <2>3 DEF QueuesInv
<1>2. CASE Destroys(DestroyPipeline /\ UNCHANGED tasks) \/ Destroys(Destroying)
  <2>1. codec' \in [free : Nat, queued : Seq(Positive)]
    <3>1. CASE Destroys(Destroying) /\ ReleaseVideoDecoder
      <4>1. output # "none" => codec.queued # <<>>
        BY <1>s DEF OwnInv
      <4> QED BY <1>p, <1>q, <3>1, <4>1 DEF ReleaseVideoDecoder, NoCodec
    <3> QED
      BY <1>2, <1>s, <3>1 DEF Destroys, DestroyPipeline, Destroying, ReleaseCodecEvent, ReleaseProcessNode, JoinsPipeline,
         QueuesInv
  <2>2. /\ inputs' = inputs \/ inputs' = <<>>
        /\ infos' = infos \/ infos' = <<>>
        /\ surface' = surface \/ surface' = <<>>
        /\ events' = events \/ events' = <<>>
        /\ tasks' = tasks \/ tasks' = <<>>
        /\ free' = free \/ free' = 0
    BY <1>2 DEF Destroys, DestroyPipeline, Destroying, ReleaseVideoDecoder, ReleaseCodecEvent, ReleaseProcessNode,
       JoinsPipeline
  <2>3. /\ UNCHANGED <<fed, at, held, output, picture, error>> /\ decoder' \in {decoder, "null"}
        /\ eAt' \in {eAt, "off"}
        /\ control' \in {"halting", "undecoded", "joinE", "unthreaded", "headless", "joinP", "done"}
    BY <1>2 DEF Destroys, DestroyPipeline, Destroying, ReleaseVideoDecoder, ReleaseCodecEvent, ReleaseProcessNode,
       JoinsPipeline
  <2>4. free' \in Nat /\ fed' \in Nat /\ held' \in Nat /\ picture' \in Pictures
    BY <1>s, <2>2, <2>3 DEF ShapeInv
  <2>5. ShapeInv'
    BY <1>s, <2>3, <2>4 DEF ShapeInv
  <2> QED BY <1>s, <1>p, <2>1, <2>2, <2>5 DEF QueuesInv
<1>3. CASE FeedStreamToContinue
  <2>1. fed' \in Nat /\ tasks' \in Seq(Nat)
    BY <1>3, <1>s, AppendFacts DEF FeedStreamToContinue, ShapeInv, QueuesInv
  <2> QED BY <1>3, <1>s, <2>1 DEF FeedStreamToContinue, ShapeInv, QueuesInv, nodeVars, codecVars, eVars
<1>4. CASE PassesThrough \/ ProcessData \/ FeedsAgain
  <2>1. tasks' \in Seq(Nat) /\ tasks # <<>>
    BY <1>4, <1>q DEF PassesThrough, ProcessData, FeedsAgain, TakesTask
  <2>2. inputs' \in Seq(Positive)
    <3>1. CASE inputs' = inputs
      BY <1>s, <3>1 DEF QueuesInv
    <3>2. CASE inputs' = Append(inputs, Head(tasks)) /\ Head(tasks) # Again
      <4>1. Head(tasks) \in Positive
        BY <1>q, <2>1, <3>2 DEF Again, Positive
      <4> QED BY <1>s, <3>2, <4>1, AppendFacts DEF QueuesInv
    <3> QED BY <1>4, <3>1, <3>2 DEF PassesThrough, ProcessData, FeedsAgain
  <2>3. /\ UNCHANGED <<decoder, control, fed, infos, codec, output, surface, events, eAt, picture, error, held, free>>
        /\ at' \in {at, "feed", "feedAgain"}
    BY <1>4 DEF PassesThrough, ProcessData, FeedsAgain, TakesTask, codecVars, nodeVars
  <2>4. ShapeInv'
    BY <1>s, <2>3 DEF ShapeInv
  <2> QED BY <1>s, <2>1, <2>2, <2>3, <2>4 DEF QueuesInv
<1>5. ASSUME NEW again \in BOOLEAN, Feeds(again) PROVE ShapeInv' /\ QueuesInv'
  <2>1. UNCHANGED <<decoder, control, fed, inputs, free, codec, output, surface, events, eAt, picture, error>>
    BY <1>5 DEF Feeds, codecVars, eVars, nodeVars
  <2>2. /\ tasks' = tasks \/ tasks' = Append(tasks, Again)
        /\ infos' = infos \/ (inputs # <<>> /\ infos' = Append(infos, Info(Head(inputs))))
        /\ held' \in {held, 0} \/ (inputs # <<>> /\ held' = Head(inputs))
        /\ at' \in {"idle", "queue", "queueAgain"}
    BY <1>5 DEF Feeds, FeedDecoderInputBuffer, Failed, Info
  <2>3. tasks' \in Seq(Nat)
    <3>1. Append(tasks, Again) \in Seq(Nat)
      BY <1>s, <1>g, AppendFacts DEF QueuesInv
    <3> QED BY <1>s, <2>2, <3>1 DEF QueuesInv
  <2>4. infos' \in Seq(Infos)
    <3>1. inputs # <<>> => Info(Head(inputs)) \in Infos
      <4>1. inputs # <<>> => Head(inputs) \in Positive
        BY <1>q
      <4> QED BY <4>1 DEF Infos
    <3>2. inputs # <<>> => Append(infos, Info(Head(inputs))) \in Seq(Infos)
      BY <1>s, <3>1, AppendFacts DEF QueuesInv
    <3> QED BY <1>s, <2>2, <3>2 DEF QueuesInv
  <2>5. held' \in Nat
    <3>1. inputs # <<>> => Head(inputs) \in Nat
      BY <1>p, <1>q
    <3> QED BY <1>s, <2>2, <3>1 DEF ShapeInv
  <2>6. ShapeInv'
    BY <1>s, <2>1, <2>2, <2>5 DEF ShapeInv
  <2> QED BY <1>s, <2>1, <2>3, <2>4, <2>6 DEF QueuesInv
<1>6. ASSUME NEW again \in BOOLEAN, QueueInputBuffer(again) PROVE ShapeInv' /\ QueuesInv'
  <2>1. UNCHANGED <<decoder, control, fed, inputs, free, infos, output, surface, events, eAt, picture, error>>
    BY <1>6 DEF QueueInputBuffer, eVars, nodeVars
  <2>2. /\ tasks' = tasks \/ tasks' = Append(tasks, Again)
        /\ codec' = codec \/ codec' = [codec EXCEPT !.queued = Append(codec.queued, held)]
        /\ held' \in {held, 0} /\ at' \in {"idle", "pop", "popAgain"}
    BY <1>6 DEF QueueInputBuffer, Failed
  <2>3. tasks' \in Seq(Nat)
    <3>1. Append(tasks, Again) \in Seq(Nat)
      BY <1>s, <1>g, AppendFacts DEF QueuesInv
    <3> QED BY <1>s, <2>2, <3>1 DEF QueuesInv
  <2>4. codec' \in [free : Nat, queued : Seq(Positive)]
    <3>1. held \in Positive
      BY <1>6, <1>s DEF QueueInputBuffer, OwnInv, Queueing
    <3>2. Append(codec.queued, held) \in Seq(Positive)
      BY <1>c, <3>1, AppendFacts
    <3> QED BY <1>s, <2>2, <3>2 DEF QueuesInv
  <2>6. ShapeInv'
    BY <1>s, <2>1, <2>2 DEF ShapeInv
  <2> QED BY <1>s, <2>1, <2>3, <2>4, <2>6 DEF QueuesInv
<1>7. ASSUME NEW again \in BOOLEAN, PopsInput(again) PROVE ShapeInv' /\ QueuesInv'
  <2>1. UNCHANGED <<decoder, control, fed, tasks, infos, codec, output, surface, events, eAt, picture, error>>
    BY <1>7 DEF PopsInput, codecVars, eVars, nodeVars
  <2>2. /\ inputs' = inputs \/ (inputs # <<>> /\ inputs' = Tail(inputs))
        /\ free' = free \/ (free # 0 /\ free' = free - 1)
        /\ held' = 0 /\ at' \in {"feed", "feedAgain"}
    BY <1>7 DEF PopsInput
  <2>3. free' \in Nat
    BY <1>s, <2>2 DEF ShapeInv
  <2>4. inputs' \in Seq(Positive)
    <3>1. inputs # <<>> => Tail(inputs) \in Seq(Positive)
      BY <1>q
    <3> QED BY <1>s, <2>2, <3>1 DEF QueuesInv
  <2>6. ShapeInv'
    BY <1>s, <2>1, <2>2, <2>3 DEF ShapeInv
  <2> QED BY <1>s, <2>1, <2>4, <2>6 DEF QueuesInv
<1>8. CASE CodecRuns
  <2>1. UNCHANGED <<decoder, control, fed, tasks, at, held, inputs, eAt, picture, error>>
    BY <1>8 DEF CodecRuns, nodeVars
  <2>2. /\ \/ codec' = codec \/ (codec.free > 0 /\ codec' = [codec EXCEPT !.free = codec.free - 1])
           \/ codec' = Consumed /\ codec.queued # <<>>
        /\ infos' = infos \/ (infos # <<>> /\ infos' = Tail(infos))
        /\ surface' = surface \/ (codec.queued # <<>> /\ surface' = Append(surface, Head(codec.queued)))
        /\ events' = events \/ events' = Append(events, Get)
        /\ free' \in {free, free + 1} /\ output' \in {"none", "aligned", "rendered"}
    <3>1. output # "none" => codec.queued # <<>>
      BY <1>s DEF OwnInv
    <3>2. Len(infos) >= 2 => infos # <<>>
      BY <1>s DEF QueuesInv
    <3>3. CASE OnInputBufferAvailable
      BY <1>s, <3>3 DEF OnInputBufferAvailable, ShapeInv
    <3>4. CASE TakesHead \/ OnOutputBufferAvailable
      BY <1>s, <3>2, <3>4 DEF TakesHead, OnOutputBufferAvailable, AlignFirstFrameTime, ShapeInv
    <3>5. CASE ReleaseOutputBuffer \/ OnSurfaceOutputBufferAvailable
      BY <1>s, <3>1, <3>5 DEF ReleaseOutputBuffer, OnSurfaceOutputBufferAvailable, ShapeInv
    <3> QED BY <1>8, <3>3, <3>4, <3>5 DEF CodecRuns
  <2>3. codec' \in [free : Nat, queued : Seq(Positive)]
    <3>1. CASE codec' = Consumed /\ codec.queued # <<>>
      BY <1>c, <1>k, <1>q, <3>1
    <3>2. CASE codec.free > 0 /\ codec' = [codec EXCEPT !.free = codec.free - 1]
      <4>1. codec' = [free |-> codec.free - 1, queued |-> codec.queued]
        BY <1>s, <3>2 DEF QueuesInv
      <4>2. codec.free - 1 \in Nat
        BY <1>c, <3>2
      <4> QED BY <1>c, <4>1, <4>2
    <3>3. CASE codec' = codec
      BY <1>s, <3>3 DEF QueuesInv
    <3> QED BY <2>2, <3>1, <3>2, <3>3
  <2>4. infos' \in Seq(Infos) /\ surface' \in Seq(Positive) /\ events' \in Seq(Pictures)
    <3>1. infos # <<>> => Tail(infos) \in Seq(Infos)
      BY <1>q
    <3>2. codec.queued # <<>> => Append(surface, Head(codec.queued)) \in Seq(Positive)
      BY <1>s, <1>q, AppendFacts DEF QueuesInv
    <3>3. Append(events, Get) \in Seq(Pictures)
      BY <1>s, <1>g, AppendFacts DEF QueuesInv
    <3> QED BY <1>s, <2>2, <3>1, <3>2, <3>3 DEF QueuesInv
  <2>5. ShapeInv'
    BY <1>s, <2>1, <2>2 DEF ShapeInv
  <2> QED BY <1>s, <2>1, <2>3, <2>4, <2>5 DEF QueuesInv
<1>9. CASE EventRuns
  <2>1. UNCHANGED <<decoder, control, fed, tasks, at, held, inputs, free, codec, output, error>>
    BY <1>9 DEF EventRuns, pVars, nodeVars
  <2>2. CASE GetDecoderOutputBuffer
    <3>1. surface # <<>>
      BY <2>2, <1>s, PictureWaits DEF GetDecoderOutputBuffer, TakesEvent
    <3>2. Tail(surface) \in Seq(Positive) /\ Head(surface) \in Positive
      BY <1>s, <3>1, TailFacts DEF QueuesInv
    <3>3. surface' \in Seq(Positive) /\ events' \in Seq(Pictures)
      BY <2>2, <1>q, <3>2 DEF GetDecoderOutputBuffer, TakesEvent, CopyDecodedImage
    <3>4. /\ infos' = infos \/ (infos # <<>> /\ infos' = Tail(infos))
          /\ \/ picture' = picture
             \/ infos # <<>> /\ picture' = [n |-> Head(surface), info |-> Head(infos).n]
          /\ eAt' \in {"idle", "post"}
      BY <2>2 DEF GetDecoderOutputBuffer, TakesEvent, CopyDecodedImage
    <3>5. infos # <<>> => Head(infos).n \in Nat
      BY <1>q DEF Infos, Info, Positive
    <3>6. picture' \in Pictures
      <4>1. Head(surface) \in Nat
        BY <1>p, <3>2
      <4>2. infos # <<>> => [n |-> Head(surface), info |-> Head(infos).n] \in Pictures
        BY <3>5, <4>1 DEF Pictures
      <4> QED BY <1>s, <3>4, <4>2 DEF ShapeInv
    <3>7. ShapeInv'
      BY <1>s, <2>1, <3>4, <3>6 DEF ShapeInv
    <3>8. infos' \in Seq(Infos)
      <4>1. infos # <<>> => Tail(infos) \in Seq(Infos)
        BY <1>q
      <4> QED BY <1>s, <3>4, <4>1 DEF QueuesInv
    <3> QED BY <1>s, <2>1, <3>3, <3>7, <3>8 DEF QueuesInv
  <2>3. CASE PostOutputDataBuffers
    BY <2>1, <2>3, <1>s, <1>g, AppendFacts DEF PostOutputDataBuffers, QueuesInv, ShapeInv, nodeVars
  <2>4. CASE DecodeDone
    BY <2>1, <2>4, <1>s, <1>q DEF DecodeDone, TakesEvent, QueuesInv, ShapeInv, nodeVars
  <2> QED BY <1>9, <2>2, <2>3, <2>4 DEF EventRuns
<1>10. CASE OnError
  <2>1. UNCHANGED <<control, fed, pVars, infos, codecVars, eVars>>
    BY <1>10 DEF OnError
  <2>2. decoder' \in {decoder, "stopped"} /\ error' \in {"begun", "tested", "done"}
    BY <1>10 DEF OnError, OnErrorBegins, OnErrorTests, StopsDecoder
  <2> QED BY <1>s, <2>1, <2>2 DEF ShapeInv, QueuesInv, pVars, codecVars, eVars
<1>11. CASE UNCHANGED vars
  BY <1>11, <1>s DEF vars, nodeVars, pVars, codecVars, eVars, ShapeInv, QueuesInv
<1> QED BY <1>1, <1>2, <1>3, <1>4, <1>5, <1>6, <1>7, <1>8, <1>9, <1>10, <1>11 DEF Next, PipelineRuns

(* Each step keeps what is so in each stage.                               *)
LEMMA StageStep == TypeInv /\ [Next]_vars => StageInv'
<1> SUFFICES ASSUME TypeInv, [Next]_vars PROVE StageInv'
  OBVIOUS
<1>s. ShapeInv /\ QueuesInv /\ StageInv /\ OwnInv
  BY DEF TypeInv
<1> USE DEF StageInv, Early, Released, Blank
<1>1. CASE CreatePipeline
  <2>1. UNCHANGED <<tasks, at, inputs, infos, output, surface, events, error>>
    BY <1>1 DEF CreatePipeline, pVars
  <2>2. CASE InitDecoder
    <3>1. codec'.queued = <<>>
      BY <2>2 DEF InitDecoder
    <3> QED BY <1>s, <2>1, <2>2, <3>1 DEF InitDecoder
  <2>3. CASE InitNode \/ CreateDataProcessPipeline \/ CreationFails
    BY <1>s, <2>1, <2>3 DEF InitNode, CreateDataProcessPipeline, CreationFails
  <2> QED BY <1>1, <2>2, <2>3 DEF CreatePipeline
<1>2. CASE Destroys(DestroyPipeline /\ UNCHANGED tasks)
  BY <1>2, <1>s DEF Destroys, DestroyPipeline
<1>3. CASE Destroys(Destroying)
  <2>1. UNCHANGED <<coded, at, output, error>>
    BY <1>3 DEF Destroys
  <2>2. CASE ReleaseVideoDecoder \/ ReleaseProcessNode \/ JoinsPipeline
    BY <1>s, <2>1, <2>2 DEF ReleaseVideoDecoder, ReleaseProcessNode, JoinsPipeline
  <2>3. CASE ReleaseCodecEvent
    BY <1>s, <2>1, <2>3 DEF ReleaseCodecEvent, Joining
  <2> QED BY <1>3, <2>2, <2>3 DEF Destroys, Destroying
<1>4. CASE FeedStreamToContinue
  BY <1>4, <1>s DEF FeedStreamToContinue, nodeVars, codecVars, eVars
<1>5. CASE PassesThrough \/ ProcessData \/ FeedsAgain
  <2>1. /\ UNCHANGED <<coded, decoding, decoder, control, infos, codec, output, surface, events, eAt, error>>
        /\ tasks # <<>>
    BY <1>5 DEF PassesThrough, ProcessData, FeedsAgain, TakesTask, nodeVars, codecVars
  <2> QED BY <1>s, <2>1
<1>6. ASSUME NEW again \in BOOLEAN, Feeds(again) \/ QueueInputBuffer(again) \/ PopsInput(again) PROVE StageInv'
  <2>1. at # "idle"
    BY <1>6 DEF Feeds, FeedDecoderInputBuffer, QueueInputBuffer, PopsInput
  <2>2. UNCHANGED <<coded, decoding, decoder, control, output, surface, events, eAt, error>>
    BY <1>6 DEF Feeds, QueueInputBuffer, PopsInput, nodeVars, codecVars, eVars
  <2> QED BY <1>s, <2>1, <2>2
<1>7. CASE CodecRuns
  <2>1. UNCHANGED <<coded, decoding, decoder, control, tasks, at, inputs, eAt, error>>
    BY <1>7 DEF CodecRuns, nodeVars
  <2>2. CASE OnInputBufferAvailable
    <3>1. codec'.queued = codec.queued
      BY <1>s, <2>2 DEF OnInputBufferAvailable, QueuesInv
    <3> QED BY <1>s, <2>1, <2>2, <3>1 DEF OnInputBufferAvailable
  <2>3. CASE TakesHead \/ OnOutputBufferAvailable \/ ReleaseOutputBuffer \/ OnSurfaceOutputBufferAvailable
    <3>1. ~Early /\ (Released => decoder = "null" /\ eAt = "off")
      BY <1>s, <2>3 DEF TakesHead, OnOutputBufferAvailable, ReleaseOutputBuffer, OnSurfaceOutputBufferAvailable
    <3>2. Released => events' = events /\ surface' = surface
      BY <2>3, <3>1 DEF TakesHead, OnOutputBufferAvailable, ReleaseOutputBuffer, OnSurfaceOutputBufferAvailable
    <3> QED BY <1>s, <2>1, <3>1, <3>2
  <2> QED BY <1>7, <2>2, <2>3 DEF CodecRuns
<1>8. CASE EventRuns
  <2>1. UNCHANGED <<coded, decoding, decoder, control, tasks, at, inputs, output, error>>
    BY <1>8 DEF EventRuns, nodeVars, pVars
  <2>2. ~Early /\ ~Released
    BY <1>8, <1>s DEF EventRuns, GetDecoderOutputBuffer, PostOutputDataBuffers, DecodeDone, TakesEvent
  <2>3. decoder # "null" => eAt' # "off"
    BY <1>8, <1>s DEF EventRuns, GetDecoderOutputBuffer, CopyDecodedImage, PostOutputDataBuffers, DecodeDone, TakesEvent
  <2> QED BY <1>s, <2>1, <2>2, <2>3
<1>9. CASE OnError
  BY <1>9, <1>s DEF OnError, OnErrorBegins, OnErrorTests, StopsDecoder, pVars, codecVars, eVars
<1>10. CASE UNCHANGED vars
  BY <1>10, <1>s DEF vars, nodeVars, pVars, codecVars, eVars
<1> QED BY <1>1, <1>2, <1>3, <1>4, <1>5, <1>6, <1>7, <1>8, <1>9, <1>10 DEF Next, PipelineRuns

(* Each step keeps P's frame the oldest of its queue, and the codec's      *)
(* picture the oldest of the codec.                                        *)
LEMMA OwnStep == TypeInv /\ [Next]_vars => OwnInv'
<1> SUFFICES ASSUME TypeInv, [Next]_vars PROVE OwnInv'
  OBVIOUS
<1>s. ShapeInv /\ QueuesInv /\ StageInv /\ OwnInv
  BY DEF TypeInv
<1>n. QueuesInv'
  BY ShapeStep
<1>i. inputs \in Seq(Positive) /\ codec.queued \in Seq(Positive)
  BY <1>s DEF QueuesInv
<1>h. held \in Nat /\ free \in Nat
  BY <1>s DEF ShapeInv
<1> USE DEF OwnInv, Queueing, Popping, Emptied
<1>1. CASE CreatePipeline
  <2>1. UNCHANGED <<at, held, inputs, free, output, picture>>
    BY <1>1 DEF CreatePipeline, pVars
  <2>2. CASE InitDecoder
    BY <1>s, <2>1, <2>2 DEF InitDecoder, StageInv, Early, Blank
  <2>3. CASE InitNode \/ CreateDataProcessPipeline
    BY <1>s, <2>1, <2>3 DEF InitNode, CreateDataProcessPipeline
  <2>4. CASE CreationFails
    BY <1>s, <2>1, <2>4 DEF CreationFails, StageInv, Early, Blank
  <2> QED BY <1>1, <2>2, <2>3, <2>4 DEF CreatePipeline
<1>2. CASE Destroys(DestroyPipeline /\ UNCHANGED tasks) \/ Destroys(Destroying)
  <2>1. UNCHANGED <<coded, at, held, output, picture>>
    BY <1>2 DEF Destroys
  <2>2. CASE ReleaseVideoDecoder /\ Destroys(Destroying)
    <3>1. UNCHANGED <<eAt, inputs, free>> /\ ~Emptied
      BY <2>2 DEF ReleaseVideoDecoder
    <3>2. output # "none" => codec'.queued = <<Head(codec.queued)>> /\ Head(codec.queued) = codec.queued[1]
      BY <2>2, <1>s, <1>i, TailFacts DEF ReleaseVideoDecoder
    <3>3. output # "none" => codec'.queued # <<>> /\ codec'.queued[1] = codec.queued[1]
      BY <3>2
    <3> QED BY <1>s, <2>1, <2>2, <3>1, <3>3 DEF ReleaseVideoDecoder
  <2>3. CASE DestroyPipeline \/ ReleaseCodecEvent \/ ReleaseProcessNode \/ JoinsPipeline
    <3>1. /\ codec' = codec /\ (eAt' = eAt \/ eAt' = "off")
          /\ (inputs' = inputs /\ free' = free) \/ (inputs' = <<>> /\ control' = "headless")
          /\ Emptied => control' \in {"headless", "joinP", "done"}
      BY <2>3 DEF DestroyPipeline, ReleaseCodecEvent, ReleaseProcessNode, JoinsPipeline, Joining
    <3> QED BY <1>s, <2>1, <3>1
  <2> QED BY <1>2, <2>2, <2>3 DEF Destroys, Destroying
<1>3. CASE FeedStreamToContinue
  BY <1>3, <1>s DEF FeedStreamToContinue, nodeVars, codecVars, eVars
<1>4. CASE PassesThrough \/ ProcessData \/ FeedsAgain
  <2>1. /\ UNCHANGED <<coded, decoding, decoder, control, infos, codec, output, surface, eAt, error, picture>>
        /\ at' \in {"idle", "feed", "feedAgain"} /\ (inputs' = inputs \/ coded)
    BY <1>4 DEF PassesThrough, ProcessData, FeedsAgain, TakesTask, nodeVars, codecVars
  <2> QED BY <1>s, <2>1
<1>5. ASSUME NEW again \in BOOLEAN, Feeds(again) PROVE OwnInv'
  <2>1. UNCHANGED <<coded, control, inputs, free, codec, output, eAt, picture>>
    BY <1>5 DEF Feeds, codecVars, eVars, nodeVars
  <2>2. at' = "idle" \/ (inputs # <<>> /\ free # 0 /\ held' = Head(inputs))
    BY <1>5 DEF Feeds, FeedDecoderInputBuffer, Failed
  <2>3. inputs # <<>> => Head(inputs) = inputs[1] /\ Head(inputs) \in Positive
    BY <1>i, TailFacts
  <2> QED BY <1>s, <1>h, <2>1, <2>2, <2>3
<1>6. ASSUME NEW again \in BOOLEAN, QueueInputBuffer(again) PROVE OwnInv'
  <2>1. UNCHANGED <<coded, control, inputs, free, output, eAt, picture>> /\ Queueing
    BY <1>6 DEF QueueInputBuffer, eVars, nodeVars
  <2>2. at' = "idle" \/ held' = held
    BY <1>6 DEF QueueInputBuffer, Failed
  <2>3. codec' = codec \/ codec' = [codec EXCEPT !.queued = Append(codec.queued, held)]
    BY <1>6 DEF QueueInputBuffer
  <2>4. held \in Positive
    BY <1>s, <2>1
  <2>5. codec.queued # <<>> => codec'.queued # <<>> /\ codec'.queued[1] = codec.queued[1]
    <3>1. CASE codec' = codec
      BY <3>1
    <3>2. CASE codec' = [codec EXCEPT !.queued = Append(codec.queued, held)]
      <4>1. codec'.queued = Append(codec.queued, held)
        BY <1>s, <3>2 DEF QueuesInv
      <4> QED BY <1>i, <2>4, <4>1, AppendFacts
    <3> QED BY <2>3, <3>1, <3>2
  <2> QED BY <1>s, <2>1, <2>2, <2>5
<1>7. ASSUME NEW again \in BOOLEAN, PopsInput(again) PROVE OwnInv'
  <2>1. UNCHANGED <<coded, control, codec, output, eAt, picture>> /\ Popping /\ at' \in {"feed", "feedAgain"}
    BY <1>7 DEF PopsInput, eVars, nodeVars, codecVars
  <2> QED BY <1>s, <2>1
<1>8. CASE CodecRuns
  <2>1. UNCHANGED <<coded, control, at, held, inputs, eAt, picture>>
    BY <1>8 DEF CodecRuns, nodeVars
  <2>2. free' >= free
    BY <1>8, <1>h DEF CodecRuns, OnInputBufferAvailable, TakesHead, OnOutputBufferAvailable, ReleaseOutputBuffer,
       OnSurfaceOutputBufferAvailable
  <2>3. free' > 0 \/ free = 0
    BY <1>8, <1>h DEF CodecRuns, OnInputBufferAvailable, TakesHead, OnOutputBufferAvailable, ReleaseOutputBuffer,
       OnSurfaceOutputBufferAvailable
  <2>4. output' # "none" => codec'.queued # <<>> /\ ~IsHead(codec'.queued[1])
    <3>1. CASE OnInputBufferAvailable
      <4>1. codec'.queued = codec.queued /\ output' = output
        BY <1>s, <3>1 DEF OnInputBufferAvailable, QueuesInv
      <4> QED BY <1>s, <4>1
    <3>2. CASE TakesHead \/ OnSurfaceOutputBufferAvailable
      BY <3>2 DEF TakesHead, OnSurfaceOutputBufferAvailable
    <3>3. CASE OnOutputBufferAvailable
      <4>1. codec.queued # <<>> /\ ~IsHead(codec.queued[1])
        BY <1>i, <3>3, TailFacts DEF OnOutputBufferAvailable
      <4> QED BY <3>3, <4>1 DEF OnOutputBufferAvailable
    <3>4. CASE ReleaseOutputBuffer
      BY <1>s, <3>4 DEF ReleaseOutputBuffer
    <3> QED BY <1>8, <3>1, <3>2, <3>3, <3>4 DEF CodecRuns
  <2> QED BY <1>s, <1>h, <2>1, <2>3, <2>4
<1>9. CASE EventRuns
  <2>1. UNCHANGED <<coded, control, at, held, inputs, free, codec, output>>
    BY <1>9 DEF EventRuns, nodeVars, pVars
  <2>2. eAt' = "post" => picture'.n # 0
    <3>1. CASE GetDecoderOutputBuffer /\ eAt' = "post"
      <4>1. picture' = [n |-> Head(surface), info |-> Head(infos).n]
        BY <3>1 DEF GetDecoderOutputBuffer, CopyDecodedImage, TakesEvent
      <4>2. surface # <<>>
        BY <3>1, PictureWaits DEF GetDecoderOutputBuffer, TakesEvent, TypeInv
      <4>3. Head(surface) \in Positive
        BY <1>s, <4>2, TailFacts DEF QueuesInv
      <4> QED BY <4>1, <4>3 DEF Positive
    <3>2. CASE PostOutputDataBuffers \/ DecodeDone
      BY <3>2 DEF PostOutputDataBuffers, DecodeDone, TakesEvent
    <3> QED BY <1>9, <3>1, <3>2 DEF EventRuns
  <2> QED BY <1>s, <2>1, <2>2
<1>10. CASE OnError
  BY <1>10, <1>s DEF OnError, pVars, codecVars, eVars
<1>11. CASE UNCHANGED vars
  BY <1>11, <1>s DEF vars, nodeVars, pVars, codecVars, eVars
<1> QED BY <1>1, <1>2, <1>3, <1>4, <1>5, <1>6, <1>7, <1>8, <1>9, <1>10, <1>11 DEF Next, PipelineRuns

(* E has a task for each picture in the surface.                           *)
LEMMA CountStep == TypeInv /\ [Next]_vars => CountInv'
<1> SUFFICES ASSUME TypeInv, [Next]_vars, eAt' # "off"
             PROVE  \E n \in Nat : Number(events', {Get}, n) /\ Len(surface') = n + Shown'
  BY DEF CountInv
<1>s. ShapeInv /\ QueuesInv /\ StageInv /\ OwnInv /\ CountInv
  BY DEF TypeInv
<1>e. events \in Seq(Pictures) /\ surface \in Seq(Positive) /\ codec.queued \in Seq(Positive)
  BY <1>s DEF QueuesInv
<1>g. Get \in Pictures
  BY DEF Get, Pictures
<1>1. CASE UNCHANGED <<events, surface, output>> /\ eAt # "off"
  BY <1>1, <1>s DEF CountInv, Shown
<1>2. CASE CreatePipeline
  <2>1. UNCHANGED <<events, surface, output>>
    BY <1>2 DEF CreatePipeline
  <2>2. CASE eAt = "off"
    <3>1. InitDecoder
      BY <1>2, <2>2 DEF CreatePipeline, InitNode, CreateDataProcessPipeline, CreationFails
    <3>2. events = <<>> /\ surface = <<>> /\ output = "none"
      BY <1>s, <3>1 DEF InitDecoder, StageInv, Early, Blank
    <3>3. Number(<<>>, {Get}, 0)
      BY NumberOfNone
    <3> QED BY <2>1, <3>2, <3>3 DEF Shown
  <2> QED BY <1>1, <2>1, <2>2
<1>3. CASE Destroys(DestroyPipeline /\ UNCHANGED tasks) \/ Destroys(Destroying)
  <2>1. output' = output
    BY <1>3 DEF Destroys
  <2>2. eAt' = eAt /\ events' = events /\ surface' = surface
    BY <1>3 DEF Destroys, DestroyPipeline, Destroying, ReleaseVideoDecoder, ReleaseCodecEvent, ReleaseProcessNode,
       JoinsPipeline
  <2> QED BY <1>1, <2>1, <2>2
<1>4. CASE FeedStreamToContinue
  BY <1>1, <1>4 DEF FeedStreamToContinue, codecVars, eVars
<1>5. CASE PassesThrough \/ ProcessData \/ FeedsAgain
  BY <1>1, <1>5 DEF PassesThrough, ProcessData, FeedsAgain, TakesTask, codecVars
<1>6. ASSUME NEW again \in BOOLEAN, Feeds(again) \/ QueueInputBuffer(again) \/ PopsInput(again)
      PROVE  UNCHANGED <<events, surface, output, eAt>>
  BY <1>6 DEF Feeds, QueueInputBuffer, PopsInput, codecVars, eVars
<1>7. CASE CodecRuns
  <2>1. eAt # "off"
    BY <1>7 DEF CodecRuns
  <2>2. PICK n \in Nat : Number(events, {Get}, n) /\ Len(surface) = n + Shown
    BY <1>s, <2>1 DEF CountInv
  <2>3. CASE OnInputBufferAvailable \/ TakesHead \/ OnOutputBufferAvailable
    <3>1. UNCHANGED <<events, surface>> /\ (output' = output \/ (output = "none" /\ output' = "aligned"))
      BY <2>3 DEF OnInputBufferAvailable, TakesHead, OnOutputBufferAvailable
    <3> QED BY <2>2, <3>1 DEF Shown
  <2>4. CASE ReleaseOutputBuffer
    <3>1. codec.queued # <<>>
      BY <1>s, <2>4 DEF ReleaseOutputBuffer, OwnInv
    <3>2. Len(Append(surface, Head(codec.queued))) = Len(surface) + 1 /\ Len(surface) \in Nat
      <4>1. Head(codec.queued) \in Positive
        BY <1>e, <3>1, TailFacts
      <4> QED BY <1>e, <4>1, AppendFacts
    <3> QED BY <2>2, <2>4, <3>2 DEF ReleaseOutputBuffer, Shown
  <2>5. CASE OnSurfaceOutputBufferAvailable
    <3>1. Number(Append(events, Get), {Get}, n + (IF Get \in {Get} THEN 1 ELSE 0))
      BY <1>e, <1>g, <2>2, NumberOfAppend
    <3>2. Number(events', {Get}, n + 1) /\ surface' = surface /\ output = "rendered" /\ output' = "none"
      BY <2>1, <2>5, <3>1 DEF OnSurfaceOutputBufferAvailable
    <3>3. Len(surface') = (n + 1) + Shown' /\ n + 1 \in Nat
      BY <2>2, <3>2 DEF Shown
    <3> QED BY <3>2, <3>3
  <2> QED BY <1>7, <2>3, <2>4, <2>5 DEF CodecRuns
<1>8. CASE EventRuns
  <2>1. output' = output /\ eAt # "off"
    BY <1>8 DEF EventRuns, GetDecoderOutputBuffer, PostOutputDataBuffers, DecodeDone, TakesEvent
  <2>2. PICK n \in Nat : Number(events, {Get}, n) /\ Len(surface) = n + Shown
    BY <1>s, <2>1 DEF CountInv
  <2>3. CASE GetDecoderOutputBuffer \/ DecodeDone
    <3>1. events # <<>> /\ events' = Tail(events)
      BY <2>3 DEF GetDecoderOutputBuffer, DecodeDone, TakesEvent
    <3>2. PICK m \in Nat : Number(Tail(events), {Get}, m) /\ n = m + (IF events[1] \in {Get} THEN 1 ELSE 0)
      BY <1>e, <2>2, <3>1, NumberOfTail
    <3>3. Head(events) = events[1]
      BY <1>e, <3>1, TailFacts
    <3>4. CASE DecodeDone
      BY <2>1, <2>2, <3>1, <3>2, <3>3, <3>4 DEF DecodeDone, Shown
    <3>5. CASE GetDecoderOutputBuffer
      <4>1. Head(events) = Get /\ surface' = Tail(surface)
        BY <3>5 DEF GetDecoderOutputBuffer, CopyDecodedImage
      <4>2. surface # <<>>
        BY <1>s, <2>1, <3>1, <4>1, PictureWaits
      <4>3. Len(Tail(surface)) = Len(surface) - 1
        BY <1>e, <4>2, TailFacts
      <4> QED BY <2>1, <2>2, <3>1, <3>2, <3>3, <4>1, <4>3 DEF Shown
    <3> QED BY <2>3, <3>4, <3>5
  <2>4. CASE PostOutputDataBuffers
    <3>1. picture \in Pictures /\ picture # Get
      <4>1. picture.n # 0
        BY <1>s, <2>4 DEF OwnInv, PostOutputDataBuffers
      <4> QED BY <1>s, <4>1 DEF ShapeInv, Get
    <3>2. Number(Append(events, picture), {Get}, n + (IF picture \in {Get} THEN 1 ELSE 0))
      BY <1>e, <2>2, <3>1, NumberOfAppend
    <3>3. events' = Append(events, picture) /\ surface' = surface
      BY <2>4 DEF PostOutputDataBuffers
    <3> QED BY <2>1, <2>2, <3>1, <3>2, <3>3 DEF Shown
  <2> QED BY <1>8, <2>3, <2>4 DEF EventRuns
<1>9. CASE OnError
  BY <1>1, <1>9 DEF OnError, codecVars, eVars
<1>10. CASE UNCHANGED vars
  BY <1>1, <1>10 DEF vars, codecVars, eVars
<1> QED BY <1>1, <1>2, <1>3, <1>4, <1>5, <1>6, <1>7, <1>8, <1>9, <1>10 DEF Next, PipelineRuns

(* The parts of the types together.                                        *)
LEMMA TypesStep == TypeInv /\ [Next]_vars => TypeInv'
  BY FlagsStep, ShapeStep, StageStep, OwnStep, CountStep DEF TypeInv

(* What is in the queues of the node and in the hands of its threads: in   *)
(* each stage of the pipeline, created, running or released, the frame P   *)
(* works on is the oldest of its queue, the codec has the picture it gives *)
(* out, and E has a task for each picture in the surface.                  *)
THEOREM TypeCorrect == Spec => []TypeInv
  BY InitTypes, TypesStep, PTL DEF Spec

----------------------------------------------------------------------------
(* While the surface and the codec have pictures to come, frameInfoDeque_  *)
(* has an info for each; infos of codec data do not count.                 *)
Plain == Positive \ {1}
PlainInfos == {Info(n) : n \in Plain}
Pending == IF output = "aligned" THEN 1 ELSE 0
Coming == IF Queueing /\ held # 1 THEN 1 ELSE 0
EnoughInv ==
  ~Released =>
    \E m \in Nat :
      /\ Number(infos, PlainInfos, m) /\ m >= Len(surface) + Pending
      /\ decoding => \E q \in Nat : /\ Number(codec.queued, Plain, q)
                                    /\ m + Shown >= Len(surface) + q + Coming

(* The queues of a new node are empty.                                     *)
LEMMA InitEnough == Init => EnoughInv
<1> SUFFICES ASSUME Init PROVE EnoughInv
  OBVIOUS
<1>1. Number(<<>>, PlainInfos, 0)
  BY NumberOfNone
<1> QED BY <1>1 DEF Init, EnoughInv, Pending

(* The kinds of infos.                                                     *)
LEMMA InfoKinds ==
  /\ \A n \in Positive : Info(n) \in Infos /\ (Info(n) \in PlainInfos <=> n # 1)
  /\ \A i \in Infos : i \in PlainInfos <=> ~i.head
  /\ \A i \in Infos : i.n \in Positive /\ i = Info(i.n)
<1>1. \A n \in Positive : Info(n).n = n /\ (Info(n).head <=> n = 1)
  BY DEF Info, IsHead
<1>2. \A n \in Positive : Info(n) \in Infos
  BY DEF Infos
<1>3. \A n \in Positive : Info(n) \in PlainInfos <=> n # 1
  <2>1. ASSUME NEW n \in Positive, n # 1 PROVE Info(n) \in PlainInfos
    BY <2>1 DEF PlainInfos, Plain
  <2>2. ASSUME NEW n \in Positive, Info(n) \in PlainInfos PROVE n # 1
    <3>1. PICK k \in Plain : Info(n) = Info(k)
      BY <2>2 DEF PlainInfos
    <3>2. k \in Positive
      BY DEF Plain
    <3> QED BY <1>1, <3>1, <3>2 DEF Plain
  <2> QED BY <2>1, <2>2
<1>4. ASSUME NEW i \in Infos
      PROVE  (i \in PlainInfos <=> ~i.head) /\ i.n \in Positive /\ i = Info(i.n)
  <2>1. PICK n \in Positive : i = Info(n)
    BY DEF Infos
  <2> QED BY <1>1, <1>3, <2>1
<1> QED BY <1>2, <1>3, <1>4

(* Each step keeps an info for each picture to come.                       *)
LEMMA EnoughStep == TypeInv /\ EnoughInv /\ [Next]_vars => EnoughInv'
<1> SUFFICES ASSUME TypeInv, EnoughInv, [Next]_vars, ~Released'
             PROVE  \E m \in Nat :
                      /\ Number(infos', PlainInfos, m) /\ m >= Len(surface') + Pending'
                      /\ decoding' => \E q \in Nat : /\ Number(codec.queued', Plain, q)
                                                     /\ m + Shown' >= Len(surface') + q + Coming'
  BY DEF EnoughInv
<1>s. ShapeInv /\ QueuesInv /\ StageInv /\ OwnInv /\ CountInv
  BY DEF TypeInv
<1>e. /\ infos \in Seq(Infos) /\ inputs \in Seq(Positive) /\ surface \in Seq(Positive) /\ codec.queued \in Seq(Positive)
      /\ Len(surface) \in Nat
  BY <1>s DEF QueuesInv
<1>r. ~Released
  BY DEF Next, Released, CreatePipeline, InitDecoder, InitNode, CreateDataProcessPipeline, CreationFails, Destroys, Destroying,
     DestroyPipeline, ReleaseVideoDecoder, ReleaseCodecEvent, ReleaseProcessNode, JoinsPipeline, FeedStreamToContinue,
     PipelineRuns, PassesThrough, ProcessData, FeedsAgain, TakesTask, Feeds, QueueInputBuffer, PopsInput, CodecRuns, EventRuns,
     OnError, Joining, vars
<1>m. PICK m \in Nat :
        /\ Number(infos, PlainInfos, m) /\ m >= Len(surface) + Pending
        /\ decoding => \E q \in Nat : Number(codec.queued, Plain, q) /\ m + Shown >= Len(surface) + q + Coming
  BY <1>r DEF EnoughInv
<1>f. /\ Pending \in {0, 1} /\ Shown \in {0, 1} /\ Coming \in {0, 1}
      /\ Pending' \in {0, 1} /\ Shown' \in {0, 1} /\ Coming' \in {0, 1}
  BY DEF Pending, Shown, Coming
<1>1. CASE UNCHANGED <<infos, surface, output>> /\ (decoding' => decoding /\ codec.queued' = codec.queued /\ Coming' = Coming)
  BY <1>m, <1>1 DEF Pending, Shown
<1>2. CASE CreatePipeline
  <2>1. UNCHANGED <<infos, surface, output, at, held>>
    BY <1>2 DEF CreatePipeline, pVars
  <2>2. CASE Early
    <3>1. infos = <<>> /\ surface = <<>> /\ codec.queued = <<>> /\ output = "none" /\ at = "idle"
      BY <1>s, <2>2 DEF StageInv, Blank
    <3>2. codec.queued' = <<>>
      BY <1>2, <3>1 DEF CreatePipeline, InitDecoder, InitNode, CreateDataProcessPipeline, CreationFails
    <3>3. Number(<<>>, PlainInfos, 0) /\ Number(<<>>, Plain, 0)
      BY NumberOfNone
    <3>4. Pending' = 0 /\ Coming' = 0 /\ Len(surface') = 0
      BY <2>1, <3>1 DEF Pending, Coming, Queueing
    <3>5. Number(infos', PlainInfos, 0) /\ 0 >= Len(surface') + Pending'
      BY <2>1, <3>1, <3>3, <3>4
    <3>6. Number(codec.queued', Plain, 0) /\ 0 + Shown' >= Len(surface') + 0 + Coming'
      <4>1. Number(codec.queued', Plain, 0)
        BY <3>1, <3>2, <3>3, Zenon
      <4>2. 0 + Shown' >= Len(surface') + 0 + Coming'
        <5>1. Shown' = 0
          BY <2>1, <3>1 DEF Shown
        <5> QED BY <3>4, <5>1
      <4> QED BY <4>1, <4>2
    <3> QED BY <3>5, <3>6
  <2>3. CASE ~Early
    <3>1. codec' = codec /\ (decoding' => decoding)
      BY <1>2, <2>3 DEF Early, CreatePipeline, InitDecoder, InitNode, CreateDataProcessPipeline, CreationFails
    <3> QED BY <1>1, <2>1, <3>1 DEF Coming, Queueing
  <2> QED BY <2>2, <2>3
<1>3. CASE Destroys(DestroyPipeline /\ UNCHANGED tasks) \/ Destroys(Destroying)
  <2>1. UNCHANGED <<output, at, held>> /\ ~decoding'
    BY <1>3, <1>s DEF Destroys, Destroying, DestroyPipeline, ReleaseVideoDecoder, ReleaseCodecEvent, ReleaseProcessNode,
       JoinsPipeline, StageInv, Joining
  <2>2. UNCHANGED <<infos, surface>>
    BY <1>3, <1>r DEF Destroys, Destroying, DestroyPipeline, ReleaseVideoDecoder, ReleaseCodecEvent, ReleaseProcessNode,
       JoinsPipeline, Released
  <2> QED BY <1>1, <2>1, <2>2
<1>4. CASE FeedStreamToContinue
  <2>1. UNCHANGED <<infos, surface, output, codec, decoding, at, held>>
    BY <1>4 DEF FeedStreamToContinue, nodeVars, codecVars
  <2> QED BY <1>1, <2>1 DEF Coming, Queueing
<1>5. CASE PassesThrough \/ ProcessData \/ FeedsAgain
  <2>1. UNCHANGED <<infos, surface, output, codec, decoding>> /\ ~Queueing /\ ~Queueing'
    BY <1>5 DEF PassesThrough, ProcessData, FeedsAgain, TakesTask, nodeVars, codecVars, Queueing
  <2> QED BY <1>1, <2>1 DEF Coming
<1>6. ASSUME NEW again \in BOOLEAN, Feeds(again) PROVE EnoughInv'
  <2>1. UNCHANGED <<surface, output, codec, decoding>> /\ ~Queueing
    BY <1>6 DEF Feeds, FeedDecoderInputBuffer, nodeVars, codecVars, Queueing
  <2>2. CASE ~Queueing'
    <3>1. infos' = infos
      BY <1>6, <2>2 DEF Feeds, FeedDecoderInputBuffer, Queueing
    <3> QED BY <1>1, <2>1, <2>2, <3>1 DEF Coming, EnoughInv
  <2>3. CASE Queueing'
    <3>1. inputs # <<>> /\ held' = Head(inputs) /\ infos' = Append(infos, Info(Head(inputs)))
      BY <1>6, <2>3 DEF Feeds, FeedDecoderInputBuffer, Failed, Queueing, Info
    <3>2. Head(inputs) \in Positive
      BY <1>e, <3>1, TailFacts
    <3>3. Info(Head(inputs)) \in Infos /\ (Info(Head(inputs)) \in PlainInfos <=> Head(inputs) # 1)
      BY <3>2, InfoKinds
    <3>4. Number(infos', PlainInfos, m + (IF Info(Head(inputs)) \in PlainInfos THEN 1 ELSE 0))
      BY <1>e, <1>m, <3>1, <3>3, NumberOfAppend
    <3>5. Number(infos', PlainInfos, m + Coming') /\ m + Coming' \in Nat
      BY <2>3, <3>1, <3>3, <3>4 DEF Coming
    <3>6. m + Coming' >= Len(surface') + Pending'
      BY <1>e, <1>m, <1>f, <2>1 DEF Pending
    <3>7. ASSUME decoding' PROVE \E q \in Nat : /\ Number(codec.queued', Plain, q)
                                               /\ m + Coming' + Shown' >= Len(surface') + q + Coming'
      <4>1. PICK q \in Nat : Number(codec.queued, Plain, q) /\ m + Shown >= Len(surface) + q + Coming
        BY <1>m, <2>1, <3>7
      <4>2. Shown' = Shown /\ Coming = 0
        BY <2>1 DEF Shown, Coming
      <4>3. m + Coming' + Shown' >= Len(surface') + q + Coming'
        BY <1>e, <1>f, <2>1, <4>1, <4>2
      <4> QED BY <2>1, <4>1, <4>3
    <3> QED BY <3>5, <3>6, <3>7 DEF EnoughInv
  <2> QED BY <2>2, <2>3
<1>7. ASSUME NEW again \in BOOLEAN, QueueInputBuffer(again) PROVE EnoughInv'
  <2>1. UNCHANGED <<infos, surface, output, decoding>> /\ Queueing /\ ~Queueing'
    BY <1>7 DEF QueueInputBuffer, Failed, nodeVars, Queueing
  <2>2. CASE codec' = codec
    <3>1. ASSUME decoding PROVE \E q \in Nat : Number(codec.queued, Plain, q) /\ m + Shown >= Len(surface) + q
      BY <1>e, <1>m, <1>f, <3>1
    <3> QED BY <1>m, <2>1, <2>2, <3>1 DEF EnoughInv, Pending, Coming, Shown
  <2>3. CASE codec' # codec
    <3>1. codec' = [codec EXCEPT !.queued = Append(codec.queued, held)] /\ held \in Positive
      BY <1>7, <1>s, <2>1, <2>3 DEF QueueInputBuffer, OwnInv
    <3>2. codec.queued' = Append(codec.queued, held)
      BY <1>s, <3>1 DEF QueuesInv
    <3>3. ASSUME decoding PROVE \E q \in Nat : Number(codec.queued', Plain, q) /\ m + Shown >= Len(surface) + q
      <4>1. PICK q \in Nat : Number(codec.queued, Plain, q) /\ m + Shown >= Len(surface) + q + Coming
        BY <1>m, <3>3
      <4>2. Number(codec.queued', Plain, q + (IF held \in Plain THEN 1 ELSE 0))
        BY <1>e, <3>1, <3>2, <4>1, NumberOfAppend
      <4>3. (IF held \in Plain THEN 1 ELSE 0) = Coming
        BY <2>1, <3>1 DEF Coming, Plain
      <4> QED BY <1>e, <1>f, <4>1, <4>2, <4>3
    <3> QED BY <1>m, <2>1, <3>3 DEF EnoughInv, Pending, Coming, Shown
  <2> QED BY <2>2, <2>3
<1>8. ASSUME NEW again \in BOOLEAN, PopsInput(again) PROVE EnoughInv'
  <2>1. UNCHANGED <<infos, surface, output, codec, decoding>> /\ ~Queueing /\ ~Queueing'
    BY <1>8 DEF PopsInput, nodeVars, codecVars, Queueing
  <2> QED BY <1>1, <2>1 DEF Coming, EnoughInv
<1>10. CASE OnInputBufferAvailable /\ CodecRuns
  <2>1. UNCHANGED <<infos, surface, output, decoding, at, held>>
    BY <1>10 DEF OnInputBufferAvailable, CodecRuns, nodeVars
  <2>2. codec.queued' = codec.queued
    BY <1>s, <1>10 DEF OnInputBufferAvailable, QueuesInv
  <2> QED BY <1>1, <2>1, <2>2 DEF Coming, Queueing
<1>11. CASE TakesHead /\ CodecRuns
  <2>1. UNCHANGED <<infos, surface, output, decoding, at, held>>
    BY <1>11 DEF TakesHead, CodecRuns, nodeVars
  <2>2. codec.queued # <<>> /\ codec.queued' = Tail(codec.queued) /\ codec.queued[1] = 1
    BY <1>e, <1>11, TailFacts DEF TakesHead, Consumed, IsHead
  <2>3. ASSUME decoding PROVE \E q \in Nat : Number(codec.queued', Plain, q) /\ m + Shown >= Len(surface) + q + Coming
    <3>1. PICK q \in Nat : Number(codec.queued, Plain, q) /\ m + Shown >= Len(surface) + q + Coming
      BY <1>m, <2>3
    <3>2. PICK p \in Nat : /\ Number(Tail(codec.queued), Plain, p)
                           /\ q = p + (IF codec.queued[1] \in Plain THEN 1 ELSE 0)
      BY <1>e, <2>2, <3>1, NumberOfTail
    <3> QED BY <2>2, <3>1, <3>2 DEF Plain
  <2> QED BY <1>m, <2>1, <2>3 DEF Pending, Shown, Coming, Queueing
<1>12. CASE OnOutputBufferAvailable /\ CodecRuns
  <2>1. UNCHANGED <<surface, decoding, at, held>> /\ output = "none"
    BY <1>12 DEF OnOutputBufferAvailable, CodecRuns, nodeVars
  <2>2. CASE ~decoding
    BY <1>1, <1>12, <2>1, <2>2 DEF OnOutputBufferAvailable
  <2>3. CASE decoding
    <3>1. output' = "aligned" /\ codec' = codec /\ codec.queued # <<>> /\ codec.queued[1] # 1 /\ codec.queued[1] \in Positive
      BY <1>e, <1>12, <2>3, TailFacts DEF OnOutputBufferAvailable, IsHead
    <3>2. PICK q \in Nat : Number(codec.queued, Plain, q) /\ m + Shown >= Len(surface) + q + Coming
      BY <1>m, <2>3
    <3>3. q >= 1
      <4>1. PICK p \in Nat : /\ Number(Tail(codec.queued), Plain, p)
                             /\ q = p + (IF codec.queued[1] \in Plain THEN 1 ELSE 0)
        BY <1>e, <3>1, <3>2, NumberOfTail
      <4>2. codec.queued[1] \in Plain
        BY <3>1 DEF Plain
      <4> QED BY <4>1, <4>2
    <3>4. Number(infos', PlainInfos, m)
      <4>1. CASE infos' = infos
        BY <1>m, <4>1
      <4>2. CASE infos' # infos
        <5>1. infos # <<>> /\ infos' = Tail(infos) /\ infos[1].head
          BY <1>e, <1>12, <2>3, <4>2 DEF OnOutputBufferAvailable, AlignFirstFrameTime
        <5>2. infos[1] \notin PlainInfos
          <6>1. infos[1] \in Infos
            BY <1>e, <5>1
          <6> QED BY <5>1, <6>1, InfoKinds
        <5>3. PICK p \in Nat : /\ Number(Tail(infos), PlainInfos, p)
                               /\ m = p + (IF infos[1] \in PlainInfos THEN 1 ELSE 0)
          BY <1>e, <1>m, <5>1, NumberOfTail
        <5> QED BY <5>1, <5>2, <5>3
      <4> QED BY <4>1, <4>2
    <3>5. Shown = 0 /\ Shown' = 0 /\ Coming' = Coming /\ Pending' = 1
      BY <2>1, <3>1 DEF Shown, Coming, Pending, Queueing
    <3>6. m >= Len(surface') + Pending' /\ m + Shown' >= Len(surface') + q + Coming'
      BY <1>e, <1>f, <2>1, <3>2, <3>3, <3>5
    <3> QED BY <3>1, <3>2, <3>4, <3>6
  <2> QED BY <2>2, <2>3
<1>13. CASE (ReleaseOutputBuffer \/ OnSurfaceOutputBufferAvailable) /\ CodecRuns
  <2>1. UNCHANGED <<infos, decoding, at, held>> /\ Coming' = Coming /\ codec.queued # <<>>
    BY <1>s, <1>13 DEF ReleaseOutputBuffer, OnSurfaceOutputBufferAvailable, CodecRuns, nodeVars, OwnInv, Coming, Queueing
  <2>2. codec.queued[1] \in Plain /\ Head(codec.queued) \in Positive
    <3>1. codec.queued[1] # 1
      BY <1>s, <1>13 DEF OwnInv, ReleaseOutputBuffer, OnSurfaceOutputBufferAvailable, IsHead
    <3> QED BY <1>e, <2>1, <3>1, TailFacts DEF Plain
  <2>3. CASE codec' = codec
    <3>1. output = "aligned" /\ output' = "rendered" /\ surface' = Append(surface, Head(codec.queued))
      <4>1. Tail(codec.queued) # codec.queued
        <5>1. Len(codec.queued) \in Nat /\ Len(Tail(codec.queued)) = Len(codec.queued) - 1
          BY <1>e, <2>1, TailFacts
        <5>2. Len(codec.queued) # Len(Tail(codec.queued))
          BY <5>1
        <5> QED BY <5>2, Zenon
      <4>2. codec' # Consumed
        <5>1. Consumed.queued = Tail(codec.queued)
          BY DEF Consumed
        <5> QED BY <2>3, <4>1, <5>1
      <4> QED BY <1>13, <4>2 DEF ReleaseOutputBuffer, OnSurfaceOutputBufferAvailable
    <3>2. Len(surface') = Len(surface) + 1
      BY <1>e, <2>2, <3>1, AppendFacts
    <3>3. Shown = 0 /\ Shown' = 1 /\ Pending = 1 /\ Pending' = 0
      BY <3>1 DEF Shown, Pending
    <3>4. m >= Len(surface') + Pending'
      BY <1>e, <1>m, <3>2, <3>3
    <3>5. ASSUME decoding PROVE \E q \in Nat : Number(codec.queued, Plain, q) /\ m + Shown' >= Len(surface') + q + Coming
      BY <1>e, <1>f, <1>m, <3>2, <3>3, <3>5
    <3> QED BY <1>m, <2>1, <2>3, <3>4, <3>5
  <2>4. CASE codec' = Consumed /\ surface' = surface /\ output' = "none"
    <3>1. codec.queued' = Tail(codec.queued) /\ Pending' = 0 /\ Shown' = 0
      BY <2>4 DEF Consumed, Pending, Shown
    <3>2. ASSUME decoding PROVE \E q \in Nat : Number(codec.queued', Plain, q) /\ m + Shown' >= Len(surface') + q + Coming
      <4>1. PICK q \in Nat : Number(codec.queued, Plain, q) /\ m + Shown >= Len(surface) + q + Coming
        BY <1>m, <3>2
      <4>2. PICK p \in Nat : /\ Number(Tail(codec.queued), Plain, p)
                             /\ q = p + (IF codec.queued[1] \in Plain THEN 1 ELSE 0)
        BY <1>e, <2>1, <4>1, NumberOfTail
      <4> QED BY <1>e, <1>f, <2>2, <2>4, <3>1, <4>1, <4>2
    <3> QED BY <1>e, <1>f, <1>m, <2>1, <2>4, <3>1, <3>2
  <2> QED BY <1>13, <2>3, <2>4 DEF ReleaseOutputBuffer, OnSurfaceOutputBufferAvailable
<1>14. CASE CodecRuns
  BY <1>10, <1>11, <1>12, <1>13, <1>14 DEF CodecRuns
<1>15. CASE EventRuns
  <2>1. UNCHANGED <<decoding, at, held, codec, output>> /\ Coming' = Coming /\ Shown' = Shown /\ Pending' = Pending
    BY <1>15 DEF EventRuns, pVars, nodeVars, Coming, Shown, Pending, Queueing
  <2>2. CASE PostOutputDataBuffers \/ DecodeDone
    BY <1>1, <2>1, <2>2 DEF PostOutputDataBuffers, DecodeDone
  <2>3. CASE GetDecoderOutputBuffer
    <3>1. surface # <<>> /\ surface' = Tail(surface)
      BY <1>s, <2>3, PictureWaits DEF GetDecoderOutputBuffer, CopyDecodedImage, TakesEvent
    <3>2. Len(surface') = Len(surface) - 1
      BY <1>e, <3>1, TailFacts
    <3>3. \E p \in Nat : Number(infos', PlainInfos, p) /\ p + 1 >= m
      <4>1. CASE infos' = infos
        BY <1>m, <4>1
      <4>2. CASE infos # <<>> /\ infos' = Tail(infos)
        <5>1. PICK p \in Nat : /\ Number(Tail(infos), PlainInfos, p)
                               /\ m = p + (IF infos[1] \in PlainInfos THEN 1 ELSE 0)
          BY <1>e, <1>m, <4>2, NumberOfTail
        <5> QED BY <4>2, <5>1
      <4> QED BY <2>3, <4>1, <4>2 DEF GetDecoderOutputBuffer, CopyDecodedImage
    <3>4. PICK p \in Nat : Number(infos', PlainInfos, p) /\ p + 1 >= m
      BY <3>3
    <3>5. p >= Len(surface') + Pending'
      BY <1>e, <1>f, <1>m, <2>1, <3>2, <3>4
    <3>6. ASSUME decoding PROVE \E q \in Nat : Number(codec.queued, Plain, q) /\ p + Shown' >= Len(surface') + q + Coming'
      BY <1>e, <1>f, <1>m, <2>1, <3>2, <3>4, <3>6
    <3> QED BY <2>1, <3>4, <3>5, <3>6
  <2> QED BY <1>15, <2>2, <2>3 DEF EventRuns
<1>16. CASE OnError
  <2>1. UNCHANGED <<infos, surface, output, codec, at, held>> /\ (decoding' => decoding)
    BY <1>16 DEF OnError, OnErrorBegins, OnErrorTests, StopsDecoder, pVars, codecVars
  <2> QED BY <1>1, <2>1 DEF Coming, Queueing
<1>17. CASE UNCHANGED vars
  <2>1. UNCHANGED <<infos, surface, output, codec, decoding, at, held>>
    BY <1>17 DEF vars, pVars, codecVars, nodeVars
  <2> QED BY <1>1, <2>1 DEF Coming, Queueing
<1>18. ASSUME EnoughInv' PROVE \E m_1 \in Nat :
                      /\ Number(infos', PlainInfos, m_1) /\ m_1 >= Len(surface') + Pending'
                      /\ decoding' => \E q \in Nat : /\ Number(codec.queued', Plain, q)
                                                     /\ m_1 + Shown' >= Len(surface') + q + Coming'
  BY <1>18 DEF EnoughInv
<1> QED BY <1>2, <1>3, <1>4, <1>5, <1>6, <1>7, <1>8, <1>14, <1>15, <1>16, <1>17, <1>18 DEF Next, PipelineRuns

(* A step of a node that runs uses no empty queue and no null pointer.     *)
LEMMA SafeStep == TypeInv /\ EnoughInv /\ NodeIsSafe /\ [Next]_vars => NodeIsSafe'
<1> SUFFICES ASSUME TypeInv, EnoughInv, NodeIsSafe, [Next]_vars PROVE NodeIsSafe'
  OBVIOUS
<1>s. ShapeInv /\ QueuesInv /\ StageInv /\ OwnInv /\ CountInv
  BY DEF TypeInv
<1> DEFINE Made == control \in {"none", "decoder", "flagged", "running"}
<1>1. CASE UNCHANGED vars
  BY <1>1 DEF vars, NodeIsSafe
<1>2. CASE Next
  <2>1. ~crashed
    BY <1>2 DEF Next
  <2>2. SUFFICES ASSUME Made' PROVE ~crashed'
    BY DEF NodeIsSafe
  <2>3. CASE CreatePipeline
    BY <2>1, <2>2, <2>3 DEF CreatePipeline, CreationFails
  <2>4. CASE Destroys(DestroyPipeline /\ UNCHANGED tasks) \/ Destroys(Destroying)
    BY <2>1, <2>4 DEF Destroys
  <2>5. CASE FeedStreamToContinue \/ CodecRuns
    BY <2>1, <2>5 DEF FeedStreamToContinue, CodecRuns
  <2>6. CASE PassesThrough \/ ProcessData \/ FeedsAgain
    <3>1. control' = control /\ (crashed' = crashed \/ crashed' = Headless)
      BY <2>1, <2>6 DEF PassesThrough, ProcessData, FeedsAgain, TakesTask
    <3>2. ~Headless
      BY <2>1, <2>2, <3>1 DEF Headless
    <3> QED BY <2>1, <3>1, <3>2, Zenon
  <2>7. ASSUME NEW again \in BOOLEAN, Feeds(again) \/ QueueInputBuffer(again) \/ PopsInput(again)
        PROVE  ~crashed'
    <3>1. CASE Feeds(again) \/ QueueInputBuffer(again)
      BY <2>1, <3>1 DEF Feeds, QueueInputBuffer
    <3>2. CASE PopsInput(again)
      <4>1. control' = control /\ Popping
        BY <2>1, <3>2 DEF PopsInput, Popping
      <4>2. inputs # <<>> /\ free # 0
        BY <2>1, <1>s, <2>2, <4>1 DEF OwnInv, Emptied
      <4> QED BY <2>1, <3>2, <4>2 DEF PopsInput
    <3> QED BY <2>7, <3>1, <3>2
  <2>8. CASE EventRuns
    <3>1. control' = control
      BY <2>1, <2>8 DEF EventRuns
    <3>2. CASE PostOutputDataBuffers \/ DecodeDone
      BY <2>1, <3>2 DEF PostOutputDataBuffers, DecodeDone
    <3>3. CASE GetDecoderOutputBuffer
      <4>1. surface # <<>> /\ Len(surface) >= 1 + Shown
        BY <2>1, <1>s, <3>3, PictureWaits DEF GetDecoderOutputBuffer, TakesEvent
      <4>2. ~Released
        BY <2>1, <2>2, <3>1 DEF Released
      <4>3. PICK m \in Nat : Number(infos, PlainInfos, m) /\ m >= Len(surface) + Pending
        BY <2>1, <4>2 DEF EnoughInv
      <4>4. m # 0
        <5>1. Len(surface) \in Nat
          BY <2>1, <1>s DEF QueuesInv
        <5>2. Pending \in {0, 1} /\ Shown \in {0, 1}
          BY DEF Pending, Shown
        <5> QED BY <4>1, <4>3, <5>1, <5>2
      <4>5. infos # <<>>
        BY <4>3, <4>4, NumberOfNone
      <4> QED BY <2>1, <3>3, <4>5 DEF GetDecoderOutputBuffer, CopyDecodedImage
    <3> QED BY <2>1, <2>8, <3>2, <3>3 DEF EventRuns
  <2>9. CASE OnError
    <3>1. control' = control
      BY <2>1, <2>9 DEF OnError
    <3>2. CASE OnErrorBegins \/ OnErrorTests
      BY <2>1, <3>2 DEF OnErrorBegins, OnErrorTests
    <3>3. CASE StopsDecoder
      <4>1. coded /\ control # "none"
        BY <2>1, <1>s, <3>3 DEF StopsDecoder, StageInv
      <4>2. decoder # "null"
        BY <2>1, <1>s, <2>2, <3>1, <4>1 DEF StageInv
      <4> QED BY <2>1, <3>3, <4>2 DEF StopsDecoder
    <3> QED BY <2>1, <2>9, <3>2, <3>3 DEF OnError
  <2> QED BY <2>1, <1>2, <2>3, <2>4, <2>5, <2>6, <2>7, <2>8, <2>9 DEF Next, PipelineRuns
<1> QED BY <1>1, <1>2

(* While the node runs no null pointer is used and the empty front of no   *)
(* queue: not by PopsInput, and not by E when it takes the frame info of a *)
(* picture, though the threads share the queues without one lock.          *)
THEOREM NodeAlwaysSafe == Spec => []NodeIsSafe
<1> DEFINE IInv == TypeInv /\ EnoughInv /\ NodeIsSafe
<1>1. Init => IInv
  BY InitTypes, InitEnough DEF Init, NodeIsSafe
<1>2. IInv /\ [Next]_vars => IInv'
  BY TypesStep, EnoughStep, SafeStep
<1>3. IInv => NodeIsSafe
  OBVIOUS
<1> QED BY <1>1, <1>2, <1>3, PTL DEF Spec

----------------------------------------------------------------------------
(* Codec data is the first frame there is: while it waits, to be processed *)
(* or to be queued, nothing went before it.                                *)
Untouched == infos = <<>> /\ codec.queued = <<>> /\ surface = <<>> /\ output = "none"
FirstInv ==
  /\ fed = 0 => Blank /\ tasks = <<>>
  /\ \A i \in 1 .. Len(tasks) : tasks[i] = 1 => i = 1 /\ Blank
InputsInv ==
  decoding /\ ~Astray =>
    \A i \in 1 .. Len(inputs) : inputs[i] = 1 => i = 1 /\ (~Queueing /\ ~Popping => Untouched)

(* A node that has done nothing does nothing until P takes a task.         *)
LEMMA BlankStays == TypeInv /\ Blank /\ [Next]_vars => Blank' \/ (tasks # <<>> /\ tasks' = Tail(tasks))
<1> SUFFICES ASSUME TypeInv, Blank, [Next]_vars PROVE Blank' \/ (tasks # <<>> /\ tasks' = Tail(tasks))
  OBVIOUS
<1>s. QueuesInv /\ CountInv
  BY DEF TypeInv
<1>b. inputs = <<>> /\ infos = <<>> /\ codec.queued = <<>> /\ surface = <<>> /\ output = "none" /\ at = "idle"
  BY DEF Blank
<1>0. CASE UNCHANGED <<inputs, infos, surface, output, at>> /\ codec'.queued = <<>>
  BY <1>b, <1>0 DEF Blank
<1>1. CASE CreatePipeline
  <2>1. codec'.queued = <<>>
    BY <1>1, <1>b DEF CreatePipeline, InitDecoder, InitNode, CreateDataProcessPipeline, CreationFails
  <2> QED BY <1>0, <1>1, <2>1 DEF CreatePipeline, pVars
<1>2. CASE Destroys(DestroyPipeline /\ UNCHANGED tasks) \/ Destroys(Destroying)
  <2>1. UNCHANGED <<at, output>>
    BY <1>2 DEF Destroys
  <2>2. codec'.queued = <<>>
    BY <1>2, <1>b DEF Destroys, Destroying, DestroyPipeline, ReleaseVideoDecoder, ReleaseCodecEvent, ReleaseProcessNode,
       JoinsPipeline, NoCodec
  <2>3. inputs' = <<>> /\ infos' = <<>> /\ surface' = <<>>
    BY <1>2, <1>b DEF Destroys, Destroying, DestroyPipeline, ReleaseVideoDecoder, ReleaseCodecEvent, ReleaseProcessNode,
       JoinsPipeline
  <2> QED BY <1>b, <2>1, <2>2, <2>3 DEF Blank
<1>3. CASE FeedStreamToContinue
  BY <1>0, <1>3, <1>b DEF FeedStreamToContinue, codecVars
<1>4. CASE PassesThrough \/ ProcessData \/ FeedsAgain
  BY <1>4 DEF PassesThrough, ProcessData, FeedsAgain, TakesTask
<1>5. ASSUME NEW again \in BOOLEAN, Feeds(again) \/ QueueInputBuffer(again) \/ PopsInput(again) PROVE FALSE
  BY <1>5, <1>b DEF Feeds, FeedDecoderInputBuffer, QueueInputBuffer, PopsInput
<1>6. CASE CodecRuns
  <2>1. OnInputBufferAvailable
    BY <1>6, <1>b DEF CodecRuns, TakesHead, OnOutputBufferAvailable, ReleaseOutputBuffer, OnSurfaceOutputBufferAvailable
  <2>2. codec'.queued = <<>>
    BY <1>b, <1>s, <2>1 DEF OnInputBufferAvailable, QueuesInv
  <2> QED BY <1>0, <1>6, <2>1, <2>2 DEF CodecRuns, OnInputBufferAvailable
<1>7. CASE EventRuns
  <2>1. ~GetDecoderOutputBuffer
    BY <1>b, <1>s, PictureWaits DEF GetDecoderOutputBuffer, TakesEvent
  <2>2. UNCHANGED <<infos, surface>>
    BY <1>7, <2>1 DEF EventRuns, PostOutputDataBuffers, DecodeDone
  <2> QED BY <1>0, <1>7, <1>b, <2>2 DEF EventRuns, pVars
<1>8. CASE OnError
  BY <1>0, <1>8, <1>b DEF OnError, pVars, codecVars
<1>9. CASE UNCHANGED vars
  BY <1>0, <1>9, <1>b DEF vars, pVars, codecVars
<1> QED BY <1>1, <1>2, <1>3, <1>4, <1>5, <1>6, <1>7, <1>8, <1>9 DEF Next, PipelineRuns

(* The ways in which the tasks of P change.                                *)
LEMMA TasksMove ==
  ASSUME [Next]_vars
  PROVE  \/ fed' = fed /\ tasks' = tasks
         \/ fed' = fed /\ tasks # <<>> /\ tasks' = Tail(tasks)
         \/ fed' = fed /\ tasks' = <<>>
         \/ fed' = fed /\ at # "idle" /\ tasks' = Append(tasks, Again)
         \/ /\ fed' = fed + 1 /\ tasks' = Append(tasks, fed + 1)
            /\ UNCHANGED <<inputs, infos, surface, output, at, codec>>
<1>1. CASE CreatePipeline
  BY <1>1 DEF CreatePipeline, pVars
<1>2. CASE Destroys(DestroyPipeline /\ UNCHANGED tasks) \/ Destroys(Destroying)
  BY <1>2 DEF Destroys, Destroying, JoinsPipeline
<1>3. CASE FeedStreamToContinue
  BY <1>3 DEF FeedStreamToContinue, codecVars
<1>4. CASE PassesThrough \/ ProcessData \/ FeedsAgain
  BY <1>4 DEF PassesThrough, ProcessData, FeedsAgain, TakesTask
<1>5. ASSUME NEW again \in BOOLEAN, Feeds(again) \/ QueueInputBuffer(again) \/ PopsInput(again)
      PROVE  fed' = fed /\ (tasks' = tasks \/ (at # "idle" /\ tasks' = Append(tasks, Again)))
  BY <1>5 DEF Feeds, FeedDecoderInputBuffer, QueueInputBuffer, PopsInput, Failed
<1>6. CASE CodecRuns \/ EventRuns \/ OnError
  BY <1>6 DEF CodecRuns, EventRuns, OnError, pVars
<1>7. CASE UNCHANGED vars
  BY <1>7 DEF vars, pVars
<1> QED BY <1>1, <1>2, <1>3, <1>4, <1>5, <1>6, <1>7 DEF Next, PipelineRuns

(* Each step keeps the first frame alone.                                  *)
LEMMA FirstStep == TypeInv /\ FirstInv /\ [Next]_vars => FirstInv'
<1> SUFFICES ASSUME TypeInv, FirstInv, [Next]_vars PROVE FirstInv'
  OBVIOUS
<1>s. tasks \in Seq(Nat) /\ fed \in Nat /\ Len(tasks) \in Nat
  BY DEF TypeInv, ShapeInv, QueuesInv
<1>m. \/ fed' = fed /\ tasks' = tasks
      \/ fed' = fed /\ tasks # <<>> /\ tasks' = Tail(tasks)
      \/ fed' = fed /\ tasks' = <<>>
      \/ fed' = fed /\ at # "idle" /\ tasks' = Append(tasks, Again)
      \/ /\ fed' = fed + 1 /\ tasks' = Append(tasks, fed + 1)
         /\ UNCHANGED <<inputs, infos, surface, output, at, codec>>
  BY TasksMove
<1>b. Blank => Blank' \/ (tasks # <<>> /\ tasks' = Tail(tasks))
  BY BlankStays
<1>1. fed' = 0 => Blank' /\ tasks' = <<>>
  <2> SUFFICES ASSUME fed' = 0 PROVE Blank' /\ tasks' = <<>>
    OBVIOUS
  <2>1. fed = 0 /\ fed' = fed
    BY <1>s, <1>m
  <2>2. Blank /\ tasks = <<>> /\ at = "idle"
    BY <2>1 DEF FirstInv, Blank
  <2> QED BY <1>m, <1>b, <1>s, <2>1, <2>2
<1>2. ASSUME NEW i \in 1 .. Len(tasks'), tasks'[i] = 1 PROVE i = 1 /\ Blank'
  <2>1. CASE tasks # <<>> /\ tasks' = Tail(tasks)
    <3>1. i + 1 \in 1 .. Len(tasks) /\ tasks[i + 1] = 1
      BY <1>s, <1>2, <2>1, TailFacts
    <3>2. i + 1 = 1
      BY <3>1 DEF FirstInv
    <3> QED BY <1>2, <3>2
  <2>2. CASE tasks' = tasks /\ ~(tasks # <<>> /\ tasks' = Tail(tasks))
    BY <1>2, <1>b, <2>2 DEF FirstInv
  <2>3. CASE at # "idle" /\ tasks' = Append(tasks, Again)
    <3>1. i \in 1 .. Len(tasks) /\ tasks[i] = 1
      <4>1. Again \in Nat /\ Again # 1
        BY DEF Again
      <4> QED BY <1>s, <1>2, <2>3, <4>1, AppendFacts
    <3> QED BY <2>3, <3>1 DEF FirstInv, Blank
  <2>4. CASE /\ fed' = fed + 1 /\ tasks' = Append(tasks, fed + 1)
             /\ UNCHANGED <<inputs, infos, surface, output, at, codec>>
    <3>1. Blank => Blank'
      BY <2>4 DEF Blank
    <3>2. CASE i \in 1 .. Len(tasks)
      <4>1. tasks[i] = 1
        BY <1>s, <1>2, <2>4, <3>2, AppendFacts
      <4> QED BY <3>1, <3>2, <4>1 DEF FirstInv
    <3>3. CASE i = Len(tasks) + 1
      <4>1. fed + 1 = 1
        BY <1>s, <1>2, <2>4, <3>3, AppendFacts
      <4>2. Blank /\ tasks = <<>>
        BY <1>s, <4>1 DEF FirstInv
      <4> QED BY <3>1, <3>3, <4>2
    <3> QED BY <1>s, <1>2, <2>4, <3>2, <3>3, AppendFacts
  <2>5. CASE tasks' = <<>>
    BY <1>2, <2>5
  <2> QED BY <1>m, <2>1, <2>2, <2>3, <2>4, <2>5
<1> QED BY <1>1, <1>2 DEF FirstInv

(* Each step keeps it first in inputBuffersQueue_.                         *)
LEMMA InputsStep == TypeInv /\ FirstInv /\ InputsInv /\ [Next]_vars => InputsInv'
<1> SUFFICES ASSUME TypeInv, FirstInv, InputsInv, [Next]_vars, decoding', ~Astray'
             PROVE  \A i \in 1 .. Len(inputs') : inputs'[i] = 1 => i = 1 /\ (~Queueing' /\ ~Popping' => Untouched')
  BY DEF InputsInv
<1>s. ShapeInv /\ QueuesInv /\ StageInv /\ OwnInv /\ CountInv
  BY DEF TypeInv
<1>e. inputs \in Seq(Positive) /\ Len(inputs) \in Nat /\ tasks \in Seq(Nat)
  BY <1>s DEF QueuesInv
<1>0. CASE /\ decoding /\ ~Astray /\ inputs' = inputs
           /\ Untouched /\ ~Queueing' /\ ~Popping' => Untouched' /\ ~Queueing /\ ~Popping
           /\ (~Queueing' /\ ~Popping' => ~Queueing /\ ~Popping)
  BY <1>0 DEF InputsInv
<1>1. CASE CreatePipeline
  <2>1. UNCHANGED <<inputs, infos, output, surface, at, held>>
    BY <1>1 DEF CreatePipeline, pVars
  <2>2. CASE Early
    BY <1>s, <2>1, <2>2 DEF StageInv, Blank
  <2>3. CASE ~Early
    <3>1. decoding /\ UNCHANGED <<codec, causes>>
      BY <1>1, <2>3 DEF Early, CreatePipeline, InitDecoder, InitNode, CreateDataProcessPipeline, CreationFails
    <3> QED BY <1>0, <2>1, <3>1 DEF Untouched, Queueing, Popping, Astray
  <2> QED BY <2>2, <2>3
<1>2. CASE Destroys(DestroyPipeline /\ UNCHANGED tasks) \/ Destroys(Destroying)
  <2>1. ~decoding'
    BY <1>2, <1>s DEF Destroys, Destroying, DestroyPipeline, ReleaseVideoDecoder, ReleaseCodecEvent, ReleaseProcessNode,
       JoinsPipeline, StageInv, Joining
  <2> QED BY <2>1
<1>3. CASE FeedStreamToContinue
  <2>1. UNCHANGED <<inputs, infos, output, surface, at, held, codec, decoding, causes>>
    BY <1>3 DEF FeedStreamToContinue, codecVars, nodeVars
  <2> QED BY <1>0, <2>1 DEF Untouched, Queueing, Popping, Astray
<1>4. CASE PassesThrough \/ ProcessData \/ FeedsAgain
  <2>1. UNCHANGED <<infos, output, surface, codec, decoding, causes>> /\ at = "idle" /\ tasks # <<>>
    BY <1>4 DEF PassesThrough, ProcessData, FeedsAgain, TakesTask, codecVars, nodeVars
  <2>2. ~Queueing /\ ~Popping /\ decoding /\ ~Astray /\ (Untouched => Untouched')
    BY <2>1 DEF Queueing, Popping, Astray, Untouched
  <2>3. CASE inputs' = inputs
    BY <1>0, <2>2, <2>3
  <2>4. CASE inputs' = Append(inputs, Head(tasks)) /\ Head(tasks) # Again
    <3>1. Head(tasks) \in Positive /\ Head(tasks) = tasks[1] /\ 1 \in 1 .. Len(tasks)
      BY <1>e, <2>1, <2>4, TailFacts DEF Again, Positive
    <3>2. Head(tasks) = 1 => Blank
      BY <3>1 DEF FirstInv
    <3>3. Blank => inputs = <<>> /\ Untouched
      BY DEF Blank, Untouched
    <3>4. ASSUME NEW i \in 1 .. Len(inputs'), inputs'[i] = 1 PROVE i = 1 /\ Untouched'
      <4>1. CASE i = Len(inputs) + 1
        <5>1. Head(tasks) = 1
          BY <1>e, <2>4, <3>1, <3>4, <4>1, AppendFacts
        <5>2. inputs = <<>> /\ Untouched'
          BY <2>2, <3>2, <3>3, <5>1
        <5> QED BY <4>1, <5>2
      <4>2. CASE i # Len(inputs) + 1
        <5>1. i \in 1 .. Len(inputs) /\ inputs[i] = 1
          BY <1>e, <2>4, <3>1, <3>4, <4>2, AppendFacts
        <5> QED BY <2>2, <5>1 DEF InputsInv
      <4> QED BY <4>1, <4>2
    <3> QED BY <3>4
  <2> QED BY <1>4, <2>3, <2>4 DEF PassesThrough, ProcessData, FeedsAgain
<1>5. ASSUME NEW again \in BOOLEAN, Feeds(again) PROVE InputsInv'
  <2>1. UNCHANGED <<inputs, output, surface, codec, decoding>> /\ ~Queueing /\ ~Popping /\ (Astray => Astray')
    BY <1>5 DEF Feeds, FeedDecoderInputBuffer, nodeVars, codecVars, Queueing, Popping, Astray
  <2>2. Queueing' \/ infos' = infos
    BY <1>5 DEF Feeds, FeedDecoderInputBuffer, Queueing
  <2> QED BY <2>1, <2>2 DEF InputsInv, Untouched
<1>6. ASSUME NEW again \in BOOLEAN, QueueInputBuffer(again) PROVE InputsInv'
  <2>1. UNCHANGED <<inputs, decoding>> /\ Queueing /\ (Astray => Astray') /\ UNCHANGED <<control, coded, decoder>>
    BY <1>6 DEF QueueInputBuffer, nodeVars, Queueing, Astray
  <2>2. decoding => decoder # "null"
    BY <1>s, <2>1 DEF StageInv, OwnInv
  <2>3. decoding /\ ~Astray' => Popping'
    BY <1>6, <2>2 DEF QueueInputBuffer, Popping, Astray
  <2> QED BY <2>1, <2>3 DEF InputsInv
<1>7. ASSUME NEW again \in BOOLEAN, PopsInput(again) PROVE InputsInv'
  <2>1. UNCHANGED <<decoding, causes>> /\ Popping
    BY <1>7 DEF PopsInput, nodeVars, Popping
  <2>2. decoding => inputs # <<>> /\ free # 0
    BY <1>s, <2>1 DEF StageInv, OwnInv, Emptied
  <2>3. decoding => inputs # <<>> /\ inputs' = Tail(inputs)
    BY <1>7, <2>2 DEF PopsInput
  <2>4. ASSUME decoding, ~Astray, NEW i \in 1 .. Len(inputs'), inputs'[i] = 1 PROVE FALSE
    <3>0. Len(inputs') = Len(inputs) - 1 /\ \A j \in 1 .. Len(inputs) - 1 : inputs'[j] = inputs[j + 1]
      BY <1>e, <2>3, <2>4, TailFacts
    <3>1. i + 1 \in 1 .. Len(inputs) /\ inputs[i + 1] = 1
      BY <1>e, <2>4, <3>0
    <3>2. i + 1 = 1
      BY <2>4, <3>1 DEF InputsInv
    <3> QED BY <2>4, <3>2
  <2> QED BY <2>1, <2>4 DEF InputsInv, Astray
<1>8. CASE CodecRuns
  <2>1. UNCHANGED <<inputs, decoding, at, held>> /\ (Astray => Astray')
    BY <1>8 DEF CodecRuns, OnInputBufferAvailable, TakesHead, OnOutputBufferAvailable, ReleaseOutputBuffer,
       OnSurfaceOutputBufferAvailable, nodeVars, Astray
  <2>2. Untouched => Untouched'
    <3> SUFFICES ASSUME Untouched PROVE Untouched'
      OBVIOUS
    <3>1. OnInputBufferAvailable
      BY <1>8 DEF Untouched, CodecRuns, TakesHead, OnOutputBufferAvailable, ReleaseOutputBuffer, OnSurfaceOutputBufferAvailable
    <3>2. codec'.queued = codec.queued
      BY <1>s, <3>1 DEF OnInputBufferAvailable, QueuesInv
    <3> QED BY <3>1, <3>2 DEF Untouched, OnInputBufferAvailable
  <2> QED BY <1>0, <2>1, <2>2 DEF Queueing, Popping
<1>9. CASE EventRuns
  <2>1. UNCHANGED <<inputs, decoding, at, held, codec, output>> /\ (Astray => Astray')
    BY <1>9 DEF EventRuns, GetDecoderOutputBuffer, CopyDecodedImage, PostOutputDataBuffers, DecodeDone, nodeVars, pVars, Astray
  <2>2. Untouched => Untouched'
    <3> SUFFICES ASSUME Untouched PROVE Untouched'
      OBVIOUS
    <3>1. ~GetDecoderOutputBuffer
      BY <1>s, PictureWaits DEF GetDecoderOutputBuffer, TakesEvent, Untouched
    <3> QED BY <1>9, <2>1, <3>1 DEF EventRuns, PostOutputDataBuffers, DecodeDone, Untouched
  <2> QED BY <1>0, <2>1, <2>2 DEF Queueing, Popping
<1>10. CASE OnError
  <2>1. UNCHANGED <<inputs, infos, output, surface, at, held, codec, causes>> /\ decoding
    BY <1>10 DEF OnError, OnErrorBegins, OnErrorTests, StopsDecoder, codecVars, pVars
  <2> QED BY <1>0, <2>1 DEF Untouched, Queueing, Popping, Astray
<1>11. CASE UNCHANGED vars
  <2>1. UNCHANGED <<inputs, infos, output, surface, at, held, codec, causes, decoding>>
    BY <1>11 DEF vars, codecVars, pVars, nodeVars
  <2> QED BY <1>0, <2>1 DEF Untouched, Queueing, Popping, Astray
<1>12. InputsInv' => \A i \in 1 .. Len(inputs') : inputs'[i] = 1 => i = 1 /\ (~Queueing' /\ ~Popping' => Untouched')
  BY DEF InputsInv
<1> QED BY <1>1, <1>2, <1>3, <1>4, <1>5, <1>6, <1>7, <1>8, <1>9, <1>10, <1>11, <1>12 DEF Next, PipelineRuns

----------------------------------------------------------------------------
(* frameInfoDeque_ has the infos of the pictures in the surface, then      *)
(* those of the frames in the codec, then the one P is about to queue; the *)
(* info of codec data that the codec has taken is still in front of them,  *)
(* until the first picture is aligned.                                     *)
InCodec == Len(codec.queued)
One == IF Queueing THEN 1 ELSE 0
HeadsInv == \A i \in 1 .. Len(infos) : infos[i].n = 1 => i = 1 /\ surface = <<>> /\ output = "none"
ShownInv ==
  ~Released => /\ Len(infos) >= Len(surface) + Pending
               /\ \A i \in 1 .. Len(surface) : infos[i].n = surface[i]
               /\ output = "aligned" => infos[Len(surface) + 1].n = codec.queued[1]
Line(k) ==
  /\ Len(infos) + Shown = k + Len(surface) + InCodec + One
  /\ k = 1 => surface = <<>> /\ output = "none" /\ infos[1].n = 1
  /\ \A i \in 1 .. Len(surface) : infos[k + i].n = surface[i]
  /\ \A i \in Shown + 1 .. InCodec : infos[k + Len(surface) + i - Shown].n = codec.queued[i]
  /\ Queueing => infos[Len(infos)].n = held
LineInv == decoding => Line(0) \/ Line(1)
InfoInv == Astray \/ (HeadsInv /\ ShownInv /\ LineInv)

(* The types of the queues, and that the codec has the picture it gives.   *)
LEMMA InfoFacts ==
  ASSUME TypeInv
  PROVE  /\ infos \in Seq(Infos) /\ inputs \in Seq(Positive) /\ surface \in Seq(Positive) /\ codec.queued \in Seq(Positive)
         /\ Len(infos) \in Nat /\ Len(inputs) \in Nat /\ Len(surface) \in Nat /\ InCodec \in Nat
         /\ Shown \in {0, 1} /\ Pending \in {0, 1} /\ One \in {0, 1}
         /\ output # "none" => InCodec >= 1 /\ codec.queued # <<>> /\ codec.queued[1] # 1
<1>1. infos \in Seq(Infos) /\ inputs \in Seq(Positive) /\ surface \in Seq(Positive) /\ codec.queued \in Seq(Positive)
  BY DEF TypeInv, QueuesInv
<1>2. output # "none" => codec.queued # <<>> /\ codec.queued[1] # 1
  BY DEF TypeInv, OwnInv, IsHead
<1> QED BY <1>1, <1>2, TailFacts DEF Shown, Pending, One, InCodec

(* A step that leaves infos and pictures alone.                            *)
LEMMA InfoQuiet ==
  ASSUME InfoInv, Astray => Astray', UNCHANGED <<infos, surface, output>>, codec.queued' = codec.queued,
         decoding' => decoding, Released => Released', decoding' => (Queueing' <=> Queueing),
         decoding' /\ Queueing => held' = held
  PROVE  InfoInv'
<1> SUFFICES ASSUME ~Astray, HeadsInv, ShownInv, LineInv PROVE HeadsInv' /\ ShownInv' /\ LineInv'
  BY DEF InfoInv
<1>1. HeadsInv'
  BY DEF HeadsInv
<1>2. ShownInv'
  BY DEF ShownInv, Pending
<1>3. LineInv'
  <2> SUFFICES ASSUME decoding' PROVE LineInv'
    BY DEF LineInv
  <2>1. One' = One /\ Shown' = Shown
    BY DEF One, Shown
  <2>2. ASSUME NEW k \in {0, 1}, Line(k) PROVE Line(k)'
    BY <2>1, <2>2 DEF Line, InCodec
  <2> QED BY <2>2 DEF LineInv
<1> QED BY <1>1, <1>2, <1>3

(* The info of the frame P is about to queue goes to the end.              *)
LEMMA InfoFeeds ==
  ASSUME TypeInv, InputsInv, InfoInv, NEW again \in BOOLEAN, Feeds(again)
  PROVE  InfoInv'
<1>f. /\ infos \in Seq(Infos) /\ inputs \in Seq(Positive) /\ surface \in Seq(Positive) /\ codec.queued \in Seq(Positive)
      /\ Len(infos) \in Nat /\ Len(inputs) \in Nat /\ Len(surface) \in Nat /\ InCodec \in Nat
      /\ Shown \in {0, 1} /\ Pending \in {0, 1} /\ One \in {0, 1}
      /\ output # "none" => InCodec >= 1 /\ codec.queued # <<>> /\ codec.queued[1] # 1
  BY InfoFacts
<1>a. /\ Len(infos) \in Nat /\ Len(surface) \in Nat /\ InCodec \in Nat
      /\ Shown \in Nat /\ Shown <= 1 /\ Pending \in Nat /\ One \in Nat
  BY <1>f
<1>1. /\ UNCHANGED <<inputs, surface, output, codec, decoding, control>>
      /\ ~Queueing /\ ~Popping /\ (Astray => Astray')
  BY DEF Feeds, FeedDecoderInputBuffer, nodeVars, codecVars, Queueing, Popping, Astray
<1>2. CASE infos' = infos /\ ~Queueing'
  BY <1>1, <1>2, InfoQuiet DEF Released
<1>3. CASE /\ decoding /\ inputs # <<>> /\ held' = Head(inputs) /\ Queueing'
           /\ infos' = Append(infos, Info(Head(inputs)))
  <2>1. inputs[1] \in Positive /\ Head(inputs) = inputs[1] /\ 1 \in 1 .. Len(inputs)
    BY <1>f, <1>3, TailFacts
  <2>2. Info(inputs[1]) \in Infos /\ Info(inputs[1]).n = inputs[1]
    BY <2>1, InfoKinds DEF Info
  <2>3. /\ Len(infos') = Len(infos) + 1 /\ infos'[Len(infos) + 1].n = inputs[1]
        /\ \A i \in 1 .. Len(infos) : infos'[i] = infos[i]
    BY <1>f, <1>3, <2>1, <2>2, AppendFacts
  <2> SUFFICES ASSUME ~Astray, HeadsInv, ShownInv, LineInv PROVE HeadsInv' /\ ShownInv' /\ LineInv'
    BY <1>1 DEF InfoInv
  <2>4. HeadsInv'
    <3>1. inputs[1] = 1 => infos = <<>> /\ surface = <<>> /\ output = "none"
      BY <1>1, <1>3, <2>1 DEF InputsInv, Untouched
    <3>2. ASSUME NEW i \in 1 .. Len(infos'), infos'[i].n = 1 PROVE i = 1 /\ surface = <<>> /\ output = "none"
      <4>1. CASE i = Len(infos) + 1
        BY <1>f, <2>3, <3>1, <3>2, <4>1
      <4>2. CASE i # Len(infos) + 1
        <5>1. i \in 1 .. Len(infos) /\ infos[i].n = 1
          BY <1>f, <2>3, <3>2, <4>2
        <5> QED BY <5>1 DEF HeadsInv
      <4> QED BY <4>1, <4>2
    <3> QED BY <1>1, <3>2 DEF HeadsInv
  <2>5. ShownInv'
    <3> SUFFICES ASSUME ~Released PROVE ShownInv'
      BY <1>1 DEF ShownInv, Released
    <3>1. Len(infos) >= Len(surface) + Pending
      BY DEF ShownInv
    <3>2. Pending' = Pending
      BY <1>1 DEF Pending
    <3>3. \A i \in 1 .. Len(surface) : infos'[i].n = surface[i]
      <4> TAKE i \in 1 .. Len(surface)
      <4>1. i \in 1 .. Len(infos)
        BY <1>f, <3>1
      <4> QED BY <2>3, <4>1 DEF ShownInv
    <3>4. output = "aligned" => infos'[Len(surface) + 1].n = codec.queued[1]
      <4> HAVE output = "aligned"
      <4>1. Len(surface) + 1 \in 1 .. Len(infos)
        BY <1>f, <3>1 DEF Pending
      <4> QED BY <2>3, <4>1 DEF ShownInv
    <3>5. Len(infos') >= Len(surface) + Pending'
      BY <1>f, <2>3, <3>1, <3>2
    <3> QED BY <1>1, <3>3, <3>4, <3>5 DEF ShownInv
  <2>6. ASSUME NEW k \in {0, 1}, Line(k) PROVE Line(k)'
    <3>1. One = 0 /\ One' = 1 /\ Shown' = Shown
      BY <1>1, <1>3 DEF One, Shown
    <3>2. Len(infos) + Shown = k + Len(surface) + InCodec
      <4>1. Len(infos) + Shown = k + Len(surface) + InCodec + One
        BY <2>6 DEF Line
      <4> QED BY <1>a, <3>1, <4>1
    <3>3. Shown = 1 => InCodec >= 1
      BY <1>f DEF Shown
    <3>4. Len(infos') + Shown = k + Len(surface) + InCodec + 1
      BY <1>f, <2>3, <3>2
    <3>5. ASSUME k = 1 PROVE surface = <<>> /\ output = "none" /\ infos'[1].n = 1
      <4>1. surface = <<>> /\ output = "none" /\ infos[1].n = 1
        BY <2>6, <3>5 DEF Line
      <4>2. 1 \in 1 .. Len(infos)
        BY <1>f, <3>2, <3>5, <4>1 DEF Shown
      <4> QED BY <2>3, <4>1, <4>2
    <3>6. \A i \in 1 .. Len(surface) : infos'[k + i].n = surface[i]
      <4> TAKE i \in 1 .. Len(surface)
      <4>1. k + i \in 1 .. Len(infos)
        BY <1>a, <3>2, <3>3
      <4>2. infos[k + i].n = surface[i]
        BY <2>6 DEF Line
      <4> QED BY <2>3, <4>1, <4>2
    <3>7. \A i \in Shown + 1 .. InCodec : infos'[k + Len(surface) + i - Shown].n = codec.queued[i]
      <4> TAKE i \in Shown + 1 .. InCodec
      <4>1. k + Len(surface) + i - Shown \in 1 .. Len(infos)
        BY <1>a, <3>2
      <4>2. infos[k + Len(surface) + i - Shown].n = codec.queued[i]
        BY <2>6 DEF Line
      <4> QED BY <2>3, <4>1, <4>2
    <3>8. infos'[Len(infos')].n = held'
      BY <1>3, <2>1, <2>3
    <3>9. InCodec' = InCodec
      BY <1>1 DEF InCodec
    <3> QED BY <1>1, <3>1, <3>4, <3>5, <3>6, <3>7, <3>8, <3>9 DEF Line
  <2> QED BY <1>1, <1>3, <2>4, <2>5, <2>6 DEF LineInv
<1>4. \/ infos' = infos /\ ~Queueing'
      \/ /\ decoding /\ inputs # <<>> /\ held' = Head(inputs) /\ Queueing'
         /\ infos' = Append(infos, Info(Head(inputs)))
  BY DEF Feeds, FeedDecoderInputBuffer, Failed, Queueing, Info
<1> QED BY <1>2, <1>3, <1>4

(* The frame goes to the codec behind the others.                          *)
LEMMA InfoQueued ==
  ASSUME TypeInv, InfoInv, NEW again \in BOOLEAN, QueueInputBuffer(again)
  PROVE  InfoInv'
<1>f. /\ infos \in Seq(Infos) /\ inputs \in Seq(Positive) /\ surface \in Seq(Positive) /\ codec.queued \in Seq(Positive)
      /\ Len(infos) \in Nat /\ Len(inputs) \in Nat /\ Len(surface) \in Nat /\ InCodec \in Nat
      /\ Shown \in {0, 1} /\ Pending \in {0, 1} /\ One \in {0, 1}
      /\ output # "none" => InCodec >= 1 /\ codec.queued # <<>> /\ codec.queued[1] # 1
  BY InfoFacts
<1>a. /\ Len(infos) \in Nat /\ Len(surface) \in Nat /\ InCodec \in Nat
      /\ Shown \in Nat /\ Shown <= 1 /\ Pending \in Nat /\ One \in Nat
  BY <1>f
<1>s. ShapeInv /\ QueuesInv /\ StageInv /\ OwnInv
  BY DEF TypeInv
<1>1. UNCHANGED <<infos, surface, output, decoding, control>> /\ Queueing /\ ~Queueing' /\ (Astray => Astray')
  BY DEF QueueInputBuffer, Failed, nodeVars, Queueing, Astray
<1> SUFFICES ASSUME ~Astray', ~Astray, HeadsInv, ShownInv, LineInv PROVE HeadsInv' /\ ShownInv' /\ LineInv'
  BY <1>1 DEF InfoInv
<1>2. HeadsInv'
  BY <1>1 DEF HeadsInv
<1>3. CASE codec' = codec
  <2>1. ~decoding
    <3>1. coded
      BY <1>s, <1>1 DEF OwnInv
    <3>2. decoder = "null"
      <4>1. CASE codec' = [codec EXCEPT !.queued = Append(codec.queued, held)]
        <5>1. codec'.queued = Append(codec.queued, held) /\ held \in Positive
          BY <1>s, <1>1, <4>1 DEF QueuesInv, OwnInv
        <5>2. InCodec' = InCodec + 1
          BY <1>f, <5>1, AppendFacts DEF InCodec
        <5>3. InCodec' = InCodec
          BY <1>3 DEF InCodec
        <5> QED BY <1>f, <5>2, <5>3
      <4> QED BY <4>1 DEF QueueInputBuffer, Astray
    <3> QED BY <1>s, <3>1, <3>2 DEF StageInv
  <2>2. ShownInv'
    BY <1>1, <1>3 DEF ShownInv, Released, Pending
  <2> QED BY <1>1, <1>2, <2>1, <2>2 DEF LineInv
<1>4. CASE codec' = [codec EXCEPT !.queued = Append(codec.queued, held)]
  <2>1. codec'.queued = Append(codec.queued, held) /\ held \in Positive
    BY <1>s, <1>1, <1>4 DEF QueuesInv, OwnInv
  <2>2. /\ InCodec' = InCodec + 1 /\ codec'.queued[InCodec + 1] = held
        /\ \A i \in 1 .. InCodec : codec'.queued[i] = codec.queued[i]
    BY <1>f, <2>1, AppendFacts DEF InCodec
  <2>3. ShownInv'
    <3>1. output = "aligned" => codec'.queued[1] = codec.queued[1]
      <4> HAVE output = "aligned"
      <4>1. 1 \in 1 .. InCodec
        BY <1>f
      <4> QED BY <2>2, <4>1
    <3> QED BY <1>1, <3>1 DEF ShownInv, Released, Pending
  <2>4. ASSUME NEW k \in {0, 1}, Line(k) PROVE Line(k)'
    <3>1. One = 1 /\ One' = 0 /\ Shown' = Shown
      BY <1>1 DEF One, Shown
    <3>2. Len(infos) + Shown = k + Len(surface) + InCodec + 1
      BY <2>4, <3>1 DEF Line
    <3>3. Len(infos) + Shown = k + Len(surface) + InCodec' + 0
      <4>1. InCodec' = InCodec + 1
        BY <2>2
      <4> QED BY <1>a, <3>2, <4>1
    <3>4. \A i \in Shown + 1 .. InCodec' : infos[k + Len(surface) + i - Shown].n = codec'.queued[i]
      <4> TAKE i \in Shown + 1 .. InCodec'
      <4>1. CASE i = InCodec + 1
        <5>1. k + Len(surface) + i - Shown = Len(infos)
          BY <1>a, <3>2, <4>1
        <5>2. infos[Len(infos)].n = held
          BY <1>1, <2>4 DEF Line
        <5> QED BY <2>2, <4>1, <5>1, <5>2
      <4>2. CASE i # InCodec + 1
        <5>1. i \in Shown + 1 .. InCodec /\ i \in 1 .. InCodec
          BY <1>f, <2>2, <4>2
        <5> QED BY <2>2, <2>4, <5>1 DEF Line
      <4> QED BY <4>1, <4>2
    <3> QED BY <1>1, <2>4, <3>1, <3>3, <3>4 DEF Line
  <2> QED BY <1>1, <1>2, <2>3, <2>4 DEF LineInv
<1> QED BY <1>3, <1>4 DEF QueueInputBuffer

(* The codec takes codec data: its info stays.                             *)
LEMMA InfoTakesHead ==
  ASSUME TypeInv, InfoInv, TakesHead, CodecRuns
  PROVE  InfoInv'
<1>f. /\ infos \in Seq(Infos) /\ inputs \in Seq(Positive) /\ surface \in Seq(Positive) /\ codec.queued \in Seq(Positive)
      /\ output # "none" => InCodec >= 1 /\ codec.queued # <<>> /\ codec.queued[1] # 1
  BY InfoFacts
<1>a. /\ Len(infos) \in Nat /\ Len(surface) \in Nat /\ InCodec \in Nat
      /\ Shown \in Nat /\ Shown <= 1 /\ Pending \in Nat /\ One \in Nat
  BY InfoFacts
<1>1. /\ UNCHANGED <<infos, surface, output, decoding, control, at, held, causes>> /\ output = "none"
      /\ codec.queued # <<>> /\ codec'.queued = Tail(codec.queued)
  BY DEF TakesHead, CodecRuns, nodeVars, Consumed
<1>2. /\ codec.queued[1] = 1 /\ InCodec' = InCodec - 1 /\ InCodec >= 1
      /\ \A i \in 1 .. InCodec - 1 : codec'.queued[i] = codec.queued[i + 1]
  BY <1>f, <1>1, TailFacts DEF TakesHead, InCodec, IsHead
<1> SUFFICES ASSUME ~Astray, HeadsInv, ShownInv, LineInv PROVE HeadsInv' /\ ShownInv' /\ LineInv'
  BY <1>1 DEF InfoInv, Astray
<1>3. HeadsInv'
  BY <1>1 DEF HeadsInv
<1>4. ShownInv'
  BY <1>1 DEF ShownInv, Released, Pending
<1>5. ASSUME NEW k \in {0, 1}, Line(k) PROVE Line(1)'
  <2>1. Shown = 0 /\ Shown' = 0 /\ One' = One
    BY <1>1 DEF Shown, One, Queueing
  <2>2. Len(infos) + Shown = k + Len(surface) + InCodec + One
    BY <1>5 DEF Line
  <2>3. k + Len(surface) + 1 \in 1 .. Len(infos) /\ infos[k + Len(surface) + 1].n = 1
    <3>1. 1 \in Shown + 1 .. InCodec
      BY <1>a, <1>2, <2>1
    <3>2. infos[k + Len(surface) + 1 - Shown].n = codec.queued[1]
      BY <1>5, <3>1 DEF Line
    <3>3. k + Len(surface) + 1 - Shown = k + Len(surface) + 1
      BY <1>a, <2>1
    <3>4. k + Len(surface) + 1 \in 1 .. Len(infos)
      BY <1>a, <1>2, <2>1, <2>2
    <3> QED BY <1>2, <3>2, <3>3, <3>4
  <2>4. k + Len(surface) + 1 = 1 /\ surface = <<>>
    BY <2>3 DEF HeadsInv
  <2>5. k = 0 /\ Len(surface) = 0
    BY <1>a, <2>4
  <2>6. infos[1].n = 1
    BY <2>3, <2>4
  <2>7. Len(infos) + 0 = 1 + Len(surface) + InCodec' + One
    BY <1>a, <1>2, <2>1, <2>2, <2>5
  <2>8. \A i \in 0 + 1 .. InCodec' : infos[1 + Len(surface) + i - 0].n = codec'.queued[i]
    <3> TAKE i \in 0 + 1 .. InCodec'
    <3>1. i \in 1 .. InCodec - 1 /\ i + 1 \in Shown + 1 .. InCodec
      BY <1>a, <1>2, <2>1
    <3>2. infos[k + Len(surface) + (i + 1) - Shown].n = codec.queued[i + 1]
      BY <1>5, <3>1 DEF Line
    <3>3. k + Len(surface) + (i + 1) - Shown = 1 + Len(surface) + i - 0
      BY <1>a, <2>1, <2>5
    <3> QED BY <1>2, <3>1, <3>2, <3>3
  <2>9. Queueing' => infos[Len(infos)].n = held
    BY <1>1, <1>5 DEF Line, Queueing
  <2>10. \A i \in 1 .. Len(surface) : infos[1 + i].n = surface[i]
    BY <2>5
  <2> QED BY <1>1, <2>1, <2>4, <2>6, <2>7, <2>8, <2>9, <2>10 DEF Line
<1> QED BY <1>1, <1>3, <1>4, <1>5 DEF LineInv

(* The codec has a picture: the info in front is now that of its frame.    *)
LEMMA InfoAligns ==
  ASSUME TypeInv, InfoInv, OnOutputBufferAvailable, CodecRuns
  PROVE  InfoInv'
<1>f. /\ infos \in Seq(Infos) /\ inputs \in Seq(Positive) /\ surface \in Seq(Positive) /\ codec.queued \in Seq(Positive)
      /\ output # "none" => InCodec >= 1 /\ codec.queued # <<>> /\ codec.queued[1] # 1
  BY InfoFacts
<1>a. /\ Len(infos) \in Nat /\ Len(surface) \in Nat /\ InCodec \in Nat
      /\ Shown \in Nat /\ Shown <= 1 /\ Pending \in Nat /\ One \in Nat
  BY InfoFacts
<1>1. /\ UNCHANGED <<surface, decoding, control, at, held, causes>> /\ output = "none"
      /\ codec.queued # <<>>
  BY DEF OnOutputBufferAvailable, CodecRuns, nodeVars
<1>2. codec.queued[1] # 1 /\ InCodec >= 1
  BY <1>f, <1>1, TailFacts DEF OnOutputBufferAvailable, InCodec, IsHead
<1> SUFFICES ASSUME ~Astray, HeadsInv, ShownInv, LineInv PROVE HeadsInv' /\ ShownInv' /\ LineInv'
  BY <1>1 DEF InfoInv, Astray
<1>3. CASE ~decoding
  <2>1. UNCHANGED <<infos, output>>
    BY <1>3 DEF OnOutputBufferAvailable
  <2>2. HeadsInv' /\ LineInv'
    BY <1>1, <1>3, <2>1 DEF HeadsInv, LineInv
  <2>3. ShownInv'
    BY <1>1, <2>1 DEF ShownInv, Released, Pending
  <2> QED BY <2>2, <2>3
<1>4. ASSUME decoding, NEW k \in {0, 1}, Line(k) PROVE HeadsInv' /\ ShownInv' /\ LineInv'
  <2>1. output' = "aligned" /\ codec' = codec /\ Shown = 0 /\ Shown' = 0 /\ One' = One /\ Pending' = 1 /\ InCodec' = InCodec
    BY <1>1, <1>4 DEF OnOutputBufferAvailable, Shown, One, Pending, Queueing, InCodec
  <2>2. Len(infos) + Shown = k + Len(surface) + InCodec + One
    BY <1>4 DEF Line
  <2>3. Len(infos) >= k + Len(surface) + 1
    BY <1>a, <1>2, <2>1, <2>2
  <2>4. infos[k + Len(surface) + 1].n # 1
    <3>1. 1 \in Shown + 1 .. InCodec
      BY <1>a, <1>2, <2>1
    <3>2. infos[k + Len(surface) + 1 - Shown].n = codec.queued[1]
      BY <1>4, <3>1 DEF Line
    <3>3. k + Len(surface) + 1 - Shown = k + Len(surface) + 1
      BY <1>a, <2>1
    <3> QED BY <1>2, <3>2, <3>3
  <2>5. infos[1] \in Infos /\ infos # <<>>
    BY <1>f, <1>a, <2>3
  <2>6. infos[1].head <=> infos[1].n = 1
    BY <2>5, InfoKinds DEF Info, IsHead
  <2>7. k = 0 => infos[1].n # 1
    <3> SUFFICES ASSUME k = 0, infos[1].n = 1 PROVE FALSE
      OBVIOUS
    <3>1. 1 \in 1 .. Len(infos)
      BY <1>a, <2>3
    <3>2. surface = <<>>
      BY <3>1 DEF HeadsInv
    <3>3. k + Len(surface) + 1 = 1
      BY <3>2
    <3> QED BY <2>4, <3>3
  <2> DEFINE New(x) == /\ Len(infos') = Len(infos) - k
                       /\ \A i \in 1 .. Len(infos) - k : infos'[i] = infos[i + k]
  <2>8. New(1)
    <3>1. CASE k = 1
      <4>1. infos[1].n = 1 /\ Len(infos) >= 2
        BY <1>a, <1>4, <2>3, <3>1 DEF Line
      <4>2. infos' = Tail(infos)
        BY <1>4, <2>6, <4>1 DEF OnOutputBufferAvailable, AlignFirstFrameTime
      <4> QED BY <1>f, <2>5, <3>1, <4>2, TailFacts
    <3>2. CASE k = 0
      <4>1. infos' = infos
        BY <1>4, <2>6, <2>7, <3>2 DEF OnOutputBufferAvailable, AlignFirstFrameTime
      <4> QED BY <1>a, <3>2, <4>1
    <3> QED BY <3>1, <3>2
  <2>9. HeadsInv'
    <3> SUFFICES ASSUME NEW i \in 1 .. Len(infos'), infos'[i].n = 1 PROVE FALSE
      BY DEF HeadsInv
    <3>1. i + k \in 1 .. Len(infos) /\ infos[i + k].n = 1
      BY <1>a, <2>8
    <3>2. i + k = 1
      BY <3>1 DEF HeadsInv
    <3>3. k = 0 /\ i = 1
      BY <3>2
    <3> QED BY <2>7, <3>1, <3>2, <3>3
  <2>10. \A i \in 1 .. Len(surface) : infos'[i].n = surface[i]
    <3> TAKE i \in 1 .. Len(surface)
    <3>1. i \in 1 .. Len(infos) - k
      BY <1>a, <2>3
    <3>2. infos[k + i].n = surface[i]
      BY <1>4 DEF Line
    <3>3. k + i = i + k
      OBVIOUS
    <3> QED BY <2>8, <3>1, <3>2, <3>3
  <2>11. \A i \in 1 .. InCodec : infos'[Len(surface) + i].n = codec.queued[i]
    <3> TAKE i \in 1 .. InCodec
    <3>1. Len(surface) + i \in 1 .. Len(infos) - k /\ i \in Shown + 1 .. InCodec
      BY <1>a, <2>1, <2>2
    <3>2. infos[k + Len(surface) + i - Shown].n = codec.queued[i]
      BY <1>4, <3>1 DEF Line
    <3>3. k + Len(surface) + i - Shown = (Len(surface) + i) + k
      BY <1>a, <2>1
    <3> QED BY <2>8, <3>1, <3>2, <3>3
  <2>12. ShownInv'
    <3>1. Len(infos') >= Len(surface) + Pending'
      BY <1>a, <2>1, <2>3, <2>8
    <3>2. infos'[Len(surface) + 1].n = codec.queued[1]
      <4>1. 1 \in 1 .. InCodec
        BY <1>a, <1>2
      <4> QED BY <2>11, <4>1
    <3> QED BY <1>1, <2>1, <2>10, <3>1, <3>2 DEF ShownInv
  <2>13. Line(0)'
    <3>1. Len(infos') + 0 = 0 + Len(surface) + InCodec + One
      BY <1>a, <2>1, <2>2, <2>8
    <3>2. \A i \in 1 .. Len(surface) : infos'[0 + i].n = surface[i]
      BY <2>10
    <3>3. \A i \in 0 + 1 .. InCodec : infos'[0 + Len(surface) + i - 0].n = codec.queued[i]
      <4> TAKE i \in 0 + 1 .. InCodec
      <4>1. i \in 1 .. InCodec /\ 0 + Len(surface) + i - 0 = Len(surface) + i
        BY <1>a
      <4> QED BY <2>11, <4>1
    <3>4. Queueing' => infos'[Len(infos')].n = held
      <4> HAVE Queueing'
      <4>1. Queueing /\ infos[Len(infos)].n = held
        BY <1>1, <1>4 DEF Line, Queueing
      <4>2. Len(infos') \in 1 .. Len(infos) - k /\ Len(infos') + k = Len(infos)
        BY <1>a, <2>3, <2>8
      <4> QED BY <2>8, <4>1, <4>2
    <3> QED BY <1>1, <2>1, <3>1, <3>2, <3>3, <3>4 DEF Line
  <2> QED BY <2>9, <2>12, <2>13 DEF LineInv
<1> QED BY <1>3, <1>4 DEF LineInv

(* The picture is rendered to the surface, behind the others.              *)
LEMMA InfoRenders ==
  ASSUME TypeInv, InfoInv, ReleaseOutputBuffer, CodecRuns
  PROVE  InfoInv'
<1>f. /\ infos \in Seq(Infos) /\ inputs \in Seq(Positive) /\ surface \in Seq(Positive) /\ codec.queued \in Seq(Positive)
      /\ output # "none" => InCodec >= 1 /\ codec.queued # <<>> /\ codec.queued[1] # 1
  BY InfoFacts
<1>a. /\ Len(infos) \in Nat /\ Len(surface) \in Nat /\ InCodec \in Nat
      /\ Shown \in Nat /\ Shown <= 1 /\ Pending \in Nat /\ One \in Nat
  BY InfoFacts
<1>1. UNCHANGED <<infos, decoding, control, at, held>> /\ output = "aligned" /\ (Astray => Astray')
  BY DEF ReleaseOutputBuffer, CodecRuns, nodeVars, Astray
<1> SUFFICES ASSUME ~Astray', ~Astray, HeadsInv, ShownInv, LineInv PROVE HeadsInv' /\ ShownInv' /\ LineInv'
  BY <1>1 DEF InfoInv
<1>2. output' = "rendered" /\ surface' = Append(surface, codec.queued[1]) /\ codec' = codec
  <2>1. output' = "rendered" /\ surface' = Append(surface, Head(codec.queued)) /\ codec' = codec
    BY DEF ReleaseOutputBuffer, Astray
  <2> QED BY <1>f, <1>1, <2>1, TailFacts
<1>3. /\ Len(surface') = Len(surface) + 1 /\ surface'[Len(surface) + 1] = codec.queued[1]
      /\ \A i \in 1 .. Len(surface) : surface'[i] = surface[i]
  <2>1. codec.queued[1] \in Positive
    BY <1>f, <1>1, TailFacts
  <2> QED BY <1>f, <1>2, <2>1, AppendFacts
<1>4. HeadsInv'
  BY <1>1 DEF HeadsInv
<1>5. ShownInv'
  <2> SUFFICES ASSUME ~Released PROVE ShownInv'
    BY <1>1 DEF ShownInv, Released
  <2>1. Pending = 1 /\ Pending' = 0
    BY <1>1, <1>2 DEF Pending
  <2>2. Len(infos) >= Len(surface) + Pending
    BY DEF ShownInv
  <2>3. Len(infos) >= Len(surface') + Pending'
    BY <1>a, <1>3, <2>1, <2>2
  <2>4. ASSUME NEW i \in 1 .. Len(surface') PROVE infos[i].n = surface'[i]
    <3>1. CASE i = Len(surface) + 1
      BY <1>1, <1>3, <3>1 DEF ShownInv
    <3>2. CASE i # Len(surface) + 1
      <4>1. i \in 1 .. Len(surface)
        BY <1>a, <1>3, <3>2
      <4> QED BY <1>3, <4>1 DEF ShownInv
    <3> QED BY <3>1, <3>2
  <2> QED BY <1>1, <1>2, <2>3, <2>4 DEF ShownInv
<1>6. ASSUME Line(1) PROVE FALSE
  BY <1>1, <1>6 DEF Line
<1>7. ASSUME Line(0) PROVE Line(0)'
  <2>1. Shown = 0 /\ Shown' = 1 /\ One' = One /\ InCodec' = InCodec /\ InCodec >= 1
    BY <1>f, <1>1, <1>2 DEF Shown, One, Queueing, InCodec
  <2>2. Len(infos) + Shown = 0 + Len(surface) + InCodec + One
    BY <1>7 DEF Line
  <2>3. Len(infos) + 1 = 0 + Len(surface') + InCodec + One
    BY <1>a, <1>3, <2>1, <2>2
  <2>4. \A i \in Shown + 1 .. InCodec : infos[0 + Len(surface) + i - Shown].n = codec.queued[i]
    BY <1>7 DEF Line
  <2>5. \A i \in 1 .. InCodec : infos[Len(surface) + i].n = codec.queued[i]
    <3> TAKE i \in 1 .. InCodec
    <3>1. i \in Shown + 1 .. InCodec /\ 0 + Len(surface) + i - Shown = Len(surface) + i
      BY <1>a, <2>1
    <3> QED BY <2>4, <3>1
  <2>6. \A i \in 1 .. Len(surface') : infos[0 + i].n = surface'[i]
    <3> TAKE i \in 1 .. Len(surface')
    <3>1. CASE i = Len(surface) + 1
      <4>1. 1 \in 1 .. InCodec /\ 0 + i = Len(surface) + 1
        BY <1>a, <2>1, <3>1
      <4> QED BY <1>3, <2>5, <3>1, <4>1
    <3>2. CASE i # Len(surface) + 1
      <4>1. i \in 1 .. Len(surface)
        BY <1>a, <1>3, <3>2
      <4> QED BY <1>3, <1>7, <4>1 DEF Line
    <3> QED BY <3>1, <3>2
  <2>7. \A i \in 1 + 1 .. InCodec : infos[0 + Len(surface') + i - 1].n = codec.queued[i]
    <3> TAKE i \in 1 + 1 .. InCodec
    <3>1. i \in 1 .. InCodec /\ 0 + Len(surface') + i - 1 = Len(surface) + i
      BY <1>a, <1>3
    <3> QED BY <2>5, <3>1
  <2>8. Queueing' => infos[Len(infos)].n = held
    BY <1>1, <1>7 DEF Line, Queueing
  <2> QED BY <1>1, <1>2, <2>1, <2>3, <2>6, <2>7, <2>8 DEF Line
<1> QED BY <1>1, <1>4, <1>5, <1>6, <1>7 DEF LineInv

(* The codec gives up the frame of the picture it has rendered.            *)
LEMMA InfoConsumed ==
  ASSUME TypeInv, InfoInv, OnSurfaceOutputBufferAvailable, CodecRuns
  PROVE  InfoInv'
<1>f. /\ infos \in Seq(Infos) /\ inputs \in Seq(Positive) /\ surface \in Seq(Positive) /\ codec.queued \in Seq(Positive)
      /\ output # "none" => InCodec >= 1 /\ codec.queued # <<>> /\ codec.queued[1] # 1
  BY InfoFacts
<1>a. /\ Len(infos) \in Nat /\ Len(surface) \in Nat /\ InCodec \in Nat
      /\ Shown \in Nat /\ Shown <= 1 /\ Pending \in Nat /\ One \in Nat
  BY InfoFacts
<1>1. /\ UNCHANGED <<infos, surface, decoding, control, at, held, causes>> /\ output = "rendered" /\ output' = "none"
      /\ codec'.queued = Tail(codec.queued) /\ codec.queued # <<>>
  BY <1>f DEF OnSurfaceOutputBufferAvailable, CodecRuns, nodeVars, Consumed
<1>2. InCodec' = InCodec - 1 /\ InCodec >= 1 /\ \A i \in 1 .. InCodec - 1 : codec'.queued[i] = codec.queued[i + 1]
  BY <1>f, <1>1, TailFacts DEF InCodec
<1> SUFFICES ASSUME ~Astray, HeadsInv, ShownInv, LineInv PROVE HeadsInv' /\ ShownInv' /\ LineInv'
  BY <1>1 DEF InfoInv, Astray
<1>3. HeadsInv'
  BY <1>1 DEF HeadsInv
<1>4. ShownInv'
  BY <1>1 DEF ShownInv, Released, Pending
<1>5. ASSUME Line(1) PROVE FALSE
  BY <1>1, <1>5 DEF Line
<1>6. ASSUME Line(0) PROVE Line(0)'
  <2>1. Shown = 1 /\ Shown' = 0 /\ One' = One
    BY <1>1 DEF Shown, One, Queueing
  <2>2. Len(infos) + Shown = 0 + Len(surface) + InCodec + One
    BY <1>6 DEF Line
  <2>3. Len(infos) + 0 = 0 + Len(surface) + InCodec' + One
    BY <1>a, <1>2, <2>1, <2>2
  <2>4. \A i \in 0 + 1 .. InCodec' : infos[0 + Len(surface) + i - 0].n = codec'.queued[i]
    <3> TAKE i \in 0 + 1 .. InCodec'
    <3>1. i \in 1 .. InCodec - 1 /\ i + 1 \in Shown + 1 .. InCodec
      BY <1>a, <1>2, <2>1
    <3>2. infos[0 + Len(surface) + (i + 1) - Shown].n = codec.queued[i + 1]
      BY <1>6, <3>1 DEF Line
    <3>3. 0 + Len(surface) + (i + 1) - Shown = 0 + Len(surface) + i - 0
      BY <1>a, <2>1
    <3> QED BY <1>2, <3>1, <3>2, <3>3
  <2>5. Queueing' => infos[Len(infos)].n = held
    BY <1>1, <1>6 DEF Line, Queueing
  <2> QED BY <1>1, <1>6, <2>1, <2>3, <2>4, <2>5 DEF Line
<1> QED BY <1>1, <1>3, <1>4, <1>5, <1>6 DEF LineInv

(* E takes the oldest picture with the oldest info, its own.               *)
LEMMA InfoCopies ==
  ASSUME TypeInv, InfoInv, GetDecoderOutputBuffer, EventRuns
  PROVE  InfoInv' /\ (eAt' = "post" => Astray' \/ picture'.n = picture'.info)
<1>f. /\ infos \in Seq(Infos) /\ inputs \in Seq(Positive) /\ surface \in Seq(Positive) /\ codec.queued \in Seq(Positive)
      /\ output # "none" => InCodec >= 1 /\ codec.queued # <<>> /\ codec.queued[1] # 1
  BY InfoFacts
<1>a. /\ Len(infos) \in Nat /\ Len(surface) \in Nat /\ InCodec \in Nat
      /\ Shown \in Nat /\ Shown <= 1 /\ Pending \in Nat /\ One \in Nat
  BY InfoFacts
<1>1. UNCHANGED <<decoding, control, at, held, codec, output>> /\ eAt = "idle" /\ (Astray => Astray')
  BY DEF EventRuns, GetDecoderOutputBuffer, CopyDecodedImage, TakesEvent, nodeVars, pVars, Astray
<1>2. surface # <<>> /\ Len(surface) >= 1 + Shown
  BY PictureWaits DEF GetDecoderOutputBuffer, TakesEvent, TypeInv
<1>r. ~Released
  BY <1>1 DEF TypeInv, StageInv
<1>3. /\ surface' = Tail(surface) /\ Len(surface') = Len(surface) - 1
      /\ Head(surface) = surface[1] /\ \A i \in 1 .. Len(surface) - 1 : surface'[i] = surface[i + 1]
  <2>1. surface' = Tail(surface)
    BY DEF GetDecoderOutputBuffer, CopyDecodedImage
  <2> QED BY <1>f, <1>2, <2>1, TailFacts
<1> SUFFICES ASSUME ~Astray', ~Astray, HeadsInv, ShownInv, LineInv
             PROVE  HeadsInv' /\ ShownInv' /\ LineInv' /\ (eAt' = "post" => picture'.n = picture'.info)
  BY <1>1 DEF InfoInv
<1>4. Len(infos) >= Len(surface) + Pending /\ Len(infos) >= 1
  <2>1. Len(infos) >= Len(surface) + Pending
    BY <1>r DEF ShownInv
  <2> QED BY <1>a, <1>2, <2>1
<1>5. /\ infos # <<>> /\ infos' = Tail(infos) /\ Len(infos') = Len(infos) - 1
      /\ Head(infos) = infos[1] /\ \A i \in 1 .. Len(infos) - 1 : infos'[i] = infos[i + 1]
  <2>1. infos # <<>>
    BY <1>f, <1>4
  <2>2. infos' = Tail(infos)
    BY <2>1 DEF GetDecoderOutputBuffer, CopyDecodedImage, Astray
  <2> QED BY <1>f, <2>1, <2>2, TailFacts
<1>6. picture' = [n |-> Head(surface), info |-> Head(infos).n]
  BY <1>5 DEF GetDecoderOutputBuffer, CopyDecodedImage, Astray
<1>7. picture'.n = picture'.info
  <2>1. 1 \in 1 .. Len(surface)
    BY <1>a, <1>2
  <2>2. infos[1].n = surface[1]
    BY <1>r, <2>1 DEF ShownInv
  <2> QED BY <1>3, <1>5, <1>6, <2>2
<1>8. HeadsInv'
  <2> SUFFICES ASSUME NEW i \in 1 .. Len(infos'), infos'[i].n = 1 PROVE FALSE
    BY DEF HeadsInv
  <2>1. i + 1 \in 1 .. Len(infos) /\ infos[i + 1].n = 1
    BY <1>a, <1>5
  <2> QED BY <1>2, <2>1 DEF HeadsInv
<1>9. ShownInv'
  <2>1. Pending' = Pending
    BY <1>1 DEF Pending
  <2>2. Len(infos') >= Len(surface') + Pending'
    BY <1>a, <1>3, <1>4, <1>5, <2>1
  <2>3. \A i \in 1 .. Len(surface') : infos'[i].n = surface'[i]
    <3> TAKE i \in 1 .. Len(surface')
    <3>1. i \in 1 .. Len(surface) - 1 /\ i \in 1 .. Len(infos) - 1 /\ i + 1 \in 1 .. Len(surface)
      BY <1>a, <1>3, <1>4
    <3> QED BY <1>r, <1>3, <1>5, <3>1 DEF ShownInv
  <2>4. output = "aligned" => infos'[Len(surface') + 1].n = codec.queued[1]
    <3> HAVE output = "aligned"
    <3>1. Pending = 1
      BY DEF Pending
    <3>2. Len(surface') + 1 = Len(surface) /\ Len(surface) \in 1 .. Len(infos) - 1
      BY <1>a, <1>2, <1>3, <1>4, <3>1
    <3> QED BY <1>r, <1>5, <3>2 DEF ShownInv
  <2> QED BY <1>1, <2>2, <2>3, <2>4 DEF ShownInv
<1>10. ASSUME Line(1) PROVE FALSE
  BY <1>2, <1>10 DEF Line
<1>11. ASSUME Line(0) PROVE Line(0)'
  <2>1. Shown' = Shown /\ One' = One /\ InCodec' = InCodec
    BY <1>1 DEF Shown, One, Queueing, InCodec
  <2>2. Len(infos) + Shown = 0 + Len(surface) + InCodec + One
    BY <1>11 DEF Line
  <2>3. Len(infos') + Shown = 0 + Len(surface') + InCodec + One
    <3>1. Len(infos') + 1 = Len(infos) /\ Len(surface') + 1 = Len(surface) /\ Len(infos') \in Nat /\ Len(surface') \in Nat
      BY <1>a, <1>2, <1>3, <1>4, <1>5
    <3> QED BY <1>a, <2>2, <3>1
  <2>4. \A i \in 1 .. Len(surface') : infos'[0 + i].n = surface'[i]
    <3> TAKE i \in 1 .. Len(surface')
    <3>1. /\ i \in 1 .. Len(surface) - 1 /\ i \in 1 .. Len(infos) - 1 /\ i + 1 \in 1 .. Len(surface) /\ 0 + i = i
          /\ 0 + (i + 1) = i + 1
      BY <1>a, <1>3, <1>4
    <3>2. infos[0 + (i + 1)].n = surface[i + 1]
      BY <1>11, <3>1 DEF Line
    <3> QED BY <1>3, <1>5, <3>1, <3>2
  <2>5. \A i \in Shown + 1 .. InCodec : infos'[0 + Len(surface') + i - Shown].n = codec.queued[i]
    <3> TAKE i \in Shown + 1 .. InCodec
    <3>1. infos[0 + Len(surface) + i - Shown].n = codec.queued[i]
      BY <1>11 DEF Line
    <3>2. /\ (0 + Len(surface') + i - Shown) + 1 = 0 + Len(surface) + i - Shown
          /\ 0 + Len(surface') + i - Shown \in 1 .. Len(infos) - 1
      BY <1>a, <1>2, <1>3, <2>2
    <3> QED BY <1>5, <3>1, <3>2
  <2>6. Queueing' => infos'[Len(infos')].n = held
    <3> HAVE Queueing'
    <3>1. Queueing /\ infos[Len(infos)].n = held
      BY <1>1, <1>11 DEF Line, Queueing
    <3>2. One = 1
      BY <3>1 DEF One
    <3>3. Len(infos') + 1 = Len(infos) /\ Len(infos') \in 1 .. Len(infos) - 1
      BY <1>a, <1>2, <1>5, <2>2, <3>2
    <3> QED BY <1>5, <3>1, <3>3
  <2> QED BY <1>1, <2>1, <2>3, <2>4, <2>5, <2>6 DEF Line
<1> QED BY <1>1, <1>7, <1>8, <1>9, <1>10, <1>11 DEF LineInv

(* Nothing is fed before the pipeline is made.                             *)
LEMMA InitInfo == Init => FirstInv /\ InputsInv /\ InfoInv
<1> SUFFICES ASSUME Init PROVE FirstInv /\ InputsInv /\ InfoInv
  OBVIOUS
<1> USE DEF Init
<1>1. FirstInv /\ InputsInv
  BY DEF FirstInv, InputsInv, Blank, NoCodec
<1>2. HeadsInv /\ ShownInv /\ LineInv
  BY DEF HeadsInv, ShownInv, LineInv, Pending
<1> QED BY <1>1, <1>2 DEF InfoInv

(* Each step keeps the infos in line with the pictures and the frames.     *)
LEMMA InfoStep == TypeInv /\ InputsInv /\ InfoInv /\ [Next]_vars => InfoInv'
<1> SUFFICES ASSUME TypeInv, InputsInv, InfoInv, [Next]_vars PROVE InfoInv'
  OBVIOUS
<1>s. ShapeInv /\ QueuesInv /\ StageInv /\ OwnInv
  BY DEF TypeInv
<1>1. CASE CreatePipeline
  <2>1. UNCHANGED <<infos, output, surface, at, held>>
    BY <1>1 DEF CreatePipeline, pVars
  <2>c. Astray => Astray'
    BY <1>1 DEF CreatePipeline, InitDecoder, InitNode, CreateDataProcessPipeline, CreationFails, Astray
  <2>2. CASE Early
    <3>1. infos = <<>> /\ surface = <<>> /\ codec.queued = <<>> /\ output = "none" /\ at = "idle"
      BY <1>s, <2>2 DEF StageInv, Blank
    <3>2. codec.queued' = <<>>
      BY <1>1, <3>1 DEF CreatePipeline, InitDecoder, InitNode, CreateDataProcessPipeline, CreationFails
    <3>3. HeadsInv' /\ ShownInv'
      BY <2>1, <3>1 DEF HeadsInv, ShownInv, Pending
    <3>4. Line(0)'
      <4>1. Shown' = 0 /\ One' = 0 /\ InCodec' = 0 /\ ~Queueing'
        BY <2>1, <3>1, <3>2 DEF Shown, One, InCodec, Queueing
      <4> QED BY <2>1, <3>1, <4>1 DEF Line
    <3> QED BY <3>3, <3>4 DEF InfoInv, LineInv
  <2>3. CASE ~Early
    <3>1. codec' = codec /\ (decoding' => decoding) /\ (Released => Released')
      BY <1>1, <2>3 DEF Early, CreatePipeline, InitDecoder, InitNode, CreateDataProcessPipeline, CreationFails, Released
    <3> QED BY <2>1, <2>c, <3>1, InfoQuiet DEF Queueing
  <2> QED BY <2>2, <2>3
<1>2. CASE Destroys(DestroyPipeline /\ UNCHANGED tasks) \/ Destroys(Destroying)
  <2>1. UNCHANGED <<output, at, held, causes>> /\ ~decoding'
    BY <1>2, <1>s DEF Destroys, Destroying, DestroyPipeline, ReleaseVideoDecoder, ReleaseCodecEvent, ReleaseProcessNode,
       JoinsPipeline, StageInv, Joining
  <2>2. CASE Released'
    <3>1. infos' = infos \/ infos' = <<>>
      BY <1>2 DEF Destroys, Destroying, DestroyPipeline, ReleaseVideoDecoder, ReleaseCodecEvent, ReleaseProcessNode,
         JoinsPipeline
    <3>2. surface' = surface \/ surface' = <<>>
      BY <1>2 DEF Destroys, Destroying, DestroyPipeline, ReleaseVideoDecoder, ReleaseCodecEvent, ReleaseProcessNode,
         JoinsPipeline
    <3>3. HeadsInv => HeadsInv'
      BY <2>1, <3>1, <3>2 DEF HeadsInv
    <3> QED BY <2>1, <2>2, <3>3 DEF InfoInv, ShownInv, LineInv, Astray
  <2>3. CASE ~Released'
    <3>1. UNCHANGED <<infos, surface>> /\ ~Released
      BY <1>2, <2>3 DEF Destroys, Destroying, DestroyPipeline, ReleaseVideoDecoder, ReleaseCodecEvent, ReleaseProcessNode,
         JoinsPipeline, Released
    <3>2. output = "aligned" => codec'.queued[1] = codec.queued[1]
      <4> SUFFICES ASSUME output = "aligned" PROVE codec'.queued[1] = codec.queued[1]
        OBVIOUS
      <4>1. CASE ReleaseVideoDecoder
        <5>1. codec'.queued = <<Head(codec.queued)>> /\ codec.queued # <<>>
          BY <1>s, <4>1 DEF ReleaseVideoDecoder, OwnInv
        <5>2. Head(codec.queued) = codec.queued[1]
          BY <5>1, InfoFacts, TailFacts
        <5> QED BY <5>1, <5>2
      <4>2. CASE codec' = codec
        BY <4>2
      <4> QED
        BY <1>2, <4>1, <4>2 DEF Destroys, Destroying, DestroyPipeline, ReleaseCodecEvent, ReleaseProcessNode, JoinsPipeline
    <3>3. HeadsInv => HeadsInv'
      BY <2>1, <3>1 DEF HeadsInv
    <3>4. ShownInv => ShownInv'
      BY <2>1, <3>1, <3>2 DEF ShownInv, Pending
    <3> QED BY <2>1, <3>3, <3>4 DEF InfoInv, LineInv, Astray
  <2> QED BY <2>2, <2>3
<1>3. CASE FeedStreamToContinue
  <2>1. UNCHANGED <<infos, surface, output, codec, decoding, control, at, held, causes>>
    BY <1>3 DEF FeedStreamToContinue, nodeVars, codecVars
  <2> QED BY <2>1, InfoQuiet DEF Queueing, Released, Astray
<1>4. CASE PassesThrough \/ ProcessData \/ FeedsAgain
  <2>1. UNCHANGED <<infos, surface, output, codec, decoding, control, held, causes>> /\ ~Queueing /\ ~Queueing'
    BY <1>4 DEF PassesThrough, ProcessData, FeedsAgain, TakesTask, nodeVars, codecVars, Queueing
  <2> QED BY <2>1, InfoQuiet DEF Released, Astray
<1>5. ASSUME NEW again \in BOOLEAN, PopsInput(again) PROVE InfoInv'
  <2>1. UNCHANGED <<infos, surface, output, codec, decoding, control, causes>> /\ ~Queueing /\ ~Queueing'
    BY <1>5 DEF PopsInput, nodeVars, codecVars, Queueing
  <2> QED BY <2>1, InfoQuiet DEF Released, Astray
<1>6. CASE OnInputBufferAvailable /\ CodecRuns
  <2>1. UNCHANGED <<infos, surface, output, decoding, control, at, held, causes>>
    BY <1>6 DEF OnInputBufferAvailable, CodecRuns, nodeVars
  <2>2. codec.queued' = codec.queued
    BY <1>s, <1>6 DEF OnInputBufferAvailable, QueuesInv
  <2> QED BY <2>1, <2>2, InfoQuiet DEF Queueing, Released, Astray
<1>7. CASE CodecRuns
  <2>1. CASE ReleaseOutputBuffer
    BY <1>7, <2>1, InfoRenders
  <2> QED BY <1>6, <1>7, <2>1, InfoTakesHead, InfoAligns, InfoConsumed DEF CodecRuns
<1>8. CASE EventRuns
  <2>1. CASE GetDecoderOutputBuffer
    BY <1>8, <2>1, InfoCopies
  <2>2. CASE PostOutputDataBuffers \/ DecodeDone
    <3>1. UNCHANGED <<infos, surface, output, codec, decoding, control, at, held, causes>>
      BY <1>8, <2>2 DEF EventRuns, PostOutputDataBuffers, DecodeDone, pVars, nodeVars
    <3> QED BY <3>1, InfoQuiet DEF Queueing, Released, Astray
  <2> QED BY <1>8, <2>1, <2>2 DEF EventRuns
<1>9. CASE OnError
  <2>1. UNCHANGED <<infos, surface, output, codec, control, at, held, causes>> /\ (decoding' => decoding)
    BY <1>9 DEF OnError, OnErrorBegins, OnErrorTests, StopsDecoder, pVars, codecVars
  <2> QED BY <2>1, InfoQuiet DEF Queueing, Released, Astray
<1>10. CASE UNCHANGED vars
  <2>1. UNCHANGED <<infos, surface, output, codec, control, at, held, causes, decoding>>
    BY <1>10 DEF vars, pVars, codecVars, nodeVars
  <2> QED BY <2>1, InfoQuiet DEF Queueing, Released, Astray
<1>11. ASSUME NEW again \in BOOLEAN, Feeds(again) PROVE InfoInv'
  BY <1>11, InfoFeeds
<1>12. ASSUME NEW again \in BOOLEAN, QueueInputBuffer(again) PROVE InfoInv'
  BY <1>12, InfoQueued
<1> QED BY <1>1, <1>2, <1>3, <1>4, <1>5, <1>7, <1>8, <1>9, <1>10, <1>11, <1>12 DEF Next, PipelineRuns

----------------------------------------------------------------------------
(* The pictures of the tasks of E, and the one E has in its hands, have    *)
(* the infos of their frames.                                              *)
EventInv ==
  /\ \A i \in 1 .. Len(events) : events[i].n = events[i].info \/ Astray
  /\ eAt = "post" => picture.n = picture.info \/ Astray

(* Each step keeps them.                                                   *)
LEMMA EventStep == TypeInv /\ InfoInv /\ EventInv /\ [Next]_vars => EventInv'
<1> SUFFICES ASSUME TypeInv, InfoInv, EventInv, [Next]_vars PROVE EventInv'
  OBVIOUS
<1>s. events \in Seq(Pictures) /\ Len(events) \in Nat /\ picture \in Pictures
  BY DEF TypeInv, ShapeInv, QueuesInv
<1>a. Astray => Astray'
  BY DEF Next, CreatePipeline, InitDecoder, InitNode, CreateDataProcessPipeline, CreationFails, Destroys,
     FeedStreamToContinue, PipelineRuns, PassesThrough, ProcessData, FeedsAgain, Feeds, FeedDecoderInputBuffer,
     QueueInputBuffer, PopsInput, CodecRuns, OnInputBufferAvailable, TakesHead, OnOutputBufferAvailable, ReleaseOutputBuffer,
     OnSurfaceOutputBufferAvailable, EventRuns, GetDecoderOutputBuffer, CopyDecodedImage, PostOutputDataBuffers, DecodeDone,
     OnError, vars, Astray
<1>0. CASE UNCHANGED <<events, picture>> /\ (eAt' = "post" => eAt = "post")
  BY <1>0, <1>a DEF EventInv
<1>1. CASE CreatePipeline
  BY <1>0, <1>1 DEF CreatePipeline, InitDecoder, InitNode, CreateDataProcessPipeline, CreationFails
<1>2. CASE Destroys(DestroyPipeline /\ UNCHANGED tasks) \/ Destroys(Destroying)
  <2>1. /\ picture' = picture /\ (eAt' = "post" => eAt = "post")
        /\ events' = events \/ events' = <<>>
    BY <1>2 DEF Destroys, Destroying, DestroyPipeline, ReleaseVideoDecoder, ReleaseCodecEvent, ReleaseProcessNode,
       JoinsPipeline
  <2>2. CASE events' = <<>>
    BY <1>a, <2>1, <2>2 DEF EventInv
  <2> QED BY <1>0, <2>1, <2>2
<1>3. CASE FeedStreamToContinue
  BY <1>0, <1>3 DEF FeedStreamToContinue, eVars
<1>4. CASE PassesThrough \/ ProcessData \/ FeedsAgain
  BY <1>0, <1>4 DEF PassesThrough, ProcessData, FeedsAgain, TakesTask
<1>5. ASSUME NEW again \in BOOLEAN, Feeds(again) \/ QueueInputBuffer(again) \/ PopsInput(again)
      PROVE  UNCHANGED <<events, picture, eAt>>
  BY <1>5 DEF Feeds, QueueInputBuffer, PopsInput, eVars
<1>6. CASE CodecRuns
  <2>1. UNCHANGED <<picture, eAt>> /\ (events' = events \/ events' = Append(events, Get))
    BY <1>6 DEF CodecRuns, OnInputBufferAvailable, TakesHead, OnOutputBufferAvailable, ReleaseOutputBuffer,
       OnSurfaceOutputBufferAvailable
  <2>2. CASE events' = Append(events, Get)
    <3>1. Get \in Pictures /\ Get.n = Get.info
      BY DEF Get, Pictures
    <3>2. /\ Len(events') = Len(events) + 1 /\ events'[Len(events) + 1] = Get
          /\ \A i \in 1 .. Len(events) : events'[i] = events[i]
      BY <1>s, <2>2, <3>1, AppendFacts
    <3>3. \A i \in 1 .. Len(events') : events'[i].n = events'[i].info \/ Astray
      BY <1>s, <3>1, <3>2 DEF EventInv
    <3> QED BY <1>a, <2>1, <3>3 DEF EventInv
  <2> QED BY <1>0, <2>1, <2>2
<1>7. CASE EventRuns
  <2>1. CASE GetDecoderOutputBuffer \/ DecodeDone
    <3>1. events # <<>> /\ events' = Tail(events) /\ eAt = "idle"
      BY <2>1 DEF GetDecoderOutputBuffer, DecodeDone, TakesEvent
    <3>2. Len(events') = Len(events) - 1 /\ \A i \in 1 .. Len(events) - 1 : events'[i] = events[i + 1]
      BY <1>s, <3>1, TailFacts
    <3>3. \A i \in 1 .. Len(events') : events'[i].n = events'[i].info \/ Astray
      <4> TAKE i \in 1 .. Len(events')
      <4>1. i \in 1 .. Len(events) - 1 /\ i + 1 \in 1 .. Len(events)
        BY <1>s, <3>2
      <4> QED BY <3>2, <4>1 DEF EventInv
    <3>4. eAt' = "post" => Astray' \/ picture'.n = picture'.info
      <4>1. CASE GetDecoderOutputBuffer
        BY <1>7, <4>1, InfoCopies
      <4>2. CASE DecodeDone
        BY <3>1, <4>2 DEF DecodeDone
      <4> QED BY <2>1, <4>1, <4>2
    <3> QED BY <1>a, <3>3, <3>4 DEF EventInv
  <2>2. CASE PostOutputDataBuffers
    <3>1. eAt = "post" /\ eAt' = "idle" /\ events' = Append(events, picture)
      BY <2>2 DEF PostOutputDataBuffers
    <3>2. /\ Len(events') = Len(events) + 1 /\ events'[Len(events) + 1] = picture
          /\ \A i \in 1 .. Len(events) : events'[i] = events[i]
      BY <1>s, <3>1, AppendFacts
    <3>3. \A i \in 1 .. Len(events') : events'[i].n = events'[i].info \/ Astray
      BY <1>s, <3>1, <3>2 DEF EventInv
    <3> QED BY <1>a, <3>1, <3>3 DEF EventInv
  <2> QED BY <1>7, <2>1, <2>2 DEF EventRuns
<1>8. CASE OnError
  BY <1>0, <1>8 DEF OnError, eVars
<1>9. CASE UNCHANGED vars
  BY <1>0, <1>9 DEF vars, eVars
<1> QED BY <1>0, <1>1, <1>2, <1>3, <1>4, <1>5, <1>6, <1>7, <1>8, <1>9 DEF Next, PipelineRuns

(* A picture goes to ScaleConvertProcess and to the listener with the      *)
(* frame info of its own frame, although info and frame take two ways to   *)
(* it: the deque of the node, and the codec and its surface.               *)
THEOREM InfosAreOfFrames == Spec => []InfoIsOfFrame
<1> DEFINE IInv == TypeInv /\ FirstInv /\ InputsInv /\ InfoInv /\ EventInv
<1>1. Init => IInv
  <2>1. Init => EventInv
    BY DEF Init, EventInv
  <2> QED BY <2>1, InitTypes, InitInfo
<1>2. IInv /\ [Next]_vars => IInv'
  BY TypesStep, FirstStep, InputsStep, InfoStep, EventStep
<1>3. IInv => InfoIsOfFrame
  BY DEF EventInv, InfoIsOfFrame, Astray
<1> QED BY <1>1, <1>2, <1>3, PTL DEF Spec
=============================================================================
