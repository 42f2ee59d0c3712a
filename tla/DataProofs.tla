------------------------------ MODULE DataProofs -------------------------------
(***************************************************************************)
(* What holds of pictures and of the camera for every value of the         *)
(* constants.                                                              *)
(*                                                                         *)
(* Every photo that is handed over is whole and comes once: Fragments      *)
(* implements PhotoChannel.  The argument follows the fragments under way  *)
(* to each of the two sessions.  Behind each fragment comes either the     *)
(* next one of its photo or the start of a later photo; what a receiver    *)
(* loses is lost from the front, and with an assembly that has not begun,  *)
(* or from the back.                                                       *)
(*                                                                         *)
(* And the camera does what it was asked: the settings and the frame rate  *)
(* of a capture are those of the request it was started for, whatever the  *)
(* start, the stop and an update of the settings do to each other.         *)
(***************************************************************************)
EXTENDS Fragments, CameraClient, SequenceTheorems, TLAPS

\* Types alone, and what the proofs need of the session and the buffers.
Buffers == {[p \in 0..(s - 1) |-> <<n, p>>] : n \in Nat, s \in Sizes}

SessionAgrees ==
  /\ session \in {"none", "bound"} => inbox = <<>> /\ ~assembly.waiting
  /\ session \in {"none", "closed"} => wire = <<>>

PostedTyped ==
  /\ posted \in Seq(Buffers)
  /\ Channel!Posted \subseteq Photos

IndInv == TypeOK /\ SessionAgrees /\ PostedTyped /\ FragmentsAgree

\* The fragment about to be sent is cut well: its flag tells where it lies in
\* its photo (SetHeadParaDataLen).
LEMMA FragmentIsWellCut ==
  ASSUME TypeOK, sending # Idle
  PROVE  /\ Fragment \in Packets /\ WellCut(Fragment, photos)
         /\ Fragment.photo = sending.photo /\ Fragment.at = sending.offset
         /\ Fragment.len = FragmentLen
         /\ Ends(Fragment) <=> FragmentFlag \in {"END", "START_END"}
         /\ ~Ends(Fragment) => sending.offset + FragmentLen < photos[sending.photo]
<1>1. /\ sending.photo \in Photos /\ sending.offset \in Nat /\ sending.sub \in 0..(SubSeqs - 1)
      /\ photos[sending.photo] \in Sizes /\ photos[sending.photo] \in Nat
      /\ sending.offset < photos[sending.photo]
  <2>1. /\ sending \in [photo : Photos, offset : Nat, sub : 0..(SubSeqs - 1)]
        /\ sending.offset < photos[sending.photo]
    BY DEF TypeOK
  <2>2. photos \in Seq(Sizes)
    BY DEF TypeOK
  <2>3. sending.photo \in DOMAIN photos /\ sending.offset \in Nat /\ sending.sub \in 0..(SubSeqs - 1)
    BY <2>1 DEF Photos
  <2>4. photos[sending.photo] \in Sizes
    BY <2>2, <2>3
  <2>5. photos[sending.photo] \in Nat
    BY <2>4, FragmentAssumption
  <2> QED
    BY <2>1, <2>3, <2>4, <2>5 DEF Photos
<1>2. Remaining \in Nat \ {0} /\ Remaining + sending.offset = photos[sending.photo]
  BY <1>1 DEF Remaining
<1>3. /\ FragmentLen \in 1..PacketMax /\ FragmentLen <= Remaining
      /\ FragmentLen = Remaining <=> ~(Remaining > PacketMax)
  BY <1>2, FragmentAssumption DEF FragmentLen
<1>4. FragmentFlag \in Flags
  BY DEF FragmentFlag, Flags
<1>5. /\ Starts(Fragment) <=> sending.offset = 0
      /\ Ends(Fragment) <=> ~(Remaining > PacketMax)
      /\ Ends(Fragment) <=> FragmentFlag \in {"END", "START_END"}
  BY <1>1, <1>2 DEF Starts, Ends, Fragment, FragmentFlag
<1>6. Fragment \in [flag : Flags, sub : 0..(SubSeqs - 1), total : Sizes,
                    len : Nat \ {0}, photo : Photos, at : Nat]
  BY <1>1, <1>3, <1>4, FragmentAssumption DEF Fragment
<1>7. /\ Fragment.photo = sending.photo /\ Fragment.at = sending.offset
      /\ Fragment.len = FragmentLen /\ Fragment.total = photos[sending.photo]
  BY DEF Fragment
<1>8. Fragment.at + Fragment.len <= Fragment.total
  BY <1>1, <1>2, <1>3, <1>7
<1>9. Fragment \in Packets
  BY <1>6, <1>8 DEF Packets
<1>10. Ends(Fragment) <=> Fragment.at + Fragment.len = Fragment.total
  BY <1>1, <1>2, <1>3, <1>5, <1>7
<1>11. WellCut(Fragment, photos)
  BY <1>1, <1>3, <1>5, <1>7, <1>8, <1>10 DEF WellCut, Photos
<1>12. ~Ends(Fragment) => sending.offset + FragmentLen < photos[sending.photo]
  BY <1>1, <1>2, <1>3, <1>7, <1>8, <1>10
<1> QED
  BY <1>5, <1>7, <1>9, <1>11, <1>12

\* The same as a property of a state, for the next one.
FragmentShape ==
  /\ WellCut(Fragment, photos) /\ Fragment.photo = sending.photo /\ Fragment.at = sending.offset
  /\ Starts(Fragment) <=> sending.offset = 0

\* The fragment the sink sends next has that shape.
LEMMA FragmentShaped == TypeOK /\ sending # Idle => FragmentShape
BY FragmentIsWellCut DEF FragmentShape, WellCut

\* So has the one it sends after a step.
LEMMA FragmentShapeNext == TypeOK' /\ (sending # Idle)' => FragmentShape'
BY FragmentShaped, PTL

\* What is known of a packet from its type.
LEMMA PacketTyped ==
  ASSUME TypeOK, NEW p \in Packets
  PROVE  /\ p.photo \in Nat \ {0} /\ p.photo \in Photos /\ p.total \in Nat \ {0} /\ p.total \in Sizes
         /\ p.len \in Nat \ {0} /\ p.at \in Nat /\ p.sub \in 0..(SubSeqs - 1) /\ p.flag \in Flags
         /\ p.at + p.len <= p.total
<1>0. photos \in Seq(Sizes)
  BY DEF TypeOK
<1>1. Photos = 1..Len(photos) /\ Len(photos) \in Nat
  BY <1>0 DEF Photos
<1>2. /\ p \in [flag : Flags, sub : 0..(SubSeqs - 1), total : Sizes,
                len : Nat \ {0}, photo : Photos, at : Nat]
      /\ p.at + p.len <= p.total
  BY DEF Packets
<1>3. /\ p.photo \in Photos /\ p.total \in Sizes /\ p.len \in Nat \ {0} /\ p.at \in Nat
      /\ p.sub \in 0..(SubSeqs - 1) /\ p.flag \in Flags
  BY <1>2
<1>4. p.total \in Nat \ {0}
  BY <1>3, FragmentAssumption
<1>5. p.photo \in Nat \ {0}
  BY <1>1, <1>3
<1> QED
  BY <1>2, <1>3, <1>4, <1>5

\* How the fragments under way are made of those in the queues and the next one.
PendingShape ==
  /\ Stream \in Seq(Packets) /\ Pending \in Seq(Packets)
  /\ Len(Stream) \in Nat /\ Len(Pending) \in Nat
  /\ DOMAIN Stream = 1..Len(Stream) /\ DOMAIN Pending = 1..Len(Pending)
  /\ \A i \in 1..Len(Stream) : Pending[i] = Stream[i]
  /\ sending = Idle => Pending = Stream
  /\ sending # Idle => /\ Len(Pending) = Len(Stream) + 1
                       /\ Pending[Len(Stream) + 1] = Fragment

\* The types give the shape.
LEMMA PendingParts == TypeOK => PendingShape
<1> SUFFICES ASSUME TypeOK PROVE PendingShape
  OBVIOUS
<1>1. wire \in Seq(Packets) /\ inbox \in Seq(Packets)
  BY DEF TypeOK
<1>2. Stream \in Seq(Packets)
  BY <1>1 DEF Stream
<1>3. CASE sending = Idle
  <2>1. Pending = Stream
    BY <1>2, <1>3 DEF Pending
  <2> QED
    BY <1>2, <1>3, <2>1 DEF PendingShape
<1>4. CASE sending # Idle
  <2>1. Fragment \in Packets
    BY <1>4, FragmentIsWellCut
  <2>2. Pending = Stream \o <<Fragment>>
    BY <1>4 DEF Pending
  <2>3. <<Fragment>> \in Seq(Packets) /\ Len(<<Fragment>>) = 1 /\ <<Fragment>>[1] = Fragment
    BY <2>1
  <2> HIDE DEF Stream, Fragment, Packets
  <2> QED
    BY <1>2, <1>4, <2>2, <2>3 DEF PendingShape
<1> QED
  BY <1>3, <1>4

\* The same in the next state.
LEMMA PendingPartsNext == TypeOK' => PendingShape'
BY PendingParts, PTL

\* Sequences over a larger set.
LEMMA SeqGrows ==
  ASSUME NEW S, NEW T, S \subseteq T, NEW s \in Seq(S)
  PROVE  s \in Seq(T)
OBVIOUS

\* The first of a queue and the rest.
LEMMA QueueTail ==
  ASSUME NEW S, NEW q \in Seq(S), q # <<>>
  PROVE  /\ Head(q) \in S /\ Head(q) = q[1] /\ Tail(q) \in Seq(S)
         /\ Len(q) \in Nat \ {0} /\ Len(Tail(q)) = Len(q) - 1
         /\ \A i \in 1..(Len(q) - 1) : Tail(q)[i] = q[i + 1]
OBVIOUS

\* The assembly a START begins.
LEMMA AssemblyBegun ==
  ASSUME TypeOK, NEW a, NEW p \in Packets, p.flag = "START"
  PROVE  LET b == Assembled(a, p)
         IN /\ b.waiting = TRUE /\ b.sub = p.sub /\ b.offset = p.len /\ b.total = p.total
            /\ DOMAIN b.buffer = 0..(p.total - 1)
            /\ \A i \in 0..(p.len - 1) : b.buffer[i] = <<p.photo, p.at + i>>
<1>1. p.len \in Nat \ {0} /\ p.total \in Nat \ {0} /\ p.at \in Nat /\ p.at + p.len <= p.total
  BY PacketTyped
<1>2. /\ Assembled(a, p).waiting = TRUE /\ Assembled(a, p).sub = p.sub
      /\ Assembled(a, p).offset = p.len /\ Assembled(a, p).total = p.total
      /\ Assembled(a, p).buffer = Copy(NewBuffer(p.total), 0, p)
  BY DEF Assembled
<1>3. DOMAIN NewBuffer(p.total) = 0..(p.total - 1)
  BY DEF NewBuffer
<1>4. \A i \in 0..(p.len - 1) : /\ i \in 0..(p.total - 1) /\ i \in 0..(0 + p.len - 1)
                                /\ p.at + i - 0 = p.at + i
  BY <1>1
<1>5. DOMAIN Copy(NewBuffer(p.total), 0, p) = 0..(p.total - 1)
  BY <1>3 DEF Copy
<1>6. \A i \in 0..(p.len - 1) : Copy(NewBuffer(p.total), 0, p)[i] = <<p.photo, p.at + i>>
  <2> TAKE i \in 0..(p.len - 1)
  <2>1. Copy(NewBuffer(p.total), 0, p)[i] = <<p.photo, p.at + i - 0>>
    BY <1>3, <1>4 DEF Copy
  <2> QED
    BY <1>4, <2>1
<1> QED
  BY <1>2, <1>5, <1>6

\* The assembly that a continuing fragment leaves.
LEMMA AssemblyContinued ==
  ASSUME TypeOK, NEW a, IsAssembly(a), NEW p \in Packets, p.flag # "START", Continues(a, p)
  PROVE  LET b == Assembled(a, p)
         IN /\ b.waiting = TRUE /\ b.sub = p.sub
            /\ b.offset = a.offset + p.len /\ b.total = a.total
            /\ b.offset <= b.total
            /\ DOMAIN b.buffer = 0..(a.total - 1)
            /\ \A i \in 0..(a.offset - 1) : b.buffer[i] = a.buffer[i]
            /\ \A i \in a.offset..(a.offset + p.len - 1) :
                  b.buffer[i] = <<p.photo, p.at + i - a.offset>>
<1>1. p.len \in Nat \ {0} /\ p.at \in Nat
  BY PacketTyped
<1>2. /\ Assembled(a, p).waiting = TRUE /\ Assembled(a, p).sub = p.sub
      /\ Assembled(a, p).offset = a.offset + p.len
      /\ Assembled(a, p).total = a.total
      /\ Assembled(a, p).buffer = Copy(a.buffer, a.offset, p)
  BY DEF Assembled
<1>3. /\ DOMAIN a.buffer = 0..(a.total - 1)
      /\ a.offset \in Nat /\ a.total \in Nat
      /\ a.offset + p.len <= a.total
  BY <1>1 DEF IsAssembly, Continues
<1>a. \A o, l, t \in Nat :
         o + l <= t =>
           /\ \A i \in 0..(o - 1) : i \in 0..(t - 1) /\ i \notin o..(o + l - 1)
           /\ \A i \in o..(o + l - 1) : i \in 0..(t - 1)
  OBVIOUS
<1>4. \A i \in 0..(a.offset - 1) : /\ i \in 0..(a.total - 1)
                                   /\ i \notin a.offset..(a.offset + p.len - 1)
  BY <1>1, <1>3, <1>a
<1>5. \A i \in a.offset..(a.offset + p.len - 1) : i \in 0..(a.total - 1)
  BY <1>1, <1>3, <1>a
<1> DEFINE c == Copy(a.buffer, a.offset, p)
<1>6. DOMAIN c = 0..(a.total - 1)
  BY <1>3 DEF Copy
<1>7. \A i \in 0..(a.offset - 1) : c[i] = a.buffer[i]
  BY <1>3, <1>4 DEF Copy
<1>8. \A i \in a.offset..(a.offset + p.len - 1) : c[i] = <<p.photo, p.at + i - a.offset>>
  BY <1>3, <1>5 DEF Copy
<1> QED
  BY <1>2, <1>3, <1>6, <1>7, <1>8

\* A packet leaves an assembly of the right type.
LEMMA HandleTyped ==
  ASSUME TypeOK, NEW a, IsAssembly(a), NEW p \in Packets, NEW b, Handle(p, a, b)
  PROVE  IsAssembly(b)
<1>1. IsAssembly(NoAssembly)
  BY FragmentAssumption DEF IsAssembly, NoAssembly
<1>2. /\ p.sub \in 0..(SubSeqs - 1) /\ p.len \in Nat /\ p.total \in Nat /\ p.at \in Nat
      /\ p.at + p.len <= p.total
  BY PacketTyped
<1>3. ASSUME p.flag = "START" PROVE IsAssembly(Assembled(a, p))
  <2> DEFINE c == Assembled(a, p)
  <2>1. /\ c.waiting = TRUE /\ c.sub = p.sub /\ c.offset = p.len /\ c.total = p.total
        /\ DOMAIN c.buffer = 0..(p.total - 1)
    BY <1>3, AssemblyBegun
  <2>2. p.len \in 0..p.total
    BY <1>2
  <2> HIDE DEF c
  <2>3. IsAssembly(c)
    BY <1>2, <2>1, <2>2 DEF IsAssembly
  <2> QED
    BY <2>3 DEF c
<1>4. ASSUME p.flag # "START", Continues(a, p) PROVE IsAssembly(Assembled(a, p))
  <2> DEFINE c == Assembled(a, p)
  <2>1. /\ c.waiting = TRUE /\ c.sub = p.sub /\ c.total = a.total
        /\ c.offset = a.offset + p.len /\ c.offset <= c.total
        /\ DOMAIN c.buffer = 0..(a.total - 1)
    BY <1>4, AssemblyContinued
  <2>2. a.offset \in Nat /\ a.total \in Nat
    BY DEF IsAssembly
  <2> HIDE DEF c
  <2>3. c.offset \in 0..c.total /\ c.total \in Nat
    BY <1>2, <2>1, <2>2
  <2>4. IsAssembly(c)
    BY <1>2, <2>1, <2>3 DEF IsAssembly
  <2> QED
    BY <2>4 DEF c
<1>5. \/ b = a \/ b = NoAssembly
      \/ b = Assembled(a, p) /\ p.flag = "START"
      \/ b = Assembled(a, p) /\ p.flag # "START" /\ Continues(a, p)
  BY DEF Handle
<1> QED
  BY <1>1, <1>3, <1>4, <1>5

\* The parts of TypeOK, one by one.
LEMMA TypeParts ==
  ASSUME TypeOK
  PROVE  /\ photos \in Seq(Sizes) /\ Len(photos) \in Nat /\ Photos = 1..Len(photos)
         /\ wire \in Seq(Packets) /\ inbox \in Seq(Packets) /\ leftInbox \in Seq(Packets)
         /\ sending # Idle => /\ sending.photo \in Photos /\ sending.offset \in Nat
                              /\ sending.sub \in 0..(SubSeqs - 1)
                              /\ sending.offset < photos[sending.photo]
<1>1. photos \in Seq(Sizes)
  BY DEF TypeOK
<1>2. sending # Idle => sending \in [photo : Photos, offset : Nat, sub : 0..(SubSeqs - 1)]
                        /\ sending.offset < photos[sending.photo]
  BY DEF TypeOK
<1>3. Photos = 1..Len(photos) /\ Len(photos) \in Nat
  BY <1>1 DEF Photos
<1> QED
  BY <1>1, <1>2, <1>3 DEF TypeOK

\* A new photo leaves the sizes of the others, and makes room for its packets.
LEMMA NewPhoto ==
  ASSUME TypeOK, NEW s \in Sizes, TakePhoto(s)
  PROVE  /\ photos' \in Seq(Sizes) /\ Len(photos') = Len(photos) + 1
         /\ Photos' = 1..(Len(photos) + 1)
         /\ \A n \in Photos : n \in Photos' /\ photos'[n] = photos[n]
         /\ photos'[Len(photos) + 1] = s
         /\ sending'.photo = Len(photos) + 1 /\ sending'.offset = 0 /\ sending'.sub = 0
         /\ sending' # Idle
         /\ Packets \subseteq Packets'
<1>1. photos \in Seq(Sizes) /\ photos' = Append(photos, s) /\ Len(photos) \in Nat /\ Photos = 1..Len(photos)
  BY TypeParts DEF TakePhoto
<1>2. /\ photos' \in Seq(Sizes) /\ Len(photos') = Len(photos) + 1 /\ DOMAIN photos' = 1..(Len(photos) + 1)
      /\ \A n \in 1..Len(photos) : photos'[n] = photos[n]
      /\ photos'[Len(photos) + 1] = s
  BY <1>1
<1>3. Photos' = 1..(Len(photos) + 1) /\ Photos \subseteq Photos'
  BY <1>1, <1>2 DEF Photos
<1>4. /\ sending' = [photo |-> Len(photos) + 1, offset |-> 0, sub |-> 0]
      /\ Len(photos) + 1 # 0
  BY <1>1 DEF TakePhoto
<1>5. sending' # Idle
  BY <1>4 DEF Idle
<1>6. Packets \subseteq Packets'
  BY <1>3 DEF Packets
<1> QED
  BY <1>1, <1>2, <1>3, <1>4, <1>5, <1>6

\* Every step keeps the types.
LEMMA TypeStep == TypeOK /\ [Next]_vars => TypeOK'
<1> SUFFICES ASSUME TypeOK, [Next]_vars PROVE TypeOK'
  OBVIOUS
<1>0. IsAssembly(assembly) /\ IsAssembly(leftAssembly) /\ IsAssembly(NoAssembly)
  <2>1. IsAssembly(NoAssembly)
    BY FragmentAssumption DEF NoAssembly, IsAssembly
  <2> QED
    BY <2>1 DEF TypeOK
<1>1. ASSUME NEW s \in Sizes, TakePhoto(s) PROVE TypeOK'
  <2>1. wire' \in Seq(Packets') /\ inbox' \in Seq(Packets') /\ leftInbox' \in Seq(Packets')
    BY <1>1, NewPhoto, TypeParts, SeqGrows DEF TakePhoto, source, left
  <2>2. sending' \in [photo : Photos', offset : Nat, sub : 0..(SubSeqs - 1)]
    <3>1. sending' = [photo |-> Len(photos) + 1, offset |-> 0, sub |-> 0]
      BY <1>1 DEF TakePhoto
    <3>2. Len(photos) + 1 \in Photos' /\ 0 \in 0..(SubSeqs - 1)
      BY <1>1, NewPhoto, TypeParts, FragmentAssumption
    <3> QED
      BY <3>1, <3>2
  <2>3. sending'.offset < photos'[sending'.photo]
    BY <1>1, NewPhoto, FragmentAssumption
  <2>4. photos' \in Seq(Sizes) /\ result' = "none"
    BY <1>1, NewPhoto DEF TakePhoto
  <2>5. UNCHANGED <<assembly, leftAssembly, session>>
    BY <1>1 DEF TakePhoto, source, left
  <2>6. IsAssembly(assembly') /\ IsAssembly(leftAssembly')
    BY <1>0, <2>5
  <2> QED
    BY <2>1, <2>2, <2>3, <2>4, <2>5, <2>6 DEF TypeOK
<1>2. CASE SendFragment
  <2>1. UNCHANGED <<photos, session, inbox, leftInbox, assembly, leftAssembly>> /\ sending # Idle
    BY <1>2 DEF SendFragment, source, left
  <2>2. Photos' = Photos /\ Packets' = Packets
    BY <2>1 DEF Photos, Packets
  <2>3. wire' \in Seq(Packets)
    BY <1>2, <2>1, TypeParts, FragmentIsWellCut DEF SendFragment
  <2>4. \/ sending' = Idle
        \/ /\ sending' \in [photo : Photos, offset : Nat, sub : 0..(SubSeqs - 1)]
           /\ sending'.offset < photos[sending'.photo]
    <3>1. CASE FragmentFlag \in {"END", "START_END"}
      BY <1>2, <3>1 DEF SendFragment
    <3>2. CASE FragmentFlag \notin {"END", "START_END"}
      <4>1. sending' = [photo |-> sending.photo, offset |-> sending.offset + FragmentLen,
                        sub |-> (sending.sub + 1) % SubSeqs]
        BY <1>2, <3>2 DEF SendFragment
      <4>2. /\ sending.photo \in Photos /\ sending.offset \in Nat /\ sending.sub \in 0..(SubSeqs - 1)
            /\ sending.offset + FragmentLen < photos[sending.photo]
            /\ FragmentLen \in Nat
        BY <2>1, <3>2, TypeParts, FragmentIsWellCut, PacketTyped
      <4>3. (sending.sub + 1) % SubSeqs \in 0..(SubSeqs - 1)
        BY <4>2, FragmentAssumption
      <4> QED
        BY <4>1, <4>2, <4>3
    <3> QED
      BY <3>1, <3>2
  <2>5. result' \in {"none", "ok", "failed"}
    BY <1>2 DEF SendFragment, TypeOK
  <2>6. IsAssembly(assembly') /\ IsAssembly(leftAssembly')
    BY <1>0, <2>1
  <2> QED
    BY <2>1, <2>2, <2>3, <2>4, <2>5, <2>6 DEF TypeOK
<1>3. CASE SendFails
  <2>1. UNCHANGED <<photos, session, wire, inbox, leftInbox, assembly, leftAssembly>>
        /\ sending' = Idle /\ result' = "failed"
    BY <1>3 DEF SendFails, source, left
  <2>2. Photos' = Photos /\ Packets' = Packets
    BY <2>1 DEF Photos, Packets
  <2>3. IsAssembly(assembly') /\ IsAssembly(leftAssembly')
    BY <1>0, <2>1
  <2> QED
    BY <2>1, <2>2, <2>3 DEF TypeOK
<1>4. CASE Receive
  <2>1. /\ UNCHANGED <<photos, sending, result, session, wire, leftInbox, leftAssembly>>
        /\ inbox # <<>> /\ inbox' = Tail(inbox) /\ Handle(Head(inbox), assembly, assembly')
    BY <1>4 DEF Receive, sink, left
  <2>2. Photos' = Photos /\ Packets' = Packets
    BY <2>1 DEF Photos, Packets
  <2>3. Head(inbox) \in Packets /\ inbox' \in Seq(Packets)
    BY <2>1, TypeParts, QueueTail
  <2>4. IsAssembly(assembly') /\ IsAssembly(leftAssembly')
    BY <1>0, <2>1, <2>3, HandleTyped
  <2> QED
    BY <2>1, <2>2, <2>3, <2>4 DEF TypeOK
<1>5. CASE ReceiveLeft
  <2>1. /\ UNCHANGED <<photos, sending, result, session, wire, inbox, assembly>>
        /\ leftInbox # <<>> /\ leftInbox' = Tail(leftInbox)
        /\ Handle(Head(leftInbox), leftAssembly, leftAssembly')
    BY <1>5 DEF ReceiveLeft, sink
  <2>2. Photos' = Photos /\ Packets' = Packets
    BY <2>1 DEF Photos, Packets
  <2>3. Head(leftInbox) \in Packets /\ leftInbox' \in Seq(Packets)
    BY <2>1, TypeParts, QueueTail
  <2>4. IsAssembly(assembly') /\ IsAssembly(leftAssembly')
    BY <1>0, <2>1, <2>3, HandleTyped
  <2> QED
    BY <2>1, <2>2, <2>3, <2>4 DEF TypeOK
<1>6. CASE OnBytes
  <2>1. /\ UNCHANGED <<photos, sending, result, session, leftInbox, assembly, leftAssembly>>
        /\ wire # <<>> /\ wire' = Tail(wire)
    BY <1>6 DEF OnBytes, sink, left
  <2>2. Photos' = Photos /\ Packets' = Packets
    BY <2>1 DEF Photos, Packets
  <2>3. Head(wire) \in Packets /\ wire' \in Seq(Packets)
    BY <2>1, TypeParts, QueueTail
  <2>4. inbox' \in Seq(Packets)
    BY <1>6, <2>3, TypeParts DEF OnBytes
  <2>5. IsAssembly(assembly') /\ IsAssembly(leftAssembly')
    BY <1>0, <2>1
  <2> QED
    BY <2>1, <2>2, <2>3, <2>4, <2>5 DEF TypeOK
<1>7. CASE Bind \/ RecordSession
  <2>1. UNCHANGED <<photos, sending, result, wire, inbox, leftInbox, assembly, leftAssembly>>
        /\ session' \in {"bound", "recorded"}
    BY <1>7 DEF Bind, RecordSession, sink, left
  <2>2. Photos' = Photos /\ Packets' = Packets
    BY <2>1 DEF Photos, Packets
  <2>3. IsAssembly(assembly') /\ IsAssembly(leftAssembly')
    BY <1>0, <2>1
  <2> QED
    BY <2>1, <2>2, <2>3 DEF TypeOK
<1>8. CASE Shutdown \/ ReleaseSession
  <2>1. /\ UNCHANGED <<photos, sending, result>> /\ session' \in {"none", "closed"}
        /\ wire' = <<>> /\ inbox' \in {inbox, <<>>} /\ leftInbox' \in {leftInbox, inbox}
        /\ assembly' \in {assembly, NoAssembly} /\ leftAssembly' \in {leftAssembly, assembly}
    BY <1>8 DEF Shutdown, ReleaseSession, sink, left
  <2>2. Photos' = Photos /\ Packets' = Packets
    BY <2>1 DEF Photos, Packets
  <2>3. wire' \in Seq(Packets) /\ inbox' \in Seq(Packets) /\ leftInbox' \in Seq(Packets)
    <3>1. <<>> \in Seq(Packets)
      OBVIOUS
    <3> QED
      BY <2>1, <3>1, TypeParts
  <2>4. IsAssembly(assembly') /\ IsAssembly(leftAssembly')
    BY <1>0, <2>1
  <2> QED
    BY <2>1, <2>2, <2>3, <2>4 DEF TypeOK
<1>9. CASE UNCHANGED vars
  <2>1. UNCHANGED <<photos, sending, result, session, wire, inbox, leftInbox, assembly, leftAssembly>>
    BY <1>9 DEF vars, sink, source, left
  <2>2. Photos' = Photos /\ Packets' = Packets
    BY <2>1 DEF Photos, Packets
  <2>3. IsAssembly(assembly') /\ IsAssembly(leftAssembly')
    BY <1>0, <2>1
  <2> QED
    BY <2>1, <2>2, <2>3 DEF TypeOK
<1> QED
  BY <1>1, <1>2, <1>3, <1>4, <1>5, <1>6, <1>7, <1>8, <1>9 DEF Next

\* Nothing is with the source before its session is recorded, and nothing on the
\* wire without a socket.
LEMMA SessionStep == TypeOK /\ SessionAgrees /\ [Next]_vars => SessionAgrees'
<1> SUFFICES ASSUME TypeOK, SessionAgrees, [Next]_vars PROVE SessionAgrees'
  OBVIOUS
<1>1. ASSUME NEW s \in Sizes, TakePhoto(s) PROVE SessionAgrees'
  BY <1>1 DEF TakePhoto, SessionAgrees, source
<1>2. CASE SendFragment \/ SendFails
  BY <1>2 DEF SendFragment, SendFails, SessionAgrees, source
<1>3. CASE Receive \/ ReceiveLeft
  BY <1>3 DEF Receive, ReceiveLeft, SessionAgrees, sink
<1>4. CASE OnBytes
  BY <1>4 DEF OnBytes, SessionAgrees, sink
<1>5. CASE Bind \/ RecordSession
  BY <1>5 DEF Bind, RecordSession, SessionAgrees, sink
<1>6. CASE Shutdown \/ ReleaseSession
  BY <1>6 DEF Shutdown, ReleaseSession, SessionAgrees, sink, NoAssembly
<1>7. CASE UNCHANGED vars
  BY <1>7 DEF vars, sink, source, SessionAgrees
<1> QED
  BY <1>1, <1>2, <1>3, <1>4, <1>5, <1>6, <1>7 DEF Next

\* The fragments of a queue keep their cuts and their order when some are taken
\* away, and the others stay one behind the other.
LEMMA Selection ==
  ASSUME NEW q, NEW r, NEW f, NEW sizes,
         \A i \in DOMAIN q : WellCut(q[i], sizes), OneAfterTheOther(q),
         \A i \in DOMAIN r : f[i] \in DOMAIN q /\ r[i] = q[f[i]],
         \A i, j \in DOMAIN r : i < j => f[i] < f[j]
  PROVE  (\A i \in DOMAIN r : WellCut(r[i], sizes)) /\ OneAfterTheOther(r)
<1>1. \A i \in DOMAIN r : WellCut(r[i], sizes)
  OBVIOUS
<1>2. OneAfterTheOther(r)
  <2> SUFFICES ASSUME NEW i \in DOMAIN r, NEW j \in DOMAIN r, i < j
               PROVE  /\ r[i].photo <= r[j].photo
                      /\ Ends(r[i]) \/ Starts(r[j]) => r[i].photo < r[j].photo
    BY DEF OneAfterTheOther
  <2>1. f[i] \in DOMAIN q /\ f[j] \in DOMAIN q /\ f[i] < f[j] /\ r[i] = q[f[i]] /\ r[j] = q[f[j]]
    OBVIOUS
  <2>2. /\ q[f[i]].photo <= q[f[j]].photo
        /\ Ends(q[f[i]]) \/ Starts(q[f[j]]) => q[f[i]].photo < q[f[j]].photo
    BY <2>1 DEF OneAfterTheOther
  <2> QED
    BY <2>1, <2>2
<1> QED
  BY <1>1, <1>2

\* The first fragment goes: the others move up, and keep what they agree on.
LEMMA Shift ==
  ASSUME NEW q, NEW r, NEW m \in Nat \ {0}, DOMAIN q = 1..m, DOMAIN r = 1..(m - 1),
         \A i \in 1..(m - 1) : r[i] = q[i + 1],
         NEW n \in 1..m, NEW a, NEW sizes, DOMAIN sizes \subseteq Nat, Agree(q, n, a, sizes)
  PROVE  /\ \A i \in DOMAIN r : WellCut(r[i], sizes)
         /\ OneAfterTheOther(r) /\ Gapless(r, n - 1)
         /\ n - 1 > 0 /\ ~Starts(r[1]) =>
              /\ r[1].photo = q[1].photo /\ r[1].at = q[1].at + q[1].len
              /\ ~Ends(q[1]) /\ WellCut(r[1], sizes)
<1> DEFINE f == [i \in Nat |-> i + 1]
<1>1. \A i \in DOMAIN r : i \in Nat /\ i + 1 \in DOMAIN q /\ r[i] = q[i + 1]
  OBVIOUS
<1>2. \A i \in DOMAIN r : f[i] = i + 1
  BY <1>1
<1>3. (\A i \in DOMAIN r : WellCut(r[i], sizes)) /\ OneAfterTheOther(r)
  <2> HIDE DEF f
  <2>1. \A i \in DOMAIN r : f[i] \in DOMAIN q /\ r[i] = q[f[i]]
    BY <1>1, <1>2
  <2>2. \A i, j \in DOMAIN r : i < j => f[i] < f[j]
    BY <1>1, <1>2
  <2>3. (\A i \in DOMAIN q : WellCut(q[i], sizes)) /\ OneAfterTheOther(q)
    BY DEF Agree
  <2> QED
    BY <2>1, <2>2, <2>3, Selection
<1> HIDE DEF f
<1>4. Gapless(q, n)
  BY DEF Agree
<1>5. Gapless(r, n - 1)
  <2> SUFFICES ASSUME NEW i \in 2..(n - 1), ~Starts(r[i])
               PROVE  r[i].photo = r[i - 1].photo /\ r[i].at = r[i - 1].at + r[i - 1].len
    BY DEF Gapless
  <2>1. i + 1 \in 2..n /\ i + 1 - 1 = i /\ i \in 1..(m - 1) /\ i - 1 \in 1..(m - 1) /\ i - 1 + 1 = i
    OBVIOUS
  <2>2. r[i] = q[i + 1] /\ r[i - 1] = q[i]
    BY <2>1
  <2>3. q[i + 1].photo = q[i + 1 - 1].photo /\ q[i + 1].at = q[i + 1 - 1].at + q[i + 1 - 1].len
    BY <1>4, <2>1, <2>2 DEF Gapless
  <2> QED
    BY <2>1, <2>2, <2>3
<1>6. ASSUME n - 1 > 0, ~Starts(r[1])
      PROVE  /\ r[1].photo = q[1].photo /\ r[1].at = q[1].at + q[1].len
             /\ ~Ends(q[1]) /\ WellCut(r[1], sizes)
  <2>1. 1 \in DOMAIN q /\ 2 \in DOMAIN q /\ 1 \in DOMAIN r /\ 2 \in 2..n /\ r[1] = q[2]
    BY <1>6
  <2>2. q[2].photo = q[2 - 1].photo /\ q[2].at = q[2 - 1].at + q[2 - 1].len
    BY <1>4, <1>6, <2>1 DEF Gapless
  <2>3. Ends(q[1]) => q[1].photo < q[2].photo
    BY <2>1 DEF Agree, OneAfterTheOther
  <2>4. q[1].photo \in Nat
    BY <2>1 DEF Agree, WellCut
  <2> QED
    BY <1>3, <2>1, <2>2, <2>3, <2>4
<1> QED
  BY <1>3, <1>5, <1>6

\* A fragment is put behind the others, the start of a later photo or the next one
\* of the last photo.
LEMMA Extend ==
  ASSUME NEW q, NEW r, NEW m \in Nat, DOMAIN q = 1..m, DOMAIN r = 1..(m + 1),
         \A i \in 1..m : r[i] = q[i],
         NEW n \in 0..m, NEW k \in Nat, k = n \/ (n = m /\ k = m + 1),
         NEW a, NEW sizes, Agree(q, n, a, sizes),
         WellCut(r[m + 1], sizes),
         \A i \in 1..m : /\ q[i].photo <= r[m + 1].photo
                         /\ Ends(q[i]) \/ Starts(r[m + 1]) => q[i].photo < r[m + 1].photo,
         ~Starts(r[m + 1]) => /\ m > 0
                              /\ r[m + 1].photo = q[m].photo
                              /\ r[m + 1].at = q[m].at + q[m].len
  PROVE  Agree(r, k, a, sizes)
<1>1. \A i \in DOMAIN r : WellCut(r[i], sizes)
  <2> TAKE i \in DOMAIN r
  <2>1. CASE i \in 1..m
    BY <2>1 DEF Agree
  <2>2. CASE i = m + 1
    BY <2>2
  <2> QED
    BY <2>1, <2>2
<1>2. OneAfterTheOther(r)
  <2> SUFFICES ASSUME NEW i \in DOMAIN r, NEW j \in DOMAIN r, i < j
               PROVE  /\ r[i].photo <= r[j].photo
                      /\ Ends(r[i]) \/ Starts(r[j]) => r[i].photo < r[j].photo
    BY DEF OneAfterTheOther
  <2>1. i \in 1..m /\ r[i] = q[i]
    OBVIOUS
  <2>2. CASE j \in 1..m
    BY <2>1, <2>2 DEF Agree, OneAfterTheOther
  <2>3. CASE j = m + 1
    BY <2>1, <2>3
  <2> QED
    BY <2>2, <2>3
<1>3. Gapless(r, k)
  <2> SUFFICES ASSUME NEW i \in 2..k, ~Starts(r[i])
               PROVE  r[i].photo = r[i - 1].photo /\ r[i].at = r[i - 1].at + r[i - 1].len
    BY DEF Gapless
  <2>1. CASE i \in 2..n
    <3>1. i \in 1..m /\ i - 1 \in 1..m
      BY <2>1
    <3> QED
      BY <2>1, <3>1 DEF Agree, Gapless
  <2>2. CASE i = m + 1
    <3>1. i - 1 = m /\ m \in 1..m
      BY <2>2
    <3> QED
      BY <2>2, <3>1
  <2> QED
    BY <2>1, <2>2
<1>4. NextFits(r, k, a)
  <2> SUFFICES ASSUME k > 0, ~Starts(r[1]), Acceptable(r[1]), a.waiting
               PROVE  r[1].photo = Channel!PhotoOf(a.buffer) /\ r[1].at = a.offset
    BY DEF NextFits
  <2>1. m > 0
    <3>1. CASE m = 0
      BY <3>1
    <3> QED
      BY <3>1
  <2>2. n > 0 /\ r[1] = q[1]
    BY <2>1
  <2> QED
    BY <2>2 DEF Agree, NextFits
<1> QED
  BY <1>1, <1>2, <1>3, <1>4 DEF Agree

\* The first fragments keep their places when some behind them are taken away and
\* at most the last of all, the sender's, is left.
LEMMA Cut ==
  ASSUME NEW q, NEW r, NEW m \in Nat, DOMAIN q = 1..m,
         NEW k \in 0..m, \A i \in 1..k : r[i] = q[i],
         DOMAIN r = 1..k \/ (DOMAIN r = 1..(k + 1) /\ k < m /\ r[k + 1] = q[m]),
         NEW n \in 0..m, NEW j \in 0..k, j <= n,
         NEW a, NEW b, b = a \/ ~b.waiting,
         NEW sizes, Agree(q, n, a, sizes)
  PROVE  Agree(r, j, b, sizes)
<1> DEFINE f == [i \in Nat |-> IF i <= k THEN i ELSE m]
<1>1. (\A i \in 1..k : f[i] = i) /\ f[k + 1] = m
  <2>1. \A i \in 1..k : i \in Nat /\ i <= k
    OBVIOUS
  <2>2. k + 1 \in Nat /\ ~(k + 1 <= k)
    OBVIOUS
  <2> QED
    BY <2>1, <2>2
<1> HIDE DEF f
<1>2. \A i \in DOMAIN r : f[i] \in DOMAIN q /\ r[i] = q[f[i]]
  <2> TAKE i \in DOMAIN r
  <2>1. CASE i \in 1..k
    BY <1>1, <2>1
  <2>2. CASE i = k + 1 /\ k < m /\ r[k + 1] = q[m]
    <3>1. m \in 1..m
      BY <2>2
    <3> QED
      BY <1>1, <2>2, <3>1
  <2> QED
    BY <2>1, <2>2
<1>3. \A h, i \in DOMAIN r : h < i => f[h] < f[i]
  <2> SUFFICES ASSUME NEW h \in DOMAIN r, NEW i \in DOMAIN r, h < i PROVE f[h] < f[i]
    OBVIOUS
  <2>1. h \in 1..k
    OBVIOUS
  <2>2. CASE i \in 1..k
    BY <1>1, <2>1, <2>2
  <2>3. CASE i = k + 1 /\ k < m
    BY <1>1, <2>1, <2>3
  <2> QED
    BY <2>2, <2>3
<1>4. (\A i \in DOMAIN r : WellCut(r[i], sizes)) /\ OneAfterTheOther(r)
  BY <1>2, <1>3, Selection DEF Agree
<1>5. Gapless(r, j)
  <2> SUFFICES ASSUME NEW i \in 2..j, ~Starts(r[i])
               PROVE  r[i].photo = r[i - 1].photo /\ r[i].at = r[i - 1].at + r[i - 1].len
    BY DEF Gapless
  <2>1. i \in 2..n /\ i \in 1..k /\ i - 1 \in 1..k
    OBVIOUS
  <2> QED
    BY <2>1 DEF Agree, Gapless
<1>6. NextFits(r, j, b)
  <2> SUFFICES ASSUME j > 0, ~Starts(r[1]), Acceptable(r[1]), b.waiting
               PROVE  r[1].photo = Channel!PhotoOf(b.buffer) /\ r[1].at = b.offset
    BY DEF NextFits
  <2>1. n > 0 /\ r[1] = q[1] /\ b = a
    OBVIOUS
  <2> QED
    BY <2>1 DEF Agree, NextFits
<1>7. IsPrefix(b, sizes)
  BY DEF Agree, IsPrefix
<1> QED
  BY <1>4, <1>5, <1>6, <1>7 DEF Agree

\* More photos make no difference to those under way.
LEMMA MorePhotos ==
  ASSUME NEW sizes, NEW more, \A x \in DOMAIN sizes : x \in DOMAIN more /\ more[x] = sizes[x],
         NEW q, NEW n, NEW a, Agree(q, n, a, sizes)
  PROVE  Agree(q, n, a, more)
<1>1. \A i \in DOMAIN q : WellCut(q[i], more)
  BY DEF Agree, WellCut
<1>2. IsPrefix(a, more)
  BY DEF Agree, IsPrefix
<1> QED
  BY <1>1, <1>2 DEF Agree

\* The assembly that takes a fragment holds what comes before it.
LEMMA Fitting ==
  ASSUME NEW q, NEW n \in Nat \ {0}, NEW a, IsAssembly(a), NEW sizes, Agree(q, n, a, sizes),
         1 \in DOMAIN q, Acceptable(q[1]), ~Starts(q[1]), Continues(a, q[1])
  PROVE  /\ q[1].photo = Channel!PhotoOf(a.buffer) /\ q[1].at = a.offset
         /\ a.total = q[1].total /\ a.offset \in Nat \ {0}
         /\ \A i \in 0..(a.offset - 1) : a.buffer[i] = <<q[1].photo, i>>
<1>1. a.waiting
  BY DEF Continues
<1>2. q[1].photo = Channel!PhotoOf(a.buffer) /\ q[1].at = a.offset
  BY <1>1 DEF Agree, NextFits
<1>3. q[1].total = sizes[q[1].photo]
  BY DEF Agree, WellCut
<1>4. /\ a.total = sizes[Channel!PhotoOf(a.buffer)] /\ a.offset > 0
      /\ \A i \in 0..(a.offset - 1) : a.buffer[i] = <<Channel!PhotoOf(a.buffer), i>>
  BY <1>1 DEF Agree, IsPrefix
<1>5. a.offset \in Nat \ {0}
  BY <1>4 DEF IsAssembly
<1> QED
  BY <1>2, <1>3, <1>4, <1>5

\* A buffer that is handed over is the content of the photo that ends (AssembleNoFrag,
\* and the END of AssembleFrag).
LEMMA Posting ==
  ASSUME TypeOK, NEW q, NEW n \in Nat \ {0}, NEW a, IsAssembly(a), Agree(q, n, a, photos),
         1 \in DOMAIN q, q[1] \in Packets, NEW b, Handle(q[1], a, b)
  PROVE  \/ posted' = posted
         \/ /\ Ends(q[1]) /\ q[1].photo \in Photos
            /\ posted' = Append(posted, Channel!Content(q[1].photo))
<1> DEFINE p == q[1]
<1>1. WellCut(p, photos)
  BY DEF Agree
<1>2. /\ p.total \in Nat \ {0} /\ p.len \in Nat \ {0} /\ p.at \in Nat /\ p.photo \in Photos
      /\ p.total = photos[p.photo] /\ (Starts(p) <=> p.at = 0) /\ (Ends(p) <=> p.at + p.len = p.total)
  BY <1>1, PacketTyped DEF WellCut
<1>3. CASE p.flag = "START_END"
  <2>1. posted' = posted \/ posted' = Append(posted, Copy(NewBuffer(p.len), 0, p))
    BY <1>3 DEF Handle
  <2>2. p.at = 0 /\ p.len = p.total /\ Ends(p)
    BY <1>2, <1>3 DEF Starts, Ends
  <2>3. Copy(NewBuffer(p.len), 0, p) = Channel!Content(p.photo)
    <3>1. Copy(NewBuffer(p.len), 0, p) =
            [i \in 0..(p.len - 1) |-> IF i \in 0..(0 + p.len - 1) THEN <<p.photo, p.at + i - 0>>
                                     ELSE NewBuffer(p.len)[i]]
      BY DEF Copy, NewBuffer
    <3>2. \A i \in 0..(p.len - 1) : i \in 0..(0 + p.len - 1) /\ p.at + i - 0 = i
      BY <1>2, <2>2
    <3>3. Copy(NewBuffer(p.len), 0, p) = [i \in 0..(p.len - 1) |-> <<p.photo, i>>]
      BY <3>1, <3>2
    <3>4. Channel!Content(p.photo) = [i \in 0..(p.len - 1) |-> <<p.photo, i>>]
      BY <1>2, <2>2 DEF Channel!Content
    <3> QED
      BY <3>3, <3>4
  <2> QED
    BY <1>2, <2>1, <2>2, <2>3
<1>4. CASE p.flag = "END" /\ Acceptable(p) /\ Continues(a, p)
  <2> DEFINE c == Assembled(a, p).buffer
  <2>1. posted' = Append(posted, c)
    BY <1>4 DEF Handle
  <2>2. Ends(p) /\ ~Starts(p) /\ p.at + p.len = p.total
    BY <1>2, <1>4 DEF Starts, Ends
  <2>3. /\ p.at = a.offset /\ a.total = p.total /\ a.offset \in Nat \ {0}
        /\ \A i \in 0..(a.offset - 1) : a.buffer[i] = <<p.photo, i>>
    BY <1>4, <2>2, Fitting
  <2>4. c = Copy(a.buffer, a.offset, p)
    BY <1>4 DEF Assembled
  <2>5. DOMAIN a.buffer = 0..(p.total - 1)
    BY <1>4, <2>3 DEF IsAssembly, Continues
  <2>6. \A i \in 0..(p.total - 1) :
          IF i \in a.offset..(a.offset + p.len - 1)
          THEN p.at + i - a.offset = i ELSE i \in 0..(a.offset - 1)
    BY <1>2, <2>2, <2>3
  <2>7. c = [i \in 0..(p.total - 1) |-> <<p.photo, i>>]
    <3>1. c = [i \in 0..(p.total - 1) |-> IF i \in a.offset..(a.offset + p.len - 1)
                                          THEN <<p.photo, p.at + i - a.offset>> ELSE a.buffer[i]]
      BY <2>4, <2>5 DEF Copy
    <3> QED
      BY <2>3, <2>6, <3>1
  <2>8. Channel!Content(p.photo) = [i \in 0..(p.total - 1) |-> <<p.photo, i>>]
    BY <1>2 DEF Channel!Content
  <2> QED
    BY <1>2, <2>1, <2>2, <2>7, <2>8
<1>5. CASE p.flag # "START_END" /\ ~(p.flag = "END" /\ Acceptable(p) /\ Continues(a, p))
  BY <1>5 DEF Handle
<1> QED
  BY <1>3, <1>4, <1>5

\* What a packet leaves behind agrees with what follows it (PackRecvData,
\* AssembleFrag, CheckUnPackBuffer).
LEMMA Handled ==
  ASSUME TypeOK, NEW q, NEW r, NEW m \in Nat \ {0}, DOMAIN q = 1..m, DOMAIN r = 1..(m - 1),
         \A i \in 1..(m - 1) : r[i] = q[i + 1],
         NEW n \in 1..m, NEW a, IsAssembly(a), Agree(q, n, a, photos),
         q[1] \in Packets, NEW b, Handle(q[1], a, b)
  PROVE  Agree(r, n - 1, b, photos)
<1> DEFINE p == q[1]
           k == n - 1
<1>1. /\ \A i \in DOMAIN r : WellCut(r[i], photos)
      /\ OneAfterTheOther(r) /\ Gapless(r, k)
      /\ k > 0 /\ ~Starts(r[1]) => /\ r[1].photo = p.photo /\ r[1].at = p.at + p.len
                                   /\ ~Ends(p) /\ WellCut(r[1], photos)
  <2>1. DOMAIN photos \subseteq Nat
    BY TypeParts
  <2> QED
    BY <2>1, Shift
<1>2. WellCut(p, photos) /\ 1 \in DOMAIN q /\ p \in Packets /\ n > 0
  BY DEF Agree
<1>3. /\ p.photo \in Photos /\ p.total = photos[p.photo]
      /\ p.total \in Nat \ {0} /\ p.len \in Nat \ {0} /\ p.at \in Nat
      /\ (Starts(p) <=> p.at = 0) /\ (Ends(p) <=> p.at + p.len = p.total)
      /\ p.flag \in Flags
  BY <1>2, PacketTyped DEF WellCut
<1>4. p.len <= PacketMax /\ p.len <= p.total
  <2>1. p.len \in 1..PacketMax /\ p.at + p.len <= p.total
    BY <1>2 DEF WellCut
  <2> HIDE DEF p
  <2> QED
    BY <1>3, <2>1
<1>5. k > 0 /\ ~Starts(r[1]) => r[1].total = p.total
  BY <1>1, <1>3 DEF WellCut
<1>6. IsPrefix(b, photos) /\ NextFits(r, k, b)
  <2>1. CASE ~Acceptable(p)
    <3>1. b = a
      BY <2>1 DEF Handle
    <3>2. ~(p.total <= TotalMax)
      <4>1. p.flag = "START_END" => p.len = p.total
        BY <1>3 DEF Starts, Ends
      <4> QED
        BY <1>4, <2>1, <4>1 DEF Acceptable
    <3>3. k > 0 /\ ~Starts(r[1]) => ~Acceptable(r[1])
      BY <1>5, <3>2 DEF Acceptable
    <3> QED
      BY <3>1, <3>3 DEF Agree, NextFits
  <2>2. CASE Acceptable(p) /\ p.flag = "START_END"
    <3>1. b = a
      BY <2>2 DEF Handle
    <3>2. Ends(p)
      BY <2>2 DEF Ends
    <3> QED
      BY <1>1, <3>1, <3>2 DEF Agree, NextFits
  <2>3. CASE Acceptable(p) /\ p.flag = "START"
    <3>1. b = Assembled(a, p)
      BY <2>3 DEF Handle
    <3>2. /\ b.offset = p.len /\ b.total = p.total
          /\ \A i \in 0..(p.len - 1) : b.buffer[i] = <<p.photo, p.at + i>>
      <4>1. p \in Packets /\ p.flag = "START"
        BY <1>2, <2>3
      <4> DEFINE c == Assembled(a, p)
      <4>2. /\ c.offset = p.len /\ c.total = p.total
            /\ \A i \in 0..(p.len - 1) : c.buffer[i] = <<p.photo, p.at + i>>
        <5> HIDE DEF p
        <5> QED
          BY <4>1, AssemblyBegun
      <4> HIDE DEF p, c
      <4>3. b = c
        BY <3>1 DEF c
      <4> QED
        BY <4>2, <4>3
    <3>3. p.at = 0
      BY <1>3, <2>3 DEF Starts
    <3>4. \A i \in 0..(p.len - 1) : b.buffer[i] = <<p.photo, i>>
      <4> HIDE DEF p, k
      <4> TAKE i \in 0..(p.len - 1)
      <4>1. b.buffer[i] = <<p.photo, p.at + i>>
        BY <3>2
      <4>2. p.at + i = i
        BY <3>3
      <4> QED
        BY <4>1, <4>2
    <3>5. Channel!PhotoOf(b.buffer) = p.photo
      <4>1. b.buffer[0] = <<p.photo, 0>>
        BY <1>3, <3>4
      <4> QED
        BY <4>1 DEF Channel!PhotoOf
    <3> HIDE DEF p, k
    <3>6. b.offset > 0 /\ p.at + p.len = p.len
      BY <1>3, <3>2, <3>3
    <3>7. IsPrefix(b, photos)
      BY <1>3, <3>2, <3>4, <3>5, <3>6 DEF IsPrefix, Photos
    <3>8. NextFits(r, k, b)
      BY <1>1, <3>2, <3>5, <3>6 DEF NextFits
    <3> QED
      BY <3>7, <3>8
  <2>4. CASE Acceptable(p) /\ p.flag = "MID" /\ Continues(a, p)
    <3>1. b = Assembled(a, p)
      BY <2>4 DEF Handle
    <3>2. /\ p.at = a.offset /\ a.total = p.total /\ a.offset \in Nat \ {0}
          /\ \A i \in 0..(a.offset - 1) : a.buffer[i] = <<p.photo, i>>
      <4>1. ~Starts(p)
        BY <2>4 DEF Starts
      <4>2. n \in Nat \ {0} /\ 1 \in DOMAIN q
        BY <1>2
      <4>4. Acceptable(q[1]) /\ ~Starts(q[1]) /\ Continues(a, q[1])
        BY <2>4, <4>1
      <4>3. /\ q[1].at = a.offset /\ a.total = q[1].total /\ a.offset \in Nat \ {0}
            /\ \A i \in 0..(a.offset - 1) : a.buffer[i] = <<q[1].photo, i>>
        BY <4>2, <4>4, Fitting
      <4> QED
        BY <4>3
    <3>3. /\ b.offset = a.offset + p.len /\ b.total = p.total
          /\ \A i \in 0..(a.offset - 1) : b.buffer[i] = a.buffer[i]
          /\ \A i \in a.offset..(a.offset + p.len - 1) :
                b.buffer[i] = <<p.photo, p.at + i - a.offset>>
      <4>1. p \in Packets /\ p.flag # "START" /\ Continues(a, p)
        BY <1>2, <2>4
      <4>2. a.total = p.total
        BY <3>2
      <4> DEFINE c == Assembled(a, p)
      <4> HIDE DEF p
      <4>3. c.offset = a.offset + p.len /\ c.total = a.total
        BY <4>1, AssemblyContinued
      <4>4. \A i \in 0..(a.offset - 1) : c.buffer[i] = a.buffer[i]
        BY <4>1, AssemblyContinued
      <4>5. \A i \in a.offset..(a.offset + p.len - 1) : c.buffer[i] = <<p.photo, p.at + i - a.offset>>
        BY <4>1, AssemblyContinued
      <4>6. b = c
        BY <3>1
      <4> HIDE DEF c
      <4> QED
        BY <4>2, <4>3, <4>4, <4>5, <4>6
    <3> HIDE DEF p, k
    <3>4. ASSUME NEW i \in 0..(b.offset - 1) PROVE b.buffer[i] = <<p.photo, i>>
      <4>1. CASE i < a.offset
        <5>1. i \in 0..(a.offset - 1)
          BY <1>3, <3>2, <3>3, <4>1
        <5> QED
          BY <3>2, <3>3, <5>1
      <4>2. CASE ~(i < a.offset)
        <5>1. i \in a.offset..(a.offset + p.len - 1) /\ p.at + i - a.offset = i
          BY <1>3, <3>2, <3>3, <4>2
        <5> QED
          BY <3>3, <5>1
      <4> QED
        BY <4>1, <4>2
    <3>5. b.offset > 0 /\ 0 \in 0..(b.offset - 1)
      BY <1>3, <3>2, <3>3
    <3>6. Channel!PhotoOf(b.buffer) = p.photo
      <4>1. b.buffer[0] = <<p.photo, 0>>
        BY <3>4, <3>5
      <4> QED
        BY <4>1 DEF Channel!PhotoOf
    <3>7. IsPrefix(b, photos)
      BY <1>3, <3>3, <3>4, <3>5, <3>6 DEF IsPrefix, Photos
    <3>8. NextFits(r, k, b)
      BY <1>1, <3>2, <3>3, <3>6 DEF NextFits
    <3> QED
      BY <3>7, <3>8
  <2>5. CASE Acceptable(p) /\ p.flag \in {"MID", "END"} /\ (p.flag = "END" \/ ~Continues(a, p))
    <3>1. b = NoAssembly
      BY <2>5 DEF Handle
    <3> QED
      BY <3>1 DEF NoAssembly, IsPrefix, NextFits
  <2> QED
    BY <1>3, <2>1, <2>2, <2>3, <2>4, <2>5 DEF Flags
<1> QED
  BY <1>1, <1>6 DEF Agree

\* Handing over a photo adds it to those handed over.
LEMMA PostedAfter ==
  ASSUME TypeOK, PostedTyped, NEW n \in Photos, photos' = photos,
         posted' = Append(posted, Channel!Content(n))
  PROVE  Channel!Posted' = Channel!Posted \cup {n} /\ PostedTyped'
<1>1. photos[n] \in Sizes /\ n \in Nat
  BY TypeParts DEF Photos
<1>2. 0 \in 0..(photos[n] - 1)
  <2>1. photos[n] \in Nat \ {0}
    BY <1>1, FragmentAssumption
  <2> QED
    BY <2>1
<1>3. Channel!Content(n) \in Buffers
  BY <1>1 DEF Buffers, Channel!Content
<1>4. Channel!PhotoOf(Channel!Content(n)) = n
  <2>1. Channel!Content(n)[0] = <<n, 0>>
    BY <1>2 DEF Channel!Content
  <2> QED
    BY <2>1 DEF Channel!PhotoOf
<1>5. posted \in Seq(Buffers)
  BY DEF PostedTyped
<1>6. /\ posted' \in Seq(Buffers) /\ DOMAIN posted = 1..Len(posted)
      /\ Len(posted) \in Nat /\ DOMAIN posted' = 1..(Len(posted) + 1)
      /\ \A i \in 1..Len(posted) : posted'[i] = posted[i]
      /\ posted'[Len(posted) + 1] = Channel!Content(n)
  BY <1>3, <1>5
<1>7. \A i \in DOMAIN posted' : i \in DOMAIN posted \/ i = Len(posted) + 1
  BY <1>6
<1>8. Channel!Posted' = {Channel!PhotoOf(posted'[i]) : i \in DOMAIN posted'}
  BY DEF Channel!Posted, Channel!PhotoOf
<1>9. Channel!Posted' = Channel!Posted \cup {n}
  BY <1>4, <1>6, <1>7, <1>8 DEF Channel!Posted
<1> QED
  BY <1>6, <1>9 DEF PostedTyped, Photos

\* Nothing but the processing of a packet touches the buffers handed over.
LEMMA PostedKept ==
  ASSUME PostedTyped, posted' = posted, Photos \subseteq Photos'
  PROVE  PostedTyped' /\ Channel!Posted' = Channel!Posted
<1>1. Channel!Posted' = Channel!Posted
  BY DEF Channel!Posted, Channel!PhotoOf
<1> QED
  BY <1>1 DEF PostedTyped

\* How many fragments reach the assembly.
LEMMA Reaching ==
  ASSUME TypeOK
  PROVE  /\ Reach \in 0..Len(Pending) /\ Len(Stream) <= Reach
         /\ Reach = Len(Pending) \/ Reach = Len(Stream)
         /\ Len(Stream) \in 0..Len(Pending)
<1>1. PendingShape
  BY PendingParts
<1>2. Len(Stream) \in Nat /\ Len(Pending) \in Nat
  BY <1>1 DEF PendingShape
<1>3. Len(Pending) = Len(Stream) \/ Len(Pending) = Len(Stream) + 1
  BY <1>1 DEF PendingShape
<1>4. Reach = Len(Pending) \/ Reach = Len(Stream)
  BY DEF Reach
<1> QED
  BY <1>2, <1>3, <1>4

\* The types of the fragments under way, and what they agree on.
LEMMA UnderWay ==
  ASSUME TypeOK, FragmentsAgree
  PROVE  /\ \A i \in DOMAIN Pending : /\ Pending[i] \in Packets /\ Pending[i].photo \in Photos
                                      /\ Pending[i].photo \in Nat
         /\ \A i \in DOMAIN leftInbox : /\ leftInbox[i] \in Packets /\ leftInbox[i].photo \in Photos
                                        /\ leftInbox[i].photo \in Nat
         /\ DOMAIN leftInbox = 1..Len(leftInbox) /\ Len(leftInbox) \in Nat
<1>1. Pending \in Seq(Packets) /\ leftInbox \in Seq(Packets)
  BY PendingParts, TypeParts DEF PendingShape
<1>2. \A i \in DOMAIN Pending : Pending[i] \in Packets
  BY <1>1
<1>3. \A i \in DOMAIN leftInbox : leftInbox[i] \in Packets
  BY <1>1
<1>4. DOMAIN leftInbox = 1..Len(leftInbox) /\ Len(leftInbox) \in Nat
  BY <1>1
<1> QED
  BY <1>2, <1>3, <1>4, PacketTyped

\* TakePhoto keeps the agreement: the first fragment of a new photo comes last.
LEMMA AgreeTake ==
  ASSUME TypeOK, TypeOK', PostedTyped, FragmentsAgree, NEW s \in Sizes, TakePhoto(s)
  PROVE  FragmentsAgree' /\ PostedTyped'
<1>1. UNCHANGED <<session, wire, inbox, assembly, leftInbox, leftAssembly, posted>> /\ sending = Idle
  BY DEF TakePhoto, source, left
<1>2. /\ Len(photos) \in Nat /\ Photos = 1..Len(photos) /\ DOMAIN photos = Photos
      /\ \A x \in DOMAIN photos : x \in DOMAIN photos' /\ photos'[x] = photos[x]
      /\ Photos \subseteq Photos'
      /\ sending'.photo = Len(photos) + 1 /\ sending'.offset = 0 /\ sending' # Idle
  BY NewPhoto, TypeParts DEF Photos
<1>3. PostedTyped' /\ Channel!Posted' = Channel!Posted
  BY <1>1, <1>2, PostedKept
<1> DEFINE new == Fragment'
           m == Len(Pending)
<1>4. /\ m \in Nat /\ Pending = Stream /\ DOMAIN Pending = 1..m /\ Reach = m
  BY <1>1, PendingParts DEF PendingShape, Reach
<1>5. Stream' = Stream
  BY <1>1 DEF Stream
<1>6. /\ DOMAIN Pending' = 1..(m + 1) /\ Pending'[m + 1] = new /\ Len(Pending') = m + 1
      /\ \A i \in 1..m : Pending'[i] = Pending[i]
  <2>1. /\ DOMAIN Pending' = 1..Len(Pending') /\ Len(Pending') = Len(Stream') + 1
        /\ Pending'[Len(Stream') + 1] = Fragment'
        /\ \A i \in 1..Len(Stream') : Pending'[i] = Stream'[i]
    BY <1>2, PendingPartsNext DEF PendingShape, Idle
  <2> QED
    BY <1>4, <1>5, <2>1
<1>7. WellCut(new, photos') /\ new.photo = Len(photos) + 1 /\ Starts(new)
  <2>1. FragmentShape'
    BY <1>2, FragmentShapeNext DEF Idle
  <2>2. WellCut(new, photos') /\ new.photo = Len(photos) + 1 /\ (Starts(new) <=> sending'.offset = 0)
    BY <1>2, <2>1 DEF FragmentShape
  <2> QED
    BY <1>2, <2>2
<1>8. Reach' = m \/ Reach' = m + 1
  BY <1>4, <1>5, <1>6 DEF Reach
<1>9. \A i \in 1..m : Pending[i].photo \in 1..Len(photos) /\ Pending[i].photo < Len(photos) + 1
  BY <1>2, <1>4, UnderWay
<1>10. Agree(Pending', Reach', assembly', photos')
  <2>1. Agree(Pending, m, assembly, photos')
    BY <1>2, <1>4, MorePhotos DEF FragmentsAgree
  <2>2. \A i \in 1..m : /\ Pending[i].photo <= new.photo
                        /\ Ends(Pending[i]) \/ Starts(new) => Pending[i].photo < new.photo
    BY <1>2, <1>7, <1>9
  <2> DEFINE k == Reach'
  <2>3. k \in Nat /\ (k = m \/ k = m + 1) /\ m \in 0..m
    BY <1>4, <1>8
  <2> HIDE DEF m, new, k
  <2>4. Agree(Pending', k, assembly, photos')
    BY <1>4, <1>6, <1>7, <2>1, <2>2, <2>3, Extend
  <2> QED
    BY <1>1, <2>4 DEF k
<1>11. Agree(leftInbox', Len(leftInbox'), leftAssembly', photos')
  BY <1>1, <1>2, MorePhotos DEF FragmentsAgree
<1>12. NoneTwice'
  <2>1. \A i \in DOMAIN Pending' : Pending'[i].photo \notin Channel!Posted'
    <3> TAKE i \in DOMAIN Pending'
    <3>1. CASE i \in 1..m
      BY <1>3, <1>4, <1>6, <3>1 DEF FragmentsAgree, NoneTwice
    <3>2. CASE i = m + 1
      <4>1. Pending'[i].photo \notin Photos
        BY <1>2, <1>6, <1>7, <3>2
      <4> QED
        BY <1>3, <4>1 DEF PostedTyped
    <3> QED
      BY <1>4, <1>6, <3>1, <3>2
  <2>2. ASSUME NEW i \in DOMAIN leftInbox, Ends(leftInbox[i])
        PROVE  /\ leftInbox[i].photo \notin Channel!Posted'
               /\ \A j \in DOMAIN Pending' : leftInbox[i].photo < Pending'[j].photo
    <3>1. /\ leftInbox[i].photo \notin Channel!Posted
          /\ \A j \in DOMAIN Pending : leftInbox[i].photo < Pending[j].photo
      BY <2>2 DEF FragmentsAgree, NoneTwice
    <3>2. leftInbox[i].photo < Len(photos) + 1
      BY <1>2, UnderWay
    <3>3. ASSUME NEW j \in DOMAIN Pending' PROVE leftInbox[i].photo < Pending'[j].photo
      <4>1. CASE j \in 1..m
        BY <1>4, <1>6, <3>1, <4>1
      <4>2. CASE j = m + 1
        BY <1>6, <1>7, <3>2, <4>2
      <4> QED
        BY <1>4, <1>6, <4>1, <4>2
    <3> QED
      BY <1>3, <3>1, <3>3
  <2> QED
    BY <1>1, <2>1, <2>2 DEF NoneTwice, Ends
<1> QED
  BY <1>3, <1>10, <1>11, <1>12 DEF FragmentsAgree

\* SendFragment keeps the agreement: the next fragment of the photo comes right
\* behind the one just sent.
LEMMA AgreeSend ==
  ASSUME TypeOK, TypeOK', PostedTyped, FragmentsAgree, SendFragment
  PROVE  FragmentsAgree' /\ PostedTyped'
<1>1. /\ UNCHANGED <<photos, session, inbox, assembly, leftInbox, leftAssembly, posted>>
      /\ sending # Idle
      /\ wire' = Append(wire, Fragment) /\ session \in {"bound", "recorded"}
  BY DEF SendFragment, source, left
<1>2. PostedTyped' /\ Channel!Posted' = Channel!Posted
  BY <1>1, PostedKept DEF Photos
<1> DEFINE m == Len(Pending)
<1>3. /\ m \in Nat \ {0} /\ DOMAIN Pending = 1..m /\ Pending[m] = Fragment /\ Reach = m
  <2>1. /\ m \in Nat /\ DOMAIN Pending = 1..m /\ Len(Stream) \in Nat
        /\ m = Len(Stream) + 1 /\ Pending[Len(Stream) + 1] = Fragment
    BY <1>1, PendingParts DEF PendingShape
  <2>2. Reach = m
    BY <1>1 DEF Reach
  <2> QED
    BY <2>1, <2>2
<1>4. Stream' = Pending
  <2>1. Stream' = inbox \o Append(wire, Fragment)
    BY <1>1 DEF Stream
  <2>2. Pending = (inbox \o wire) \o <<Fragment>>
    BY <1>1 DEF Pending, Stream
  <2>3. Fragment \in Packets /\ <<Fragment>> \in Seq(Packets)
    BY <1>1, FragmentIsWellCut
  <2>4. Append(wire, Fragment) = wire \o <<Fragment>>
    BY <2>3, TypeParts, AppendIsConcat
  <2>5. inbox \o (wire \o <<Fragment>>) = (inbox \o wire) \o <<Fragment>>
    BY <2>3, TypeParts, ConcatAssociative
  <2> QED
    BY <2>1, <2>2, <2>4, <2>5
<1>5. Agree(leftInbox', Len(leftInbox'), leftAssembly', photos')
  BY <1>1 DEF FragmentsAgree
<1>6. Reach' = Len(Pending')
  BY <1>1 DEF Reach
<1>7. CASE sending' = Idle
  <2>1. Pending' = Pending
    BY <1>4, <1>7, PendingPartsNext DEF PendingShape, Idle
  <2>2. Agree(Pending', Reach', assembly', photos')
    BY <1>1, <1>3, <1>6, <2>1 DEF FragmentsAgree
  <2>3. NoneTwice'
    BY <1>1, <1>2, <2>1 DEF FragmentsAgree, NoneTwice, Ends
  <2> QED
    BY <1>2, <1>5, <2>2, <2>3 DEF FragmentsAgree
<1>8. CASE sending' # Idle
  <2> DEFINE new == Fragment'
  <2>1. /\ sending'.photo = sending.photo /\ sending'.offset = sending.offset + FragmentLen
        /\ FragmentFlag \notin {"END", "START_END"}
    BY <1>8 DEF SendFragment
  <2>2. /\ Fragment.photo = sending.photo /\ Fragment.at = sending.offset /\ Fragment.len = FragmentLen
        /\ ~Ends(Fragment) /\ sending.offset \in Nat /\ FragmentLen \in Nat \ {0}
        /\ Fragment.photo \in Nat
    BY <1>1, <2>1, FragmentIsWellCut, PacketTyped, TypeParts
  <2>3. /\ WellCut(new, photos') /\ new.photo = Fragment.photo /\ new.at = Fragment.at + Fragment.len
        /\ ~Starts(new)
    <3>1. FragmentShape'
      BY <1>8, FragmentShapeNext DEF Idle
    <3>2. WellCut(new, photos') /\ new.photo = sending'.photo /\ new.at = sending'.offset
          /\ (Starts(new) <=> sending'.offset = 0)
      BY <3>1 DEF FragmentShape
    <3>3. sending'.offset # 0
      BY <2>1, <2>2
    <3> QED
      BY <2>1, <2>2, <3>2, <3>3
  <2>4. /\ DOMAIN Pending' = 1..(m + 1) /\ Pending'[m + 1] = new /\ Len(Pending') = m + 1
        /\ \A i \in 1..m : Pending'[i] = Pending[i]
    <3>1. /\ DOMAIN Pending' = 1..Len(Pending') /\ Len(Pending') = Len(Stream') + 1
          /\ Pending'[Len(Stream') + 1] = Fragment'
          /\ \A i \in 1..Len(Stream') : Pending'[i] = Stream'[i]
      BY <1>8, PendingPartsNext DEF PendingShape, Idle
    <3> QED
      BY <1>4, <3>1
  <2>5. ASSUME NEW i \in 1..m
        PROVE  /\ Pending[i].photo <= new.photo
               /\ Ends(Pending[i]) \/ Starts(new) => Pending[i].photo < new.photo
    <3>1. CASE i = m
      BY <1>3, <2>2, <2>3, <3>1
    <3>2. CASE i # m
      <4>1. i < m /\ m \in 1..m /\ i \in 1..m
        <5>1. m \in Nat \ {0}
          BY <1>3
        <5> HIDE DEF m
        <5> QED
          BY <2>5, <3>2, <5>1
      <4>2. /\ Pending[i].photo <= Pending[m].photo
            /\ Ends(Pending[i]) => Pending[i].photo < Pending[m].photo
        BY <1>3, <4>1 DEF FragmentsAgree, Agree, OneAfterTheOther
      <4> QED
        BY <1>3, <2>3, <4>2
    <3> QED
      BY <3>1, <3>2
  <2>6. Agree(Pending', Reach', assembly', photos')
    <3> DEFINE k == Reach'
    <3>1. k = m + 1 /\ k \in Nat /\ m \in 0..m /\ m \in Nat /\ m > 0
      BY <1>3, <1>6, <2>4
    <3>2. Agree(Pending, m, assembly, photos')
      BY <1>1, <1>3 DEF FragmentsAgree
    <3>3. new.photo = Pending[m].photo /\ new.at = Pending[m].at + Pending[m].len
      BY <1>3, <2>3
    <3> HIDE DEF m, new, k
    <3>4. Agree(Pending', k, assembly, photos')
      BY <1>3, <2>3, <2>4, <2>5, <3>1, <3>2, <3>3, Extend
    <3> QED
      BY <1>1, <3>4 DEF k
  <2>7. NoneTwice'
    <3>1. \A i \in DOMAIN Pending' : \E j \in DOMAIN Pending : Pending'[i].photo = Pending[j].photo
      <4> TAKE i \in DOMAIN Pending'
      <4>1. CASE i \in 1..m
        BY <1>3, <2>4, <4>1
      <4>2. CASE i = m + 1
        <5>1. m \in DOMAIN Pending
          BY <1>3
        <5> QED
          BY <1>3, <2>3, <2>4, <4>2, <5>1
      <4>3. i \in 1..m \/ i = m + 1
        <5>1. i \in 1..(m + 1) /\ m \in Nat
          BY <1>3, <2>4
        <5> HIDE DEF m
        <5> QED
          BY <5>1
      <4> QED
        BY <4>1, <4>2, <4>3
    <3> QED
      BY <1>1, <1>2, <3>1 DEF FragmentsAgree, NoneTwice, Ends
  <2> QED
    BY <1>2, <1>5, <2>6, <2>7 DEF FragmentsAgree
<1> QED
  BY <1>7, <1>8

\* The first of one queue goes to the end of the one before it.
LEMMA MovesOn ==
  ASSUME NEW S, NEW q \in Seq(S), NEW r \in Seq(S), r # <<>>
  PROVE  Append(q, Head(r)) \o Tail(r) = q \o r
<1> DEFINE s == Append(q, Head(r)) \o Tail(r)
           t == q \o r
<1>1. /\ Head(r) \in S /\ Head(r) = r[1] /\ Tail(r) \in Seq(S) /\ Len(r) \in Nat \ {0}
      /\ Len(q) \in Nat /\ Len(Tail(r)) = Len(r) - 1
      /\ \A i \in 1..(Len(r) - 1) : Tail(r)[i] = r[i + 1]
  BY QueueTail
<1>2. /\ Append(q, Head(r)) \in Seq(S) /\ Len(Append(q, Head(r))) = Len(q) + 1
      /\ \A i \in 1..Len(q) : Append(q, Head(r))[i] = q[i]
      /\ Append(q, Head(r))[Len(q) + 1] = r[1]
  BY <1>1
<1>3. /\ s \in Seq(S) /\ Len(s) = Len(q) + Len(r)
      /\ \A i \in 1..(Len(q) + Len(r)) :
            s[i] = IF i <= Len(q) + 1 THEN Append(q, Head(r))[i] ELSE Tail(r)[i - (Len(q) + 1)]
  BY <1>1, <1>2, ConcatProperties
<1>4. /\ t \in Seq(S) /\ Len(t) = Len(q) + Len(r)
      /\ \A i \in 1..(Len(q) + Len(r)) : t[i] = IF i <= Len(q) THEN q[i] ELSE r[i - Len(q)]
  BY <1>1, ConcatProperties
<1> HIDE DEF s, t
<1>5. ASSUME NEW i \in 1..Len(s) PROVE s[i] = t[i]
  <2>1. CASE i <= Len(q)
    <3>1. i \in 1..Len(q) /\ i \in 1..(Len(q) + Len(r)) /\ i <= Len(q) + 1
      <4>1. Len(q) \in Nat /\ Len(r) \in Nat /\ Len(s) = Len(q) + Len(r)
        BY <1>1, <1>3
      <4> QED
        BY <4>1, <2>1
    <3>2. s[i] = Append(q, Head(r))[i]
      BY <1>3, <3>1
    <3>3. Append(q, Head(r))[i] = q[i]
      BY <1>2, <3>1
    <3>4. t[i] = q[i]
      BY <1>4, <3>1, <2>1
    <3> QED
      BY <3>2, <3>3, <3>4
  <2>2. CASE i = Len(q) + 1
    <3>1. i - Len(q) = 1 /\ ~(i <= Len(q)) /\ i <= Len(q) + 1
      BY <1>1, <2>2
    <3> QED
      BY <1>2, <1>3, <1>4, <2>2, <3>1
  <2>3. CASE i > Len(q) + 1
    <3>1. /\ i - (Len(q) + 1) \in 1..(Len(r) - 1) /\ i - (Len(q) + 1) + 1 = i - Len(q)
          /\ ~(i <= Len(q)) /\ ~(i <= Len(q) + 1) /\ i \in 1..(Len(q) + Len(r))
      BY <1>1, <1>3, <2>3
    <3> QED
      BY <1>1, <1>3, <1>4, <3>1
  <2> QED
    BY <1>1, <2>1, <2>2, <2>3
<1> QED
  BY <1>3, <1>4, <1>5, SeqEqual DEF s, t

\* The first packet in the queue is the first fragment under way.
LEMMA HeadIsFirst ==
  ASSUME TypeOK, inbox # <<>>
  PROVE  /\ Head(inbox) \in Packets /\ Head(inbox) = Stream[1]
         /\ Len(Stream) > 0 /\ Len(Pending) > 0 /\ Pending[1] = Head(inbox)
         /\ Tail(inbox) \o wire \in Seq(Packets) /\ Len(Tail(inbox) \o wire) = Len(Stream) - 1
         /\ \A i \in 1..(Len(Stream) - 1) : (Tail(inbox) \o wire)[i] = Stream[i + 1]
<1>1. /\ wire \in Seq(Packets) /\ inbox \in Seq(Packets) /\ Len(wire) \in Nat
      /\ Head(inbox) \in Packets /\ Head(inbox) = inbox[1] /\ Tail(inbox) \in Seq(Packets)
      /\ Len(inbox) \in Nat \ {0} /\ Len(Tail(inbox)) = Len(inbox) - 1
      /\ \A i \in 1..(Len(inbox) - 1) : Tail(inbox)[i] = inbox[i + 1]
  BY TypeParts, QueueTail
<1> DEFINE n == Len(inbox) + Len(wire)
<1>2. /\ Stream \in Seq(Packets) /\ Len(Stream) = n
      /\ \A i \in 1..n : Stream[i] = IF i <= Len(inbox) THEN inbox[i] ELSE wire[i - Len(inbox)]
  BY <1>1, ConcatProperties DEF Stream
<1>3. /\ Tail(inbox) \o wire \in Seq(Packets) /\ Len(Tail(inbox) \o wire) = n - 1
      /\ \A i \in 1..(n - 1) : (Tail(inbox) \o wire)[i] =
            IF i <= Len(inbox) - 1 THEN Tail(inbox)[i] ELSE wire[i - (Len(inbox) - 1)]
  <2>1. Len(inbox) - 1 + Len(wire) = n - 1
    BY <1>1
  <2> QED
    BY <1>1, <2>1, ConcatProperties
<1>4. Stream[1] = inbox[1] /\ n > 0
  BY <1>1, <1>2
<1>5. ASSUME NEW i \in 1..(n - 1) PROVE (Tail(inbox) \o wire)[i] = Stream[i + 1]
  <2>1. CASE i <= Len(inbox) - 1
    <3>1. i \in 1..(Len(inbox) - 1) /\ i + 1 \in 1..n /\ i + 1 <= Len(inbox)
      BY <1>1, <2>1
    <3> QED
      BY <1>1, <1>2, <1>3, <2>1, <3>1
  <2>2. CASE ~(i <= Len(inbox) - 1)
    <3>1. i + 1 \in 1..n /\ ~(i + 1 <= Len(inbox)) /\ i + 1 - Len(inbox) = i - (Len(inbox) - 1)
      BY <1>1, <2>2
    <3> QED
      BY <1>2, <1>3, <2>2, <3>1
  <2> QED
    BY <2>1, <2>2
<1>6. Len(Pending) > 0 /\ Pending[1] = Stream[1]
  <2>1. /\ \A i \in 1..Len(Stream) : Pending[i] = Stream[i]
        /\ Len(Stream) \in Nat /\ Len(Pending) \in Nat
        /\ Len(Pending) = Len(Stream) \/ Len(Pending) = Len(Stream) + 1
    BY PendingParts DEF PendingShape
  <2>2. 1 \in 1..Len(Stream)
    BY <1>2, <1>4
  <2> QED
    BY <1>2, <1>4, <2>1, <2>2
<1> QED
  BY <1>1, <1>2, <1>3, <1>4, <1>5, <1>6

\* The first fragment of the stream goes: the pending ones move up.
LEMMA Moved ==
  ASSUME TypeOK, TypeOK', UNCHANGED <<photos, sending, session>>,
         Len(Stream) > 0, Len(Stream') = Len(Stream) - 1,
         \A i \in 1..(Len(Stream) - 1) : Stream'[i] = Stream[i + 1]
  PROVE  /\ Len(Pending) \in Nat \ {0} /\ DOMAIN Pending = 1..Len(Pending)
         /\ Len(Pending') = Len(Pending) - 1 /\ DOMAIN Pending' = 1..(Len(Pending) - 1)
         /\ \A i \in 1..(Len(Pending) - 1) : Pending'[i] = Pending[i + 1]
         /\ Reach \in 1..Len(Pending) /\ Reach' = Reach - 1
         /\ Pending[1] = Stream[1]
<1>1. /\ Len(Stream) \in Nat /\ Len(Pending) \in Nat /\ DOMAIN Pending = 1..Len(Pending)
      /\ \A i \in 1..Len(Stream) : Pending[i] = Stream[i]
      /\ sending = Idle => Pending = Stream
      /\ sending # Idle => Len(Pending) = Len(Stream) + 1 /\ Pending[Len(Stream) + 1] = Fragment
  BY PendingParts DEF PendingShape
<1>2. /\ DOMAIN Pending' = 1..Len(Pending')
      /\ \A i \in 1..Len(Stream') : Pending'[i] = Stream'[i]
      /\ sending = Idle => Pending' = Stream'
      /\ sending # Idle => Len(Pending') = Len(Stream') + 1 /\ Pending'[Len(Stream') + 1] = Fragment
  <2>1. Fragment' = Fragment
    BY DEF Fragment, FragmentFlag, FragmentLen, Remaining
  <2> QED
    BY <2>1, PendingPartsNext DEF PendingShape, Idle
<1> DEFINE n == Len(Pending)
           m == Len(Stream)
<1>3. n \in Nat /\ m \in Nat \ {0} /\ Len(Stream') = m - 1
  <2>1. n \in Nat /\ m \in Nat
    BY <1>1
  <2>2. m > 0 /\ Len(Stream') = m - 1
    OBVIOUS
  <2> HIDE DEF n, m
  <2> QED
    BY <2>1, <2>2
<1>4. (sending = Idle /\ n = m) \/ (sending # Idle /\ n = m + 1)
  BY <1>1
<1>5. Len(Pending') = n - 1
  <2>1. sending = Idle => Len(Pending') = m - 1
    BY <1>2
  <2>2. sending # Idle => Len(Pending') = m - 1 + 1
    BY <1>2
  <2> HIDE DEF n, m
  <2> QED
    BY <1>3, <1>4, <2>1, <2>2
<1>6. \A i \in 1..(m - 1) : Pending'[i] = Stream[i + 1] /\ Pending[i + 1] = Stream[i + 1]
  <2> TAKE i \in 1..(m - 1)
  <2>1. i \in 1..(m - 1) /\ i + 1 \in 1..m
    BY <1>3
  <2>2. Pending'[i] = Stream'[i] /\ Stream'[i] = Stream[i + 1]
    BY <1>2, <1>3, <2>1
  <2>3. Pending[i + 1] = Stream[i + 1]
    BY <1>1, <2>1
  <2> QED
    BY <2>2, <2>3
<1>7. sending # Idle => Pending'[m] = Fragment /\ Pending[m + 1] = Fragment
  <2>1. Len(Stream') + 1 = m
    BY <1>3
  <2> QED
    BY <1>1, <1>2, <2>1
<1>8. \A i \in 1..(n - 1) : Pending'[i] = Pending[i + 1]
  <2> TAKE i \in 1..(n - 1)
  <2>1. i \in 1..(m - 1) \/ (sending # Idle /\ i = m)
    <3> HIDE DEF n, m
    <3> QED
      BY <1>3, <1>4
  <2> QED
    BY <1>6, <1>7, <2>1
<1>9. Reach \in 1..n /\ Reach' = Reach - 1
  <2>1. CASE session \in {"bound", "recorded"}
    <3>1. Reach = n /\ Reach' = Len(Pending')
      BY <2>1 DEF Reach
    <3> HIDE DEF n, m
    <3> QED
      BY <1>3, <1>4, <1>5, <3>1
  <2>2. CASE session \notin {"bound", "recorded"}
    <3>1. Reach = m /\ Reach' = Len(Stream')
      BY <2>2 DEF Reach
    <3> HIDE DEF n, m
    <3> QED
      BY <1>3, <1>4, <3>1
  <2> QED
    BY <2>1, <2>2
<1>10. Pending[1] = Stream[1]
  <2>1. 1 \in 1..Len(Stream)
    <3> HIDE DEF n
    <3> QED
      BY <1>3
  <2> QED
    BY <1>1, <2>1
<1>11. n \in Nat \ {0}
  <2> HIDE DEF n, m
  <2> QED
    BY <1>3, <1>4
<1> QED
  BY <1>1, <1>2, <1>5, <1>8, <1>9, <1>10, <1>11

\* Receive keeps the agreement.
LEMMA AgreeReceive ==
  ASSUME TypeOK, TypeOK', PostedTyped, FragmentsAgree, Receive
  PROVE  FragmentsAgree' /\ PostedTyped'
<1> DEFINE m == Len(Pending)
           p == Pending[1]
<1>1. /\ UNCHANGED <<photos, sending, session, wire, leftInbox, leftAssembly>>
      /\ inbox # <<>> /\ inbox' = Tail(inbox) /\ Handle(Head(inbox), assembly, assembly')
  BY DEF Receive, sink, left
<1>2. /\ Head(inbox) = p /\ p \in Packets /\ Len(Stream) > 0 /\ Len(Stream') = Len(Stream) - 1
      /\ \A i \in 1..(Len(Stream) - 1) : Stream'[i] = Stream[i + 1]
  <2>1. Stream' = Tail(inbox) \o wire
    BY <1>1 DEF Stream
  <2> QED
    BY <1>1, <2>1, HeadIsFirst
<1>3. /\ m \in Nat \ {0} /\ DOMAIN Pending = 1..m /\ DOMAIN Pending' = 1..(m - 1)
      /\ \A i \in 1..(m - 1) : Pending'[i] = Pending[i + 1]
      /\ Reach \in 1..m /\ Reach' = Reach - 1
  BY <1>1, <1>2, Moved
<1>4. /\ Agree(Pending, Reach, assembly, photos) /\ IsAssembly(assembly)
      /\ 1 \in DOMAIN Pending /\ Reach \in Nat \ {0}
  <2>1. 1 \in DOMAIN Pending /\ Reach \in Nat \ {0}
    <3> HIDE DEF m
    <3> QED
      BY <1>3
  <2> QED
    BY <2>1 DEF FragmentsAgree, TypeOK
<1>5. Handle(p, assembly, assembly')
  BY <1>1, <1>2
<1>6. Agree(Pending', Reach', assembly', photos')
  <2>1. Agree(Pending', Reach - 1, assembly', photos)
    <3> HIDE DEF m
    <3> QED
      BY <1>2, <1>3, <1>4, <1>5, Handled
  <2> QED
    BY <1>1, <1>3, <2>1
<1>7. Agree(leftInbox', Len(leftInbox'), leftAssembly', photos')
  BY <1>1 DEF FragmentsAgree
<1>8. \A i \in DOMAIN Pending' : i + 1 \in DOMAIN Pending /\ Pending'[i] = Pending[i + 1] /\ 1 < i + 1
  <2> HIDE DEF m
  <2> QED
    BY <1>3
<1>9. CASE posted' = posted
  <2>1. PostedTyped' /\ Channel!Posted' = Channel!Posted
    BY <1>1, <1>9, PostedKept DEF Photos
  <2>2. NoneTwice'
    BY <1>1, <1>8, <2>1 DEF FragmentsAgree, NoneTwice, Ends
  <2> QED
    BY <1>6, <1>7, <2>1, <2>2 DEF FragmentsAgree
<1>10. CASE Ends(p) /\ p.photo \in Photos /\ posted' = Append(posted, Channel!Content(p.photo))
  <2>1. Channel!Posted' = Channel!Posted \cup {p.photo} /\ PostedTyped'
    BY <1>1, <1>10, PostedAfter
  <2>2. \A i \in DOMAIN Pending' : Pending'[i].photo \notin Channel!Posted'
    <3> TAKE i \in DOMAIN Pending'
    <3>1. Pending[1].photo < Pending[i + 1].photo
      BY <1>4, <1>8, <1>10 DEF Agree, OneAfterTheOther
    <3>2. Pending[i + 1].photo \notin Channel!Posted
      BY <1>8 DEF FragmentsAgree, NoneTwice
    <3>3. Pending[i + 1].photo \in Nat /\ Pending[1].photo \in Nat
      BY <1>4, <1>8, UnderWay
    <3>4. Pending[i + 1].photo # Pending[1].photo
      BY <3>1, <3>3
    <3> QED
      BY <1>8, <2>1, <3>2, <3>4
  <2>3. ASSUME NEW i \in DOMAIN leftInbox, Ends(leftInbox[i])
        PROVE  /\ leftInbox[i].photo \notin Channel!Posted'
               /\ \A j \in DOMAIN Pending' : leftInbox[i].photo < Pending'[j].photo
    <3>1. /\ leftInbox[i].photo \notin Channel!Posted
          /\ \A j \in DOMAIN Pending : leftInbox[i].photo < Pending[j].photo
      BY <2>3 DEF FragmentsAgree, NoneTwice
    <3>2. leftInbox[i].photo < Pending[1].photo /\ leftInbox[i].photo \in Nat /\ Pending[1].photo \in Nat
      BY <1>4, <3>1, UnderWay
    <3>3. leftInbox[i].photo # Pending[1].photo
      BY <3>2
    <3> QED
      BY <1>8, <2>1, <3>1, <3>3
  <2>4. NoneTwice'
    BY <1>1, <2>2, <2>3 DEF NoneTwice, Ends
  <2> QED
    BY <1>6, <1>7, <2>1, <2>4 DEF FragmentsAgree
<1> QED
  BY <1>2, <1>4, <1>5, <1>9, <1>10, Posting

\* So does the session that was left behind.
LEMMA AgreeReceiveLeft ==
  ASSUME TypeOK, TypeOK', PostedTyped, FragmentsAgree, ReceiveLeft
  PROVE  FragmentsAgree' /\ PostedTyped'
<1> DEFINE m == Len(leftInbox)
           p == leftInbox[1]
<1>1. /\ UNCHANGED <<photos, sending, session, wire, inbox, assembly>>
      /\ leftInbox # <<>> /\ leftInbox' = Tail(leftInbox)
      /\ Handle(Head(leftInbox), leftAssembly, leftAssembly')
  BY DEF ReceiveLeft, sink
<1>2. Stream' = Stream /\ Pending' = Pending /\ Reach' = Reach
  BY <1>1 DEF Stream, Pending, Reach, Fragment, FragmentFlag, FragmentLen, Remaining, Idle
<1>3. leftInbox \in Seq(Packets) /\ leftInbox' \in Seq(Packets')
  BY TypeParts DEF TypeOK
<1>4. /\ Head(leftInbox) = p /\ p \in Packets /\ m \in Nat \ {0} /\ Len(leftInbox') = m - 1
      /\ \A i \in 1..(m - 1) : leftInbox'[i] = leftInbox[i + 1]
  BY <1>1, <1>3, QueueTail
<1>5. DOMAIN leftInbox = 1..m /\ DOMAIN leftInbox' = 1..(m - 1)
  BY <1>3, <1>4
<1>6. /\ Agree(leftInbox, m, leftAssembly, photos) /\ IsAssembly(leftAssembly)
      /\ 1 \in DOMAIN leftInbox /\ m > 0 /\ m \in 1..m
  BY <1>4, <1>5 DEF FragmentsAgree, TypeOK
<1>7. Handle(p, leftAssembly, leftAssembly')
  BY <1>1, <1>4
<1>8. Agree(leftInbox', Len(leftInbox'), leftAssembly', photos')
  <2>1. Agree(leftInbox', m - 1, leftAssembly', photos)
    <3> HIDE DEF m
    <3> QED
      BY <1>4, <1>5, <1>6, <1>7, Handled
  <2> QED
    BY <1>1, <1>4, <2>1
<1>9. Agree(Pending', Reach', assembly', photos')
  BY <1>1, <1>2 DEF FragmentsAgree
<1>10. \A i \in DOMAIN leftInbox' : /\ i + 1 \in DOMAIN leftInbox /\ leftInbox'[i] = leftInbox[i + 1]
                                    /\ 1 < i + 1
  <2> HIDE DEF m
  <2> QED
    BY <1>4, <1>5
<1>11. CASE posted' = posted
  <2>1. PostedTyped' /\ Channel!Posted' = Channel!Posted
    BY <1>1, <1>11, PostedKept DEF Photos
  <2>2. NoneTwice'
    BY <1>1, <1>2, <1>10, <2>1 DEF FragmentsAgree, NoneTwice, Ends
  <2> QED
    BY <1>8, <1>9, <2>1, <2>2 DEF FragmentsAgree
<1>12. CASE Ends(p) /\ p.photo \in Photos /\ posted' = Append(posted, Channel!Content(p.photo))
  <2>1. Channel!Posted' = Channel!Posted \cup {p.photo} /\ PostedTyped'
    BY <1>1, <1>12, PostedAfter
  <2>2. \A i \in DOMAIN Pending : Pending[i].photo \notin Channel!Posted'
    <3> TAKE i \in DOMAIN Pending
    <3>1. p.photo < Pending[i].photo /\ Pending[i].photo \notin Channel!Posted
      BY <1>6, <1>12 DEF FragmentsAgree, NoneTwice
    <3>2. p.photo \in Nat /\ Pending[i].photo \in Nat
      BY <1>6, UnderWay
    <3>3. p.photo # Pending[i].photo
      BY <3>1, <3>2
    <3> QED
      BY <2>1, <3>1, <3>3
  <2>3. ASSUME NEW i \in DOMAIN leftInbox', Ends(leftInbox'[i])
        PROVE  /\ leftInbox'[i].photo \notin Channel!Posted'
               /\ \A j \in DOMAIN Pending : leftInbox'[i].photo < Pending[j].photo
    <3>1. i + 1 \in DOMAIN leftInbox /\ leftInbox'[i] = leftInbox[i + 1] /\ 1 < i + 1
      BY <1>10, <2>3
    <3>2. /\ leftInbox[i + 1].photo \notin Channel!Posted
          /\ \A j \in DOMAIN Pending : leftInbox[i + 1].photo < Pending[j].photo
      BY <2>3, <3>1 DEF FragmentsAgree, NoneTwice
    <3>3. leftInbox[1].photo < leftInbox[i + 1].photo
      BY <1>6, <1>12, <3>1 DEF Agree, OneAfterTheOther
    <3>4. leftInbox[1].photo \in Nat /\ leftInbox[i + 1].photo \in Nat
      BY <1>6, <3>1, UnderWay
    <3>5. leftInbox[i + 1].photo # p.photo
      BY <3>3, <3>4
    <3> QED
      BY <2>1, <3>1, <3>2, <3>5
  <2>4. NoneTwice'
    BY <1>2, <2>2, <2>3 DEF NoneTwice, Ends
  <2> QED
    BY <1>8, <1>9, <2>1, <2>4 DEF FragmentsAgree
<1> QED
  BY <1>4, <1>6, <1>7, <1>11, <1>12, Posting

\* The end of the stream goes, and with it perhaps the assembly or the photo that
\* is being sent.
LEMMA AgreeCut ==
  ASSUME TypeOK, TypeOK', PostedTyped, FragmentsAgree, UNCHANGED <<photos, posted>>,
         NEW k \in 0..Len(Stream), Len(Stream') = k,
         \A i \in 1..k : Stream'[i] = Stream[i], Reach' = k,
         sending' = Idle \/ sending' = sending,
         assembly' = assembly \/ ~assembly'.waiting
  PROVE  /\ Agree(Pending', Reach', assembly', photos') /\ PostedTyped'
         /\ Channel!Posted' = Channel!Posted
         /\ \A i \in DOMAIN Pending' : \E x \in DOMAIN Pending : Pending'[i] = Pending[x]
<1>1. PostedTyped' /\ Channel!Posted' = Channel!Posted
  BY PostedKept DEF Photos
<1> DEFINE m == Len(Pending)
           l == Len(Stream)
<1>2. /\ l \in Nat /\ m \in Nat /\ DOMAIN Pending = 1..m
      /\ \A i \in 1..l : Pending[i] = Stream[i]
      /\ sending = Idle => Pending = Stream
      /\ sending # Idle => m = l + 1 /\ Pending[m] = Fragment
  BY PendingParts DEF PendingShape
<1>0. l \in Nat /\ m \in Nat /\ k \in 0..l /\ k \in Nat /\ k \in 0..k
  <2>1. l \in Nat /\ m \in Nat
    BY PendingParts DEF PendingShape
  <2>2. k \in 0..l
    OBVIOUS
  <2> HIDE DEF m, l
  <2> QED
    BY <2>1, <2>2
<1>3. (m = l \/ m = l + 1) /\ (sending # Idle => m = l + 1)
  BY <1>2
<1>4. /\ DOMAIN Pending' = 1..Len(Pending')
      /\ \A i \in 1..k : Pending'[i] = Stream'[i]
      /\ sending' = Idle => Pending' = Stream' /\ Len(Pending') = k
      /\ sending' # Idle => Len(Pending') = k + 1 /\ Pending'[k + 1] = Fragment'
  BY PendingPartsNext DEF PendingShape, Idle
<1>5. k \in 0..m /\ (sending # Idle => k < m)
  <2> HIDE DEF m, l
  <2> QED
    BY <1>0, <1>3
<1>6. \A i \in 1..k : Pending'[i] = Pending[i]
  <2> TAKE i \in 1..k
  <2>1. i \in 1..l
    <3> HIDE DEF l
    <3> QED
      BY <1>0
  <2> QED
    BY <1>2, <1>4, <2>1
<1>7. DOMAIN Pending' = 1..k \/ (DOMAIN Pending' = 1..(k + 1) /\ k < m /\ Pending'[k + 1] = Pending[m])
  <2>1. CASE sending' = Idle
    BY <1>4, <2>1
  <2>2. CASE sending' # Idle
    <3>1. sending' = sending /\ sending # Idle
      BY <2>2
    <3>2. Fragment' = Fragment
      BY <3>1 DEF Fragment, FragmentFlag, FragmentLen, Remaining
    <3>3. Pending'[k + 1] = Pending[m]
      BY <1>2, <1>4, <2>2, <3>1, <3>2
    <3>4. DOMAIN Pending' = 1..(k + 1)
      BY <1>4, <2>2
    <3> QED
      BY <1>5, <3>1, <3>3, <3>4
  <2> QED
    BY <2>1, <2>2
<1>8. Reach \in 0..m /\ k <= Reach
  <2>1. Reach \in 0..m /\ l <= Reach
    BY Reaching
  <2> HIDE DEF m, l
  <2> QED
    BY <1>0, <2>1
<1>9. Agree(Pending', Reach', assembly', photos')
  <2>1. Agree(Pending, Reach, assembly, photos) /\ DOMAIN Pending = 1..m
    BY <1>2 DEF FragmentsAgree
  <2>2. Agree(Pending', k, assembly', photos)
    <3> HIDE DEF m, l
    <3> QED
      BY <1>0, <1>5, <1>6, <1>7, <1>8, <2>1, Cut
  <2> QED
    BY <2>2
<1>10. \A i \in DOMAIN Pending' : \E x \in DOMAIN Pending : Pending'[i] = Pending[x]
  <2> TAKE i \in DOMAIN Pending'
  <2>1. CASE i \in 1..k
    <3>1. i \in 1..m
      <4> HIDE DEF m, l
      <4> QED
        BY <1>0, <1>5, <2>1
    <3> QED
      BY <1>2, <1>6, <2>1, <3>1
  <2>2. CASE i \notin 1..k
    <3>1. k < m /\ Pending'[k + 1] = Pending[m] /\ i \in 1..(k + 1)
      BY <1>7, <2>2
    <3>2. i = k + 1 /\ m \in 1..m
      <4> HIDE DEF m, l
      <4> QED
        BY <1>0, <1>5, <2>2, <3>1
    <3> QED
      BY <1>2, <3>1, <3>2
  <2> QED
    BY <2>1, <2>2
<1> QED
  BY <1>1, <1>9, <1>10

\* What was left behind stays as it was.
LEMMA LeftStays ==
  ASSUME FragmentsAgree, UNCHANGED <<photos, left>>, PostedTyped',
         Agree(Pending', Reach', assembly', photos'), Channel!Posted' = Channel!Posted,
         \A i \in DOMAIN Pending' : \E x \in DOMAIN Pending : Pending'[i] = Pending[x]
  PROVE  FragmentsAgree' /\ PostedTyped'
<1>1. leftInbox' = leftInbox /\ leftAssembly' = leftAssembly /\ photos' = photos
  BY DEF left
<1>2. Agree(leftInbox', Len(leftInbox'), leftAssembly', photos')
  BY <1>1 DEF FragmentsAgree
<1>3. ASSUME NEW i \in DOMAIN Pending' PROVE Pending'[i].photo \notin Channel!Posted'
  BY <1>3 DEF FragmentsAgree, NoneTwice
<1>4. ASSUME NEW i \in DOMAIN leftInbox, Ends(leftInbox[i])
      PROVE  /\ leftInbox[i].photo \notin Channel!Posted'
             /\ \A j \in DOMAIN Pending' : leftInbox[i].photo < Pending'[j].photo
  BY <1>4 DEF FragmentsAgree, NoneTwice
<1>5. NoneTwice'
  BY <1>1, <1>3, <1>4 DEF NoneTwice, Ends
<1> QED
  BY <1>2, <1>5 DEF FragmentsAgree

\* SendFails and Shutdown keep the agreement.
LEMMA AgreeFailure ==
  ASSUME TypeOK, TypeOK', PostedTyped, FragmentsAgree, SendFails \/ Shutdown
  PROVE  FragmentsAgree' /\ PostedTyped'
<1>1. UNCHANGED <<photos, posted, inbox, assembly, left>>
  BY DEF SendFails, Shutdown, sink, source
<1>2. inbox \in Seq(Packets) /\ wire \in Seq(Packets) /\ Len(Stream) \in Nat
  BY TypeParts, PendingParts DEF PendingShape
<1>3. CASE SendFails
  <2>1. Stream' = Stream /\ sending' = Idle
    BY <1>3 DEF SendFails, source, Stream
  <2>2. Pending' = Stream'
    BY <2>1, PendingPartsNext DEF PendingShape, Idle
  <2>3. Reach' = Len(Stream)
    BY <2>1, <2>2 DEF Reach
  <2>4. Len(Stream) \in 0..Len(Stream) /\ Len(Stream') = Len(Stream)
    BY <1>2, <2>1
  <2> HIDE DEF Stream
  <2> QED
    BY <1>1, <2>1, <2>3, <2>4, AgreeCut, LeftStays
<1>4. CASE Shutdown
  <2>1. sending' = sending /\ session' = "closed" /\ wire' = <<>>
    BY <1>4 DEF Shutdown, sink
  <2>2. Stream' = inbox
    BY <1>1, <1>2, <2>1 DEF Stream
  <2>3. Len(inbox) \in 0..Len(Stream) /\ \A i \in 1..Len(inbox) : Stream'[i] = Stream[i]
    BY <1>2, <2>2 DEF Stream
  <2>4. Reach' = Len(inbox)
    BY <2>1, <2>2 DEF Reach
  <2> QED
    BY <1>1, <2>1, <2>2, <2>3, <2>4, AgreeCut, LeftStays
<1> QED
  BY <1>3, <1>4

\* ReleaseSession does, with what it leaves behind.
LEMMA AgreeRelease ==
  ASSUME TypeOK, TypeOK', SessionAgrees, PostedTyped, FragmentsAgree, ReleaseSession
  PROVE  FragmentsAgree' /\ PostedTyped'
<1>1. /\ UNCHANGED <<photos, posted, sending>>
      /\ session' = "none" /\ wire' = <<>> /\ inbox' = <<>> /\ ~assembly'.waiting
  BY DEF ReleaseSession, sink, NoAssembly
<1>2. Stream' = <<>>
  BY <1>1 DEF Stream
<1>3. inbox \in Seq(Packets) /\ wire \in Seq(Packets) /\ Len(Stream) \in Nat
  BY TypeParts, PendingParts DEF PendingShape
<1>4. /\ Agree(Pending', Reach', assembly', photos') /\ PostedTyped'
      /\ Channel!Posted' = Channel!Posted
      /\ \A i \in DOMAIN Pending' : \E x \in DOMAIN Pending : Pending'[i] = Pending[x]
  <2>1. 0 \in 0..Len(Stream) /\ Len(Stream') = 0 /\ \A i \in 1..0 : Stream'[i] = Stream[i]
    BY <1>2, <1>3
  <2>2. Reach' = 0
    BY <1>1, <1>2 DEF Reach
  <2> HIDE DEF Stream
  <2> QED
    BY <1>1, <2>1, <2>2, AgreeCut
<1>5. CASE session # "closed"
  <2>1. UNCHANGED left
    BY <1>5 DEF ReleaseSession
  <2> QED
    BY <1>1, <1>4, <2>1, LeftStays
<1>6. CASE session = "closed"
  <2>1. leftInbox' = inbox /\ leftAssembly' = assembly /\ wire = <<>>
    BY <1>6 DEF ReleaseSession, SessionAgrees
  <2> DEFINE k == Len(inbox)
             m == Len(Pending)
  <2>2. Stream = inbox /\ k \in Nat /\ DOMAIN inbox = 1..k
    BY <1>3, <2>1 DEF Stream
  <2>3. Reach = k
    BY <1>6, <2>2 DEF Reach
  <2>4. /\ m \in Nat /\ DOMAIN Pending = 1..m /\ \A i \in 1..k : Pending[i] = inbox[i]
        /\ sending = Idle => Pending = Stream
        /\ sending # Idle => m = k + 1 /\ Pending[m] = Fragment
    BY <2>2, PendingParts DEF PendingShape
  <2>5. k \in 0..m /\ k \in 0..k /\ k <= k
    <3>1. (m = k \/ m = k + 1) /\ m \in Nat
      BY <2>2, <2>4
    <3>2. k \in Nat
      BY <2>2
    <3> HIDE DEF k, m
    <3> QED
      BY <3>1, <3>2
  <2>6. Agree(leftInbox', Len(leftInbox'), leftAssembly', photos')
    <3>1. /\ Agree(Pending, k, assembly, photos) /\ m \in Nat /\ DOMAIN Pending = 1..m
          /\ DOMAIN inbox = 1..k /\ \A i \in 1..k : inbox[i] = Pending[i]
      BY <2>2, <2>3, <2>4 DEF FragmentsAgree
    <3>2. Agree(inbox, k, assembly, photos)
      <4> HIDE DEF k, m
      <4> QED
        BY <2>5, <3>1, Cut
    <3> QED
      BY <1>1, <2>1, <3>2
  <2>7. ASSUME NEW i \in DOMAIN inbox, Ends(inbox[i])
        PROVE  /\ inbox[i].photo \notin Channel!Posted
               /\ \A j \in DOMAIN Pending' : inbox[i].photo < Pending'[j].photo
    <3>1. i \in 1..k /\ i \in DOMAIN Pending /\ inbox[i] = Pending[i]
      <4>1. i \in 1..k
        BY <2>2
      <4>2. i \in 1..m
        <5>1. k \in Nat /\ m \in Nat
          BY <2>2, <2>4
        <5> HIDE DEF k, m
        <5> QED
          BY <2>5, <4>1, <5>1
      <4> QED
        BY <2>4, <4>1, <4>2
    <3>2. inbox[i].photo \notin Channel!Posted
      BY <3>1 DEF FragmentsAgree, NoneTwice
    <3>3. ASSUME NEW j \in DOMAIN Pending' PROVE inbox[i].photo < Pending'[j].photo
      <4>1. /\ DOMAIN Pending' = 1..Len(Pending')
            /\ sending' = Idle => Pending' = Stream'
            /\ sending' # Idle => Len(Pending') = Len(Stream') + 1 /\ Pending'[Len(Stream') + 1] = Fragment'
        BY PendingPartsNext DEF PendingShape, Idle
      <4>2. sending # Idle
        BY <1>1, <1>2, <3>3, <4>1
      <4>3. Pending'[1] = Fragment' /\ j = 1
        BY <1>1, <1>2, <3>3, <4>1, <4>2
      <4>4. Fragment' = Fragment
        BY <1>1 DEF Fragment, FragmentFlag, FragmentLen, Remaining
      <4>5. m \in DOMAIN Pending /\ Pending[m] = Fragment /\ i < m
        <5>1. m = k + 1 /\ k \in Nat /\ DOMAIN Pending = 1..m /\ Pending[m] = Fragment
          BY <2>2, <2>4, <4>2
        <5> HIDE DEF k, m
        <5> QED
          BY <3>1, <5>1
      <4>6. Pending[i].photo < Pending[m].photo
        BY <2>7, <3>1, <4>5 DEF FragmentsAgree, Agree, OneAfterTheOther
      <4> QED
        BY <3>1, <4>3, <4>4, <4>5, <4>6
    <3> QED
      BY <3>2, <3>3
  <2>8. ASSUME NEW i \in DOMAIN Pending' PROVE Pending'[i].photo \notin Channel!Posted'
    BY <1>4, <2>8 DEF FragmentsAgree, NoneTwice
  <2>9. NoneTwice'
    BY <1>4, <2>1, <2>7, <2>8 DEF NoneTwice, Ends
  <2> QED
    BY <1>4, <2>6, <2>9 DEF FragmentsAgree
<1> QED
  BY <1>5, <1>6

\* Nothing of what is under way changes.
LEMMA AgreeStays ==
  ASSUME TypeOK, PostedTyped, FragmentsAgree,
         UNCHANGED <<photos, sending, posted, assembly, left>>, Stream' = Stream, Reach' = Reach
  PROVE  FragmentsAgree' /\ PostedTyped'
<1>1. PostedTyped' /\ Channel!Posted' = Channel!Posted
  BY PostedKept DEF Photos
<1>2. Pending' = Pending
  BY DEF Pending, Fragment, FragmentFlag, FragmentLen, Remaining, Idle
<1>3. Agree(Pending', Reach', assembly', photos')
  BY <1>2 DEF FragmentsAgree
<1>4. \A i \in DOMAIN Pending' : \E x \in DOMAIN Pending : Pending'[i] = Pending[x]
  BY <1>2
<1> QED
  BY <1>1, <1>3, <1>4, LeftStays

\* OnBytes keeps the agreement: a session that is not recorded has no assembly.
LEMMA AgreeOnBytes ==
  ASSUME TypeOK, TypeOK', SessionAgrees, PostedTyped, FragmentsAgree, OnBytes
  PROVE  FragmentsAgree' /\ PostedTyped'
<1>1. /\ UNCHANGED <<photos, sending, session, posted, assembly, left>>
      /\ wire # <<>> /\ wire' = Tail(wire)
      /\ session = "recorded" => inbox' = Append(inbox, Head(wire))
      /\ session # "recorded" => inbox' = inbox
  BY DEF OnBytes, sink
<1>2. wire \in Seq(Packets) /\ inbox \in Seq(Packets)
  BY TypeParts
<1>3. CASE session = "recorded"
  <2>1. Stream' = Stream
    <3> HIDE DEF Packets
    <3> QED
      BY <1>1, <1>2, <1>3, MovesOn DEF Stream
  <2>2. Pending' = Pending
    BY <1>1, <2>1 DEF Pending, Fragment, FragmentFlag, FragmentLen, Remaining, Idle
  <2>3. Reach' = Reach
    BY <1>1, <2>1, <2>2 DEF Reach
  <2> HIDE DEF Stream
  <2> QED
    BY <1>1, <2>1, <2>3, AgreeStays
<1>4. CASE session # "recorded"
  <2> DEFINE m == Len(Pending)
  <2>1. session = "bound" /\ inbox = <<>> /\ inbox' = <<>> /\ ~assembly.waiting
    BY <1>1, <1>4 DEF TypeOK, SessionAgrees
  <2>2. Stream = wire /\ Stream' = Tail(wire)
    <3>1. Tail(wire) \in Seq(Packets)
      BY <1>1, <1>2, QueueTail
    <3> QED
      BY <1>1, <1>2, <2>1, <3>1 DEF Stream
  <2>3. /\ Len(Stream) > 0 /\ Len(Stream') = Len(Stream) - 1
        /\ \A i \in 1..(Len(Stream) - 1) : Stream'[i] = Stream[i + 1]
    <3>1. /\ Len(wire) \in Nat \ {0} /\ Len(Tail(wire)) = Len(wire) - 1
          /\ \A i \in 1..(Len(wire) - 1) : Tail(wire)[i] = wire[i + 1]
      BY <1>1, <1>2, QueueTail
    <3>2. Len(wire) > 0
      <4> DEFINE w == Len(wire)
      <4>1. w \in Nat \ {0}
        BY <3>1
      <4> HIDE DEF w
      <4>2. w > 0
        BY <4>1
      <4> QED
        BY <4>2 DEF w
    <3> QED
      BY <2>2, <3>1, <3>2
  <2>4. /\ m \in Nat \ {0} /\ DOMAIN Pending = 1..m /\ DOMAIN Pending' = 1..(m - 1)
        /\ \A i \in 1..(m - 1) : Pending'[i] = Pending[i + 1]
        /\ Reach \in 1..m /\ Reach' = Reach - 1
    <3> HIDE DEF Stream
    <3> QED
      BY <1>1, <2>3, Moved
  <2>5. DOMAIN photos \subseteq Nat /\ Agree(Pending, Reach, assembly, photos)
    BY TypeParts DEF Photos, FragmentsAgree
  <2>6. /\ \A i \in DOMAIN Pending' : WellCut(Pending'[i], photos)
        /\ OneAfterTheOther(Pending') /\ Gapless(Pending', Reach - 1)
    <3> HIDE DEF m
    <3> QED
      BY <2>4, <2>5, Shift
  <2>7. Agree(Pending', Reach', assembly', photos')
    BY <1>1, <2>1, <2>4, <2>6 DEF Agree, IsPrefix, NextFits
  <2>8. \A i \in DOMAIN Pending' : \E x \in DOMAIN Pending : Pending'[i] = Pending[x]
    <3> TAKE i \in DOMAIN Pending'
    <3>1. i + 1 \in DOMAIN Pending /\ Pending'[i] = Pending[i + 1]
      <4> HIDE DEF m
      <4> QED
        BY <2>4
    <3> QED
      BY <3>1
  <2>9. PostedTyped' /\ Channel!Posted' = Channel!Posted
    BY <1>1, PostedKept DEF Photos
  <2> QED
    BY <1>1, <2>7, <2>8, <2>9, LeftStays
<1> QED
  BY <1>3, <1>4

\* So do the steps that open a session.
LEMMA AgreeOpen ==
  ASSUME TypeOK, TypeOK', SessionAgrees, PostedTyped, FragmentsAgree, Bind \/ RecordSession
  PROVE  FragmentsAgree' /\ PostedTyped'
<1>1. UNCHANGED <<photos, sending, wire, inbox, posted, assembly, left>>
  BY DEF Bind, RecordSession, sink
<1>2. Stream' = Stream
  BY <1>1 DEF Stream
<1>3. Pending' = Pending
  BY <1>1, <1>2 DEF Pending, Fragment, FragmentFlag, FragmentLen, Remaining, Idle
<1>4. CASE RecordSession
  <2>1. Reach' = Reach
    BY <1>2, <1>3, <1>4 DEF Reach, RecordSession
  <2> HIDE DEF Stream
  <2> QED
    BY <1>1, <1>2, <2>1, AgreeStays
<1>5. CASE Bind
  <2>1. session' = "bound" /\ wire = <<>> /\ inbox = <<>> /\ ~assembly.waiting
    BY <1>5 DEF Bind, SessionAgrees
  <2>2. Reach' = Len(Pending)
    BY <1>3, <2>1 DEF Reach
  <2>3. Len(Pending) = 0 \/ Len(Pending) = 1
    <3>1. Stream = <<>>
      BY <2>1 DEF Stream
    <3>2. (sending = Idle => Pending = Stream) /\ (sending # Idle => Len(Pending) = Len(Stream) + 1)
      BY PendingParts DEF PendingShape
    <3> QED
      BY <3>1, <3>2
  <2>4. Gapless(Pending, Len(Pending))
    <3> DEFINE n == Len(Pending)
    <3>1. n = 0 \/ n = 1
      BY <2>3
    <3> HIDE DEF n
    <3>2. 2..n = {}
      BY <3>1
    <3> QED
      BY <3>2 DEF Gapless, n
  <2>5. Agree(Pending', Reach', assembly', photos')
    BY <1>1, <1>3, <2>1, <2>2, <2>4 DEF FragmentsAgree, Agree, IsPrefix, NextFits
  <2>6. \A i \in DOMAIN Pending' : \E x \in DOMAIN Pending : Pending'[i] = Pending[x]
    BY <1>3
  <2>7. PostedTyped' /\ Channel!Posted' = Channel!Posted
    BY <1>1, PostedKept DEF Photos
  <2> QED
    BY <1>1, <2>5, <2>6, <2>7, LeftStays
<1> QED
  BY <1>4, <1>5

\* Before the first photo there is nothing to disagree about.
LEMMA InitAgrees == Init => IndInv
<1> SUFFICES ASSUME Init PROVE IndInv
  OBVIOUS
<1>1. /\ photos = <<>> /\ sending = Idle /\ result = "none" /\ session = "none"
      /\ wire = <<>> /\ inbox = <<>> /\ posted = <<>> /\ leftInbox = <<>>
      /\ assembly = NoAssembly /\ leftAssembly = NoAssembly
  BY DEF Init
<1>2. IsAssembly(NoAssembly) /\ ~NoAssembly.waiting
  <2>1. SubSeqs - 1 \in Nat
    BY FragmentAssumption
  <2> QED
    BY <2>1 DEF NoAssembly, IsAssembly
<1>3. TypeOK
  <2>1. photos \in Seq(Sizes)
    BY <1>1
  <2>2. wire \in Seq(Packets) /\ inbox \in Seq(Packets) /\ leftInbox \in Seq(Packets)
    BY <1>1
  <2> QED
    BY <1>1, <1>2, <2>1, <2>2 DEF TypeOK
<1>4. SessionAgrees
  BY <1>1, <1>2 DEF SessionAgrees
<1>5. PostedTyped
  <2>1. Channel!Posted = {}
    BY <1>1 DEF Channel!Posted
  <2> QED
    BY <1>1, <2>1 DEF PostedTyped
<1>6. Pending = <<>> /\ Stream = <<>>
  BY <1>1 DEF Pending, Stream
<1>7. DOMAIN Pending = {} /\ Reach = 0 /\ DOMAIN leftInbox = {} /\ Len(leftInbox) = 0
  BY <1>1, <1>6 DEF Reach
<1>8. Agree(Pending, Reach, assembly, photos)
  BY <1>1, <1>2, <1>7 DEF Agree, OneAfterTheOther, Gapless, IsPrefix, NextFits
<1>9. Agree(leftInbox, Len(leftInbox), leftAssembly, photos)
  BY <1>1, <1>2, <1>7 DEF Agree, OneAfterTheOther, Gapless, IsPrefix, NextFits
<1>10. NoneTwice
  BY <1>7 DEF NoneTwice
<1> QED
  BY <1>3, <1>4, <1>5, <1>8, <1>9, <1>10 DEF IndInv, FragmentsAgree

\* Every step keeps what the fragments under way and the assemblies agree on.
LEMMA AgreeStep == IndInv /\ [Next]_vars => IndInv'
<1> SUFFICES ASSUME IndInv, [Next]_vars PROVE IndInv'
  OBVIOUS
<1>1. TypeOK /\ SessionAgrees /\ PostedTyped /\ FragmentsAgree /\ TypeOK' /\ SessionAgrees'
  BY TypeStep, SessionStep DEF IndInv
<1>2. ASSUME NEW s \in Sizes, TakePhoto(s) PROVE FragmentsAgree' /\ PostedTyped'
  BY <1>1, <1>2, AgreeTake
<1>3. ASSUME SendFragment PROVE FragmentsAgree' /\ PostedTyped'
  BY <1>1, <1>3, AgreeSend
<1>4. ASSUME SendFails \/ Shutdown PROVE FragmentsAgree' /\ PostedTyped'
  BY <1>1, <1>4, AgreeFailure
<1>5. ASSUME Receive PROVE FragmentsAgree' /\ PostedTyped'
  BY <1>1, <1>5, AgreeReceive
<1>6. ASSUME ReceiveLeft PROVE FragmentsAgree' /\ PostedTyped'
  BY <1>1, <1>6, AgreeReceiveLeft
<1>7. ASSUME OnBytes PROVE FragmentsAgree' /\ PostedTyped'
  BY <1>1, <1>7, AgreeOnBytes
<1>8. ASSUME Bind \/ RecordSession PROVE FragmentsAgree' /\ PostedTyped'
  BY <1>1, <1>8, AgreeOpen
<1>9. ASSUME ReleaseSession PROVE FragmentsAgree' /\ PostedTyped'
  BY <1>1, <1>9, AgreeRelease
<1>10. ASSUME UNCHANGED vars PROVE FragmentsAgree' /\ PostedTyped'
  <2>1. UNCHANGED <<photos, sending, session, wire, inbox, assembly, left, posted>>
    BY <1>10 DEF vars, sink, source
  <2>2. Stream' = Stream /\ Pending' = Pending
    BY <2>1 DEF Stream, Pending, Fragment, FragmentFlag, FragmentLen, Remaining, Idle
  <2>3. Reach' = Reach
    BY <2>1, <2>2 DEF Reach
  <2> HIDE DEF Stream
  <2> QED
    BY <1>1, <2>1, <2>2, <2>3, AgreeStays
<1> QED
  BY <1>1, <1>2, <1>3, <1>4, <1>5, <1>6, <1>7, <1>8, <1>9, <1>10 DEF Next, IndInv

\* In every reachable state the fragments under way and the assemblies agree, for
\* every size of packet, header, photo and sub-sequence number (AssembleFrag,
\* UnPackSendData).
THEOREM FragmentsAlwaysAgree == Spec => []IndInv
<1>1. Init => IndInv
  BY InitAgrees
<1>2. IndInv /\ [Next]_vars => IndInv'
  BY AgreeStep
<1> QED
  BY <1>1, <1>2, PTL DEF Spec

\* The state keeps its types, and no packet reaches past its photo.
THEOREM TypeCorrect == Spec => []TypeOK
<1>1. IndInv => TypeOK
  BY DEF IndInv
<1> QED
  BY <1>1, FragmentsAlwaysAgree, PTL

\* What is under way and what has been assembled always belong together, on the
\* session in use and on one that was left behind (AssembleFrag, ReleaseSession).
THEOREM Agreement == Spec => []FragmentsAgree
<1>1. IndInv => FragmentsAgree
  BY DEF IndInv
<1> QED
  BY <1>1, FragmentsAlwaysAgree, PTL

\* A step of the session is a step of the channel of whole photos, or none.
LEMMA StepMaps == IndInv /\ [Next]_vars => [Channel!Next]_(Channel!vars)
<1> SUFFICES ASSUME IndInv, [Next]_vars PROVE [Channel!Next]_(Channel!vars)
  OBVIOUS
<1>1. TypeOK /\ FragmentsAgree /\ IsAssembly(assembly) /\ IsAssembly(leftAssembly)
  BY DEF IndInv, TypeOK
<1>2. ASSUME NEW s \in Sizes, TakePhoto(s) PROVE Channel!Take
  BY <1>2 DEF TakePhoto, source, Channel!Take
<1>3. ASSUME NEW n \in Photos, n \notin Channel!Posted, photos' = photos,
             posted' = Append(posted, Channel!Content(n))
      PROVE  [Channel!Next]_(Channel!vars)
  BY <1>3 DEF Channel!Next, Channel!Post, Photos
<1>4. CASE Receive
  <2>1. photos' = photos /\ inbox # <<>> /\ Handle(Head(inbox), assembly, assembly')
    BY <1>4 DEF Receive, sink
  <2>2. CASE posted' = posted
    BY <2>1, <2>2 DEF Channel!vars
  <2>3. /\ Pending[1] = Head(inbox) /\ Pending[1] \in Packets /\ 1 \in DOMAIN Pending
        /\ Reach \in Nat \ {0}
    <3>1. Pending[1] = Head(inbox) /\ Head(inbox) \in Packets /\ Len(Stream) > 0 /\ Len(Pending) > 0
      BY <1>1, <2>1, HeadIsFirst
    <3>2. DOMAIN Pending = 1..Len(Pending) /\ Len(Pending) \in Nat /\ Len(Stream) \in Nat
      BY <1>1, PendingParts DEF PendingShape
    <3>3. Len(Stream) <= Reach /\ Reach \in 0..Len(Pending)
      BY <1>1, Reaching
    <3>4. 1 \in 1..Len(Pending) /\ Reach \in Nat \ {0}
      <4> DEFINE m == Len(Pending)
                 l == Len(Stream)
      <4>1. m \in Nat /\ l \in Nat /\ l > 0 /\ m > 0 /\ l <= Reach /\ Reach \in 0..m
        BY <3>1, <3>2, <3>3
      <4> HIDE DEF m, l
      <4>2. 1 \in 1..m /\ Reach \in Nat \ {0}
        BY <4>1
      <4> QED
        BY <4>2 DEF m
    <3> QED
      BY <3>1, <3>2, <3>4
  <2>4. CASE Pending[1].photo \in Photos /\ posted' = Append(posted, Channel!Content(Pending[1].photo))
    <3>1. Pending[1].photo \notin Channel!Posted
      BY <1>1, <2>3 DEF FragmentsAgree, NoneTwice
    <3> QED
      BY <1>3, <2>1, <2>4, <3>1
  <2>5. Agree(Pending, Reach, assembly, photos) /\ Handle(Pending[1], assembly, assembly')
    BY <1>1, <2>1, <2>3 DEF FragmentsAgree
  <2> QED
    BY <1>1, <2>2, <2>3, <2>4, <2>5, Posting
<1>5. CASE ReceiveLeft
  <2>1. photos' = photos /\ leftInbox # <<>> /\ Handle(Head(leftInbox), leftAssembly, leftAssembly')
    BY <1>5 DEF ReceiveLeft, sink
  <2>2. CASE posted' = posted
    BY <2>1, <2>2 DEF Channel!vars
  <2>3. /\ leftInbox[1] = Head(leftInbox) /\ leftInbox[1] \in Packets /\ 1 \in DOMAIN leftInbox
        /\ Len(leftInbox) \in Nat \ {0}
    <3>1. leftInbox \in Seq(Packets)
      BY <1>1, TypeParts
    <3>2. Head(leftInbox) = leftInbox[1] /\ Head(leftInbox) \in Packets /\ Len(leftInbox) \in Nat \ {0}
      BY <2>1, <3>1, QueueTail
    <3>3. DOMAIN leftInbox = 1..Len(leftInbox)
      BY <3>1
    <3> QED
      BY <3>2, <3>3
  <2>4. CASE /\ Ends(leftInbox[1]) /\ leftInbox[1].photo \in Photos
             /\ posted' = Append(posted, Channel!Content(leftInbox[1].photo))
    <3>1. leftInbox[1].photo \notin Channel!Posted
      BY <1>1, <2>3, <2>4 DEF FragmentsAgree, NoneTwice
    <3> QED
      BY <1>3, <2>1, <2>4, <3>1
  <2>5. /\ Agree(leftInbox, Len(leftInbox), leftAssembly, photos)
        /\ Handle(leftInbox[1], leftAssembly, leftAssembly')
    BY <1>1, <2>1, <2>3 DEF FragmentsAgree
  <2> QED
    BY <1>1, <2>2, <2>3, <2>4, <2>5, Posting
<1>6. CASE SendFragment \/ SendFails \/ OnBytes \/ Bind \/ RecordSession \/ Shutdown
           \/ ReleaseSession \/ UNCHANGED vars
  <2>1. UNCHANGED <<photos, posted>>
    BY <1>6 DEF SendFragment, SendFails, OnBytes, Bind, RecordSession, Shutdown, ReleaseSession,
       vars, sink, source
  <2> QED
    BY <2>1 DEF Channel!vars
<1> QED
  BY <1>2, <1>4, <1>5, <1>6 DEF Next, Channel!Next

\* The fragments of DCameraSoftbusSession implement a channel of whole photos:
\* a buffer given to the listener holds the bytes of one photo, all of them, and
\* no photo comes twice.
THEOREM Implements == Spec => WholePhotos
<1>1. Init => Channel!Init
  BY DEF Init, Channel!Init
<1>2. IndInv /\ [Next]_vars => [Channel!Next]_(Channel!vars)
  BY StepMaps
<1> QED
  BY <1>1, <1>2, FragmentsAlwaysAgree, PTL DEF Spec, WholePhotos, Channel!Spec

----------------------------------------------------------------------------
(* What the camera of the sink is told.                                    *)

\* What is left of a start, and the commands and infos there may be.
FromInput == <<"input", "settings", "session", "infos">>
FromSettings == <<"settings", "session", "infos">>
FromSession == <<"session", "infos">>
FromInfos == <<"infos">>
Pipeline == <<"pipeline">>
CameraSteps == {FromInput, FromSettings, FromSession, FromInfos, <<>>}
Infos == [streams : SUBSET {"preview", "photo"}, rate : Seq(Nat), shot : {0, 1}]
ClientModes ==
  /\ mishaps \in SUBSET {"crossing", "prepare", "settings", "commit", "fast"}
  /\ phase \in {"idle", "starting", "running", "crashed"}
  /\ todo \in [encoder : {Pipeline, <<>>}, camera : CameraSteps] /\ ok \in BOOLEAN
ClientParts ==
  /\ request \in Infos /\ infos \in Infos /\ asked \in Infos
  /\ camera \in [input : {"none", "closed", "open"}, session : {"none", "created", "running"},
                 outputs : SUBSET {"preview", "photo"}]
  /\ update \in [settings : Nat, left : Nat, at : {"none", "test", "keep", "set"}]
Shots == [wanted : {0, 1}, used : {0, 1}]
ClientNumbers ==
  /\ encoder \in Nat /\ applied \in Nat /\ latest \in Nat /\ updates \in Nat /\ dropped \in Nat
  /\ metadatas \in Seq(Nat) /\ fps \in Seq(Nat)
  /\ rate \in {<<>>} \cup (Nat \X Nat) /\ photo \in Shots
ClientTyped == ClientModes /\ ClientParts /\ ClientNumbers

\* A start keeps its command until it is committed, and the infos last of all.
StartInv ==
  /\ phase = "starting" => request.streams # {} /\ (todo.camera = <<>> => infos = request)
  /\ phase # "starting" /\ phase # "crashed" => todo.encoder = <<>> /\ todo.camera = <<>>
  /\ phase = "starting" => (camera.outputs = {} \/ todo.camera \in {FromInfos, <<>>})
  /\ phase = "running" => camera.outputs # {}

\* A photo has the settings of its command.
PhotoInv == photo.used = photo.wanted

\* The rate is that of the outputs, and an old range is gone with them.
RateInv ==
  "commit" \notin mishaps =>
    IF camera.outputs = {} THEN fps = <<>> ELSE rate = FrameRate(asked.rate)

\* When nothing goes wrong.
CalmPhases ==
  /\ phase # "crashed" /\ ok
  /\ update # NoUpdate =>
       /\ phase # "starting" /\ update.settings + update.left = latest /\ dropped = 0
       /\ (update.at = "keep" => phase = "idle") /\ (update.at = "set" => phase = "running")
  /\ phase = "idle" => camera = NoCamera /\ encoder = 0 /\ applied = 0
  /\ phase = "running" => camera.input = "open"
  /\ phase = "starting" /\ camera.outputs # {} => camera.input = "open"
  /\ phase = "starting" /\ camera.outputs = {} =>
       /\ todo.camera = FromInput => applied = 0 /\ camera.input = "none"
       /\ todo.camera # FromInput => camera.input = "open"
CalmSettings ==
  /\ update = NoUpdate => IF metadatas = <<>> THEN applied + dropped = latest ELSE metadatas[Len(metadatas)] + dropped = latest
  /\ phase = "running" \/ (phase = "starting" /\ todo.camera \in {FromSession, FromInfos, <<>>})
       => metadatas = <<>>
CalmRates ==
  /\ phase = "starting" => IsInRange(GetMaxFrameRate(request.rate))
  /\ IF camera.outputs = {}
     THEN phase = "starting" => encoder = IF todo.encoder = <<>> THEN GetMaxFrameRate(request.rate) ELSE 0
     ELSE encoder # 0 /\ encoder <= MaxFps /\ (rate = <<>> \/ \A i \in 1..2 : rate[i] <= encoder)
Calm == mishaps = {} => CalmPhases /\ CalmSettings /\ CalmRates
ClientInv == ClientTyped /\ StartInv /\ PhotoInv /\ RateInv /\ Calm
----------------------------------------------------------------------------
\* The frame rate of a command, and of the outputs, which is never above it.
LEMMA FrameRatesAre ==
  ASSUME NEW r \in Seq(Nat)
  PROVE  /\ GetMaxFrameRate(r) \in Nat \ {0}
         /\ FrameRate(r) = <<>> \/ \A i \in 1..2 : FrameRate(r)[i] <= GetMaxFrameRate(r)
         /\ ~IsRange(r) => FrameRate(r) = <<>>
         /\ FrameRate(r) \in {<<>>} \cup (Nat \X Nat)
<1>1. MaxFps \in Nat \ {0}
  BY ClientAssumption
<1>2. IsRange(r) => r[1] \in Nat /\ r[2] \in Nat
  <2> SUFFICES ASSUME IsRange(r) PROVE r[1] \in Nat /\ r[2] \in Nat
    OBVIOUS
  <2>1. 1 \in 1..Len(r) /\ 2 \in 1..Len(r)
    BY DEF IsRange
  <2> QED
    BY <2>1, ElementOfSeq
<1>3. GetMaxFrameRate(r) \in Nat \ {0}
  BY <1>1, <1>2 DEF GetMaxFrameRate, Larger
<1>4. ASSUME FrameRate(r) # <<>> PROVE \A i \in 1..2 : FrameRate(r)[i] <= GetMaxFrameRate(r)
  <2>1. /\ IsRange(r) /\ r[1] > 0 /\ r[2] > 0
        /\ FrameRate(r) = <<Fastest(r[1]), Fastest(r[2])>>
    BY <1>4 DEF FrameRate
  <2>2. Fastest(r[1]) <= GetMaxFrameRate(r) /\ Fastest(r[2]) <= GetMaxFrameRate(r)
    BY <2>1, <1>1, <1>2 DEF GetMaxFrameRate, Larger, Fastest, Smaller
  <2> QED
    BY <2>1, <2>2
<1>5. IsRange(r) => <<Fastest(r[1]), Fastest(r[2])>> \in Nat \X Nat
  BY <1>1, <1>2 DEF Fastest, Smaller
<1> QED
  BY <1>3, <1>4, <1>5 DEF FrameRate

\* A command is made of what the framework may be asked for.
LEMMA RequestsAreInfos ==
  ASSUME NEW r \in Requests
  PROVE  r \in Infos /\ r.streams # {} /\ r.rate \in Seq(Nat)
BY ClientAssumption DEF Requests, Infos

LEMMA NothingIsInfos ==
  NoRequest \in Infos /\ NoCamera.outputs = {} /\ NoRequest.rate = <<>>
BY DEF NoRequest, Infos, NoCamera

\* The steps of a start, one after the other.
LEMMA StepsAre ==
  /\ FromInput # <<>> /\ FromSettings # <<>> /\ FromSession # <<>> /\ FromInfos # <<>> /\ Pipeline # <<>>
  /\ Head(FromInput) = "input" /\ Head(FromSettings) = "settings" /\ Head(FromSession) = "session"
  /\ Head(FromInfos) = "infos" /\ Head(Pipeline) = "pipeline"
  /\ Tail(FromInput) = FromSettings /\ Tail(FromSettings) = FromSession /\ Tail(FromSession) = FromInfos
  /\ Tail(FromInfos) = <<>> /\ Tail(Pipeline) = <<>>
<1>1. Tail(FromInput) = FromSettings
  BY DEF FromInput, FromSettings
<1>2. Tail(FromSettings) = FromSession
  BY DEF FromSettings, FromSession
<1>3. Tail(FromSession) = FromInfos
  BY DEF FromSession, FromInfos
<1>4. Tail(FromInfos) = <<>> /\ Tail(Pipeline) = <<>>
  BY DEF FromInfos, Pipeline
<1> QED
  BY <1>1, <1>2, <1>3, <1>4 DEF FromInput, FromSettings, FromSession, FromInfos, Pipeline

\* Each step of a task of a start.
LEMMA StepsLeft ==
  ASSUME ClientModes
  PROVE  /\ Step("encoder", "pipeline") => todo.encoder = Pipeline
         /\ Step("camera", "input") => todo.camera = FromInput
         /\ Step("camera", "settings") => todo.camera = FromSettings
         /\ Step("camera", "session") => todo.camera = FromSession
         /\ Step("camera", "infos") => todo.camera = FromInfos
         /\ todo.camera \in CameraSteps /\ todo.encoder \in {Pipeline, <<>>}
BY StepsAre DEF ClientModes, Step, CameraSteps

\* The three ways in which what is left of a start changes.
LEMMA StepsGo ==
  ASSUME ClientModes
  PROVE  /\ Step("encoder", "pipeline") /\ NextStep("encoder") =>
              todo'.encoder = <<>> /\ todo'.camera = todo.camera /\ todo' \in [encoder : {Pipeline, <<>>}, camera : CameraSteps]
         /\ \A name \in {"input", "settings", "session", "infos"} : Step("camera", name) /\ NextStep("camera") =>
              /\ todo'.camera = Tail(todo.camera) /\ todo'.encoder = todo.encoder
              /\ todo' \in [encoder : {Pipeline, <<>>}, camera : CameraSteps]
         /\ Fails("camera", <<"infos">>) =>
              /\ todo'.camera = FromInfos /\ todo'.encoder = todo.encoder
              /\ todo' \in [encoder : {Pipeline, <<>>}, camera : CameraSteps]
<1>1. todo \in [encoder : {Pipeline, <<>>}, camera : CameraSteps]
  BY DEF ClientModes
<1>2. \A q \in CameraSteps : q # <<>> => Tail(q) \in CameraSteps
  BY StepsAre DEF CameraSteps
<1>3. \A q \in {Pipeline, <<>>} : q # <<>> => Tail(q) = <<>>
  BY StepsAre
<1>4. <<"infos">> = FromInfos /\ FromInfos \in CameraSteps
  BY DEF FromInfos, CameraSteps
<1> QED
  BY <1>1, <1>2, <1>3, <1>4 DEF Step, NextStep, Fails

LEMMA ClientInitially ==
  ASSUME ClientInit
  PROVE  ClientInv
<1>1. ClientModes
  BY ClientAssumption DEF ClientInit, ClientModes, CameraSteps
<1>2. ClientParts
  BY NothingIsInfos DEF ClientInit, ClientParts, NoCamera, NoUpdate
<1>3. ClientNumbers
  BY DEF ClientInit, ClientNumbers, Shots, NoPhoto
<1> QED
  BY <1>1, <1>2, <1>3 DEF ClientInit, ClientInv, ClientTyped, StartInv, PhotoInv, RateInv, Calm, CalmPhases,
     CalmSettings, CalmRates, NoCamera,
              NoUpdate, NoPhoto, NoRequest

\* Facts on the types of the parts.
LEMMA InfosAre ==
  ASSUME ClientParts, ClientNumbers
  PROVE  /\ infos.streams \in SUBSET {"preview", "photo"} /\ infos.rate \in Seq(Nat) /\ request.rate \in Seq(Nat)
         /\ GetFpsRanges \in Seq(Nat) /\ infos.shot \in {0, 1} /\ request.shot \in {0, 1}
         /\ GetMaxFrameRate(request.rate) \in Nat
BY FrameRatesAre DEF ClientParts, ClientNumbers, Infos, GetFpsRanges

\* The queue of settings, and what it has last.
LEMMA QueuesAre ==
  ASSUME ClientTyped
  PROVE  /\ metadatas # <<>> => Head(metadatas) \in Nat /\ Tail(metadatas) \in Seq(Nat)
         /\ \A s \in Nat : UpdateSettingCache(s) => metadatas' \in Seq(Nat)
         /\ update.settings \in Nat
<1>1. metadatas \in Seq(Nat) /\ update.settings \in Nat
  BY DEF ClientTyped, ClientNumbers, ClientParts
<1>2. metadatas # <<>> => Head(metadatas) \in Nat /\ Tail(metadatas) \in Seq(Nat)
  BY <1>1, HeadTailProperties
<1>3. ASSUME NEW s \in Nat, UpdateSettingCache(s) PROVE metadatas' \in Seq(Nat)
  <2>1. Len(metadatas) = MaxMetadata => metadatas # <<>>
    BY <1>1, ClientAssumption
  <2> DEFINE rest == IF Len(metadatas) = MaxMetadata THEN Tail(metadatas) ELSE metadatas
  <2>2. rest \in Seq(Nat) /\ metadatas' = Append(rest, s)
    BY <1>1, <1>2, <1>3, <2>1 DEF UpdateSettingCache
  <2> QED
    BY <2>2, AppendProperties
<1> QED
  BY <1>1, <1>2, <1>3

LEMMA NoCameraIs ==
  NoCamera \in [input : {"none", "closed", "open"}, session : {"none", "created", "running"},
                outputs : SUBSET {"preview", "photo"}]
BY DEF NoCamera

\* The rate of a commit that makes the outputs is that of the infos.
LEMMA CommittedRate ==
  ASSUME ClientTyped, RateInv, "commit" \notin mishaps, camera.outputs = {}
  PROVE  FrameRate(GetFpsRanges) = FrameRate(infos.rate)
<1>1. infos.rate \in Seq(Nat) /\ fps = <<>>
  BY InfosAre DEF RateInv, ClientTyped
<1>2. <<>> \in Seq(Nat) /\ ~IsRange(<<>>)
  BY DEF IsRange
<1> QED
  BY <1>1, <1>2, FrameRatesAre DEF GetFpsRanges

\* When nothing goes wrong, a pipeline is created for a rate in range.
LEMMA CalmPipeline ==
  ASSUME ClientTyped, CalmRates, CreatePipeline
  PROVE  /\ encoder' \in Nat /\ encoder' <= MaxFps /\ ok' = ok /\ encoder' >= encoder
         /\ encoder' = IF camera.outputs = {} THEN GetMaxFrameRate(request.rate) ELSE encoder
<1>1. encoder \in Nat /\ MaxFps \in Nat /\ ok \in BOOLEAN
  BY ClientAssumption DEF ClientTyped, ClientNumbers, ClientModes
<1>2. phase = "starting" /\ todo.encoder # <<>>
  BY StepsAre, StepsLeft DEF CreatePipeline, Step, ClientTyped
<1>3. GetMaxFrameRate(request.rate) \in Nat /\ GetMaxFrameRate(request.rate) <= MaxFps
      /\ IsInRange(GetMaxFrameRate(request.rate))
  BY <1>1, <1>2, InfosAre DEF ClientTyped, CalmRates, IsInRange
<1>4. encoder <= MaxFps /\ (camera.outputs = {} <=> encoder = 0)
  BY <1>1, <1>2 DEF CalmRates
<1>5. encoder' = IF encoder # 0 THEN encoder ELSE GetMaxFrameRate(request.rate)
  BY <1>3 DEF CreatePipeline
<1>6. encoder' <= MaxFps
  BY <1>1, <1>3, <1>4, <1>5
<1>7. ok' = ok
  BY <1>1, <1>6 DEF CreatePipeline
<1> QED
  BY <1>1, <1>3, <1>4, <1>5, <1>6, <1>7

\* What a queue of one or more has last stays last without its first.
LEMMA TailEndsAlike ==
  ASSUME NEW q \in Seq(Nat), q # <<>>
  PROVE  IF Tail(q) = <<>> THEN Head(q) = q[Len(q)] ELSE Tail(q)[Len(Tail(q))] = q[Len(q)]
<1>1. Tail(q) \in Seq(Nat) /\ Len(Tail(q)) = Len(q) - 1 /\ Len(q) \in Nat \ {0} /\ Head(q) = q[1]
      /\ \A i \in 1..Len(Tail(q)) : Tail(q)[i] = q[i + 1]
  BY HeadTailProperties, EmptySeq
<1>2. CASE Tail(q) = <<>>
  <2>1. Len(q) - 1 = 0 /\ Len(q) \in Nat
    BY <1>1, <1>2, EmptySeq, Zenon
  <2>2. Len(q) = 1
    BY <2>1
  <2> QED
    BY <1>1, <1>2, <2>2
<1>3. CASE Tail(q) # <<>>
  <2>1. Len(Tail(q)) # 0
    BY <1>1, <1>3
  <2>2. Len(Tail(q)) \in 1..Len(Tail(q)) /\ Len(Tail(q)) + 1 = Len(q)
    BY <1>1, <2>1
  <2> QED
    BY <1>1, <1>3, <2>2
<1> QED
  BY <1>2, <1>3

LEMMA MishapsStay ==
  ASSUME [ClientNext]_clientVars
  PROVE  mishaps' = mishaps
BY DEF ClientNext, clientVars, BeginUpdate, TestCamera, UpdateSettings, Start, CreatePipeline, CreateInput, EmptyQueue, CreateSession,
       KeepInfos, StartUnchanged, GiveUp, CommitCapture, CommitFails, CommitUnchanged, StopCapture, StopUnchanged,
       PauseCapture, ResumeCapture, SetSession

\* A start begins with all its steps, or only with the last.
LEMMA StepsBegin ==
  ASSUME NEW r \in Requests, Start(r)
  PROVE  /\ todo' = [encoder |-> Pipeline, camera |-> IF camera.outputs = {} THEN FromInput ELSE FromInfos]
         /\ todo'.encoder = Pipeline /\ todo'.camera = IF camera.outputs = {} THEN FromInput ELSE FromInfos
         /\ todo' \in [encoder : {Pipeline, <<>>}, camera : CameraSteps]
BY DEF Start, Pipeline, FromInput, FromInfos, CameraSteps

\* The settings of a command, one after the other.
Updates == [settings : Nat, left : Nat, at : {"none", "test", "keep", "set"}]
LEMMA NextSettingsAre ==
  ASSUME ClientTyped
  PROVE  NoUpdate \in Updates /\ NextSettings \in Updates
BY DEF ClientTyped, ClientParts, NoUpdate, NextSettings, Updates

LEMMA BegunIs ==
  ASSUME ClientTyped, BeginUpdate
  PROVE  /\ update' # NoUpdate /\ update'.settings + update'.left = latest' /\ dropped' = 0
         /\ update'.at = "test"
<1>1. updates \in Nat /\ MaxUpdates \in Nat
  BY ClientAssumption DEF ClientTyped, ClientNumbers
<1>2. PICK size \in 1..(MaxUpdates - updates) :
        latest' = updates + size /\ update' = [settings |-> updates + 1, left |-> size - 1, at |-> "test"]
  BY DEF BeginUpdate
<1>3. dropped' = 0 /\ updates + 1 # 0
  BY <1>1 DEF BeginUpdate
<1> QED
  BY <1>1, <1>2, <1>3 DEF NoUpdate

\* What may go wrong, the phase and the steps that are left.
LEMMA ClientModesKept ==
  ASSUME ClientTyped, [ClientNext]_clientVars
  PROVE  ClientModes'
<1> USE DEF ClientTyped, ClientModes, Undisturbed
<1>1. CASE BeginUpdate
  BY <1>1 DEF BeginUpdate, told
<1>2. CASE UpdateSettings
  BY <1>2 DEF UpdateSettings, UpdateSettingCache, history, told, NoUpdate, NextSettings
<1>3. ASSUME NEW r \in Requests, Start(r) PROVE ClientModes'
  BY <1>3, StepsBegin, StepsAre, RequestsAreInfos DEF Start, told, history
<1>4. CASE CreatePipeline
  BY <1>4, StepsAre, StepsLeft, StepsGo DEF CreatePipeline, Step, NextStep, StartUnchanged, history
<1>5. CASE CreateInput
  BY <1>5, StepsAre, StepsLeft, StepsGo DEF CreateInput, Step, NextStep, Fails, StartUnchanged, history
<1>6. CASE EmptyQueue
  BY <1>6, StepsAre, StepsLeft, StepsGo DEF EmptyQueue, Step, NextStep, Fails, StartUnchanged, history
<1>7. CASE CreateSession
  BY <1>7, StepsAre, StepsLeft, StepsGo DEF CreateSession, Step, NextStep, Fails, StartUnchanged, history
<1>8. CASE KeepInfos
  BY <1>8, StepsAre, StepsLeft, StepsGo DEF KeepInfos, Step, NextStep, StartUnchanged, history
<1>9. CASE GiveUp
  BY <1>9 DEF GiveUp, Prepared, CommitUnchanged
<1>10. CASE CommitCapture
  BY <1>10 DEF CommitCapture, Prepared, CommitUnchanged, ConfigCaptureSessionInner, StartPhotoOutput
<1>11. CASE CommitFails
  BY <1>11 DEF CommitFails, Prepared, CommitUnchanged, ConfigCaptureSessionInner
<1>12. CASE StopCapture
  BY <1>12 DEF StopCapture, StopUnchanged, Forget
<1>13. CASE PauseCapture
  BY <1>13 DEF PauseCapture, SetSession, told, history
<1>14. CASE ResumeCapture
  BY <1>14 DEF ResumeCapture, SetSession, told, history
<1>15. CASE UNCHANGED clientVars
  BY <1>15 DEF clientVars, told, history
<1>16. CASE TestCamera
  BY <1>16 DEF TestCamera, told, history
<1> QED
  BY <1>1, <1>2, <1>3, <1>4, <1>5, <1>6, <1>7, <1>8, <1>9, <1>10, <1>11, <1>12, <1>13, <1>14, <1>15, <1>16 DEF ClientNext

\* The commands, the camera and its settings.
LEMMA ClientPartsKept ==
  ASSUME ClientTyped, [ClientNext]_clientVars
  PROVE  ClientParts'
<1> USE DEF ClientTyped, ClientParts, ClientNumbers, NoUpdate
<1>1. CASE BeginUpdate
  BY NothingIsInfos, <1>1, InfosAre DEF BeginUpdate, told
<1>2. CASE UpdateSettings
  <2>1. update' \in {NoUpdate, NextSettings} /\ NoUpdate \in Updates /\ NextSettings \in Updates
    BY <1>2, NextSettingsAre DEF UpdateSettings
  <2>2. request' = request /\ infos' = infos /\ asked' = asked /\ camera' = camera
    BY <1>2 DEF UpdateSettings
  <2> QED
    BY <2>1, <2>2 DEF Updates
<1>3. ASSUME NEW r \in Requests, Start(r) PROVE ClientParts'
  BY NothingIsInfos, <1>3, RequestsAreInfos, InfosAre DEF Start, told, history
<1>4. CASE CreatePipeline
  BY NothingIsInfos, <1>4, InfosAre DEF CreatePipeline, Step, NextStep, StartUnchanged, history
<1>5. CASE CreateInput
  BY NothingIsInfos, <1>5, InfosAre DEF CreateInput, Step, NextStep, Fails, StartUnchanged, history
<1>6. CASE EmptyQueue
  BY NothingIsInfos, <1>6, InfosAre DEF EmptyQueue, Step, NextStep, Fails, StartUnchanged, history
<1>7. CASE CreateSession
  BY NothingIsInfos, <1>7, InfosAre DEF CreateSession, Step, NextStep, Fails, StartUnchanged, history
<1>8. CASE KeepInfos
  BY NothingIsInfos, <1>8, InfosAre DEF KeepInfos, Step, NextStep, StartUnchanged, history
<1>9. CASE GiveUp
  BY NothingIsInfos, <1>9, InfosAre DEF GiveUp, Prepared, CommitUnchanged
<1>10. CASE CommitCapture
  BY NothingIsInfos, <1>10, InfosAre DEF CommitCapture, Prepared, CommitUnchanged, ConfigCaptureSessionInner,
     StartPhotoOutput
<1>11. CASE CommitFails
  BY NothingIsInfos, <1>11, InfosAre DEF CommitFails, Prepared, CommitUnchanged, ConfigCaptureSessionInner
<1>12. CASE StopCapture
  BY NothingIsInfos, <1>12, NoCameraIs DEF StopCapture, StopUnchanged, Forget
<1>13. CASE PauseCapture
  BY NothingIsInfos, <1>13, InfosAre DEF PauseCapture, SetSession, told, history
<1>14. CASE ResumeCapture
  BY NothingIsInfos, <1>14, InfosAre DEF ResumeCapture, SetSession, told, history
<1>15. CASE UNCHANGED clientVars
  BY NothingIsInfos, <1>15 DEF clientVars, told, history
<1>16. CASE TestCamera
  BY NothingIsInfos, <1>16 DEF TestCamera, told, history
<1> QED
  BY <1>1, <1>2, <1>3, <1>4, <1>5, <1>6, <1>7, <1>8, <1>9, <1>10, <1>11, <1>12, <1>13, <1>14, <1>15, <1>16 DEF ClientNext

\* The rates and the queue of settings.
LEMMA ClientNumbersKept ==
  ASSUME ClientTyped, [ClientNext]_clientVars
  PROVE  ClientNumbers'
<1> USE DEF ClientTyped, ClientNumbers, ClientParts, Shots, NoPhoto
<1>1. CASE BeginUpdate
  BY <1>1, InfosAre DEF BeginUpdate, told
<1>2. CASE UpdateSettings
  <2>1. metadatas' \in Seq(Nat)
    BY <1>2, QueuesAre, Zenon DEF UpdateSettings
  <2>2. applied' \in Nat /\ encoder' = encoder /\ fps' = fps /\ latest' = latest /\ updates' = updates
        /\ rate' = rate /\ photo' = photo
    BY <1>2 DEF UpdateSettings
  <2>3. dropped' \in Nat
    BY <1>2 DEF UpdateSettings
  <2> QED
    BY <2>1, <2>2, <2>3
<1>3. ASSUME NEW r \in Requests, Start(r) PROVE ClientNumbers'
  BY <1>3, RequestsAreInfos, InfosAre DEF Start, told, history
<1>4. CASE CreatePipeline
  BY <1>4, InfosAre, ClientAssumption DEF CreatePipeline, Step, NextStep, StartUnchanged, history
<1>5. CASE CreateInput
  BY <1>5, InfosAre DEF CreateInput, Step, NextStep, Fails, StartUnchanged, history
<1>6. CASE EmptyQueue
  <2>1. metadatas # <<>> => Head(metadatas) \in Nat /\ Tail(metadatas) \in Seq(Nat)
    BY QueuesAre
  <2>2. encoder' = encoder /\ fps' = fps /\ latest' = latest /\ updates' = updates /\ rate' = rate /\ photo' = photo
        /\ dropped' = dropped
    BY <1>6 DEF EmptyQueue, StartUnchanged, history
  <2>3. metadatas' \in Seq(Nat) /\ applied' \in Nat
    BY <1>6, <2>1 DEF EmptyQueue
  <2> QED
    BY <2>2, <2>3
<1>7. CASE CreateSession
  BY <1>7, InfosAre DEF CreateSession, Step, NextStep, Fails, StartUnchanged, history
<1>8. CASE KeepInfos
  BY <1>8, InfosAre DEF KeepInfos, Step, NextStep, StartUnchanged, history
<1>9. CASE GiveUp
  BY <1>9, InfosAre DEF GiveUp, Prepared, CommitUnchanged
<1>10. CASE CommitCapture
  BY <1>10, InfosAre, FrameRatesAre DEF CommitCapture, Prepared, CommitUnchanged, ConfigCaptureSessionInner,
     StartPhotoOutput
<1>11. CASE CommitFails
  BY <1>11, InfosAre, FrameRatesAre DEF CommitFails, Prepared, CommitUnchanged, ConfigCaptureSessionInner
<1>12. CASE StopCapture
  BY <1>12, InfosAre DEF StopCapture, StopUnchanged, Forget
<1>13. CASE PauseCapture
  BY <1>13, InfosAre DEF PauseCapture, SetSession, told, history
<1>14. CASE ResumeCapture
  BY <1>14, InfosAre DEF ResumeCapture, SetSession, told, history
<1>15. CASE UNCHANGED clientVars
  BY <1>15 DEF clientVars, told, history
<1>16. CASE TestCamera
  BY <1>16 DEF TestCamera, told, history
<1> QED
  BY <1>1, <1>2, <1>3, <1>4, <1>5, <1>6, <1>7, <1>8, <1>9, <1>10, <1>11, <1>12, <1>13, <1>14, <1>15, <1>16 DEF ClientNext

\* A start keeps its command until it is committed.
LEMMA StartKept ==
  ASSUME ClientTyped, StartInv, [ClientNext]_clientVars
  PROVE  StartInv'
<1> USE DEF StartInv, ClientTyped, ClientModes, ClientParts, NoCamera
<1>1. CASE BeginUpdate
  BY <1>1 DEF BeginUpdate, told
<1>2. CASE UpdateSettings
  BY <1>2 DEF UpdateSettings, UpdateSettingCache, history, told, NoUpdate, NextSettings
<1>3. ASSUME NEW r \in Requests, Start(r) PROVE StartInv'
  BY <1>3, StepsBegin, StepsAre, RequestsAreInfos DEF Start, told, history
<1>4. CASE CreatePipeline
  BY <1>4, StepsAre, StepsLeft, StepsGo DEF CreatePipeline, Step, NextStep, StartUnchanged, history
<1>5. CASE CreateInput
  BY <1>5, StepsAre, StepsLeft, StepsGo DEF CreateInput, Step, NextStep, Fails, StartUnchanged, history
<1>6. CASE EmptyQueue
  BY <1>6, StepsAre, StepsLeft, StepsGo DEF EmptyQueue, Step, NextStep, Fails, StartUnchanged, history
<1>7. CASE CreateSession
  BY <1>7, StepsAre, StepsLeft, StepsGo DEF CreateSession, Step, NextStep, Fails, StartUnchanged, history
<1>8. CASE KeepInfos
  BY <1>8, StepsAre, StepsLeft, StepsGo DEF KeepInfos, Step, NextStep, StartUnchanged, history
<1>9. CASE GiveUp
  BY <1>9 DEF GiveUp, Prepared, CommitUnchanged
<1>10. CASE CommitCapture
  BY <1>10 DEF CommitCapture, Prepared, CommitUnchanged, ConfigCaptureSessionInner, StartPhotoOutput
<1>11. CASE CommitFails
  BY <1>11 DEF CommitFails, Prepared, CommitUnchanged, ConfigCaptureSessionInner
<1>12. CASE StopCapture
  BY <1>12 DEF StopCapture, StopUnchanged, Forget
<1>13. CASE PauseCapture
  BY <1>13 DEF PauseCapture, SetSession, told, history
<1>14. CASE ResumeCapture
  BY <1>14 DEF ResumeCapture, SetSession, told, history
<1>15. CASE UNCHANGED clientVars
  BY <1>15 DEF clientVars, told, history
<1>16. CASE TestCamera
  BY <1>16 DEF TestCamera, told, history
<1> QED
  BY <1>1, <1>2, <1>3, <1>4, <1>5, <1>6, <1>7, <1>8, <1>9, <1>10, <1>11, <1>12, <1>13, <1>14, <1>15, <1>16 DEF ClientNext

\* A photo is taken with the infos of the command in progress.
LEMMA PhotoKept ==
  ASSUME ClientTyped, StartInv, PhotoInv, [ClientNext]_clientVars
  PROVE  PhotoInv'
<1> USE DEF StartInv, PhotoInv, NoPhoto
<1>1. CASE BeginUpdate
  BY <1>1 DEF BeginUpdate, told
<1>2. CASE UpdateSettings
  BY <1>2 DEF UpdateSettings, UpdateSettingCache, history, told, NoUpdate, NextSettings
<1>3. ASSUME NEW r \in Requests, Start(r) PROVE PhotoInv'
  BY <1>3 DEF Start, told, history
<1>4. CASE CreatePipeline
  BY <1>4 DEF CreatePipeline, Step, NextStep, StartUnchanged, history
<1>5. CASE CreateInput
  BY <1>5 DEF CreateInput, Step, NextStep, Fails, StartUnchanged, history
<1>6. CASE EmptyQueue
  BY <1>6 DEF EmptyQueue, Step, NextStep, Fails, StartUnchanged, history
<1>7. CASE CreateSession
  BY <1>7 DEF CreateSession, Step, NextStep, Fails, StartUnchanged, history
<1>8. CASE KeepInfos
  BY <1>8 DEF KeepInfos, Step, NextStep, StartUnchanged, history
<1>9. CASE GiveUp
  BY <1>9 DEF GiveUp, Prepared, CommitUnchanged
<1>10. CASE CommitCapture
  BY <1>10 DEF CommitCapture, Prepared, CommitUnchanged, ConfigCaptureSessionInner, StartPhotoOutput
<1>11. CASE CommitFails
  BY <1>11 DEF CommitFails, Prepared, CommitUnchanged, ConfigCaptureSessionInner
<1>12. CASE StopCapture
  BY <1>12 DEF StopCapture, StopUnchanged, Forget
<1>13. CASE PauseCapture
  BY <1>13 DEF PauseCapture, SetSession, told, history
<1>14. CASE ResumeCapture
  BY <1>14 DEF ResumeCapture, SetSession, told, history
<1>15. CASE UNCHANGED clientVars
  BY <1>15 DEF clientVars, told, history
<1>16. CASE TestCamera
  BY <1>16 DEF TestCamera, told, history
<1> QED
  BY <1>1, <1>2, <1>3, <1>4, <1>5, <1>6, <1>7, <1>8, <1>9, <1>10, <1>11, <1>12, <1>13, <1>14, <1>15, <1>16 DEF ClientNext

\* The rate is set with the outputs, from the infos.
LEMMA RateKept ==
  ASSUME ClientTyped, StartInv, RateInv, [ClientNext]_clientVars
  PROVE  RateInv'
<1> USE DEF StartInv, RateInv, ClientTyped, ClientParts
<1>1. CASE BeginUpdate
  BY <1>1 DEF BeginUpdate, told
<1>2. CASE UpdateSettings
  BY <1>2 DEF UpdateSettings, UpdateSettingCache, history, told, NoUpdate, NextSettings
<1>3. ASSUME NEW r \in Requests, Start(r) PROVE RateInv'
  BY <1>3 DEF Start, told, history
<1>4. CASE CreatePipeline
  BY <1>4 DEF CreatePipeline, Step, NextStep, StartUnchanged, history
<1>5. CASE CreateInput
  BY <1>5 DEF CreateInput, Step, NextStep, Fails, StartUnchanged, history
<1>6. CASE EmptyQueue
  BY <1>6 DEF EmptyQueue, Step, NextStep, Fails, StartUnchanged, history
<1>7. CASE CreateSession
  BY <1>7 DEF CreateSession, Step, NextStep, Fails, StartUnchanged, history
<1>8. CASE KeepInfos
  BY <1>8 DEF KeepInfos, Step, NextStep, StartUnchanged, history
<1>9. CASE GiveUp
  BY <1>9 DEF GiveUp, Prepared, CommitUnchanged
<1>10. CASE CommitCapture
  <2> SUFFICES ASSUME "commit" \notin mishaps'
               PROVE  IF camera'.outputs = {} THEN fps' = <<>> ELSE rate' = FrameRate(asked'.rate)
    OBVIOUS
  <2>1. infos = request /\ request.streams # {} /\ mishaps' = mishaps
    BY <1>10 DEF CommitCapture, Prepared, CommitUnchanged
  <2>2. CASE camera.outputs = {}
    <3>1. camera'.outputs # {} /\ rate' = FrameRate(GetFpsRanges) /\ asked' = infos
      BY <1>10, <2>1, <2>2 DEF CommitCapture, ConfigCaptureSessionInner
    <3> QED
      BY <2>1, <2>2, <3>1, CommittedRate
  <2>3. CASE camera.outputs # {}
    <3>1. camera' = camera /\ rate' = rate /\ asked' = asked
      BY <1>10, <2>3 DEF CommitCapture, ConfigCaptureSessionInner
    <3> QED
      BY <2>1, <2>3, <3>1
  <2> QED
    BY <2>2, <2>3
<1>11. CASE CommitFails
  BY <1>11 DEF CommitFails, Prepared, CommitUnchanged, ConfigCaptureSessionInner
<1>12. CASE StopCapture
  BY <1>12, NothingIsInfos DEF StopCapture, StopUnchanged, Forget
<1>13. CASE PauseCapture
  BY <1>13 DEF PauseCapture, SetSession, told, history
<1>14. CASE ResumeCapture
  BY <1>14 DEF ResumeCapture, SetSession, told, history
<1>15. CASE UNCHANGED clientVars
  BY <1>15 DEF clientVars, told, history
<1>16. CASE TestCamera
  BY <1>16 DEF TestCamera, told, history
<1> QED
  BY <1>1, <1>2, <1>3, <1>4, <1>5, <1>6, <1>7, <1>8, <1>9, <1>10, <1>11, <1>12, <1>13, <1>14, <1>15, <1>16 DEF ClientNext

\* When nothing goes wrong, nothing fails and the camera is as the phase says.
LEMMA CalmPhasesKept ==
  ASSUME ClientTyped, StartInv, RateInv, CalmPhases, CalmSettings, CalmRates, mishaps = {}, [ClientNext]_clientVars
  PROVE  CalmPhases'
<1> USE DEF StartInv, CalmPhases, ClientTyped, ClientModes, ClientParts, NoCamera, NoUpdate, Undisturbed
<1>1. CASE BeginUpdate
  <2>1. update'.settings + update'.left = latest' /\ dropped' = 0 /\ update'.at = "test"
    BY <1>1, BegunIs
  <2>2. phase \in {"idle", "running"}
    BY <1>1 DEF BeginUpdate
  <2> QED
    BY <1>1, <2>1, <2>2 DEF BeginUpdate, told
<1>2. CASE UpdateSettings
  BY <1>2 DEF UpdateSettings, UpdateSettingCache, history, told, NoUpdate, NextSettings
<1>3. ASSUME NEW r \in Requests, Start(r) PROVE CalmPhases'
  <2>1. phase \in {"idle", "running"} /\ phase' = "starting" /\ ok' /\ update' = NoUpdate
        /\ camera' = camera /\ applied' = applied
    BY <1>3 DEF Start, told, history
  <2>2. todo'.camera = IF camera.outputs = {} THEN FromInput ELSE FromInfos
    BY <1>3, StepsBegin
  <2>3. FromInput # FromInfos
    BY StepsAre
  <2>4. camera.outputs = {} => phase = "idle" /\ applied = 0 /\ camera.input = "none"
    BY <2>1
  <2>5. camera.outputs # {} => phase = "running" /\ camera.input = "open"
    BY <2>1
  <2> QED
    BY <2>1, <2>2, <2>3, <2>4, <2>5
<1>4. CASE CreatePipeline
  BY <1>4, StepsAre, StepsLeft, StepsGo, FrameRatesAre, InfosAre, CalmPipeline DEF CreatePipeline, Step, NextStep,
     StartUnchanged, history
<1>5. CASE CreateInput
  BY <1>5, StepsAre, StepsLeft, StepsGo DEF CreateInput, Step, NextStep, Fails, StartUnchanged, history
<1>6. CASE EmptyQueue
  BY <1>6, StepsAre, StepsLeft, StepsGo DEF EmptyQueue, Step, NextStep, Fails, StartUnchanged, history
<1>7. CASE CreateSession
  BY <1>7, StepsAre, StepsLeft, StepsGo DEF CreateSession, Step, NextStep, Fails, StartUnchanged, history
<1>8. CASE KeepInfos
  BY <1>8, StepsAre, StepsLeft, StepsGo DEF KeepInfos, Step, NextStep, StartUnchanged, history
<1>9. CASE GiveUp
  BY <1>9 DEF GiveUp, Prepared, CommitUnchanged
<1>10. CASE CommitCapture
  <2>1. camera.input = "open" /\ camera'.input = camera.input
    BY <1>10, StepsAre DEF CommitCapture, Prepared, ConfigCaptureSessionInner
  <2>2. update' = NoUpdate /\ phase' = "running" /\ ok'
    BY <1>10 DEF CommitCapture, Prepared, CommitUnchanged
  <2> QED
    BY <2>1, <2>2
<1>11. CASE CommitFails
  BY <1>11 DEF CommitFails, Prepared, CommitUnchanged, ConfigCaptureSessionInner
<1>12. CASE StopCapture
  BY <1>12 DEF StopCapture, StopUnchanged, Forget
<1>13. CASE PauseCapture
  BY <1>13 DEF PauseCapture, SetSession, told, history
<1>14. CASE ResumeCapture
  BY <1>14 DEF ResumeCapture, SetSession, told, history
<1>15. CASE UNCHANGED clientVars
  BY <1>15 DEF clientVars, told, history
<1>16. CASE TestCamera
  BY <1>16 DEF TestCamera, told, history
<1> QED
  BY <1>1, <1>2, <1>3, <1>4, <1>5, <1>6, <1>7, <1>8, <1>9, <1>10, <1>11, <1>12, <1>13, <1>14, <1>15, <1>16 DEF ClientNext

\* What the queue has last, or else the camera, is what was given last.
LEMMA CalmSettingsKept ==
  ASSUME ClientTyped, StartInv, RateInv, CalmPhases, CalmSettings, CalmRates, mishaps = {}, [ClientNext]_clientVars
  PROVE  CalmSettings'
<1> USE DEF StartInv, CalmPhases, CalmSettings, ClientTyped, ClientModes, NoCamera, NoUpdate, Undisturbed
<1>1. CASE BeginUpdate
  <2>1. update' # NoUpdate
    BY <1>1, BegunIs
  <2> QED
    BY <1>1, <2>1 DEF BeginUpdate, told
<1>2. CASE UpdateSettings
  BY <1>2 DEF UpdateSettings, UpdateSettingCache, history, told, NoUpdate, NextSettings
<1>3. ASSUME NEW r \in Requests, Start(r) PROVE CalmSettings'
  BY <1>3, StepsBegin, StepsAre, RequestsAreInfos DEF Start, told, history
<1>4. CASE CreatePipeline
  BY <1>4, StepsAre, StepsLeft, StepsGo DEF CreatePipeline, Step, NextStep, StartUnchanged, history
<1>5. CASE CreateInput
  BY <1>5, StepsAre, StepsLeft, StepsGo DEF CreateInput, Step, NextStep, Fails, StartUnchanged, history
<1>6. CASE EmptyQueue
  <2>1. todo.camera = FromSettings /\ phase = "starting" /\ update = NoUpdate
    BY <1>6, StepsLeft DEF EmptyQueue, Step
  <2>2. phase' = phase /\ update' = update /\ latest' = latest /\ dropped' = dropped
    BY <1>6 DEF EmptyQueue, StartUnchanged, history
  <2>3. CASE metadatas = <<>>
    <3>1. metadatas' = <<>> /\ applied' = applied
      BY <1>6, <2>3 DEF EmptyQueue
    <3> QED
      BY <2>1, <2>2, <2>3, <3>1
  <2>4. CASE metadatas # <<>>
    <3>1. applied' = Head(metadatas) /\ metadatas' = Tail(metadatas) /\ todo' = todo
      BY <1>6, <2>4 DEF EmptyQueue
    <3>2. metadatas \in Seq(Nat) /\ metadatas[Len(metadatas)] + dropped = latest
      BY <2>1, <2>4 DEF ClientNumbers
    <3>3. IF Tail(metadatas) = <<>> THEN Head(metadatas) + dropped = latest
          ELSE Tail(metadatas)[Len(Tail(metadatas))] + dropped = latest
      BY <2>4, <3>2, TailEndsAlike
    <3>4. FromSettings \notin {FromSession, FromInfos, <<>>}
      BY StepsAre
    <3> QED
      BY <2>1, <2>2, <3>1, <3>3, <3>4
  <2> QED
    BY <2>3, <2>4
<1>7. CASE CreateSession
  BY <1>7, StepsAre, StepsLeft, StepsGo DEF CreateSession, Step, NextStep, Fails, StartUnchanged, history
<1>8. CASE KeepInfos
  BY <1>8, StepsAre, StepsLeft, StepsGo DEF KeepInfos, Step, NextStep, StartUnchanged, history
<1>9. CASE GiveUp
  BY <1>9 DEF GiveUp, Prepared, CommitUnchanged
<1>10. CASE CommitCapture
  BY <1>10 DEF CommitCapture, Prepared, CommitUnchanged, ConfigCaptureSessionInner, StartPhotoOutput
<1>11. CASE CommitFails
  BY <1>11 DEF CommitFails, Prepared, CommitUnchanged, ConfigCaptureSessionInner
<1>12. CASE StopCapture
  BY <1>12 DEF StopCapture, StopUnchanged, Forget
<1>13. CASE PauseCapture
  BY <1>13 DEF PauseCapture, SetSession, told, history
<1>14. CASE ResumeCapture
  BY <1>14 DEF ResumeCapture, SetSession, told, history
<1>15. CASE UNCHANGED clientVars
  BY <1>15 DEF clientVars, told, history
<1>16. CASE TestCamera
  BY <1>16 DEF TestCamera, told, history
<1> QED
  BY <1>1, <1>2, <1>3, <1>4, <1>5, <1>6, <1>7, <1>8, <1>9, <1>10, <1>11, <1>12, <1>13, <1>14, <1>15, <1>16 DEF ClientNext

\* The encoder is made for the rate that the preview gets.
LEMMA CalmRatesKept ==
  ASSUME ClientTyped, StartInv, RateInv, CalmPhases, CalmSettings, CalmRates, mishaps = {}, [ClientNext]_clientVars
  PROVE  CalmRates'
<1> USE DEF StartInv, CalmPhases, CalmRates, ClientTyped, ClientModes, ClientParts, NoCamera, NoUpdate, Undisturbed
<1>1. CASE BeginUpdate
  BY <1>1 DEF BeginUpdate, told
<1>2. CASE UpdateSettings
  BY <1>2 DEF UpdateSettings, UpdateSettingCache, history, told, NoUpdate, NextSettings
<1>3. ASSUME NEW r \in Requests, Start(r) PROVE CalmRates'
  <2>1. IsInRange(GetMaxFrameRate(r.rate))
    <3>1. IsRange(r.rate) => IsInRange(GetMaxFrameRate(r.rate))
      BY <1>3 DEF Start
    <3>2. ~IsRange(r.rate) => GetMaxFrameRate(r.rate) = MaxFps
      BY DEF GetMaxFrameRate
    <3> QED
      BY <3>1, <3>2, ClientAssumption DEF IsInRange
  <2>2. phase \in {"idle", "running"} /\ request' = r /\ camera' = camera /\ encoder' = encoder /\ rate' = rate
    BY <1>3 DEF Start, told
  <2>3. todo'.encoder # <<>>
    BY <1>3, StepsBegin, StepsAre
  <2>4. camera.outputs = {} => encoder = 0
    BY <2>2
  <2> QED
    BY <2>1, <2>2, <2>3, <2>4
<1>4. CASE CreatePipeline
  <2>1. todo'.encoder = <<>> /\ camera' = camera /\ request' = request /\ rate' = rate
    BY <1>4, StepsGo DEF CreatePipeline, StartUnchanged
  <2>2. /\ encoder' \in Nat /\ encoder' <= MaxFps /\ encoder' >= encoder
        /\ encoder' = IF camera.outputs = {} THEN GetMaxFrameRate(request.rate) ELSE encoder
    BY <1>4, CalmPipeline
  <2>3. phase = "starting" /\ IsInRange(GetMaxFrameRate(request.rate))
    BY <1>4 DEF CreatePipeline, Step
  <2> QED
    BY <2>1, <2>2, <2>3
<1>5. CASE CreateInput
  BY <1>5, StepsAre, StepsLeft, StepsGo DEF CreateInput, Step, NextStep, Fails, StartUnchanged, history
<1>6. CASE EmptyQueue
  BY <1>6, StepsAre, StepsLeft, StepsGo DEF EmptyQueue, Step, NextStep, Fails, StartUnchanged, history
<1>7. CASE CreateSession
  BY <1>7, StepsAre, StepsLeft, StepsGo DEF CreateSession, Step, NextStep, Fails, StartUnchanged, history
<1>8. CASE KeepInfos
  BY <1>8, StepsAre, StepsLeft, StepsGo DEF KeepInfos, Step, NextStep, StartUnchanged, history
<1>9. CASE GiveUp
  BY <1>9 DEF GiveUp, Prepared, CommitUnchanged
<1>10. CASE CommitCapture
  <2>1. phase = "starting" /\ todo.encoder = <<>> /\ infos = request /\ request.streams # {} /\ phase' = "running"
        /\ encoder' = encoder
    BY <1>10 DEF CommitCapture, Prepared, CommitUnchanged
  <2>2. CASE camera.outputs # {}
    <3>1. camera' = camera /\ rate' = rate
      BY <1>10, <2>2 DEF CommitCapture, ConfigCaptureSessionInner
    <3> QED
      BY <2>1, <2>2, <3>1
  <2>3. CASE camera.outputs = {}
    <3>1. camera'.outputs # {} /\ rate' = FrameRate(GetFpsRanges)
      BY <1>10, <2>1, <2>3 DEF CommitCapture, ConfigCaptureSessionInner
    <3>2. rate' = FrameRate(request.rate)
      BY <2>1, <2>3, <3>1, CommittedRate
    <3>3. encoder = GetMaxFrameRate(request.rate) /\ encoder # 0 /\ encoder <= MaxFps
      BY <2>1, <2>3, ClientAssumption, FrameRatesAre, InfosAre DEF IsInRange
    <3>4. rate' = <<>> \/ \A i \in 1..2 : rate'[i] <= encoder
      BY <3>2, <3>3, FrameRatesAre, InfosAre
    <3> QED
      BY <2>1, <3>1, <3>3, <3>4
  <2> QED
    BY <2>2, <2>3
<1>11. CASE CommitFails
  BY <1>11 DEF CommitFails, Prepared, CommitUnchanged, ConfigCaptureSessionInner
<1>12. CASE StopCapture
  BY <1>12 DEF StopCapture, StopUnchanged, Forget
<1>13. CASE PauseCapture
  BY <1>13 DEF PauseCapture, SetSession, told, history
<1>14. CASE ResumeCapture
  BY <1>14 DEF ResumeCapture, SetSession, told, history
<1>15. CASE UNCHANGED clientVars
  BY <1>15 DEF clientVars, told, history
<1>16. CASE TestCamera
  BY <1>16 DEF TestCamera, told, history
<1> QED
  BY <1>1, <1>2, <1>3, <1>4, <1>5, <1>6, <1>7, <1>8, <1>9, <1>10, <1>11, <1>12, <1>13, <1>14, <1>15, <1>16 DEF ClientNext

\* Nothing disturbs the invariant.
LEMMA ClientInvKept ==
  ASSUME ClientInv, [ClientNext]_clientVars
  PROVE  ClientInv'
<1>1. ClientTyped /\ StartInv /\ PhotoInv /\ RateInv /\ Calm
  BY DEF ClientInv
<1>2. ClientTyped'
  BY <1>1, ClientModesKept, ClientPartsKept, ClientNumbersKept DEF ClientTyped
<1>3. StartInv' /\ PhotoInv' /\ RateInv'
  BY <1>1, StartKept, PhotoKept, RateKept
<1>4. ASSUME mishaps' = {} PROVE CalmPhases' /\ CalmSettings' /\ CalmRates'
  <2>1. mishaps = {}
    BY <1>4, MishapsStay
  <2>2. CalmPhases /\ CalmSettings /\ CalmRates
    BY <1>1, <2>1 DEF Calm
  <2> QED
    BY <1>1, <2>1, <2>2, CalmPhasesKept, CalmSettingsKept, CalmRatesKept
<1> QED
  BY <1>2, <1>3, <1>4 DEF ClientInv, Calm

\* The invariant implies the property.
LEMMA ClientInvSays ==
  ASSUME ClientInv
  PROVE  CameraDoesAsAsked
<1>1. NewestSettingsApply
  BY DEF ClientInv, Calm, CalmSettings, NewestSettingsApply
<1>2. RatesAndPhotosFit
  BY DEF ClientInv, PhotoInv, StartInv, RateInv, Calm, CalmRates, RatesAndPhotosFit
<1> QED
  BY <1>1, <1>2 DEF CameraDoesAsAsked

\* The client is well typed: a start has its steps in their order, and the frame
\* rates are numbers (DCameraClient, DCameraSinkDataProcess).
THEOREM ClientTypeCorrect == ClientSpec => []ClientTyped
<1>1. ClientInit => ClientInv
  BY ClientInitially
<1>2. ClientInv /\ [ClientNext]_clientVars => ClientInv'
  BY ClientInvKept
<1>3. ClientInv => ClientTyped
  BY DEF ClientInv
<1> QED
  BY <1>1, <1>2, <1>3, PTL DEF ClientSpec

\* For every limit of the queue and of the rates, and every number of settings:
\* the camera has the newest settings, each photo those of its command, and the
\* preview the rate of the command its outputs were made for, with an encoder that
\* keeps up (UpdateSettings, StartCapture, StartPhotoOutput, FeedStreamToSnapShot).
THEOREM CameraAlwaysDoesAsAsked == ClientSpec => []CameraDoesAsAsked
<1>1. ClientInit => ClientInv
  BY ClientInitially
<1>2. ClientInv /\ [ClientNext]_clientVars => ClientInv'
  BY ClientInvKept
<1>3. ClientInv => CameraDoesAsAsked
  BY ClientInvSays
<1> QED
  BY <1>1, <1>2, <1>3, PTL DEF ClientSpec
=============================================================================
