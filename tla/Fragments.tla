----------------------------- MODULE Fragments -----------------------------
(***************************************************************************)
(* Large data on a softbus session (DCameraSoftbusSession): the sink cuts  *)
(* a photo into fragments, the source puts them together again.            *)
(*                                                                         *)
(* The sink sends from the event thread of the snapshot data process, one  *)
(* photo at a time, on whatever socket its session has at each fragment.   *)
(* The source makes a session for each socket, records it after Bind, and  *)
(* assembles on an event thread of the session.  A photo that is cut short *)
(* leaves its head with the receiver, and all photos carry the sequence    *)
(* number 0, so only the flags, the sub-sequence numbers and the order of  *)
(* the packets tell photos apart.                                          *)
(*                                                                         *)
(* Softbus is external: a socket keeps the order and loses only what is    *)
(* under way when it is shut down.                                         *)
(*                                                                         *)
(* A session whose peer shut it down has lost its socket number, so that   *)
(* its release does not find it in sourceSocketSessionMap_: it is left     *)
(* there and works off its queue beside the session that follows.          *)
(***************************************************************************)
EXTENDS Integers, Sequences

CONSTANTS
  PacketMax,   \* BINARY_DATA_PACKET_MAX_LEN, equal to BINARY_DATA_MAX_LEN
  Reserved,    \* BINARY_DATA_PACKET_RESERVED_BUFFER
  TotalMax,    \* BINARY_DATA_MAX_TOTAL_LEN
  SubSeqs,     \* the values of the 16 bits of a sub-sequence number
  Sizes,       \* the sizes a photo may have
  MaxPhotos    \* photos taken (a bound)

ASSUME FragmentAssumption ==
  /\ PacketMax \in Nat /\ Reserved \in 1..(PacketMax - 1)
  /\ TotalMax \in Nat /\ PacketMax <= TotalMax
  /\ SubSeqs \in Nat \ {0}
  /\ Sizes \subseteq Nat \ {0}
  /\ MaxPhotos \in Nat

VARIABLES
  photos,    \* the sizes of the photos taken so far; a photo is its number
  sending,   \* the photo UnPackSendData works on, its offset and subSeq; Idle if none
  result,    \* what SendData returned for the last photo; none before it returns
  session,   \* the source's session: none, bound, recorded or closed
  wire,      \* packets on the socket
  inbox,     \* packets in the event queue of the source's session
  assembly,  \* isWaiting_, nowSubSeq_, offset_, totalLen_, packBuffer_
  leftInbox, leftAssembly,   \* the same of a session left in sourceSocketSessionMap_
  posted     \* the buffers handed to the listener so far

sink   == <<photos, sending, result>>
left   == <<leftInbox, leftAssembly>>
source == <<session, inbox, assembly, left, posted>>
vars   == <<sink, source, wire>>

Idle == [photo |-> 0, offset |-> 0, sub |-> 0]

Flags == {"START", "MID", "END", "START_END"}

\* ResetAssembleFrag
NoAssembly == [waiting |-> FALSE, sub |-> 0, offset |-> 0, total |-> 0, buffer |-> <<>>]

Init ==
  /\ photos = <<>> /\ sending = Idle /\ result = "none"
  /\ session = "none" /\ wire = <<>> /\ inbox = <<>>
  /\ assembly = NoAssembly /\ posted = <<>>
  /\ leftInbox = <<>> /\ leftAssembly = NoAssembly
-----------------------------------------------------------------------------
(* The sink: UnPackSendData.                                                *)

TakePhoto(s) ==
  /\ sending = Idle /\ Len(photos) < MaxPhotos
  /\ photos' = Append(photos, s)
  /\ sending' = [photo |-> Len(photos) + 1, offset |-> 0, sub |-> 0]
  /\ result' = "none"
  /\ UNCHANGED <<source, wire>>

Remaining == photos[sending.photo] - sending.offset

\* SetHeadParaDataLen, and the single packet of a small photo.
FragmentLen == IF Remaining > PacketMax THEN PacketMax - Reserved ELSE Remaining

FragmentFlag ==
  IF Remaining > PacketMax
  THEN IF sending.offset = 0 THEN "START" ELSE "MID"
  ELSE IF sending.offset = 0 THEN "START_END" ELSE "END"

\* The header of the next fragment, and which bytes follow it.
Fragment == [flag |-> FragmentFlag, sub |-> sending.sub,
             total |-> photos[sending.photo], len |-> FragmentLen,
             photo |-> sending.photo, at |-> sending.offset]

SendFragment ==
  /\ sending # Idle /\ session \in {"bound", "recorded"}
  /\ wire' = Append(wire, Fragment)
  /\ IF FragmentFlag \in {"END", "START_END"}
     THEN sending' = Idle /\ result' = "ok"
     ELSE /\ sending' = [photo |-> sending.photo, offset |-> sending.offset + FragmentLen,
                         sub |-> (sending.sub + 1) % SubSeqs]
          /\ UNCHANGED result
  /\ UNCHANGED <<photos, source>>

\* SendBytes fails: the session is closed, the socket dead or softbus busy.
SendFails ==
  /\ sending # Idle
  /\ sending' = Idle /\ result' = "failed"
  /\ UNCHANGED <<photos, source, wire>>
-----------------------------------------------------------------------------
(* The source: PackRecvData on the session's event thread.                  *)

\* A slip: an off-by-one in the limit of a packet.
AcceptableShort(p) ==
  /\ p.len <= p.total /\ p.len < PacketMax /\ p.total <= TotalMax
  /\ p.flag = "START_END" => p.len = p.total

\* The checks of PackRecvData and AssembleNoFrag.
Acceptable(p) ==
  /\ p.len <= p.total /\ p.len <= PacketMax /\ p.total <= TotalMax
  /\ p.flag = "START_END" => p.len = p.total

\* memcpy_s of the bytes of p to the offset
Copy(buffer, offset, p) ==
  [i \in DOMAIN buffer |-> IF i \in offset..(offset + p.len - 1)
                           THEN <<p.photo, p.at + i - offset>> ELSE buffer[i]]

\* A new DataBuffer; its bytes are of no photo.
NewBuffer(size) == [i \in 0..(size - 1) |-> <<0, 0>>]

\* CheckUnPackBuffer
Continues(a, p) ==
  /\ a.waiting
  /\ a.sub + 1 = p.sub
  /\ a.total >= p.len + a.offset

\* AssembleFrag, up to the post that an END makes.
Assembled(a, p) ==
  IF p.flag = "START"
  THEN [waiting |-> TRUE, sub |-> p.sub, offset |-> p.len, total |-> p.total,
        buffer |-> Copy(NewBuffer(p.total), 0, p)]
  ELSE [waiting |-> TRUE, sub |-> p.sub, offset |-> a.offset + p.len, total |-> a.total,
        buffer |-> Copy(a.buffer, a.offset, p)]

\* PackRecvData: the packet p meets the assembly a, which becomes b.
Handle(p, a, b) ==
  \/ /\ ~Acceptable(p)
     /\ b = a
     /\ UNCHANGED posted
  \/ /\ Acceptable(p) /\ p.flag = "START_END"
     /\ posted' = Append(posted, Copy(NewBuffer(p.len), 0, p))
     /\ b = a
  \/ /\ Acceptable(p) /\ (p.flag = "START" \/ (p.flag = "MID" /\ Continues(a, p)))
     /\ b = Assembled(a, p)
     /\ UNCHANGED posted
  \/ /\ Acceptable(p) /\ p.flag = "END" /\ Continues(a, p)
     /\ posted' = Append(posted, Assembled(a, p).buffer)
     /\ b = NoAssembly
  \/ /\ Acceptable(p) /\ p.flag \in {"MID", "END"} /\ ~Continues(a, p)
     /\ b = NoAssembly
     /\ UNCHANGED posted

Receive ==
  /\ inbox # <<>>
  /\ inbox' = Tail(inbox)
  /\ Handle(Head(inbox), assembly, assembly')
  /\ UNCHANGED <<sink, session, wire, left>>

\* The event thread of the session that was left behind.
ReceiveLeft ==
  /\ leftInbox # <<>>
  /\ leftInbox' = Tail(leftInbox)
  /\ Handle(Head(leftInbox), leftAssembly, leftAssembly')
  /\ UNCHANGED <<sink, session, wire, inbox, assembly>>

\* SourceOnBytes: a packet whose session is not recorded yet is dropped.
OnBytes ==
  /\ wire # <<>>
  /\ wire' = Tail(wire)
  /\ inbox' = IF session = "recorded" THEN Append(inbox, Head(wire)) ELSE inbox
  /\ UNCHANGED <<sink, session, assembly, left, posted>>
-----------------------------------------------------------------------------
(* The life of the session.                                                 *)

\* CreateSession makes a new session and binds it.
Bind ==
  /\ session = "none"
  /\ session' = "bound"
  /\ UNCHANGED <<sink, wire, inbox, assembly, left, posted>>

\* RecordSourceSocketSession
RecordSession ==
  /\ session = "bound"
  /\ session' = "recorded"
  /\ UNCHANGED <<sink, wire, inbox, assembly, left, posted>>

\* The socket is shut down; the session still works off what it has received.
Shutdown ==
  /\ session \in {"bound", "recorded"}
  /\ session' = "closed"
  /\ wire' = <<>>
  /\ UNCHANGED <<sink, inbox, assembly, left, posted>>

\* A slip: one session object serves all sockets and keeps its assembly.
ReleaseKeepingAssembly ==
  /\ session # "none"
  /\ session' = "none"
  /\ wire' = <<>> /\ inbox' = <<>>
  /\ UNCHANGED <<sink, assembly, left, posted>>

\* ReleaseSession: the session goes with its queue and its assembly, unless it
\* was shut down before: sessionId_ is -1 then, and the map keeps the session.
\* (A bound: one session at a time is left behind with packets.)
ReleaseSession ==
  /\ session # "none"
  /\ session' = "none"
  /\ wire' = <<>> /\ inbox' = <<>> /\ assembly' = NoAssembly
  /\ IF session = "closed"
     THEN leftInbox = <<>> /\ leftInbox' = inbox /\ leftAssembly' = assembly
     ELSE UNCHANGED left
  /\ UNCHANGED <<sink, posted>>
-----------------------------------------------------------------------------
Send == SendFragment \/ SendFails

Next ==
  \/ \E s \in Sizes : TakePhoto(s)
  \/ SendFragment \/ SendFails
  \/ Receive \/ ReceiveLeft \/ OnBytes
  \/ Bind \/ RecordSession \/ Shutdown \/ ReleaseSession

Spec == Init /\ [][Next]_vars

\* The event threads of sink and source run, and softbus delivers.
FairSpec == /\ Spec
            /\ WF_vars(Send) /\ WF_vars(OnBytes) /\ WF_vars(Receive) /\ WF_vars(ReceiveLeft)
-----------------------------------------------------------------------------
Photos == DOMAIN photos

Packets == {p \in [flag : Flags, sub : 0..(SubSeqs - 1), total : Sizes,
                   len : Nat \ {0}, photo : Photos, at : Nat] : p.at + p.len <= p.total}

IsAssembly(a) ==
  /\ a.waiting \in BOOLEAN /\ a.sub \in 0..(SubSeqs - 1)
  /\ a.offset \in 0..a.total /\ a.total \in Nat
  /\ a.waiting => DOMAIN a.buffer = 0..(a.total - 1)

\* The types, and that no packet reaches past its photo.
TypeOK ==
  /\ photos \in Seq(Sizes)
  /\ sending = Idle \/ /\ sending \in [photo : Photos, offset : Nat, sub : 0..(SubSeqs - 1)]
                       /\ sending.offset < photos[sending.photo]
  /\ result \in {"none", "ok", "failed"}
  /\ session \in {"none", "bound", "recorded", "closed"}
  /\ wire \in Seq(Packets) /\ inbox \in Seq(Packets) /\ leftInbox \in Seq(Packets)
  /\ IsAssembly(assembly) /\ IsAssembly(leftAssembly)

\* The fragments on their way to the assembly, and the one the sink sends next.
Stream  == inbox \o wire
Pending == Stream \o (IF sending = Idle THEN <<>> ELSE <<Fragment>>)

\* As many of the pending fragments go to the assembly there is.
Reach == IF session \in {"bound", "recorded"} THEN Len(Pending) ELSE Len(Stream)

Starts(p) == p.flag \in {"START", "START_END"}
Ends(p)   == p.flag \in {"END", "START_END"}

\* A fragment starts its photo, ends it, both or neither, as its flag says.
WellCut(p, sizes) ==
  /\ p.photo \in DOMAIN sizes /\ p.total = sizes[p.photo]
  /\ p.len \in 1..PacketMax /\ p.at + p.len <= p.total
  /\ Starts(p) <=> p.at = 0
  /\ Ends(p) <=> p.at + p.len = p.total

\* Photos are under way one after the other, and none is resumed once ended.
OneAfterTheOther(q) ==
  \A i, j \in DOMAIN q : i < j =>
    /\ q[i].photo <= q[j].photo
    /\ Ends(q[i]) \/ Starts(q[j]) => q[i].photo < q[j].photo

\* Among the first n, a fragment that does not start a photo comes right behind
\* the one before it.
Gapless(q, n) ==
  \A i \in 2..n : ~Starts(q[i]) =>
    /\ q[i].photo = q[i - 1].photo
    /\ q[i].at = q[i - 1].at + q[i - 1].len

Channel == INSTANCE PhotoChannel

\* What has been assembled is the beginning of a photo.
IsPrefix(a, sizes) ==
  a.waiting =>
    LET n == Channel!PhotoOf(a.buffer)
    IN /\ n \in DOMAIN sizes
       /\ a.total = sizes[n] /\ a.offset > 0
       /\ \A i \in 0..(a.offset - 1) : a.buffer[i] = <<n, i>>

\* A fragment that the assembly would take next is the one that belongs there.
NextFits(q, n, a) ==
  (n > 0 /\ ~Starts(q[1]) /\ Acceptable(q[1]) /\ a.waiting) =>
    q[1].photo = Channel!PhotoOf(a.buffer) /\ q[1].at = a.offset

\* The fragments q, of which the first n reach the assembly a, agree with it.
Agree(q, n, a, sizes) ==
  /\ \A i \in DOMAIN q : WellCut(q[i], sizes)
  /\ OneAfterTheOther(q) /\ Gapless(q, n)
  /\ IsPrefix(a, sizes) /\ NextFits(q, n, a)

\* No photo on its way has been handed over, and what the session left behind
\* still ends is none of those on their way to the next session.
NoneTwice ==
  /\ \A i \in DOMAIN Pending : Pending[i].photo \notin Channel!Posted
  /\ \A i \in DOMAIN leftInbox : Ends(leftInbox[i]) =>
       /\ leftInbox[i].photo \notin Channel!Posted
       /\ \A j \in DOMAIN Pending : leftInbox[i].photo < Pending[j].photo

\* Whatever was cut short, dropped before the session was recorded, left behind,
\* or continued on another socket, the fragments under way and the assembly they
\* reach (AssembleFrag) agree, although all photos carry the same sequence number
\* and an END is posted without a look at the offset.
FragmentsAgree ==
  /\ Agree(Pending, Reach, assembly, photos)
  /\ Agree(leftInbox, Len(leftInbox), leftAssembly, photos)
  /\ NoneTwice

\* The session is a channel of whole photos (UnPackSendData against
\* PackRecvData): whatever is cut short, lost or begun on another socket, a
\* buffer given to the listener holds exactly the bytes of one photo, and no
\* photo is given to it twice.
WholePhotos == Channel!Spec

\* A photo of at most BINARY_DATA_MAX_TOTAL_LEN bytes whose sending begins on a
\* recorded session reaches the listener, unless a send fails or the session
\* ends: no size is cut in a way that the receiver does not accept.
Delivered ==
  \A n \in 1..MaxPhotos :
    (n \in Photos /\ sending.photo = n /\ sending.offset = 0 /\ photos[n] <= TotalMax
       /\ session = "recorded")
    ~> \/ \E i \in DOMAIN posted : Channel!PhotoOf(posted[i]) = n
       \/ result = "failed" \/ session # "recorded"
=============================================================================
