------------------------------ MODULE SinkProofs ------------------------------
(***************************************************************************)
(* What holds on the sink for every value of the constants.                *)
(*                                                                         *)
(* Of a capture, whatever fails: first the types, then that a start owns   *)
(* its tasks and their results, and from that what a running capture       *)
(* consists of.  The result of a preparation, once posted, stays true      *)
(* until the commit, because nothing takes the encoder or the camera down  *)
(* in the meantime.                                                        *)
(*                                                                         *)
(* Of the encode node: the types, what the node has while it is created,   *)
(* run and released, the order of the frames, and from these that what is  *)
(* sent decodes.  The recursive KeyFrames needs an induction on numbers,   *)
(* which is derived first from the library's well-founded orders.          *)
(*                                                                         *)
(* Of what the sink announces: what it says of a camera to the source is   *)
(* what the camera can do, and the bitrate of a stream is the table's for  *)
(* the nearest size, by the same induction on numbers.                     *)
(***************************************************************************)
EXTENDS SinkCapture, SinkEncoder, Abilities, FiniteSetTheorems, WellFoundedInduction, SequenceTheorems, TLAPS

----------------------------------------------------------------------------
(* SinkCapture.                                                            *)

Results == [part : Parts, ok : BOOLEAN]

\* What is taken from the queue, and what stays in it.
LEMMA QueueTail ==
  ASSUME NEW q \in Seq(Results), q # <<>>
  PROVE  /\ Head(q) \in Results /\ Tail(q) \in Seq(Results) /\ Len(q) \in Nat
         /\ DOMAIN q = 1 .. Len(q)
         /\ 1 \in DOMAIN q /\ Head(q) = q[1]
         /\ DOMAIN Tail(q) = 1 .. (Len(q) - 1)
         /\ \A i \in 1 .. (Len(q) - 1) : i + 1 \in DOMAIN q /\ Tail(q)[i] = q[i + 1]
         /\ \A i \in DOMAIN q : i # 1 => i - 1 \in 1 .. (Len(q) - 1)
<1>1. Len(q) \in Nat /\ Len(q) # 0 /\ DOMAIN q = 1 .. Len(q)
  OBVIOUS
<1> QED
  BY <1>1

\* What is in the queue after an event has been posted.
LEMMA QueueAppend ==
  ASSUME NEW q \in Seq(Results), NEW e \in Results
  PROVE  /\ Append(q, e) \in Seq(Results) /\ Len(q) \in Nat
         /\ DOMAIN q = 1 .. Len(q)
         /\ DOMAIN Append(q, e) = 1 .. (Len(q) + 1)
         /\ Append(q, e)[Len(q) + 1] = e
         /\ \A i \in DOMAIN q : Append(q, e)[i] = q[i]
OBVIOUS

\* Every variable has its type at the start.
LEMMA TypeInit == Init => TypeOK
<1> SUFFICES ASSUME Init PROVE TypeOK
  OBVIOUS
<1>1. tasks \in [Parts -> {0, 1}] /\ events \in Seq(Results)
  BY DEF Init, NoTasks
<1>2. camera \in Clients /\ cleanups \in 0..MaxCleanups /\ (peer # {} => cleanups < MaxCleanups)
  BY CaptureAssumption DEF Init, Released, Client, Clients
<1>3. infos \in [streams : SUBSET {"preview", "photo"}, shot : BOOLEAN]
  BY DEF Init
<1> QED
  BY <1>1, <1>2, <1>3 DEF Init, TypeOK, Results

\* A client put together from its parts is a client, and has them.
LEMMA ClientParts ==
  ASSUME NEW i \in {"none", "closed", "open"}, NEW s \in {"none", "created", "running"},
         NEW o \in SUBSET {"preview", "photo"}
  PROVE  /\ Client(i, s, o) \in Clients
         /\ Client(i, s, o).input = i /\ Client(i, s, o).session = s
         /\ Client(i, s, o).outputs = o
BY DEF Client, Clients

\* What a camera task may leave behind.
LEMMA CameraTaskLeaves ==
  ASSUME TypeOK, CameraTask
  PROVE  /\ UNCHANGED pipeline
         /\ \/ camera' = camera
            \/ camera' \in Clients /\ camera'.input \in {"open", "closed"} /\ camera'.outputs = {}
<1>1. camera.session \in {"none", "created", "running"}
  BY DEF TypeOK, Clients
<1>2. /\ UNCHANGED pipeline
      /\ camera' \in {camera, Client("open", "created", {}), Client("closed", camera.session, {}),
                      Client("open", camera.session, {}), Client("open", "none", {})}
  BY DEF CameraTask
<1> QED
  BY <1>1, <1>2, ClientParts

\* The parts of a stop that the three kinds of it share.
LEMMA StopType ==
  ASSUME TypeOK, NEW t \in Stoppers, StopCapture(t)
  PROVE  TypeOK'
<1>1. CASE captureState = "IDLE"
  BY <1>1 DEF StopCapture, TypeOK, work, parts
<1>2. CASE captureState # "IDLE"
  <2>1. /\ captureState' = "IDLE" /\ pipeline' = "none" /\ camera' = Released
        /\ stopping' \subseteq Stoppers
        /\ UNCHANGED <<infos, tasks, events, ready, failed, deciding, peer, request, cleanups>>
    BY <1>2 DEF StopCapture, TypeOK
  <2> QED
    BY <2>1, ClientParts DEF TypeOK, Released
<1> QED
  BY <1>1, <1>2

\* Every step keeps the types, given that a start owns its tasks.
LEMMA TypeStep == TypeOK /\ PreparationOwned /\ [Next]_vars => TypeOK'
<1> SUFFICES ASSUME TypeOK, PreparationOwned, [Next]_vars PROVE TypeOK'
  OBVIOUS
<1> USE DEF TypeOK
<1>1. ASSUME NEW s \in StreamSets, Connected(s) PROVE TypeOK'
  BY <1>1, CaptureAssumption DEF Connected, work, parts
<1>2. CASE Disconnected
  BY <1>2, CaptureAssumption DEF Disconnected, work, parts
<1>3. ASSUME NEW r \in Requests, ReceiveCapture(r) PROVE TypeOK'
  BY <1>3 DEF ReceiveCapture, work, parts
<1>4. CASE ReceiveStop
  BY <1>4 DEF ReceiveStop, work, parts, Stoppers
<1>5. CASE StartCaptureInner
  <2>1. CASE captureState = "STARTING"
    BY <1>5, <2>1 DEF StartCaptureInner, work, parts
  <2>2. CASE captureState # "STARTING"
    <3>1. \A p \in Parts : tasks[p] = 0
      BY <2>2 DEF PreparationOwned
    <3>2. tasks' \in [Parts -> {0, 1}]
      BY <1>5, <2>2, <3>1 DEF StartCaptureInner
    <3>3. infos' \in [streams : SUBSET {"preview", "photo"}, shot : BOOLEAN]
      BY <1>5, <2>2, CaptureAssumption DEF StartCaptureInner, Requests
    <3> QED
      BY <1>5, <2>2, <3>2, <3>3 DEF StartCaptureInner, parts
  <2> QED
    BY <2>1, <2>2
<1>6. ASSUME NEW p \in Parts, NEW ok \in BOOLEAN, Done(p, ok)
      PROVE  tasks' \in [Parts -> {0, 1}] /\ events' \in Seq(Results)
  BY <1>6 DEF Done, Results
<1>7. CASE EncoderTask
  <2>1. tasks' \in [Parts -> {0, 1}] /\ events' \in Seq(Results)
    BY <1>6, <1>7 DEF EncoderTask, Parts
  <2>2. pipeline' \in {"none", "broken", "built"}
    BY <1>7 DEF EncoderTask
  <2> QED
    BY <1>7, <2>1, <2>2 DEF EncoderTask, Done, threads, Results
<1>8. CASE CameraTask
  <2>1. tasks' \in [Parts -> {0, 1}] /\ events' \in Seq(Results)
    BY <1>6, <1>8 DEF CameraTask, Parts
  <2>2. camera' \in Clients
    BY <1>8, CameraTaskLeaves
  <2> QED
    BY <1>8, <2>1, <2>2 DEF CameraTask, Done, threads, Results
<1>9. CASE ProcessEvent
  <2>1. Head(events) \in Results /\ Tail(events) \in Seq(Results)
    BY <1>9, QueueTail DEF ProcessEvent, Results
  <2>2. ready' \subseteq Parts /\ failed' \subseteq Parts
    BY <1>9, <2>1 DEF ProcessEvent, Results
  <2> QED
    BY <1>9, <2>1, <2>2 DEF ProcessEvent, parts, threads, Results
<1>10. CASE Verdict
  <2>1. camera' \in Clients
    <3>1. infos.streams \in SUBSET {"preview", "photo"}
      OBVIOUS
    <3>2. /\ camera.input \in {"none", "closed", "open"}
          /\ camera.session \in {"none", "created", "running"}
          /\ camera.outputs \in SUBSET {"preview", "photo"}
      BY DEF Clients
    <3>3. \/ camera' = camera
          \/ camera' = Client(camera.input, "running", infos.streams)
          \/ \E made \in SUBSET infos.streams : camera' = Client(camera.input, camera.session, made)
      BY <1>10 DEF Verdict, AuthorizationRefused, PreparationFailed, CommitOK,
         ConfigurationFails, PhotoFails
    <3> QED
      BY <3>1, <3>2, <3>3, ClientParts
  <2>2. PICK state \in {"IDLE", "RUNNING"} : Decide(state)
    BY <1>10 DEF Verdict, AuthorizationRefused, PreparationFailed, CommitOK,
       ConfigurationFails, PhotoFails
  <2> QED
    BY <2>1, <2>2 DEF Decide, threads
<1>11. CASE IpcStop
  BY <1>11 DEF IpcStop, work, parts, Stoppers
<1>12. CASE Cleanup
  BY <1>12, CaptureAssumption DEF Cleanup, work, parts, Stoppers
<1>13. ASSUME NEW t \in Stoppers, StopCapture(t) PROVE TypeOK'
  BY <1>13, StopType
<1>14. ASSUME NEW t \in Stoppers, StopTimesOut(t) PROVE TypeOK'
  BY <1>14 DEF StopTimesOut, work, parts
<1>15. CASE UNCHANGED vars
  BY <1>15 DEF vars, work, parts, threads
<1> QED
  BY <1>1, <1>2, <1>3, <1>4, <1>5, <1>7, <1>8, <1>9, <1>10, <1>11, <1>12, <1>13,
     <1>14, <1>15 DEF Next
-----------------------------------------------------------------------------
\* Nothing is under way at the start.
LEMMA OwnedInit == Init => PreparationOwned
BY DEF Init, PreparationOwned, NoTasks, Queued, Parts

\* A step that touches neither the attempt nor its results keeps them owned.
LEMMA OwnedUntouched ==
  ASSUME PreparationOwned, UNCHANGED <<captureState, tasks, events, ready, deciding>>
  PROVE  PreparationOwned'
BY DEF PreparationOwned, Queued

\* A task that ends hands its part over to the queue.
LEMMA OwnedDone ==
  ASSUME TypeOK, PreparationOwned, NEW p \in Parts, NEW ok \in BOOLEAN, Done(p, ok)
  PROVE  PreparationOwned'
<1> DEFINE e == [part |-> p, ok |-> ok]
<1>1. e \in Results /\ e.part = p /\ events \in Seq(Results)
  BY DEF TypeOK, Results
<1>2. captureState = "STARTING" /\ tasks[p] = 1 /\ ~Queued(p) /\ p \notin ready
  BY DEF Done, PreparationOwned, TypeOK
<1>3. events' = Append(events, e) /\ tasks' = [tasks EXCEPT ![p] = 0]
      /\ UNCHANGED <<captureState, ready, deciding>>
  BY <1>2 DEF Done
<1>4. /\ Len(events) \in Nat /\ DOMAIN events = 1 .. Len(events)
      /\ DOMAIN events' = 1 .. (Len(events) + 1)
      /\ events'[Len(events) + 1] = e
      /\ \A i \in DOMAIN events : events'[i] = events[i]
  BY <1>1, <1>3, QueueAppend
<1>5. \A i \in DOMAIN events' : i \in DOMAIN events \/ i = Len(events) + 1
  BY <1>4
<1>6. \A i, j \in DOMAIN events' : events'[i].part = events'[j].part => i = j
  BY <1>1, <1>2, <1>4, <1>5 DEF PreparationOwned, Queued
<1>7. \A q \in Parts : Queued(q)' <=> Queued(q) \/ q = p
  BY <1>1, <1>4, <1>5 DEF Queued
<1>8. \A q \in Parts : tasks'[q] = IF q = p THEN 0 ELSE tasks[q]
  BY <1>3 DEF TypeOK
<1> QED
  BY <1>2, <1>3, <1>6, <1>7, <1>8 DEF PreparationOwned

\* The event thread takes a part from the queue to its ready flag.
LEMMA OwnedProcess ==
  ASSUME TypeOK, PreparationOwned, ProcessEvent
  PROVE  PreparationOwned'
<1> DEFINE p == Head(events).part
<1>1. events \in Seq(Results) /\ events # <<>>
  BY DEF TypeOK, Results, ProcessEvent
<1>0. p \in Parts
  <2>1. Head(events) \in Results
    BY <1>1, QueueTail
  <2> QED
    BY <2>1 DEF Results
<1>2. /\ p \in Parts /\ Len(events) \in Nat /\ 1 \in DOMAIN events /\ p = events[1].part
      /\ DOMAIN Tail(events) = 1 .. (Len(events) - 1)
      /\ \A i \in 1 .. (Len(events) - 1) : i + 1 \in DOMAIN events /\ Tail(events)[i] = events[i + 1]
      /\ \A i \in DOMAIN events : i # 1 => i - 1 \in 1 .. (Len(events) - 1)
      /\ DOMAIN events = 1 .. Len(events)
  BY <1>0, <1>1, QueueTail
<1>3. Queued(p) /\ captureState = "STARTING" /\ tasks[p] # 1 /\ p \notin ready
  <2>1. Queued(p)
    BY <1>2 DEF Queued
  <2> QED
    BY <1>2, <2>1 DEF PreparationOwned
<1>4. /\ events' = Tail(events) /\ ready' = ready \cup {p} /\ deciding' = (ready' = Parts)
      /\ UNCHANGED <<captureState, tasks>>
  BY DEF ProcessEvent
<1>5. \A i, j \in DOMAIN events' : events'[i].part = events'[j].part => i = j
  <2> SUFFICES ASSUME NEW i \in DOMAIN events', NEW j \in DOMAIN events',
                      events'[i].part = events'[j].part
               PROVE  i = j
    OBVIOUS
  <2>1. /\ i + 1 \in DOMAIN events /\ j + 1 \in DOMAIN events
        /\ events[i + 1].part = events[j + 1].part
    BY <1>2, <1>4
  <2>2. i + 1 = j + 1
    BY <2>1 DEF PreparationOwned
  <2> QED
    BY <1>2, <1>4, <2>2
<1>6. \A q \in Parts : Queued(q)' <=> Queued(q) /\ q # p
  <2> SUFFICES ASSUME NEW q \in Parts PROVE Queued(q)' <=> Queued(q) /\ q # p
    OBVIOUS
  <2>1. ASSUME Queued(q)' PROVE Queued(q) /\ q # p
    <3>1. PICK i \in DOMAIN events' : events'[i].part = q
      BY <2>1 DEF Queued
    <3>2. i + 1 \in DOMAIN events /\ events[i + 1].part = q /\ i + 1 # 1
      BY <1>2, <1>4, <3>1
    <3> QED
      BY <1>2, <3>2 DEF Queued, PreparationOwned
  <2>2. ASSUME Queued(q), q # p PROVE Queued(q)'
    <3>1. PICK i \in DOMAIN events : events[i].part = q
      BY <2>2 DEF Queued
    <3>2. i # 1
      BY <1>2, <2>2, <3>1
    <3>3. i - 1 \in DOMAIN events' /\ events'[i - 1] = events[(i - 1) + 1] /\ (i - 1) + 1 = i
      BY <1>2, <1>4, <3>2
    <3> QED
      BY <3>1, <3>3 DEF Queued
  <2> QED
    BY <2>1, <2>2
<1> QED
  BY <1>2, <1>3, <1>4, <1>5, <1>6 DEF PreparationOwned, TypeOK

\* A verdict falls when both parts are ready, so nothing is left behind.
LEMMA OwnedDecide ==
  ASSUME TypeOK, PreparationOwned, NEW state \in {"IDLE", "RUNNING"}, Decide(state)
  PROVE  PreparationOwned'
<1>1. captureState = "STARTING" /\ ready = Parts
  BY DEF Decide, PreparationOwned
<1>2. \A p \in Parts : tasks[p] = 0 /\ ~Queued(p)
  BY <1>1 DEF PreparationOwned, TypeOK
<1>3. captureState' = state /\ deciding' = FALSE /\ UNCHANGED <<tasks, events>>
  BY DEF Decide
<1> QED
  BY <1>2, <1>3 DEF PreparationOwned, Queued

\* Every step keeps the attempt in one place.
LEMMA OwnedStep == TypeOK /\ PreparationOwned /\ [Next]_vars => PreparationOwned'
<1> SUFFICES ASSUME TypeOK, PreparationOwned, [Next]_vars PROVE PreparationOwned'
  OBVIOUS
<1>1. ASSUME NEW s \in StreamSets, Connected(s) PROVE PreparationOwned'
  BY <1>1, OwnedUntouched DEF Connected, work
<1>2. CASE Disconnected
  BY <1>2, OwnedUntouched DEF Disconnected, work
<1>3. ASSUME NEW r \in Requests, ReceiveCapture(r) PROVE PreparationOwned'
  BY <1>3, OwnedUntouched DEF ReceiveCapture, work
<1>4. CASE ReceiveStop
  BY <1>4, OwnedUntouched DEF ReceiveStop, work
<1>5. CASE StartCaptureInner
  <2>1. CASE captureState = "STARTING"
    BY <1>5, <2>1, OwnedUntouched DEF StartCaptureInner, work
  <2>2. CASE captureState # "STARTING"
    <3>1. \A p \in Parts : tasks[p] = 0 /\ ~Queued(p)
      BY <2>2 DEF PreparationOwned
    <3>2. /\ captureState' = "STARTING" /\ ready' = {} /\ deciding' = FALSE /\ events' = events
          /\ \A p \in Parts : tasks'[p] = 1
      BY <1>5, <2>2, <3>1 DEF StartCaptureInner, MutexFree, TypeOK
    <3> QED
      BY <3>1, <3>2 DEF PreparationOwned, Queued, Parts
  <2> QED
    BY <2>1, <2>2
<1>6. CASE EncoderTask
  <2>1. Done("encoder", pipeline' = "built")
    BY <1>6 DEF EncoderTask
  <2> QED
    BY <2>1, OwnedDone DEF Parts
<1>7. CASE CameraTask
  <2>1. Done("camera", TRUE) \/ Done("camera", FALSE)
    BY <1>7 DEF CameraTask
  <2> QED
    BY <2>1, OwnedDone DEF Parts
<1>8. CASE ProcessEvent
  BY <1>8, OwnedProcess
<1>9. CASE Verdict
  <2>1. PICK state \in {"IDLE", "RUNNING"} : Decide(state)
    BY <1>9 DEF Verdict, AuthorizationRefused, PreparationFailed, CommitOK,
       ConfigurationFails, PhotoFails
  <2> QED
    BY <2>1, OwnedDecide
<1>10. CASE IpcStop
  BY <1>10, OwnedUntouched DEF IpcStop, work
<1>11. CASE Cleanup
  BY <1>11, OwnedUntouched DEF Cleanup, work
<1>12. ASSUME NEW t \in Stoppers, StopCapture(t) PROVE PreparationOwned'
  <2>1. CASE captureState = "IDLE"
    BY <1>12, <2>1, OwnedUntouched DEF StopCapture, work
  <2>2. CASE captureState # "IDLE"
    <3>1. captureState # "STARTING" /\ captureState' = "IDLE"
          /\ UNCHANGED <<tasks, events, ready, deciding>>
      BY <1>12, <2>2 DEF StopCapture
    <3> QED
      BY <3>1 DEF PreparationOwned, Queued
  <2> QED
    BY <2>1, <2>2
<1>13. ASSUME NEW t \in Stoppers, StopTimesOut(t) PROVE PreparationOwned'
  BY <1>13, OwnedUntouched DEF StopTimesOut, work
<1>14. CASE UNCHANGED vars
  BY <1>14, OwnedUntouched DEF vars, work
<1> QED
  BY <1>1, <1>2, <1>3, <1>4, <1>5, <1>6, <1>7, <1>8, <1>9, <1>10, <1>11, <1>12,
     <1>13, <1>14 DEF Next

\* Types, and the attempt in one place, hold of every behaviour: no result of
\* one start is ever counted for another, whatever fails and however starts,
\* stops and disconnections cross.
THEOREM StartsOwnTheirWork == Spec => [](TypeOK /\ PreparationOwned)
<1>1. Init => TypeOK /\ PreparationOwned
  BY TypeInit, OwnedInit
<1>2. TypeOK /\ PreparationOwned /\ [Next]_vars => TypeOK' /\ PreparationOwned'
  BY TypeStep, OwnedStep
<1> QED
  BY <1>1, <1>2, PTL DEF Spec

\* StopCapture takes the encoder and the camera down under the mutex and
\* never during a start, so no preparation task runs beside it.
THEOREM TeardownIsExclusive == Spec => TeardownExcludesPreparation
<1> DEFINE Down == \/ pipeline # "none" /\ pipeline' = "none"
                   \/ camera # Released /\ camera' = Released
           Quiet == tasks = NoTasks /\ events = <<>>
<1>1. TypeOK /\ PreparationOwned /\ [Next]_vars => [Down => Quiet]_vars
  <2> SUFFICES ASSUME TypeOK, PreparationOwned, Next, Down PROVE Quiet
    OBVIOUS
  <2>1. ASSUME EncoderTask PROVE FALSE
    BY <2>1 DEF EncoderTask
  <2>2. ASSUME CameraTask PROVE FALSE
    <3>1. Released.input = "none"
      BY ClientParts DEF Released
    <3> QED
      BY <2>2, <3>1, CameraTaskLeaves
  <2>3. ASSUME Verdict PROVE FALSE
    <3>1. /\ UNCHANGED pipeline
          /\ \/ camera' = camera
             \/ camera' = Client(camera.input, "running", infos.streams)
             \/ /\ camera.outputs = {}
                /\ \E made \in SUBSET infos.streams :
                     camera' = Client(camera.input, camera.session, made)
      BY <2>3 DEF Verdict, AuthorizationRefused, PreparationFailed, CommitOK,
         ConfigurationFails, PhotoFails, Decide
    <3>2. camera' # camera /\ camera' = Released
      BY <3>1
    <3>3. camera.outputs = {} /\ camera.input = "none" /\ camera.session = "none"
      BY <3>1, <3>2 DEF Released, Client
    <3>4. camera = Released
      BY <3>3 DEF TypeOK, Clients, Released, Client
    <3> QED
      BY <3>2, <3>4
  <2>4. ASSUME NEW t \in Stoppers, StopCapture(t) PROVE Quiet
    <3>1. \A p \in Parts : tasks[p] = 0 /\ ~Queued(p)
      BY <2>4 DEF StopCapture, PreparationOwned
    <3>2. tasks = NoTasks
      BY <3>1 DEF TypeOK, NoTasks
    <3>3. ASSUME events # <<>> PROVE FALSE
      <4>1. 1 \in DOMAIN events /\ events[1] \in Results
        BY <3>3, QueueTail DEF TypeOK, Results
      <4> QED
        BY <3>1, <4>1 DEF Queued, Results
    <3> QED
      BY <3>2, <3>3
  <2>5. CASE UNCHANGED parts
    BY <2>5 DEF parts
  <2>6. \/ EncoderTask \/ CameraTask \/ Verdict \/ \E t \in Stoppers : StopCapture(t)
        \/ UNCHANGED parts
    BY DEF Next, Connected, Disconnected, ReceiveCapture, ReceiveStop, StartCaptureInner,
       ProcessEvent, IpcStop, Cleanup, StopTimesOut
  <2> QED
    BY <2>1, <2>2, <2>3, <2>4, <2>5, <2>6
<1> QED
  BY <1>1, StartsOwnTheirWork, PTL DEF Spec, TeardownExcludesPreparation
-----------------------------------------------------------------------------
\* A part has posted, or handed over, a good result.
Succeeded(p) ==
  \/ p \in ready /\ p \notin failed
  \/ \E i \in DOMAIN events : events[i].part = p /\ events[i].ok

\* RunningIsWired, with what a start has to remember on its way there.
WiredInv ==
  /\ captureState = "STARTING" =>
       /\ infos.streams \in StreamSets
       /\ Succeeded("encoder") => pipeline = "built"
       /\ Succeeded("camera") => camera.input = "open"
  /\ camera.outputs # {} => camera.input = "open"
  /\ RunningIsWired

\* Nothing runs at the start.
LEMMA WiredInit == Init => WiredInv
<1>1. Init => camera.outputs = {}
  BY ClientParts DEF Init, Released
<1> QED
  BY <1>1 DEF Init, WiredInv, RunningIsWired

\* A step that leaves the attempt and the parts alone keeps them wired.
LEMMA WiredUntouched ==
  ASSUME WiredInv, UNCHANGED <<captureState, infos, events, ready, failed, parts>>
  PROVE  WiredInv'
BY DEF WiredInv, RunningIsWired, Succeeded, parts

\* Only the part whose task ends gains a success, and only from a good result.
LEMMA SucceededDone ==
  ASSUME TypeOK, NEW p \in Parts, NEW ok \in BOOLEAN, Done(p, ok), NEW q \in Parts, Succeeded(q)'
  PROVE  Succeeded(q) \/ (q = p /\ ok)
<1> DEFINE e == [part |-> p, ok |-> ok]
<1>1. e \in Results /\ e.part = p /\ e.ok = ok /\ events \in Seq(Results)
  BY DEF TypeOK, Results
<1>2. events' = Append(events, e) /\ UNCHANGED <<ready, failed>>
  BY DEF Done
<1>3. /\ Len(events) \in Nat /\ DOMAIN events = 1 .. Len(events)
      /\ DOMAIN events' = 1 .. (Len(events) + 1)
      /\ events'[Len(events) + 1] = e
      /\ \A i \in DOMAIN events : events'[i] = events[i]
  BY <1>1, <1>2, QueueAppend
<1>4. \A i \in DOMAIN events' : i \in DOMAIN events \/ i = Len(events) + 1
  BY <1>3
<1> QED
  BY <1>1, <1>2, <1>3, <1>4 DEF Succeeded

\* The event thread invents no success.
LEMMA SucceededProcess ==
  ASSUME TypeOK, PreparationOwned, ProcessEvent, NEW q \in Parts, Succeeded(q)'
  PROVE  Succeeded(q)
<1>1. events \in Seq(Results) /\ events # <<>>
  BY DEF TypeOK, Results, ProcessEvent
<1>2. /\ Len(events) \in Nat /\ 1 \in DOMAIN events /\ Head(events) = events[1]
      /\ DOMAIN Tail(events) = 1 .. (Len(events) - 1)
      /\ \A i \in 1 .. (Len(events) - 1) : i + 1 \in DOMAIN events /\ Tail(events)[i] = events[i + 1]
  BY <1>1, QueueTail
<1>3. Queued(events[1].part) /\ events[1].part \in Parts
  BY <1>1, <1>2, QueueTail DEF Queued, Results
<1>4. events[1].part \notin ready
  BY <1>3 DEF PreparationOwned
<1>5. CASE \E i \in DOMAIN events' : events'[i].part = q /\ events'[i].ok
  BY <1>2, <1>5 DEF ProcessEvent, Succeeded
<1>6. CASE q \in ready' /\ q \notin failed'
  <2>1. CASE q = events[1].part
    BY <1>2, <1>4, <1>6, <2>1 DEF ProcessEvent, Succeeded
  <2>2. CASE q # events[1].part
    BY <1>2, <1>6, <2>2 DEF ProcessEvent, Succeeded
  <2> QED
    BY <2>1, <2>2
<1> QED
  BY <1>5, <1>6 DEF Succeeded

\* Every step keeps what has been prepared in place until the commit.
LEMMA WiredStep == TypeOK /\ PreparationOwned /\ WiredInv /\ [Next]_vars => WiredInv'
<1> SUFFICES ASSUME TypeOK, PreparationOwned, WiredInv, [Next]_vars PROVE WiredInv'
  OBVIOUS
<1>1. CASE StartCaptureInner
  <2>1. CASE captureState = "STARTING"
    BY <1>1, <2>1, WiredUntouched DEF StartCaptureInner, work
  <2>2. CASE captureState # "STARTING"
    <3>1. /\ captureState' = "STARTING" /\ ready' = {} /\ events' = events
          /\ infos' = request /\ request \in Requests /\ UNCHANGED parts
      BY <1>1, <2>2 DEF StartCaptureInner, TypeOK
    <3>2. \A p \in Parts : ~Queued(p)
      BY <2>2 DEF PreparationOwned
    <3>3. ~Succeeded("encoder")' /\ ~Succeeded("camera")'
      BY <3>1, <3>2 DEF Succeeded, Queued, Parts
    <3>4. infos'.streams \in StreamSets
      BY <3>1 DEF Requests
    <3> QED
      BY <3>1, <3>3, <3>4 DEF WiredInv, RunningIsWired, parts
  <2> QED
    BY <2>1, <2>2
<1>2. CASE EncoderTask
  <2>1. Done("encoder", pipeline' = "built") /\ UNCHANGED <<captureState, infos, camera>>
    BY <1>2 DEF EncoderTask, Done
  <2>2. captureState = "STARTING"
    BY <2>1 DEF Done, PreparationOwned, Parts, TypeOK
  <2>3. Succeeded("camera")' => Succeeded("camera")
    BY <2>1, SucceededDone DEF Parts
  <2>4. Succeeded("encoder")' => Succeeded("encoder") \/ pipeline' = "built"
    BY <2>1, SucceededDone DEF Parts
  <2>5. pipeline = "built" => pipeline' = "built"
    BY <1>2 DEF EncoderTask
  <2> QED
    BY <2>1, <2>2, <2>3, <2>4, <2>5 DEF WiredInv, RunningIsWired
<1>3. CASE CameraTask
  <2>1. PICK ok \in BOOLEAN : Done("camera", ok) /\ (ok => camera'.input = "open")
    <3>1. CASE camera.outputs # {} /\ UNCHANGED camera /\ Done("camera", TRUE)
      BY <3>1 DEF WiredInv
    <3>2. CASE camera' = Client("open", "created", {}) /\ Done("camera", TRUE)
      BY <3>2, ClientParts
    <3>3. CASE Done("camera", FALSE)
      BY <3>3
    <3> QED
      BY <1>3, <3>1, <3>2, <3>3 DEF CameraTask
  <2>2. UNCHANGED <<captureState, infos, pipeline>>
    BY <1>3, <2>1 DEF CameraTask, Done
  <2>3. captureState = "STARTING" /\ tasks["camera"] = 1
    BY <2>1 DEF Done, PreparationOwned, Parts, TypeOK
  <2>4. ~Succeeded("camera")
    BY <2>3 DEF PreparationOwned, Succeeded, Queued, Parts
  <2>5. Succeeded("camera")' => ok
    BY <2>1, <2>4, SucceededDone DEF Parts
  <2>6. Succeeded("encoder")' => Succeeded("encoder")
    BY <2>1, SucceededDone DEF Parts
  <2>7. camera'.outputs # {} => camera'.input = "open"
    BY <1>3, CameraTaskLeaves DEF WiredInv
  <2> QED
    BY <2>1, <2>2, <2>3, <2>5, <2>6, <2>7 DEF WiredInv, RunningIsWired
<1>4. CASE ProcessEvent
  <2>1. /\ Succeeded("encoder")' => Succeeded("encoder")
        /\ Succeeded("camera")' => Succeeded("camera")
    BY <1>4, SucceededProcess DEF Parts
  <2>2. UNCHANGED <<captureState, infos, parts>>
    BY <1>4 DEF ProcessEvent
  <2> QED
    BY <2>1, <2>2 DEF WiredInv, RunningIsWired, parts
<1>5. CASE Verdict
  <2>1. captureState = "STARTING" /\ ready = Parts
    BY <1>5 DEF Verdict, AuthorizationRefused, PreparationFailed, CommitOK, ConfigurationFails,
       PhotoFails, Decide, PreparationOwned
  <2>2. failed = {} => pipeline = "built" /\ camera.input = "open"
    BY <2>1 DEF WiredInv, Succeeded, Parts
  <2>3. infos.streams \in StreamSets /\ infos.streams # {}
        /\ infos.streams \in SUBSET {"preview", "photo"}
    BY <2>1, CaptureAssumption DEF WiredInv
  <2>4. /\ camera.input \in {"none", "closed", "open"}
        /\ camera.session \in {"none", "created", "running"}
    BY DEF TypeOK, Clients
  <2>5. CASE CommitOK
    <3>1. captureState' = "RUNNING" /\ UNCHANGED pipeline
      BY <2>5 DEF CommitOK, Decide
    <3>2. CASE camera.outputs = {}
      <4>1. camera' = Client(camera.input, "running", infos.streams)
        BY <2>5, <3>2 DEF CommitOK
      <4>2. camera'.input = "open" /\ camera'.outputs # {}
        BY <2>2, <2>3, <2>4, <2>5, <4>1, ClientParts DEF CommitOK
      <4> QED
        BY <2>2, <2>5, <3>1, <4>2 DEF WiredInv, RunningIsWired, CommitOK
    <3>3. CASE camera.outputs # {}
      BY <2>2, <2>5, <3>1, <3>3 DEF WiredInv, RunningIsWired, CommitOK
    <3> QED
      BY <3>2, <3>3
  <2>6. CASE AuthorizationRefused \/ PreparationFailed
    BY <2>6 DEF AuthorizationRefused, PreparationFailed, Decide, WiredInv, RunningIsWired
  <2>7. CASE ConfigurationFails \/ PhotoFails
    <3>1. captureState' = "IDLE" /\ failed = {}
      BY <2>7 DEF ConfigurationFails, PhotoFails, Decide
    <3>2. \/ camera' = camera
          \/ camera' = Client(camera.input, "running", infos.streams)
          \/ \E made \in SUBSET infos.streams : camera' = Client(camera.input, camera.session, made)
      BY <2>7 DEF ConfigurationFails, PhotoFails
    <3>3. camera'.input = "open"
      BY <2>2, <2>3, <2>4, <3>1, <3>2, ClientParts
    <3> QED
      BY <3>1, <3>3 DEF WiredInv, RunningIsWired
  <2> QED
    BY <1>5, <2>5, <2>6, <2>7 DEF Verdict
<1>6. ASSUME NEW t \in Stoppers, StopCapture(t) PROVE WiredInv'
  <2>1. CASE captureState = "IDLE"
    BY <1>6, <2>1, WiredUntouched DEF StopCapture, work
  <2>2. CASE captureState # "IDLE"
    <3>1. captureState' = "IDLE" /\ camera'.outputs = {}
      BY <1>6, <2>2, ClientParts DEF StopCapture, Released
    <3> QED
      BY <3>1 DEF WiredInv, RunningIsWired
  <2> QED
    BY <2>1, <2>2
<1>7. CASE UNCHANGED <<work, parts>>
  BY <1>7, WiredUntouched DEF work
<1>8. \/ StartCaptureInner \/ EncoderTask \/ CameraTask \/ ProcessEvent \/ Verdict
      \/ \E t \in Stoppers : StopCapture(t)
      \/ UNCHANGED <<work, parts>>
  BY DEF Next, Connected, Disconnected, ReceiveCapture, ReceiveStop, IpcStop, Cleanup,
     StopTimesOut, vars
<1> QED
  BY <1>1, <1>2, <1>3, <1>4, <1>5, <1>6, <1>7, <1>8

\* A capture the sink reports as running has its encoder and an open camera
\* with an output, for any streams and whatever failed before.
THEOREM RunningCapturesAreWired == Spec => []RunningIsWired
<1>1. Init => TypeOK /\ PreparationOwned /\ WiredInv
  BY TypeInit, OwnedInit, WiredInit
<1>2. TypeOK /\ PreparationOwned /\ WiredInv /\ [Next]_vars
        => TypeOK' /\ PreparationOwned' /\ WiredInv'
  BY TypeStep, OwnedStep, WiredStep
<1>3. WiredInv => RunningIsWired
  BY DEF WiredInv
<1> QED
  BY <1>1, <1>2, <1>3, PTL DEF Spec

----------------------------------------------------------------------------
(* SinkEncoder.                                                            *)
\* A set of numbers has a least one: the intervals below its members are
\* well-founded under inclusion.
LEMMA LeastNumber ==
  ASSUME NEW T \in SUBSET Nat, T # {}
  PROVE  \E x \in T : \A y \in T : x <= y
<1> DEFINE U == {0..n : n \in T}
<1>1. U \subseteq FiniteSubsetsOf(Nat)
  <2>1. \A n \in Nat : 0..n \in SUBSET Nat /\ IsFiniteSet(0..n)
    BY FS_Interval
  <2> QED
    BY <2>1 DEF FiniteSubsetsOf
<1>2. U # {}
  OBVIOUS
<1>3. PICK x \in U : \A y \in U : ~(<<y, x>> \in StrictSubsetOrdering(Nat))
  <2> HIDE DEF U
  <2> QED
    BY <1>1, <1>2, FS_StrictSubsetOrderingWellFounded, WFMin
<1>4. PICK n \in T : x = 0..n
  BY <1>3
<1>5. ASSUME NEW m \in T, m < n PROVE FALSE
  <2>1. 0..m \in U /\ 0..m \subseteq 0..n /\ n \in 0..n /\ n \notin 0..m
    BY <1>5
  <2>2. <<0..m, 0..n>> \in StrictSubsetOrdering(Nat)
    BY <2>1 DEF StrictSubsetOrdering
  <2> QED
    BY <1>3, <1>4, <2>1, <2>2
<1> QED
  BY <1>5

\* Induction on a set of numbers, which needs no operator as a parameter.
LEMMA NumberInduction ==
  ASSUME NEW S \in SUBSET Nat, 0 \in S, \A n \in S : n + 1 \in S
  PROVE  S = Nat
<1> SUFFICES ASSUME Nat \ S # {} PROVE FALSE
  OBVIOUS
<1>1. PICK x \in Nat \ S : \A y \in Nat \ S : x <= y
  BY LeastNumber
<1>2. x - 1 \in Nat \ S
  BY <1>1
<1> QED
  BY <1>1, <1>2

\* g goes through the first n frames of q as KeyFrames does.
IsScan(q, n, g) ==
  g = [i \in 0..n |-> IF i = 0 THEN <<>> ELSE IF q[i].key THEN Append(g[i - 1], q[i]) ELSE g[i - 1]]

\* The recursive definition of KeyFrames defines a function.
LEMMA ScanExists ==
  ASSUME NEW q, NEW n \in Nat PROVE \E g : IsScan(q, n, g)
<1> DEFINE S == {m \in Nat : \E g : IsScan(q, m, g)}
<1>1. 0 \in S
  <2> DEFINE g == [i \in 0..0 |-> <<>>]
  <2>1. IsScan(q, 0, g)
    BY DEF IsScan
  <2> QED
    BY <2>1
<1>2. ASSUME NEW m \in S PROVE m + 1 \in S
  <2>1. PICK g : IsScan(q, m, g)
    OBVIOUS
  <2> DEFINE More(r, i) == IF q[i].key THEN Append(r, q[i]) ELSE r
             h == [i \in 0..(m + 1) |-> IF i <= m THEN g[i] ELSE More(g[m], m + 1)]
  <2>2. m \in Nat /\ m + 1 \in Nat
    OBVIOUS
  <2>3. \A i \in 0..m : g[i] = IF i = 0 THEN <<>> ELSE More(g[i - 1], i)
    BY <2>1, <2>2 DEF IsScan
  <2>4. \A i \in 0..m : h[i] = g[i]
    BY <2>2
  <2>5. h[m + 1] = More(g[m], m + 1)
    BY <2>2
  <2> HIDE DEF More
  <2>6. ASSUME NEW i \in 0..(m + 1) PROVE h[i] = IF i = 0 THEN <<>> ELSE More(h[i - 1], i)
    <3>1. CASE i = m + 1
      <4>1. h[i - 1] = g[m] /\ i # 0
        BY <3>1, <2>2, <2>4
      <4> QED
        BY <3>1, <4>1, <2>5
    <3>2. CASE i \in 0..m
      <4>1. i # 0 => i - 1 \in 0..m
        BY <3>2, <2>2
      <4>2. h[i] = g[i] /\ (i # 0 => h[i - 1] = g[i - 1])
        BY <3>2, <4>1, <2>4
      <4> HIDE DEF h
      <4> QED
        BY <3>2, <4>2, <2>3
    <3> QED
      BY <3>1, <3>2, <2>2
  <2>7. h = [i \in 0..(m + 1) |-> IF i = 0 THEN <<>> ELSE More(h[i - 1], i)]
    <3>1. h = [i \in 0..(m + 1) |-> h[i]]
      OBVIOUS
    <3> HIDE DEF h
    <3> QED
      BY <3>1, <2>6
  <2>8. IsScan(q, m + 1, h)
    <3> HIDE DEF h
    <3> QED
      BY <2>7 DEF IsScan, More
  <2> QED
    BY <2>8
<1>3. S = Nat
  <2> HIDE DEF S
  <2>1. S \in SUBSET Nat
    BY DEF S
  <2> QED
    BY <1>1, <1>2, <2>1, NumberInduction
<1> QED
  BY <1>3

\* KeyFrames returns where that function ends.
LEMMA KeyFramesScanned ==
  ASSUME NEW q, Len(q) \in Nat
  PROVE  \E g : IsScan(q, Len(q), g) /\ KeyFrames(q) = g[Len(q)]
<1> DEFINE kept == CHOOSE g : g = [i \in 0..Len(q) |->
                      IF i = 0 THEN <<>> ELSE IF q[i].key THEN Append(g[i - 1], q[i]) ELSE g[i - 1]]
<1>1. \E g : g = [i \in 0..Len(q) |->
                      IF i = 0 THEN <<>> ELSE IF q[i].key THEN Append(g[i - 1], q[i]) ELSE g[i - 1]]
  <2>1. \E g : IsScan(q, Len(q), g)
    BY ScanExists
  <2> QED
    BY <2>1, Zenon DEF IsScan
<1>2. IsScan(q, Len(q), kept)
  BY <1>1, Zenon DEF IsScan
<1>3. KeyFrames(q) = kept[Len(q)]
  BY DEF KeyFrames
<1> QED
  BY <1>2, <1>3

\* r holds the key frames among the first n of a queue, in their order.
KeysAmong(T, q, n, r) ==
  /\ r \in Seq(T) /\ Len(r) <= n
  /\ \A j \in DOMAIN r : r[j].key /\ \E i \in 1..n : r[j] = q[i]
  /\ \A i \in 1..n : q[i].key => \E j \in DOMAIN r : r[j] = q[i]
  /\ \A a, b \in DOMAIN r : a < b => \E i, j \in 1..n : i < j /\ r[a] = q[i] /\ r[b] = q[j]

LEMMA KeyFramesAre ==
  ASSUME NEW T, NEW q \in Seq(T) PROVE KeysAmong(T, q, Len(q), KeyFrames(q))
<1> DEFINE Sound(r, n) == KeysAmong(T, q, n, r)
<1> USE DEF KeysAmong
<1>1. PICK g : IsScan(q, Len(q), g) /\ KeyFrames(q) = g[Len(q)]
  BY KeyFramesScanned
<1> DEFINE S == {n \in Nat : n <= Len(q) => Sound(g[n], n)}
<1>2. 0 \in S
  BY <1>1 DEF IsScan
<1>3. ASSUME NEW n \in S PROVE n + 1 \in S
  <2> SUFFICES ASSUME n + 1 <= Len(q) PROVE Sound(g[n + 1], n + 1)
    OBVIOUS
  <2>1. Sound(g[n], n) /\ n + 1 \in 1..Len(q) /\ q[n + 1] \in T
    OBVIOUS
  <2>2. g[n + 1] = IF q[n + 1].key THEN Append(g[n], q[n + 1]) ELSE g[n]
    <3>1. n + 1 \in 0..Len(q) /\ n + 1 # 0 /\ (n + 1) - 1 = n
      BY <2>1
    <3> HIDE DEF S
    <3> QED
      BY <1>1, <3>1 DEF IsScan
  <2>3. CASE ~q[n + 1].key
    <3>1. g[n + 1] = g[n]
      BY <2>2, <2>3
    <3> QED
      BY <2>1, <2>3, <3>1
  <2>4. CASE q[n + 1].key
    <3> DEFINE r == g[n]
               s == Append(r, q[n + 1])
    <3>1. g[n + 1] = s
      BY <2>2, <2>4
    <3>2. /\ s \in Seq(T) /\ Len(s) = Len(r) + 1 /\ s[Len(r) + 1] = q[n + 1] /\ DOMAIN s = 1..(Len(r) + 1)
          /\ \A j \in DOMAIN r : j \in DOMAIN s /\ s[j] = r[j] /\ DOMAIN r = 1..Len(r)
      BY <2>1
    <3> HIDE DEF r, s
    <3>3. Sound(r, n)
      BY <2>1 DEF r
    <3>4. \A j \in DOMAIN s : j \in DOMAIN r \/ j = Len(r) + 1
      BY <3>2, <3>3
    <3>5. ASSUME NEW j \in DOMAIN s PROVE s[j].key /\ \E i \in 1..(n + 1) : s[j] = q[i]
      <4>1. CASE j = Len(r) + 1
        BY <4>1, <3>2, <2>1, <2>4
      <4>2. CASE j \in DOMAIN r
        <5>1. s[j] = r[j] /\ r[j].key /\ \E i \in 1..n : r[j] = q[i]
          BY <4>2, <3>2, <3>3
        <5> QED
          BY <5>1
      <4> QED
        BY <4>1, <4>2, <3>4
    <3>6. \A i \in 1..(n + 1) : q[i].key => \E j \in DOMAIN s : s[j] = q[i]
      <4> TAKE i \in 1..(n + 1)
      <4>1. CASE i = n + 1
        BY <4>1, <3>2, <3>3
      <4>2. CASE i \in 1..n
        BY <4>2, <3>2, <3>3
      <4> QED
        BY <4>1, <4>2
    <3>7. ASSUME NEW a \in DOMAIN s, NEW b \in DOMAIN s, a < b
          PROVE  \E i, j \in 1..(n + 1) : i < j /\ s[a] = q[i] /\ s[b] = q[j]
      <4>1. a \in DOMAIN r /\ s[a] = r[a]
        BY <3>2, <3>3, <3>4, <3>7
      <4>2. CASE b = Len(r) + 1
        <5>1. PICK i \in 1..n : r[a] = q[i]
          BY <4>1, <3>3
        <5> QED
          BY <4>1, <4>2, <5>1, <3>2, <2>1
      <4>3. CASE b \in DOMAIN r
        <5>1. PICK i \in 1..n, j \in 1..n : i < j /\ r[a] = q[i] /\ r[b] = q[j]
          BY <4>1, <4>3, <3>3, <3>7
        <5> QED
          BY <4>1, <4>3, <5>1, <3>2, <2>1
      <4> QED
        BY <4>2, <4>3, <3>4
    <3>8. s \in Seq(T) /\ Len(s) <= n + 1
      BY <3>2, <3>3
    <3> QED
      BY <3>1, <3>5, <3>6, <3>7, <3>8
  <2> QED
    BY <2>3, <2>4
<1>4. S = Nat
  <2>1. S \in SUBSET Nat
    OBVIOUS
  <2> HIDE DEF S
  <2> QED
    BY <1>2, <1>3, <2>1, NumberInduction
<1>5. Len(q) \in S /\ Len(q) <= Len(q)
  <2> HIDE DEF S
  <2> QED
    BY <1>4
<1>6. Sound(g[Len(q)], Len(q))
  <2> HIDE DEF Sound, KeysAmong
  <2> QED
    BY <1>5
<1> HIDE DEF S, KeysAmong
<1> QED
  BY <1>1, <1>6

Past == {"released", "joining", "joined", "stopped"}
Holds == sync \in {"offer", "busy"}
Brings == callback \in {"waiting", "copied"}

ControlTyped ==
  /\ equal \in BOOLEAN
  /\ control \in {"idle", "encoder", "flagged", "threaded", "running", "stopping", "released", "joining", "joined",
                  "stopped"}
  /\ encoding \in BOOLEAN /\ encoder \in {"null", "started", "stopped"}
  /\ listener \in BOOLEAN /\ joinable \in BOOLEAN
  /\ callback \in {"none", "waiting", "copied", "returning"}
  /\ sync \in {"off", "top", "asleep", "offer", "busy", "raise", "raising", "lower", "lowering", "drop",
               "exited"}
  /\ sending \in BOOLEAN /\ crashed \in BOOLEAN
  /\ error \in {"none", "begun", "tested", "halted", "joining", "joined"}
QueueTyped ==
  /\ coming \in Frames /\ held \in Frames /\ frames \in 0..MaxFrames /\ index_ \in 0..MaxFrames
  /\ buffers \in Seq(Frames) /\ sent \in Seq(Frames) /\ Len(sent) <= 2
  /\ index_ <= frames /\ (callback = "waiting" => index_ < frames)
SyncTyped ==
  /\ isSkipState_ \in BOOLEAN /\ lastKeyFrameIndex_ \in 0..MaxFrames /\ curKeyFrameIndex_ \in 0..MaxFrames
  /\ keysSent \in 0..KeysToRaise
  /\ rate \in [current : MinBitrate..MaxBitrate, step : 1..MaxBitrate, max : BOOLEAN, min : BOOLEAN]
  /\ causes \subseteq {"lost", "unheard", "keysKept", "revived"}
NodeTyped == ControlTyped /\ QueueTyped /\ SyncTyped

ControlInv ==
  /\ control \in {"idle", "encoder", "flagged"} => sync = "off"
  /\ control \in {"flagged", "threaded", "running"} /\ error = "none" => encoding
  /\ control \in Past \union {"stopping", "idle", "encoder"} => ~encoding
  /\ control = "idle" \/ equal => encoder = "null"
  /\ encoder = "null" /\ control \notin Past =>
       callback = "none" /\ error = "none" /\ sync \notin {"raising", "lowering"}
  /\ error # "none" => ~encoding \/ "revived" \in causes
  /\ error = "joining" => joinable \/ control \in Past

\* The configuration of the pipeline stays as it is.
LEMMA EqualStays == [EncoderNext]_encoderVars => equal' = equal
BY DEF EncoderNext, encoderVars

\* What the operations on queues of frames give.
LEMMA FrameQueues ==
  ASSUME NEW q \in Seq(Frames)
  PROVE  /\ Len(q) \in Nat /\ DOMAIN q = 1..Len(q) /\ \A i \in DOMAIN q : q[i] \in Frames
         /\ \A f \in Frames :
              /\ Append(q, f) \in Seq(Frames) /\ DOMAIN Append(q, f) = 1..(Len(q) + 1) /\ Len(Append(q, f)) = Len(q) + 1
              /\ Append(q, f)[Len(q) + 1] = f /\ \A i \in DOMAIN q : Append(q, f)[i] = q[i]
         /\ \A f \in Frames :
              /\ <<f>> \o q \in Seq(Frames) /\ DOMAIN (<<f>> \o q) = 1..(Len(q) + 1) /\ Len(<<f>> \o q) = Len(q) + 1
              /\ (<<f>> \o q)[1] = f /\ \A i \in DOMAIN q : (<<f>> \o q)[i + 1] = q[i]
         /\ q # <<>> =>
              /\ Len(q) >= 1 /\ Head(q) = q[1] /\ Tail(q) \in Seq(Frames) /\ DOMAIN Tail(q) = 1..(Len(q) - 1)
              /\ Len(Tail(q)) = Len(q) - 1
              /\ \A i \in 1..(Len(q) - 1) : Tail(q)[i] = q[i + 1]
<1>1. Len(q) \in Nat /\ DOMAIN q = 1..Len(q) /\ \A i \in DOMAIN q : q[i] \in Frames
  OBVIOUS
<1>2. ASSUME NEW f \in Frames
      PROVE  /\ Append(q, f) \in Seq(Frames) /\ DOMAIN Append(q, f) = 1..(Len(q) + 1) /\ Len(Append(q, f)) = Len(q) + 1
             /\ Append(q, f)[Len(q) + 1] = f /\ \A i \in DOMAIN q : Append(q, f)[i] = q[i]
  OBVIOUS
<1>3. ASSUME NEW f \in Frames
      PROVE  /\ <<f>> \o q \in Seq(Frames) /\ DOMAIN (<<f>> \o q) = 1..(Len(q) + 1) /\ Len(<<f>> \o q) = Len(q) + 1
             /\ (<<f>> \o q)[1] = f /\ \A i \in DOMAIN q : (<<f>> \o q)[i + 1] = q[i]
  OBVIOUS
<1>4. ASSUME q # <<>>
      PROVE  /\ Len(q) >= 1 /\ Head(q) = q[1] /\ Tail(q) \in Seq(Frames) /\ DOMAIN Tail(q) = 1..(Len(q) - 1)
             /\ Len(Tail(q)) = Len(q) - 1
             /\ \A i \in 1..(Len(q) - 1) : Tail(q)[i] = q[i + 1]
  BY <1>4
<1> QED
  BY <1>1, <1>2, <1>3, <1>4

\* Of the frames posted the last two are remembered.
LEMMA PostingFits ==
  ASSUME sent \in Seq(Frames), Len(sent) <= 2, held \in Frames
  PROVE  /\ Posting \in Seq(Frames) /\ Len(Posting) \in {1, 2} /\ Posting[Len(Posting)] = held
         /\ sent = <<>> => Len(Posting) = 1
         /\ sent # <<>> => Len(Posting) = 2 /\ Posting[1] = sent[Len(sent)]
<1>1. Len(sent) \in {0, 1, 2}
  <2>1. Len(sent) \in Nat
    OBVIOUS
  <2>2. \A n \in Nat : n <= 2 => n \in {0, 1, 2}
    OBVIOUS
  <2> QED
    BY <2>1, <2>2
<1>2. CASE Len(sent) = 2
  <2>1. Posting = Append(Tail(sent), held)
    BY <1>2 DEF Posting
  <2>2. Tail(sent) \in Seq(Frames) /\ Len(Tail(sent)) = 1 /\ Tail(sent)[1] = sent[2]
    BY <1>2
  <2>3. PICK tail : tail = Tail(sent)
    OBVIOUS
  <2>4. Posting = Append(tail, held) /\ tail \in Seq(Frames) /\ Len(tail) = 1 /\ tail[1] = sent[2]
    BY <2>1, <2>2, <2>3
  <2>5. Posting \in Seq(Frames) /\ Len(Posting) = 2 /\ Posting[2] = held /\ Posting[1] = sent[2]
    <3>1. tail \in Seq(Frames) /\ held \in Frames /\ 1 \in DOMAIN tail /\ Len(tail) = 1
      BY <2>4
    <3>2. Append(tail, held) \in Seq(Frames)
      BY <3>1, FrameQueues
    <3>3. Len(Append(tail, held)) = Len(tail) + 1
      BY <3>1, FrameQueues
    <3>4. Append(tail, held)[Len(tail) + 1] = held
      BY <3>1, FrameQueues
    <3>5. Append(tail, held)[1] = tail[1]
      BY <3>1, FrameQueues
    <3>6. Append(tail, held)[2] = held
      <4>1. Len(tail) + 1 = 2
        BY <3>1
      <4> QED
        BY <3>4, <4>1, Zenon
    <3> QED
      BY <2>4, <3>1, <3>2, <3>3, <3>5, <3>6
  <2>6. sent # <<>> /\ sent[Len(sent)] = sent[2]
    BY <1>2
  <2> QED
    BY <2>5, <2>6
<1>3. CASE Len(sent) # 2
  <2>1. Posting = Append(sent, held)
    BY <1>3 DEF Posting
  <2> QED
    BY <1>1, <1>3, <2>1
<1> QED
  BY <1>2, <1>3

\* The lower limit of the bit rate, and the rate to begin with.
LEMMA RatesAre ==
  /\ MinBitrate \in 1..MaxBitrate /\ MaxBitrate - MinBitrate \in MinBitrate..MaxBitrate
  /\ MaxBitrate - MinBitrate \in 1..MaxBitrate
BY BitrateAssumption DEF MinBitrate

\* A rounded bit rate lies between the limits.
LEMMA Rounded ==
  ASSUME NEW b \in Int
  PROVE  RoundBitrates(b) \in MinBitrate..MaxBitrate
BY RatesAre, BitrateAssumption DEF RoundBitrates, Least

\* The types at the start, and what a step does to them.
LEMMA NodeTypedInit == EncoderInit => NodeTyped
<1> SUFFICES ASSUME EncoderInit PROVE NodeTyped
  OBVIOUS
<1>1. coming \in Frames /\ held \in Frames /\ frames \in 0..MaxFrames /\ index_ \in 0..MaxFrames
  BY BoundsAssumption DEF EncoderInit, Frames, NoFrame
<1>2. QueueTyped
  BY <1>1 DEF EncoderInit, QueueTyped
<1>3. rate \in [current : MinBitrate..MaxBitrate, step : 1..MaxBitrate, max : BOOLEAN, min : BOOLEAN]
  BY RatesAre DEF EncoderInit
<1>4. SyncTyped
  <2>1. isSkipState_ \in BOOLEAN
    BY Zenon DEF EncoderInit
  <2> QED
  BY <2>1, <1>3, BoundsAssumption, SizesAssumption DEF EncoderInit, SyncTyped
<1>5. ControlTyped
  BY DEF EncoderInit, ControlTyped
<1> QED
  BY <1>2, <1>4, <1>5 DEF NodeTyped

\* The threads stay in their places.
LEMMA ControlTypedStep == ControlTyped /\ [EncoderNext]_encoderVars => ControlTyped'
<1> SUFFICES ASSUME ControlTyped, [EncoderNext]_encoderVars PROVE ControlTyped'
  OBVIOUS
<1>e. equal' = equal
  BY EqualStays
<1> USE <1>e DEF ControlTyped
<1>1. CASE Creating
  <2>1. CASE StartCapture
    BY <1>1, <2>1 DEF Creating, StartCapture, InitEncoder, CodecsEqual, NotConvertible, codecVars
  <2>2. CASE SetsFlag
    BY <1>1, <2>2 DEF Creating, SetsFlag, codecVars
  <2>3. CASE CreatePipeline
    BY <1>1, <2>3 DEF Creating, CreatePipeline, codecVars
  <2> QED
    BY <1>1, <2>1, <2>2, <2>3 DEF Creating
<1>2. CASE CreateSyncEncodeBufferThread
  BY <1>2 DEF CreateSyncEncodeBufferThread, codecVars
<1>3. CASE StopEncoding
  <2>1. encoding' \in BOOLEAN
    BY <1>3, Zenon DEF StopEncoding
  <2> QED
    BY <1>3, <2>1 DEF StopEncoding, codecVars
<1>4. CASE ReleaseVideoEncoder
  BY <1>4 DEF ReleaseVideoEncoder, codecVars
<1>5. CASE Empties
  BY <1>5 DEF Empties, EmptiesBuffers, Woken, codecVars, nodeVars
<1>6. CASE Joins
  BY <1>6 DEF Joins, codecVars
<1>7. CASE StopReturns
  <2>1. listener' \in BOOLEAN
    BY <1>7, Zenon DEF StopReturns
  <2> QED
    <3>1. sending' \in BOOLEAN /\ control' = "stopped"
      BY <1>7 DEF StopReturns
    <3> QED
      BY <1>7, <2>1, <3>1 DEF StopReturns, codecVars
<1>8. CASE OnError
  <2>1. encoding' \in BOOLEAN
    BY <1>8, Zenon DEF OnError
  <2> QED
    BY <1>8, <2>1 DEF OnError, codecVars
<1>9. CASE ErrorTests
  BY <1>9 DEF ErrorTests, codecVars, nodeVars
<1>10. CASE ErrorHalts
  BY <1>10 DEF ErrorHalts, codecVars
<1>11. CASE Callback
  BY <1>11 DEF Callback, EncoderOutputs, OnOutputBufferAvailable, GivesUp, GetEncoderOutputBuffer, EncodeDone, Woken,
    nodeVars
<1>12. CASE ReleasesOutput
  BY <1>12 DEF ReleasesOutput, nodeVars
<1>13. CASE FeedStream
  BY <1>13 DEF FeedStream, ProcessData, Woken, nodeVars
<1>14. CASE SyncEncodeBufferThread
  <2>1. callback' = callback /\ control' = control /\ error' = error /\ crashed' = crashed /\ encoding' = encoding
        /\ encoder' = encoder /\ listener' = listener /\ joinable' = joinable
    BY <1>14 DEF SyncEncodeBufferThread, codecVars, nodeVars
  <2>2. sending' \in BOOLEAN
    BY <1>14 DEF SyncEncodeBufferThread, SyncTakes, SyncSkips, SyncOffers, SyncVideoFrameSuccess, Unheard, Refused,
      SyncVideoFrameFailure, KeepsKeyFrames, Adjusting
  <2>3. sync' \in {"off", "top", "asleep", "offer", "busy", "raise", "raising", "lower", "lowering", "drop", "exited"}
    BY <1>14 DEF SyncEncodeBufferThread, SyncTakes, SyncSkips, SyncOffers, SyncVideoFrameSuccess, Unheard, Refused,
      SyncVideoFrameFailure, KeepsKeyFrames, Adjusting, AdjustBitrate, Onward
  <2> QED
    BY <2>1, <2>2, <2>3
<1>15. ASSUME NEW up \in BOOLEAN, SetParameter(up) PROVE ControlTyped'
  BY <1>15 DEF SetParameter, Onward, codecVars, nodeVars
<1>16. CASE SendDataAsync
  <2>1. sending' \in BOOLEAN
    BY <1>16, Zenon DEF SendDataAsync
  <2> QED
  BY <1>16, <2>1 DEF SendDataAsync, codecVars, nodeVars
<1>17. CASE UNCHANGED encoderVars
  BY <1>17 DEF encoderVars, codecVars, nodeVars
<1> QED
  BY <1>1, <1>2, <1>3, <1>4, <1>5, <1>6, <1>7, <1>8, <1>9, <1>10, <1>11, <1>12, <1>13, <1>14, <1>15, <1>16, <1>17
  DEF EncoderNext, Controls, Stops, ErrorHandling, SyncSteps

\* Frames stay frames, and only those given by the codec have an index.
LEMMA QueueTypedStep == NodeTyped /\ [EncoderNext]_encoderVars => QueueTyped'
<1> SUFFICES ASSUME NodeTyped, [EncoderNext]_encoderVars PROVE QueueTyped'
  OBVIOUS
<1>n. NoFrame \in Frames
  BY BoundsAssumption DEF NoFrame, Frames
<1> USE DEF NodeTyped, QueueTyped
<1>1. CASE UNCHANGED <<codecVars, buffers, held, sent>>
  BY <1>1 DEF codecVars
<1>2. CASE Creating \/ CreateSyncEncodeBufferThread \/ StopEncoding \/ ReleaseVideoEncoder \/ Joins \/ StopReturns
  BY <1>1, <1>2 DEF Creating, CreateSyncEncodeBufferThread, StopEncoding, ReleaseVideoEncoder, Joins, StopReturns
<1>3. CASE ErrorHandling \/ SetParameter(TRUE) \/ SetParameter(FALSE) \/ SendDataAsync \/ UNCHANGED encoderVars
  BY <1>1, <1>3 DEF ErrorHandling, OnError, ErrorTests, ErrorHalts, SetParameter, SendDataAsync, encoderVars
<1>4. CASE Empties
  <2>1. buffers' = <<>> /\ UNCHANGED <<coming, held, frames, index_, sent, callback>>
    BY <1>4 DEF Empties, EmptiesBuffers, codecVars
  <2>2. buffers' \in Seq(Frames)
    BY <2>1
  <2> QED
    BY <2>1, <2>2
<1>5. CASE Callback
  <2>0. UNCHANGED <<held, sent>>
    BY <1>5 DEF Callback
  <2>1. CASE EncoderOutputs
    <3>1. coming' \in Frames /\ frames' = frames + 1 /\ frames' \in 0..MaxFrames
      BY <2>1, BoundsAssumption DEF EncoderOutputs, Frames
    <3> QED
      BY <2>0, <2>1, <3>1 DEF EncoderOutputs
  <2>2. CASE OnOutputBufferAvailable
    <3>1. callback' # "waiting" /\ index_' \in {index_, index_ + 1} /\ index_' <= frames /\ UNCHANGED <<frames, buffers>>
      BY <2>2 DEF OnOutputBufferAvailable, GivesUp, GetEncoderOutputBuffer
    <3>2. coming' \in Frames
      BY <2>2, <1>n DEF OnOutputBufferAvailable, GivesUp, GetEncoderOutputBuffer, Frames
    <3>3. index_' \in 0..MaxFrames /\ index_' <= frames'
      <4>1. index_ \in 0..MaxFrames /\ frames \in 0..MaxFrames /\ MaxFrames \in Nat
        BY BoundsAssumption
      <4> HIDE DEF NodeTyped, QueueTyped
      <4> QED
        BY <3>1, <4>1
    <3> QED
      BY <2>0, <3>1, <3>2, <3>3
  <2>3. CASE EncodeDone
    <3>1. buffers' \in Seq(Frames) /\ coming' \in Frames
      BY <2>3, <1>n DEF EncodeDone
    <3> QED
      BY <2>0, <2>3, <3>1 DEF EncodeDone
  <2> QED
    BY <1>5, <2>1, <2>2, <2>3 DEF Callback
<1>6. CASE ReleasesOutput
  BY <1>6 DEF ReleasesOutput
<1>7. CASE FeedStream
  <2>1. [n |-> frames + 1, index |-> 0, key |-> FALSE] \in Frames
    BY <1>7, BoundsAssumption DEF FeedStream, Frames
  <2>2. buffers' \in Seq(Frames)
    BY <1>7, <2>1 DEF FeedStream, ProcessData
  <2>3. frames' \in 0..MaxFrames /\ index_' = index_ /\ index_' <= frames' /\ UNCHANGED <<coming, held, sent, callback>>
    BY <1>7, BoundsAssumption DEF FeedStream
  <2>4. callback' = "waiting" => index_' < frames'
    BY <1>7, <2>3 DEF FeedStream
  <2> QED
    BY <2>2, <2>3, <2>4
<1>8. CASE SyncEncodeBufferThread
  <2>0. UNCHANGED <<codecVars>>
    BY <1>8 DEF SyncEncodeBufferThread
  <2>1. CASE SyncTakes
    <3>1. buffers # <<>> => Head(buffers) \in Frames /\ Tail(buffers) \in Seq(Frames)
      OBVIOUS
    <3>2. held' \in Frames /\ buffers' \in Seq(Frames)
      BY <2>1, <3>1 DEF SyncTakes
    <3> QED
      BY <2>0, <2>1, <3>2 DEF SyncTakes, codecVars
  <2>2. CASE SyncSkips
    BY <2>0, <2>2, <1>n DEF SyncSkips, codecVars
  <2>3. CASE SyncOffers
    <3>1. held' \in Frames /\ UNCHANGED buffers
      BY <2>3, <1>n DEF SyncOffers, SyncVideoFrameSuccess, Unheard, Refused
    <3>2. CASE sent' = Posting
      <4>1. sent' \in Seq(Frames) /\ Len(sent') <= 2
        BY <3>2, PostingFits
      <4> QED
        BY <2>0, <3>1, <4>1 DEF codecVars
    <3>3. CASE UNCHANGED sent
      BY <2>0, <3>1, <3>3 DEF codecVars
    <3> QED
      BY <2>3, <3>2, <3>3 DEF SyncOffers, SyncVideoFrameSuccess, Unheard, Refused
  <2>4. CASE SyncVideoFrameFailure
    <3>1. buffers' \in Seq(Frames)
      BY <2>4 DEF SyncVideoFrameFailure
    <3> QED
      BY <2>0, <2>4, <3>1, <1>n DEF SyncVideoFrameFailure, codecVars
  <2>5. CASE KeepsKeyFrames
    <3>1. KeyFrames(buffers) \in Seq(Frames)
      <4>1. buffers \in Seq(Frames)
        OBVIOUS
      <4> QED
        BY <4>1, KeyFramesAre DEF KeysAmong
    <3>2. buffers' \in Seq(Frames)
      BY <2>5, <3>1 DEF KeepsKeyFrames
    <3> QED
      BY <2>0, <2>5, <3>2 DEF KeepsKeyFrames, codecVars
  <2>6. CASE Adjusting
    BY <1>1, <2>0, <2>6 DEF Adjusting
  <2> QED
    BY <1>8, <2>1, <2>2, <2>3, <2>4, <2>5, <2>6 DEF SyncEncodeBufferThread
<1> QED
  BY <1>2, <1>3, <1>4, <1>5, <1>6, <1>7, <1>8 DEF EncoderNext, Controls, Stops, SyncSteps

\* The state of skipping and of the bit rate keeps its type.
LEMMA SyncTypedStep == NodeTyped /\ [EncoderNext]_encoderVars => SyncTyped'
<1> SUFFICES ASSUME NodeTyped, [EncoderNext]_encoderVars PROVE SyncTyped'
  OBVIOUS
<1> USE DEF NodeTyped, SyncTyped
<1>1. CASE UNCHANGED <<syncVars, causes>>
  BY <1>1 DEF syncVars
<1>2. CASE Creating
  BY <1>2 DEF Creating, StartCapture, SetsFlag, CreatePipeline, syncVars
<1>3. CASE CreateSyncEncodeBufferThread \/ StopEncoding \/ ReleaseVideoEncoder \/ Joins \/ StopReturns \/ Empties
  BY <1>1, <1>3 DEF CreateSyncEncodeBufferThread, StopEncoding, ReleaseVideoEncoder, Joins, StopReturns, Empties
<1>4. CASE ErrorHandling \/ SendDataAsync \/ ReleasesOutput \/ FeedStream \/ UNCHANGED encoderVars
  BY <1>1, <1>4 DEF ErrorHandling, OnError, ErrorTests, ErrorHalts, SendDataAsync, ReleasesOutput, FeedStream, encoderVars
<1>5. CASE Callback
  BY <1>5 DEF Callback, EncoderOutputs, OnOutputBufferAvailable, GivesUp, GetEncoderOutputBuffer, EncodeDone, syncVars
<1>6. CASE SyncEncodeBufferThread
  <2>1. CASE SyncTakes \/ SyncSkips
    BY <1>1, <2>1 DEF SyncTakes, SyncSkips
  <2>2. CASE SyncOffers
    <3>1. held.index \in 0..MaxFrames /\ held.key \in BOOLEAN
      BY DEF QueueTyped, Frames
    <3>2. isSkipState_' \in BOOLEAN /\ curKeyFrameIndex_' \in 0..MaxFrames
      BY <2>2, <3>1 DEF SyncOffers, SkipEnds, KeyIndex
    <3>3. keysSent' \in 0..KeysToRaise
      BY <2>2, <3>1, SizesAssumption DEF SyncOffers, SyncVideoFrameSuccess, Unheard, Refused
    <3>4. causes' \subseteq {"lost", "unheard", "keysKept", "revived"}
      BY <2>2 DEF SyncOffers, SyncVideoFrameSuccess, Unheard, Refused
    <3> QED
      BY <2>2, <3>2, <3>3, <3>4 DEF SyncOffers
  <2>3. CASE SyncVideoFrameFailure
    BY <2>3, SizesAssumption DEF SyncVideoFrameFailure
  <2>4. CASE KeepsKeyFrames
    <3> DEFINE kept == KeyFrames(buffers)
    <3>1. kept \in Seq(Frames)
      <4>1. buffers \in Seq(Frames)
        BY DEF QueueTyped
      <4> QED
        BY <4>1, KeyFramesAre DEF KeysAmong
    <3>3. /\ lastKeyFrameIndex_' = IF kept = <<>> THEN lastKeyFrameIndex_ ELSE kept[Len(kept)].index
          /\ curKeyFrameIndex_' = IF kept = <<>> THEN curKeyFrameIndex_ ELSE kept[Len(kept)].index
          /\ causes' \subseteq {"lost", "unheard", "keysKept", "revived"}
          /\ isSkipState_' = TRUE /\ UNCHANGED <<keysSent, rate>>
      BY <2>4 DEF KeepsKeyFrames
    <3> HIDE DEF kept
    <3>2. kept # <<>> => kept[Len(kept)].index \in 0..MaxFrames
      <4>1. kept # <<>> => kept[Len(kept)] \in Frames
        BY <3>1
      <4> QED
        BY <4>1 DEF Frames
    <3> QED
      BY <3>2, <3>3
  <2>5. CASE Adjusting
    <3>1. PICK up \in BOOLEAN : AdjustBitrate(up)
      BY <2>5 DEF Adjusting
    <3>2. Stepped(up) \in 1..MaxBitrate /\ Reached(up) \in BOOLEAN
      BY BitrateAssumption DEF Stepped, Reached
    <3>3. rate' = [rate EXCEPT !.step = Stepped(up), !.max = Reached(up) /\ rate.current = MaxBitrate,
                               !.min = Reached(up) /\ rate.current # MaxBitrate]
      BY <3>1 DEF AdjustBitrate
    <3>4. rate' \in [current : MinBitrate..MaxBitrate, step : 1..MaxBitrate, max : BOOLEAN, min : BOOLEAN]
      BY <3>2, <3>3
    <3> QED
      BY <2>5, <3>4 DEF Adjusting
  <2> QED
    BY <1>6, <2>1, <2>2, <2>3, <2>4, <2>5 DEF SyncEncodeBufferThread
<1>7. ASSUME NEW up \in BOOLEAN, SetParameter(up) PROVE SyncTyped'
  <2>1. rate.current \in Int /\ rate.step \in Int /\ MinBitrate \in Int /\ MaxBitrate \in Int
    BY BitrateAssumption, RatesAre
  <2>2. (rate.current * 3) \div 4 \in Int
    BY <2>1
  <2>3. \A b \in Int : Least(b, MaxBitrate) \in Int
    BY <2>1 DEF Least
  <2>4. RoundBitrates(Least(IF up THEN rate.current + rate.step ELSE (rate.current * 3) \div 4, MaxBitrate))
          \in MinBitrate..MaxBitrate
    <3>1. (IF up THEN rate.current + rate.step ELSE (rate.current * 3) \div 4) \in Int
      BY <2>1, <2>2
    <3> QED
      BY <2>3, <3>1, Rounded
  <2>5. rate' \in [current : MinBitrate..MaxBitrate, step : 1..MaxBitrate, max : BOOLEAN, min : BOOLEAN]
    BY <1>7, <2>4 DEF SetParameter
  <2> QED
    BY <1>7, <2>5 DEF SetParameter
<1> QED
  BY <1>1, <1>2, <1>3, <1>4, <1>5, <1>6, <1>7 DEF EncoderNext, Controls, Stops, SyncSteps

\* Every step keeps the types.
LEMMA NodeTypedStep == NodeTyped /\ [EncoderNext]_encoderVars => NodeTyped'
BY ControlTypedStep, QueueTypedStep, SyncTypedStep DEF NodeTyped

\* A thread that is neither the control thread nor the codec's failure leaves what they share.
NodeKept == UNCHANGED <<control, encoding, encoder, listener, joinable, error>>

\* What the codec's callback, a late feed and the event thread leave alone.
LEMMA QuietSteps ==
  /\ Callback => NodeKept /\ UNCHANGED crashed /\ (callback' = "none" \/ callback # "none" \/ encoder = "started")
                 /\ causes' \in {causes, causes \union {"lost"}} /\ sync' \in {sync, Woken}
  /\ ReleasesOutput => NodeKept /\ callback' = "none" /\ crashed' = (encoder = "null") /\ callback = "returning"
                       /\ UNCHANGED <<causes, sync>>
  /\ FeedStream => NodeKept /\ UNCHANGED <<crashed, callback, causes>> /\ control = "running" /\ sync' \in {sync, Woken}
  /\ SendDataAsync => NodeKept /\ UNCHANGED <<crashed, callback, causes, sync>>
<1>1. ASSUME Callback
      PROVE  /\ NodeKept /\ UNCHANGED crashed /\ (callback' = "none" \/ callback # "none" \/ encoder = "started")
             /\ causes' \in {causes, causes \union {"lost"}} /\ sync' \in {sync, Woken}
  BY <1>1 DEF Callback, EncoderOutputs, OnOutputBufferAvailable, GivesUp, GetEncoderOutputBuffer, EncodeDone, nodeVars,
    NodeKept
<1>2. ASSUME ReleasesOutput
      PROVE  NodeKept /\ callback' = "none" /\ crashed' = (encoder = "null") /\ callback = "returning"
             /\ UNCHANGED <<causes, sync>>
  BY <1>2 DEF ReleasesOutput, nodeVars, NodeKept
<1>3. ASSUME FeedStream
      PROVE  NodeKept /\ UNCHANGED <<crashed, callback, causes>> /\ control = "running" /\ sync' \in {sync, Woken}
  BY <1>3 DEF FeedStream, ProcessData, nodeVars, NodeKept
<1>4. ASSUME SendDataAsync PROVE NodeKept /\ UNCHANGED <<crashed, callback, causes, sync>>
  BY <1>4 DEF SendDataAsync, nodeVars, codecVars, NodeKept
<1> QED
  BY <1>1, <1>2, <1>3, <1>4

\* What the sync thread's steps do to where it is.
LEMMA SyncMoves ==
  /\ SyncEncodeBufferThread =>
       /\ NodeKept /\ UNCHANGED <<crashed, callback>> /\ sync # "off"
       /\ causes \subseteq causes'
       /\ sync' = "exited" => ~encoding \/ "unheard" \in causes'
       /\ sync' \in {"raising", "lowering"} => encoder # "null"
       /\ sync' # "off"
  /\ \A up \in BOOLEAN : SetParameter(up) =>
       /\ NodeKept /\ UNCHANGED <<callback, causes>> /\ crashed' = (encoder = "null")
       /\ sync \in {"raising", "lowering"} /\ sync' \in {"top", "drop"}
<1>1. ASSUME SyncEncodeBufferThread
      PROVE  /\ NodeKept /\ UNCHANGED <<crashed, callback>> /\ sync # "off" /\ causes \subseteq causes'
             /\ sync' = "exited" => ~encoding \/ "unheard" \in causes'
             /\ sync' \in {"raising", "lowering"} => encoder # "null"
             /\ sync' # "off"
  <2>1. NodeKept /\ UNCHANGED <<crashed, callback>>
    BY <1>1 DEF SyncEncodeBufferThread, nodeVars, codecVars, NodeKept
  <2>2. CASE SyncTakes \/ SyncSkips \/ SyncVideoFrameFailure \/ KeepsKeyFrames
    BY <2>1, <2>2 DEF SyncTakes, SyncSkips, SyncVideoFrameFailure, KeepsKeyFrames
  <2>3. CASE SyncOffers
    BY <2>1, <2>3 DEF SyncOffers, SyncVideoFrameSuccess, Unheard, Refused
  <2>4. CASE Adjusting
    BY <2>1, <2>4 DEF Adjusting, AdjustBitrate, Onward
  <2> QED
    BY <1>1, <2>2, <2>3, <2>4 DEF SyncEncodeBufferThread
<1>2. ASSUME NEW up \in BOOLEAN, SetParameter(up)
      PROVE  /\ NodeKept /\ UNCHANGED <<callback, causes>> /\ crashed' = (encoder = "null")
             /\ sync \in {"raising", "lowering"} /\ sync' \in {"top", "drop"}
  BY <1>2 DEF SetParameter, Onward, nodeVars, codecVars, NodeKept
<1> QED
  BY <1>1, <1>2

\* ControlInv holds at the start, and every step keeps it.
LEMMA ControlInit == EncoderInit => ControlInv
BY DEF EncoderInit, ControlInv, Past

\* Nothing that says what the node has is changed out of turn.
LEMMA ControlStep == ControlTyped /\ ControlInv /\ [EncoderNext]_encoderVars => ControlInv'
<1> SUFFICES ASSUME ControlTyped, ControlInv, [EncoderNext]_encoderVars PROVE ControlInv'
  OBVIOUS
<1>e. equal' = equal
  BY EqualStays
<1> USE <1>e DEF ControlInv, Past
<1>1. CASE Creating
  <2>1. CASE StartCapture
    BY <1>1, <2>1 DEF Creating, StartCapture, InitEncoder, CodecsEqual, NotConvertible, codecVars
  <2>2. CASE SetsFlag
    BY <1>1, <2>2 DEF Creating, SetsFlag, codecVars
  <2>3. CASE CreatePipeline
    BY <1>1, <2>3 DEF Creating, CreatePipeline, codecVars
  <2> QED
    BY <1>1, <2>1, <2>2, <2>3 DEF Creating
<1>2. CASE CreateSyncEncodeBufferThread
  BY <1>2 DEF CreateSyncEncodeBufferThread, codecVars
<1>3. CASE StopEncoding
  BY <1>3 DEF StopEncoding, codecVars
<1>4. CASE ReleaseVideoEncoder
  BY <1>4 DEF ReleaseVideoEncoder, codecVars
<1>5. CASE Empties
  BY <1>5 DEF Empties, EmptiesBuffers, Woken, codecVars, nodeVars, ControlTyped
<1>6. CASE Joins
  BY <1>6 DEF Joins, codecVars
<1>7. CASE StopReturns
  BY <1>7 DEF StopReturns, codecVars
<1>8. CASE OnError
  BY <1>8 DEF OnError, codecVars
<1>9. CASE ErrorTests
  BY <1>9 DEF ErrorTests, codecVars, nodeVars
<1>10. CASE ErrorHalts
  BY <1>10 DEF ErrorHalts, codecVars
<1>11. CASE Callback
  BY <1>11, QuietSteps DEF NodeKept, Woken
<1>12. CASE ReleasesOutput
  BY <1>12, QuietSteps DEF NodeKept
<1>13. CASE FeedStream
  BY <1>13, QuietSteps DEF NodeKept, Woken
<1>14. CASE SyncEncodeBufferThread
  BY <1>14, SyncMoves DEF NodeKept
<1>15. ASSUME NEW up \in BOOLEAN, SetParameter(up) PROVE ControlInv'
  BY <1>15, SyncMoves DEF NodeKept
<1>16. CASE SendDataAsync
  BY <1>16, QuietSteps DEF NodeKept
<1>17. CASE UNCHANGED encoderVars
  BY <1>17 DEF encoderVars, codecVars, nodeVars
<1> QED
  BY <1>1, <1>2, <1>3, <1>4, <1>5, <1>6, <1>7, <1>8, <1>9, <1>10, <1>11, <1>12, <1>13, <1>14, <1>15, <1>16, <1>17
  DEF EncoderNext, Controls, Stops, ErrorHandling, SyncSteps

\* The parts of SyncThreadServes that the threads' places decide.
ThreadServes ==
  /\ control \in {"threaded", "running"} /\ error = "none" => sync # "exited" \/ "unheard" \in causes
  /\ crashed => control \in Past

\* The sync thread ends only where it may, and nothing that is gone is called.
LEMMA ServesStep ==
  ControlTyped /\ ControlInv /\ ThreadServes /\ [EncoderNext]_encoderVars => ThreadServes'
<1> SUFFICES ASSUME ControlTyped, ControlInv, ThreadServes, [EncoderNext]_encoderVars PROVE ThreadServes'
  OBVIOUS
<1> USE DEF ControlInv, Past, ThreadServes
<1>1. CASE Creating
  <2>1. CASE StartCapture
    BY <1>1, <2>1 DEF Creating, StartCapture, InitEncoder, CodecsEqual, NotConvertible, codecVars, EncoderNext
  <2>2. CASE SetsFlag
    BY <1>1, <2>2 DEF Creating, SetsFlag, codecVars
  <2>3. CASE CreatePipeline
    BY <1>1, <2>3 DEF Creating, CreatePipeline, codecVars
  <2> QED
    BY <1>1, <2>1, <2>2, <2>3 DEF Creating
<1>2. CASE CreateSyncEncodeBufferThread
  BY <1>2 DEF CreateSyncEncodeBufferThread
<1>3. CASE StopEncoding
  BY <1>3 DEF StopEncoding
<1>4. CASE ReleaseVideoEncoder
  BY <1>4 DEF ReleaseVideoEncoder
<1>5. CASE Empties
  BY <1>5 DEF Empties, EmptiesBuffers, Woken, nodeVars
<1>6. CASE Joins
  BY <1>6 DEF Joins
<1>7. CASE StopReturns
  BY <1>7 DEF StopReturns
<1>8. CASE OnError
  BY <1>8 DEF OnError
<1>9. CASE ErrorTests
  BY <1>9 DEF ErrorTests
<1>10. CASE ErrorHalts
  BY <1>10 DEF ErrorHalts
<1>11. CASE Callback
  BY <1>11, QuietSteps DEF NodeKept, Woken
<1>12. CASE ReleasesOutput
  BY <1>12, QuietSteps DEF NodeKept
<1>13. CASE FeedStream
  BY <1>13, QuietSteps DEF NodeKept, Woken
<1>14. CASE SyncEncodeBufferThread
  BY <1>14, SyncMoves DEF NodeKept
<1>15. ASSUME NEW up \in BOOLEAN, SetParameter(up) PROVE ThreadServes'
  BY <1>15, SyncMoves DEF NodeKept
<1>16. CASE SendDataAsync
  BY <1>16, QuietSteps DEF NodeKept
<1>17. CASE UNCHANGED encoderVars
  BY <1>17 DEF encoderVars
<1> QED
  BY <1>1, <1>2, <1>3, <1>4, <1>5, <1>6, <1>7, <1>8, <1>9, <1>10, <1>11, <1>12, <1>13, <1>14, <1>15, <1>16, <1>17
  DEF EncoderNext, Controls, Stops, ErrorHandling, SyncSteps

\* The frames of a queue are in the order of encoding, after low and not after high.
Ordered(q, low, high) ==
  /\ \A i \in DOMAIN q : low < q[i].n /\ q[i].n <= high
  /\ \A i, j \in DOMAIN q : i < j => q[i].n < q[j].n

\* The number of the last frame posted; what waits comes after Low, and up to High.
LastSent == IF sent = <<>> THEN 0 ELSE sent[Len(sent)].n
Low == IF Holds THEN held.n ELSE LastSent
High == IF Brings THEN frames - 1 ELSE frames

\* Frames are kept, held and posted in the order they were encoded in.
OrderInv ==
  /\ Ordered(buffers, Low, High)
  /\ LastSent <= High
  /\ Holds => LastSent < held.n /\ held.n <= High
  /\ Brings => coming.n = frames /\ frames >= 1
  /\ Len(sent) = 2 => sent[1].n < sent[2].n

\* What the operations on queues do to the order.
LEMMA OrderedQueues ==
  ASSUME NEW q \in Seq(Frames), NEW low \in Int, NEW high \in Int, Ordered(q, low, high)
  PROVE  /\ \A l, h \in Int : l <= low /\ high <= h => Ordered(q, l, h)
         /\ \A f \in Frames : high < f.n /\ low < f.n => Ordered(Append(q, f), low, f.n)
         /\ \A f \in Frames : \A l \in Int : f.n <= low /\ l < f.n /\ f.n <= high => Ordered(<<f>> \o q, l, high)
         /\ q # <<>> => low < Head(q).n /\ Head(q).n <= high /\ Ordered(Tail(q), Head(q).n, high)
         /\ Ordered(KeyFrames(q), low, high)
<1> USE DEF Ordered
<1>t. \A f \in Frames : f.n \in Int
  BY BoundsAssumption DEF Frames
<1>q. Len(q) \in Nat /\ DOMAIN q = 1..Len(q) /\ \A i \in DOMAIN q : q[i] \in Frames /\ q[i].n \in Int
  BY <1>t
<1>1. \A l, h \in Int : l <= low /\ high <= h => Ordered(q, l, h)
  BY <1>q
<1>2. ASSUME NEW f \in Frames, high < f.n, low < f.n PROVE Ordered(Append(q, f), low, f.n)
  <2> DEFINE r == Append(q, f)
  <2>1. DOMAIN r = 1..(Len(q) + 1) /\ r[Len(q) + 1] = f /\ \A i \in DOMAIN q : r[i] = q[i]
    BY FrameQueues
  <2> HIDE DEF r
  <2>2. \A i \in DOMAIN r : i = Len(q) + 1 \/ i \in DOMAIN q
    BY <1>q, <2>1
  <2>3. \A i \in DOMAIN r : low < r[i].n /\ r[i].n <= f.n
    BY <1>q, <1>t, <1>2, <2>1, <2>2
  <2>4. \A i, j \in DOMAIN r : i < j => r[i].n < r[j].n
    BY <1>q, <1>t, <1>2, <2>1, <2>2
  <2> QED
    BY <2>3, <2>4 DEF r
<1>3. ASSUME NEW f \in Frames, NEW l \in Int, f.n <= low, l < f.n, f.n <= high PROVE Ordered(<<f>> \o q, l, high)
  <2> DEFINE r == <<f>> \o q
  <2>1. DOMAIN r = 1..(Len(q) + 1) /\ r[1] = f /\ \A i \in DOMAIN q : r[i + 1] = q[i]
    BY FrameQueues
  <2> HIDE DEF r
  <2>2. \A i \in DOMAIN r : i = 1 \/ (i - 1 \in DOMAIN q /\ r[i] = q[i - 1])
    <3>1. \A i \in 1..(Len(q) + 1) : i = 1 \/ (i - 1 \in 1..Len(q) /\ (i - 1) + 1 = i)
      BY <1>q
    <3> QED
      BY <1>q, <2>1, <3>1
  <2>3. \A i \in DOMAIN r : l < r[i].n /\ r[i].n <= high
    BY <1>q, <1>t, <1>3, <2>1, <2>2
  <2>4. ASSUME NEW i \in DOMAIN r, NEW j \in DOMAIN r, i < j PROVE r[i].n < r[j].n
    <3>1. j - 1 \in DOMAIN q /\ r[j] = q[j - 1]
      BY <2>1, <2>2, <2>4, <1>q
    <3>2. CASE i = 1
      <4>1. low < q[j - 1].n /\ q[j - 1].n \in Int
        BY <1>q, <3>1
      <4> QED
        BY <1>t, <1>3, <2>1, <3>1, <3>2, <4>1
    <3>3. CASE i # 1
      <4>1. i - 1 \in DOMAIN q /\ r[i] = q[i - 1] /\ i - 1 < j - 1
        BY <2>1, <2>2, <2>4, <3>3, <1>q
      <4> QED
        BY <3>1, <4>1
    <3> QED
      BY <3>2, <3>3
  <2> QED
    BY <2>3, <2>4 DEF r
<1>4. ASSUME q # <<>> PROVE low < Head(q).n /\ Head(q).n <= high /\ Ordered(Tail(q), Head(q).n, high)
  <2> DEFINE r == Tail(q)
  <2>1. Len(q) >= 1 /\ Head(q) = q[1] /\ DOMAIN r = 1..(Len(q) - 1) /\ \A i \in 1..(Len(q) - 1) : r[i] = q[i + 1]
    BY <1>4, FrameQueues
  <2>2. 1 \in DOMAIN q /\ \A i \in 1..(Len(q) - 1) : i + 1 \in DOMAIN q
    BY <2>1, <1>q
  <2> HIDE DEF r
  <2>3. low < Head(q).n /\ Head(q).n <= high
    BY <2>1, <2>2
  <2>4. ASSUME NEW i \in DOMAIN r PROVE i + 1 \in DOMAIN q /\ r[i] = q[i + 1] /\ 1 < i + 1
    BY <1>q, <2>1, <2>2
  <2>5. \A i \in DOMAIN r : Head(q).n < r[i].n /\ r[i].n <= high
    BY <2>1, <2>2, <2>4
  <2>6. ASSUME NEW i \in DOMAIN r, NEW j \in DOMAIN r, i < j PROVE r[i].n < r[j].n
    <3>1. i + 1 < j + 1
      BY <1>q, <2>1, <2>6
    <3> QED
      BY <2>4, <3>1
  <2> QED
    BY <2>3, <2>5, <2>6 DEF r
<1>5. Ordered(KeyFrames(q), low, high)
  <2> DEFINE r == KeyFrames(q)
  <2>1. /\ \A j \in DOMAIN r : r[j].key /\ \E i \in 1..Len(q) : r[j] = q[i]
        /\ \A a, b \in DOMAIN r : a < b => \E i, j \in 1..Len(q) : i < j /\ r[a] = q[i] /\ r[b] = q[j]
    <3>1. KeysAmong(Frames, q, Len(q), r)
      BY KeyFramesAre
    <3> HIDE DEF r
    <3> QED
      BY <3>1, Zenon DEF KeysAmong
  <2> HIDE DEF r
  <2>2. \A j \in DOMAIN r : low < r[j].n /\ r[j].n <= high
    BY <1>q, <2>1
  <2>3. ASSUME NEW a \in DOMAIN r, NEW b \in DOMAIN r, a < b PROVE r[a].n < r[b].n
    <3>1. PICK i \in 1..Len(q), j \in 1..Len(q) : i < j /\ r[a] = q[i] /\ r[b] = q[j]
      BY <2>1, <2>3
    <3> QED
      BY <1>q, <3>1
  <2> QED
    BY <2>2, <2>3 DEF r
<1> QED
  BY <1>1, <1>2, <1>3, <1>4, <1>5

\* A queue in order is no longer than the numbers it may hold.
LEMMA OrderedLength ==
  ASSUME NEW q \in Seq(Frames), NEW high \in Nat, Ordered(q, 0, high)
  PROVE  Len(q) <= high
<1>t. Len(q) \in Nat /\ DOMAIN q = 1..Len(q) /\ \A i \in DOMAIN q : q[i].n \in Int
  <2>1. \A f \in Frames : f.n \in Int
    BY BoundsAssumption DEF Frames
  <2> QED
    BY <2>1
<1> DEFINE S == {i \in Nat : i \in DOMAIN q => i <= q[i].n}
<1>1. 0 \in S
  BY <1>t
<1>2. ASSUME NEW i \in S PROVE i + 1 \in S
  <2>1. CASE i = 0
    BY <1>t, <2>1 DEF Ordered
  <2>2. CASE i # 0 /\ i + 1 \in DOMAIN q
    <3>1. i \in DOMAIN q /\ i < i + 1
      BY <1>t, <2>2
    <3> QED
      BY <1>t, <2>2, <3>1 DEF Ordered
  <2> QED
    BY <2>1, <2>2
<1>3. S = Nat
  <2>1. S \in SUBSET Nat
    OBVIOUS
  <2> HIDE DEF S
  <2> QED
    BY <1>1, <1>2, <2>1, NumberInduction
<1>4. Len(q) # 0 => Len(q) <= q[Len(q)].n /\ q[Len(q)].n <= high
  BY <1>t, <1>3 DEF Ordered
<1> QED
  BY <1>t, <1>4

\* What numbers frames have, and how far the order has come.
LEMMA Numbers ==
  ASSUME NodeTyped
  PROVE  /\ LastSent \in Nat /\ Low \in Nat /\ High \in Int /\ held.n \in Nat /\ coming.n \in Nat /\ frames \in Nat
         /\ \A f \in Frames : f.n \in Nat
         /\ \A i \in DOMAIN sent : sent[i].n \in Nat
<1>1. \A f \in Frames : f.n \in Nat
  BY BoundsAssumption DEF Frames
<1>2. held.n \in Nat /\ coming.n \in Nat /\ frames \in Nat
  BY <1>1, BoundsAssumption DEF NodeTyped, QueueTyped
<1>3. \A i \in DOMAIN sent : sent[i].n \in Nat
  BY <1>1 DEF NodeTyped, QueueTyped
<1>4. LastSent \in Nat
  <2>1. sent # <<>> => Len(sent) \in DOMAIN sent
    BY DEF NodeTyped, QueueTyped
  <2> QED
    BY <1>3, <2>1 DEF LastSent
<1> QED
  BY <1>1, <1>2, <1>3, <1>4 DEF Low, High

\* OrderInv holds at the start.
LEMMA OrderInit == EncoderInit => OrderInv
<1> SUFFICES ASSUME EncoderInit PROVE OrderInv
  OBVIOUS
<1>1. buffers = <<>> /\ sent = <<>> /\ ~Holds /\ ~Brings /\ frames = 0
  BY DEF EncoderInit, Holds, Brings
<1> QED
  BY <1>1 DEF OrderInv, Ordered, LastSent, High

\* Every step keeps the order, also where a frame goes back or the queue is thinned.
LEMMA OrderStep == NodeTyped /\ ControlInv /\ OrderInv /\ [EncoderNext]_encoderVars => OrderInv'
<1> SUFFICES ASSUME NodeTyped, ControlInv, OrderInv, [EncoderNext]_encoderVars PROVE OrderInv'
  OBVIOUS
<1>q. buffers \in Seq(Frames) /\ sent \in Seq(Frames) /\ Len(sent) <= 2 /\ held \in Frames /\ coming \in Frames
  BY DEF NodeTyped, QueueTyped
<1>o. Ordered(buffers, Low, High)
  BY DEF OrderInv
<1>1. CASE UNCHANGED <<codecVars, buffers, held, sent>> /\ Holds' = Holds
  BY <1>1 DEF OrderInv, LastSent, Low, High, Brings, codecVars
<1>2. CASE Creating
  BY <1>1, <1>2 DEF Creating, Holds
<1>3. CASE CreateSyncEncodeBufferThread
  BY <1>1, <1>3 DEF CreateSyncEncodeBufferThread, Holds, ControlInv
<1>4. CASE StopEncoding \/ ReleaseVideoEncoder \/ Joins \/ StopReturns
  BY <1>1, <1>4 DEF StopEncoding, ReleaseVideoEncoder, Joins, StopReturns, Holds
<1>5. CASE Empties
  <2>1. buffers' = <<>> /\ UNCHANGED <<codecVars, held, sent>> /\ Holds' = Holds
    BY <1>5 DEF Empties, EmptiesBuffers, Holds, Woken
  <2>2. Ordered(buffers', Low', High')
    BY <2>1 DEF Ordered
  <2> QED
    BY <2>1, <2>2 DEF OrderInv, LastSent, High, Brings, codecVars
<1>6. CASE ErrorHandling \/ SendDataAsync \/ UNCHANGED encoderVars
  BY <1>1, <1>6 DEF ErrorHandling, OnError, ErrorTests, ErrorHalts, SendDataAsync, encoderVars, Holds
<1>7. CASE \E up \in BOOLEAN : SetParameter(up)
  BY <1>1, <1>7 DEF SetParameter, Holds, Onward
<1>8. CASE Callback
  <2>0. UNCHANGED <<held, sent>> /\ Holds' = Holds /\ LastSent' = LastSent /\ Low' = Low
    BY <1>8 DEF Callback, EncoderOutputs, OnOutputBufferAvailable, EncodeDone, Woken, Holds, LastSent, Low
  <2>1. CASE EncoderOutputs
    <3>1. ~Brings /\ Brings' /\ frames' = frames + 1 /\ coming'.n = frames' /\ buffers' = buffers
      BY <2>1 DEF EncoderOutputs, Brings
    <3>2. High' = High
      BY <3>1, Numbers DEF High
    <3> QED
      BY <2>0, <3>1, <3>2, Numbers DEF OrderInv
  <2>2. CASE OnOutputBufferAvailable
    <3>1. frames' = frames /\ buffers' = buffers /\ Brings
      BY <2>2 DEF OnOutputBufferAvailable, Brings
    <3>2. ~Brings' \/ (Brings' /\ coming'.n = coming.n)
      BY <2>2, <1>q DEF OnOutputBufferAvailable, GivesUp, GetEncoderOutputBuffer, Brings, Frames
    <3>3. High' \in Int /\ High <= High'
      BY <3>1, <3>2, Numbers DEF High
    <3>4. Ordered(buffers', Low', High')
      BY <1>q, <1>o, <2>0, <3>1, <3>3, Numbers, OrderedQueues
    <3> QED
      BY <2>0, <3>1, <3>2, <3>3, <3>4, Numbers DEF OrderInv
  <2>3. CASE EncodeDone
    <3>1. Brings /\ ~Brings' /\ frames' = frames /\ buffers' = Append(buffers, coming)
      BY <2>3 DEF EncodeDone, Brings
    <3>2. High' = coming.n /\ High < coming.n /\ Low < coming.n
      BY <3>1, Numbers DEF OrderInv, High, Low
    <3>3. Ordered(buffers', Low', High')
      BY <1>q, <1>o, <2>0, <3>1, <3>2, Numbers, OrderedQueues
    <3> QED
      BY <2>0, <3>1, <3>2, <3>3, Numbers DEF OrderInv
  <2> QED
    BY <1>8, <2>1, <2>2, <2>3 DEF Callback
<1>9. CASE ReleasesOutput
  <2>1. UNCHANGED <<coming, frames, buffers, held, sent>> /\ Holds' = Holds /\ Brings' = Brings
    BY <1>9 DEF ReleasesOutput, Holds, Brings
  <2> QED
    BY <2>1 DEF OrderInv, LastSent, Low, High
<1>10. CASE FeedStream
  <2>1. callback = "none" /\ callback' = callback /\ coming' = coming
    BY <1>10 DEF FeedStream, ControlInv, Past
  <2> DEFINE f == [n |-> frames + 1, index |-> 0, key |-> FALSE]
  <2>2. buffers' = Append(buffers, f) /\ frames' = frames + 1 /\ UNCHANGED <<held, sent>> /\ Holds' = Holds
    BY <1>10 DEF FeedStream, ProcessData, Holds, Woken
  <2>3. f \in Frames /\ f.n = frames + 1
    BY <1>10, Numbers, BoundsAssumption DEF FeedStream, Frames
  <2> HIDE DEF f
  <2>4. ~Brings /\ ~Brings' /\ High = frames /\ High' = f.n /\ Low' = Low /\ LastSent' = LastSent
    BY <2>1, <2>2, <2>3, Numbers DEF Brings, High, Low, LastSent
  <2>5. High < f.n /\ Low < f.n
    BY <2>3, <2>4, Numbers DEF OrderInv, Low
  <2>6. Ordered(buffers', Low', High')
    BY <1>q, <1>o, <2>2, <2>3, <2>4, <2>5, Numbers, OrderedQueues
  <2> QED
    BY <2>2, <2>3, <2>4, <2>5, <2>6, Numbers DEF OrderInv
<1>11. CASE SyncEncodeBufferThread
  <2>0. UNCHANGED codecVars /\ Brings' = Brings /\ High' = High
    BY <1>11 DEF SyncEncodeBufferThread, codecVars, Brings, High
  <2>1. CASE SyncTakes
    <3>1. CASE sync' # "offer"
      BY <1>1, <2>0, <2>1, <3>1 DEF SyncTakes, Holds
    <3>2. CASE sync' = "offer"
      <4>1. buffers # <<>> /\ held' = Head(buffers) /\ buffers' = Tail(buffers) /\ ~Holds /\ Holds' /\ sent' = sent
        BY <2>1, <3>2 DEF SyncTakes, Holds
      <4>2. Low < Head(buffers).n /\ Head(buffers).n <= High /\ Ordered(buffers', Head(buffers).n, High)
        BY <1>q, <1>o, <4>1, Numbers, OrderedQueues
      <4>3. Low' = Head(buffers).n /\ LastSent' = LastSent /\ Low = LastSent
        BY <4>1 DEF Low, LastSent
      <4> QED
        BY <2>0, <4>1, <4>2, <4>3 DEF OrderInv, codecVars
    <3> QED
      BY <3>1, <3>2
  <2>2. CASE SyncSkips
    <3>1. Holds /\ ~Holds' /\ UNCHANGED <<buffers, sent>>
      BY <2>2 DEF SyncSkips, Holds
    <3>2. Low = held.n /\ Low' = LastSent /\ LastSent' = LastSent
      BY <3>1 DEF Low, LastSent
    <3>3. Ordered(buffers', Low', High')
      BY <1>q, <1>o, <2>0, <3>1, <3>2, Numbers, OrderedQueues DEF OrderInv
    <3> QED
      BY <2>0, <3>1, <3>2, <3>3 DEF OrderInv, codecVars
  <2>3. CASE SyncOffers
    <3>0. Holds /\ UNCHANGED buffers
      BY <2>3 DEF SyncOffers, Holds
    <3>1. CASE SyncVideoFrameSuccess
      <4>1. ~Holds' /\ sent' = Posting
        BY <3>1 DEF SyncVideoFrameSuccess, Holds
      <4>2. LastSent' = held.n /\ Low' = held.n /\ Low = held.n
        <5>1. Len(sent') \in {1, 2} /\ sent'[Len(sent')] = held
          BY <1>q, <4>1, PostingFits
        <5>2. sent' # <<>>
          BY <5>1
        <5>3. held' = NoFrame
          BY <3>1 DEF SyncVideoFrameSuccess
        <5> QED
          BY <3>0, <4>1, <5>1, <5>2 DEF LastSent, Low
      <4>3. Len(sent') = 2 => sent'[1].n < sent'[2].n
        <5>1. CASE sent = <<>>
          BY <1>q, <4>1, <5>1, PostingFits
        <5>2. CASE sent # <<>>
          <6>1. sent'[1] = sent[Len(sent)] /\ Len(sent') = 2 /\ sent'[Len(sent')] = held
            BY <1>q, <4>1, <5>2, PostingFits
          <6> QED
            BY <3>0, <5>2, <6>1 DEF OrderInv, LastSent
        <5> QED
          BY <5>1, <5>2
      <4> QED
        BY <2>0, <3>0, <4>1, <4>2, <4>3 DEF OrderInv, codecVars
    <3>2. CASE Unheard
      <4>1. ~Holds' /\ sent' = sent
        BY <3>2 DEF Unheard, Holds
      <4>2. Low = held.n /\ Low' = LastSent /\ LastSent' = LastSent
        BY <3>0, <4>1 DEF Low, LastSent
      <4>3. Ordered(buffers', Low', High')
        BY <1>q, <1>o, <2>0, <3>0, <4>1, <4>2, Numbers, OrderedQueues DEF OrderInv
      <4> QED
        BY <2>0, <3>0, <4>1, <4>2, <4>3 DEF OrderInv, codecVars
    <3>3. CASE Refused
      BY <1>1, <2>0, <3>0, <3>3 DEF Refused, Holds
    <3> QED
      BY <2>3, <3>1, <3>2, <3>3 DEF SyncOffers
  <2>4. CASE SyncVideoFrameFailure
    <3>1. Holds /\ ~Holds' /\ buffers' = <<held>> \o buffers /\ sent' = sent
      BY <2>4 DEF SyncVideoFrameFailure, Holds
    <3>2. Low = held.n /\ Low' = LastSent /\ LastSent' = LastSent
      BY <3>1 DEF Low, LastSent
    <3>3. Ordered(buffers', Low', High')
      BY <1>q, <1>o, <2>0, <3>1, <3>2, Numbers, OrderedQueues DEF OrderInv
    <3> QED
      BY <2>0, <3>1, <3>2, <3>3 DEF OrderInv, codecVars
  <2>5. CASE KeepsKeyFrames
    <3>1. Holds' = Holds /\ UNCHANGED <<held, sent>> /\ buffers' = KeyFrames(buffers)
      BY <2>5 DEF KeepsKeyFrames, Holds
    <3>2. Low' = Low /\ LastSent' = LastSent
      BY <3>1 DEF Low, LastSent
    <3>3. Ordered(buffers', Low', High')
      BY <1>q, <1>o, <2>0, <3>1, <3>2, Numbers, OrderedQueues
    <3> QED
      BY <2>0, <3>1, <3>2, <3>3 DEF OrderInv, codecVars
  <2>6. CASE Adjusting
    <3>1. Holds' = Holds
      <4>1. sync \in {"raise", "lower"} /\ sync' \in {"top", "drop", "raising", "lowering"}
        BY <2>6 DEF Adjusting, AdjustBitrate, Onward
      <4> QED
        BY <4>1 DEF Holds
    <3> QED
      BY <1>1, <2>0, <2>6, <3>1 DEF Adjusting
  <2> QED
    BY <1>11, <2>1, <2>2, <2>3, <2>4, <2>5, <2>6 DEF SyncEncodeBufferThread
<1> QED
  BY <1>2, <1>3, <1>4, <1>5, <1>6, <1>7, <1>8, <1>9, <1>10, <1>11 DEF EncoderNext, Controls, Stops, SyncSteps

\* No more frames wait than the codec has given.
LEMMA QueueIsBounded == NodeTyped /\ OrderInv => EncoderTypeOK /\ Len(buffers) <= frames
<1> SUFFICES ASSUME NodeTyped, OrderInv PROVE EncoderTypeOK /\ Len(buffers) <= frames
  OBVIOUS
<1>1. buffers \in Seq(Frames) /\ frames \in Nat /\ frames <= MaxFrames
  BY BoundsAssumption DEF NodeTyped, QueueTyped
<1>2. Ordered(buffers, 0, frames)
  <2>1. 0 <= Low /\ High <= frames
    BY Numbers DEF High
  <2> QED
    BY <1>1, <2>1, Numbers, OrderedQueues DEF OrderInv
<1>3. Len(buffers) <= frames
  BY <1>1, <1>2, OrderedLength
<1>4. Len(buffers) <= MaxFrames
  <2>1. Len(buffers) \in Nat /\ MaxFrames \in Nat
    BY <1>1, BoundsAssumption
  <2> QED
    BY <1>1, <1>3, <2>1
<1> QED
  BY <1>3, <1>4 DEF EncoderTypeOK, EncoderTyped, NodeTyped, ControlTyped, QueueTyped, SyncTyped

\* Frames are skipped, or about to be, only once half a second of them has waited.
SkipInv == isSkipState_ \/ sync \in {"lower", "lowering", "drop"} => frames >= HalfRate

\* Every step keeps SkipInv.
LEMMA SkipStep == NodeTyped /\ SkipInv /\ NodeTyped' /\ OrderInv' /\ [EncoderNext]_encoderVars => SkipInv'
<1> SUFFICES ASSUME NodeTyped, SkipInv, NodeTyped', OrderInv', [EncoderNext]_encoderVars PROVE SkipInv'
  OBVIOUS
<1>n. frames \in Nat /\ frames' \in Nat /\ HalfRate \in Nat /\ isSkipState_ \in BOOLEAN /\ isSkipState_' \in BOOLEAN
  BY SizesAssumption, BoundsAssumption DEF NodeTyped, QueueTyped, SyncTyped
<1> DEFINE Behind(at) == at \in {"lower", "lowering", "drop"}
<1>1. ASSUME frames <= frames', isSkipState_' => isSkipState_ \/ Behind(sync), Behind(sync') => Behind(sync)
      PROVE  SkipInv'
  BY <1>n, <1>1 DEF SkipInv
<1>2. CASE Creating \/ StopEncoding \/ ReleaseVideoEncoder \/ Joins \/ StopReturns
  <2>1. UNCHANGED <<frames, isSkipState_, sync>>
    BY <1>2 DEF Creating, StopEncoding, ReleaseVideoEncoder, Joins, StopReturns, codecVars, syncVars
  <2> QED
    BY <1>n, <1>1, <2>1
<1>3. CASE CreateSyncEncodeBufferThread
  BY <1>n, <1>1, <1>3 DEF CreateSyncEncodeBufferThread, codecVars, syncVars
<1>4. CASE Empties
  BY <1>n, <1>1, <1>4 DEF Empties, EmptiesBuffers, Woken, codecVars, syncVars
<1>5. CASE ErrorHandling \/ SendDataAsync \/ UNCHANGED encoderVars
  BY <1>n, <1>1, <1>5 DEF ErrorHandling, OnError, ErrorTests, ErrorHalts, SendDataAsync, encoderVars, codecVars, syncVars
<1>6. CASE Callback \/ ReleasesOutput \/ FeedStream
  <2>1. isSkipState_' = isSkipState_ /\ sync' \in {sync, "top"}
    BY <1>6 DEF Callback, ReleasesOutput, FeedStream, ProcessData, EncoderOutputs, OnOutputBufferAvailable, EncodeDone, Woken,
      syncVars
  <2>2. frames' \in {frames, frames + 1}
    BY <1>6 DEF Callback, ReleasesOutput, FeedStream, EncoderOutputs, OnOutputBufferAvailable, EncodeDone
  <2> QED
    BY <1>n, <1>1, <2>1, <2>2
<1>7. CASE \E up \in BOOLEAN : SetParameter(up)
  BY <1>n, <1>1, <1>7 DEF SetParameter, Onward, codecVars
<1>8. CASE SyncEncodeBufferThread
  <2>0. frames' = frames
    BY <1>8 DEF SyncEncodeBufferThread, codecVars
  <2>1. CASE SyncTakes \/ SyncSkips
    BY <1>n, <1>1, <2>0, <2>1 DEF SyncTakes, SyncSkips, syncVars
  <2>2. CASE SyncOffers
    BY <1>n, <1>1, <2>0, <2>2 DEF SyncOffers, SkipEnds, SyncVideoFrameSuccess, Unheard, Refused
  <2>3. CASE SyncVideoFrameFailure
    <3>1. Len(buffers') <= frames' /\ Len(buffers') \in Nat
      <4>1. buffers' \in Seq(Frames)
        BY DEF NodeTyped, QueueTyped
      <4>2. Low' = LastSent /\ High' = High
        BY <1>8, <2>3 DEF SyncEncodeBufferThread, SyncVideoFrameFailure, codecVars, Low, High, LastSent, Holds, Brings
      <4>3. Ordered(buffers', LastSent, High) /\ LastSent \in Int /\ High \in Int /\ 0 <= LastSent /\ High <= frames
        <5>1. Ordered(buffers', LastSent, High)
          BY <4>2, Zenon DEF OrderInv
        <5>2. High \in Int /\ High <= frames
          BY <1>n DEF High
        <5> QED
          BY <5>1, <5>2, Numbers
      <4>4. Ordered(buffers', 0, frames)
        BY <1>n, <4>1, <4>3, OrderedQueues
      <4> QED
        BY <1>n, <2>0, <4>1, <4>4, OrderedLength
    <3>2. isSkipState_' = isSkipState_ /\ (Behind(sync') => Len(buffers') >= HalfRate)
      BY <1>n, <2>3, <3>1 DEF SyncVideoFrameFailure
    <3> QED
      BY <1>n, <2>0, <3>1, <3>2 DEF SkipInv
  <2>4. CASE KeepsKeyFrames
    BY <1>n, <1>1, <2>0, <2>4 DEF KeepsKeyFrames
  <2>5. CASE Adjusting
    <3>1. isSkipState_' = isSkipState_ /\ (Behind(sync') => Behind(sync))
      BY <2>5 DEF Adjusting, AdjustBitrate, Onward
    <3> QED
      BY <1>n, <1>1, <2>0, <3>1
  <2> QED
    BY <1>8, <2>1, <2>2, <2>3, <2>4, <2>5 DEF SyncEncodeBufferThread
<1> QED
  BY <1>2, <1>3, <1>4, <1>5, <1>6, <1>7, <1>8 DEF EncoderNext, Controls, Stops, SyncSteps

\* The codec's frames still reach the queue and leave it.
Live == encoding \/ (control \in {"idle", "encoder"} /\ error = "none")
\* The frame the codec gives next, as far as it is known.
NextFrame == [n |-> frames + 1, index |-> 0, key |-> frames = 0 /\ ~equal]
\* The frames that wait, and with them those that may still be sent.
Waiting == {buffers[i] : i \in DOMAIN buffers}
Way == {f \in {held} : Holds} \union {f \in Waiting \union {NextFrame} : Live} \union {f \in {coming} : Live /\ Brings}

\* What an encoder has sent first is a key frame; a delta frame whose predecessor is
\* missing is going to be skipped, because no earlier key frame ends the skipping.
Starts(W) == \A f \in W : f.key \/ \E g \in W : g.key /\ g.n < f.n
Follows(W, p, f) == f.n - 1 = p \/ \E g \in W : g.n = f.n - 1
Gaps(W, p, skip, last) ==
  \A f \in W : ~f.key /\ ~Follows(W, p, f) => skip /\ \A g \in W : g.key /\ g.n < f.n => g.index = last
\* No more is sent, or what is sent need not decode.
Exempt == sync = "exited" \/ causes \intersect {"lost", "revived"} # {}
\* The frames on their way decode after those that were sent.
WayInv ==
  ~Exempt => /\ sent = <<>> /\ ~equal => Starts(Way)
             /\ "keysKept" \notin causes => Gaps(Way, LastSent, isSkipState_, lastKeyFrameIndex_)

\* Whether frames are skipped after h has been offered.
Ended(skip, h, last) == skip /\ ~(h.key /\ last # h.index)

\* Of the frames on their way only the first is left.
LEMMA FewerWait ==
  ASSUME NEW W, NEW h \in W, NEW V \in SUBSET {h}, \A g \in W : h.n <= g.n /\ g.n \in Int,
         NEW p, NEW skip, NEW last
  PROVE  (Starts(W) => Starts(V)) /\ (Gaps(W, p, skip, last) => Gaps(V, p, skip, last))
BY DEF Starts, Gaps, Follows

\* The first is skipped.
LEMMA OneSkipped ==
  ASSUME NEW W, NEW h \in W, ~h.key, \A g \in W : g.n \in Int /\ (g = h \/ h.n < g.n),
         NEW p, NEW last
  PROVE  (Starts(W) => Starts(W \ {h})) /\ (Gaps(W, p, TRUE, last) => Gaps(W \ {h}, p, TRUE, last))
BY DEF Starts, Gaps, Follows

\* The first is sent.
LEMMA OneSent ==
  ASSUME NEW W, NEW h \in W, \A g \in W : g.n \in Int /\ (g = h \/ h.n < g.n),
         NEW p \in Int, p < h.n, NEW skip, NEW last, Gaps(W, p, skip, last)
  PROVE  Gaps(W \ {h}, h.n, Ended(skip, h, last), last)
BY DEF Gaps, Follows, Ended

\* The first is offered and refused.
LEMMA OneRefused ==
  ASSUME NEW W, NEW h \in W, \A g \in W : g.n \in Int /\ (g = h \/ h.n < g.n),
         NEW p, NEW skip, NEW last, Gaps(W, p, skip, last)
  PROVE  Gaps(W, p, Ended(skip, h, last), last)
BY DEF Gaps, Ended

\* The codec gives the frame m as c, and d is next.
LEMMA OneComes ==
  ASSUME NEW R, NEW m, NEW c, NEW d, \A g \in R : g.n \in Int /\ g.n < m.n,
         m.n \in Int, c.n = m.n, m.key => c.key, d.n = m.n + 1, ~d.key,
         NEW p, NEW skip, NEW last
  PROVE  /\ Starts(R \union {m}) => Starts(R \union {c, d})
         /\ Gaps(R \union {m}, p, skip, last) => Gaps(R \union {c, d}, p, skip, last)
BY DEF Starts, Gaps, Follows

\* A frame gets its index.
LEMMA OneCounted ==
  ASSUME NEW R, NEW c, NEW d, NEW e, \A g \in R : g.n \in Int /\ g.n < c.n,
         c.n \in Int, d.n = c.n, d.key = c.key, c.key \in BOOLEAN, e.n = c.n + 1,
         NEW p, NEW skip, NEW last
  PROVE  /\ Starts(R \union {c, e}) => Starts(R \union {d, e})
         /\ Gaps(R \union {c, e}, p, skip, last) => Gaps(R \union {d, e}, p, skip, last)
BY DEF Starts, Gaps, Follows

\* Some frames are dropped, none of them a key frame.
LEMMA KeysStay ==
  ASSUME NEW W, NEW V \in SUBSET W, \A f \in W : f.key => f \in V
  PROVE  Starts(W) => Starts(V)
BY DEF Starts

\* What the operations on queues do to the set of their frames.
FramesOf(q) == {q[i] : i \in DOMAIN q}
LEMMA QueueSets ==
  ASSUME NEW q \in Seq(Frames)
  PROVE  /\ FramesOf(q) \subseteq Frames
         /\ \A f \in Frames : FramesOf(Append(q, f)) = FramesOf(q) \union {f}
         /\ \A f \in Frames : FramesOf(<<f>> \o q) = FramesOf(q) \union {f}
         /\ q # <<>> => FramesOf(q) = FramesOf(Tail(q)) \union {Head(q)}
         /\ FramesOf(KeyFrames(q)) = {f \in FramesOf(q) : f.key}
<1>q. Len(q) \in Nat /\ DOMAIN q = 1..Len(q)
  OBVIOUS
<1>1. FramesOf(q) \subseteq Frames
  BY DEF FramesOf
<1>2. ASSUME NEW f \in Frames PROVE FramesOf(Append(q, f)) = FramesOf(q) \union {f}
  <2> DEFINE r == Append(q, f)
  <2>1. DOMAIN r = 1..(Len(q) + 1) /\ r[Len(q) + 1] = f /\ \A i \in DOMAIN q : r[i] = q[i]
    BY FrameQueues
  <2> HIDE DEF r
  <2>2. \A i \in DOMAIN r : i = Len(q) + 1 \/ i \in DOMAIN q
    BY <1>q, <2>1
  <2>3. Len(q) + 1 \in DOMAIN r /\ \A i \in DOMAIN q : i \in DOMAIN r
    BY <1>q, <2>1
  <2>4. FramesOf(r) = FramesOf(q) \union {f}
    BY <2>1, <2>2, <2>3 DEF FramesOf
  <2> QED
    BY <2>4 DEF r
<1>3. ASSUME NEW f \in Frames PROVE FramesOf(<<f>> \o q) = FramesOf(q) \union {f}
  <2> DEFINE r == <<f>> \o q
  <2>1. DOMAIN r = 1..(Len(q) + 1) /\ r[1] = f /\ \A i \in DOMAIN q : r[i + 1] = q[i]
    BY FrameQueues
  <2> HIDE DEF r
  <2>2. \A i \in DOMAIN r : i = 1 \/ (i - 1 \in DOMAIN q /\ r[i] = q[i - 1])
    <3>1. \A i \in 1..(Len(q) + 1) : i = 1 \/ (i - 1 \in 1..Len(q) /\ (i - 1) + 1 = i)
      BY <1>q
    <3> QED
      BY <1>q, <2>1, <3>1
  <2>3. 1 \in DOMAIN r /\ \A i \in DOMAIN q : i + 1 \in DOMAIN r
    BY <1>q, <2>1
  <2>4. FramesOf(r) = FramesOf(q) \union {f}
    BY <2>1, <2>2, <2>3 DEF FramesOf
  <2> QED
    BY <2>4 DEF r
<1>4. ASSUME q # <<>> PROVE FramesOf(q) = FramesOf(Tail(q)) \union {Head(q)}
  <2> DEFINE r == Tail(q)
  <2>1. Len(q) >= 1 /\ Head(q) = q[1] /\ DOMAIN r = 1..(Len(q) - 1) /\ \A i \in 1..(Len(q) - 1) : r[i] = q[i + 1]
    BY <1>4, FrameQueues
  <2> HIDE DEF r
  <2>2. 1 \in DOMAIN q /\ \A i \in DOMAIN r : i + 1 \in DOMAIN q
    BY <1>q, <2>1
  <2>3. \A i \in DOMAIN q : i = 1 \/ (i - 1 \in DOMAIN r /\ r[i - 1] = q[i])
    <3>1. \A i \in 1..Len(q) : i = 1 \/ (i - 1 \in 1..(Len(q) - 1) /\ (i - 1) + 1 = i)
      BY <1>q
    <3> QED
      BY <1>q, <2>1, <3>1
  <2>4. FramesOf(q) = FramesOf(r) \union {Head(q)}
    BY <2>1, <2>2, <2>3 DEF FramesOf
  <2> QED
    BY <2>4 DEF r
<1>5. FramesOf(KeyFrames(q)) = {f \in FramesOf(q) : f.key}
  <2> DEFINE r == KeyFrames(q)
  <2>1. /\ \A j \in DOMAIN r : r[j].key /\ \E i \in 1..Len(q) : r[j] = q[i]
        /\ \A i \in 1..Len(q) : q[i].key => \E j \in DOMAIN r : r[j] = q[i]
    <3>1. KeysAmong(Frames, q, Len(q), r)
      BY KeyFramesAre
    <3> HIDE DEF r
    <3> QED
      BY <3>1, Zenon DEF KeysAmong
  <2> HIDE DEF r
  <2>2. FramesOf(r) = {f \in FramesOf(q) : f.key}
    BY <1>q, <2>1 DEF FramesOf
  <2> QED
    BY <2>2 DEF r
<1> QED
  BY <1>1, <1>2, <1>3, <1>4, <1>5

\* The frames on their way, the one held apart.
LEMMA WayOrder ==
  ASSUME NodeTyped, OrderInv
  PROVE  /\ Waiting = FramesOf(buffers) /\ Waiting \subseteq Frames
         /\ \A f \in Waiting : LastSent < f.n /\ f.n <= High /\ f.n \in Nat /\ (Holds => held.n < f.n)
         /\ \A f \in Way : f.n \in Nat
         /\ Holds => held \in Way /\ \A g \in Way : g = held \/ held.n < g.n
<1>1. Waiting = FramesOf(buffers) /\ Waiting \subseteq Frames /\ buffers \in Seq(Frames)
  BY QueueSets DEF Waiting, FramesOf, NodeTyped, QueueTyped
<1>2. \A f \in Waiting : Low < f.n /\ f.n <= High /\ f.n \in Nat
  BY <1>1, Numbers DEF Waiting, OrderInv, Ordered
<1>3. \A f \in Waiting : LastSent < f.n /\ (Holds => held.n < f.n)
  BY <1>2, Numbers DEF Low, OrderInv
<1>4. NextFrame.n = frames + 1
  BY DEF NextFrame
<1>5. \A f \in Way : f.n \in Nat
  BY <1>2, <1>4, Numbers DEF Way
<1>6. ASSUME Holds PROVE held \in Way /\ \A g \in Way : g = held \/ held.n < g.n
  <2>1. held.n <= High /\ High <= frames /\ (Brings => held.n < coming.n)
    BY <1>6, Numbers DEF OrderInv, High
  <2> QED
    BY <1>3, <1>4, <1>6, <2>1, Numbers DEF Way
<1> QED
  BY <1>1, <1>2, <1>3, <1>5, <1>6

\* WayInv holds at the start.
LEMMA WayInit == EncoderInit => WayInv
<1> SUFFICES ASSUME EncoderInit PROVE WayInv
  OBVIOUS
<1>1. ~Holds /\ ~Brings /\ Waiting = {} /\ (NextFrame.key \/ equal) /\ NextFrame.n = 1 /\ LastSent = 0
  <2>1. buffers = <<>> /\ frames = 0
    BY DEF EncoderInit
  <2>2. Waiting = {}
    BY <2>1 DEF Waiting
  <2>3. (NextFrame.key \/ equal) /\ NextFrame.n = 1
    <3>1. NextFrame.key = (frames = 0 /\ ~equal) /\ NextFrame.n = frames + 1
      BY DEF NextFrame
    <3>2. NextFrame.key \/ equal
      BY <2>1, <3>1, Zenon
    <3> QED
      BY <2>1, <3>1, <3>2
  <2> QED
    BY <2>2, <2>3 DEF EncoderInit, Holds, Brings, LastSent
<1>2. \A f \in Way : f = NextFrame
  BY <1>1 DEF Way
<1>3. ~equal => Starts(Way)
  BY <1>1, <1>2 DEF Starts
<1>4. Gaps(Way, LastSent, isSkipState_, lastKeyFrameIndex_)
  BY <1>1, <1>2 DEF Gaps, Follows
<1> QED
  BY <1>3, <1>4 DEF WayInv

\* A reason once given for a gap, and the end of the sync thread, stay.
LEMMA ExemptStays == NodeTyped /\ ControlInv /\ [EncoderNext]_encoderVars => causes \subseteq causes' /\ (Exempt => Exempt')
<1> SUFFICES ASSUME NodeTyped, ControlInv, [EncoderNext]_encoderVars
             PROVE  causes \subseteq causes' /\ (sync = "exited" => sync' = "exited")
  BY DEF Exempt
<1>1. CASE Creating
  BY <1>1 DEF Creating, StartCapture, SetsFlag, CreatePipeline
<1>2. CASE CreateSyncEncodeBufferThread
  BY <1>2 DEF CreateSyncEncodeBufferThread, ControlInv
<1>3. CASE StopEncoding \/ ReleaseVideoEncoder \/ Joins \/ StopReturns
  BY <1>3 DEF StopEncoding, ReleaseVideoEncoder, Joins, StopReturns
<1>4. CASE Empties
  BY <1>4 DEF Empties, EmptiesBuffers, Woken
<1>5. CASE ErrorHandling
  BY <1>5 DEF ErrorHandling, OnError, ErrorTests, ErrorHalts
<1>6. CASE Callback \/ ReleasesOutput \/ FeedStream \/ SendDataAsync
  BY <1>6, QuietSteps DEF Woken
<1>7. CASE SyncEncodeBufferThread
  <2>1. sync # "exited"
    BY <1>7 DEF SyncEncodeBufferThread, SyncTakes, SyncSkips, SyncOffers, SyncVideoFrameFailure, KeepsKeyFrames, Adjusting,
      AdjustBitrate
  <2> QED
    BY <1>7, <2>1, SyncMoves
<1>8. CASE \E up \in BOOLEAN : SetParameter(up)
  BY <1>8, SyncMoves
<1>9. CASE UNCHANGED encoderVars
  BY <1>9 DEF encoderVars
<1> QED
  BY <1>1, <1>2, <1>3, <1>4, <1>5, <1>6, <1>7, <1>8, <1>9 DEF EncoderNext, Controls, Stops, SyncSteps

\* A step that leaves the frames on their way, or leaves only the one held.
SkipKept == UNCHANGED <<isSkipState_, lastKeyFrameIndex_, sent>>
LEMMA WayKept ==
  ASSUME NodeTyped, OrderInv, WayInv, equal' = equal, causes \subseteq causes', Exempt => Exempt', SkipKept,
         Way' = Way \/ Way' = {} \/ (Holds /\ Way' = {held})
  PROVE  WayInv'
<1>1. LastSent' = LastSent /\ sent' = sent /\ isSkipState_' = isSkipState_ /\ lastKeyFrameIndex_' = lastKeyFrameIndex_
  BY DEF SkipKept, LastSent
<1>2. CASE Way' = Way
  BY <1>1, <1>2 DEF WayInv
<1>3. CASE Way' = {}
  BY <1>3 DEF WayInv, Starts, Gaps
<1>4. CASE Holds /\ Way' = {held}
  <2>1. held \in Way /\ \A g \in Way : held.n <= g.n /\ g.n \in Int
    BY <1>4, WayOrder, Numbers
  <2>2. Starts(Way) => Starts({held})
    BY <2>1, FewerWait
  <2>3. Gaps(Way, LastSent, isSkipState_, lastKeyFrameIndex_) => Gaps({held}, LastSent, isSkipState_, lastKeyFrameIndex_)
    BY <2>1, FewerWait
  <2> QED
    BY <1>1, <1>4, <2>2, <2>3 DEF WayInv
<1> QED
  BY <1>2, <1>3, <1>4

\* A step that touches no frame.
LEMMA FramesKept ==
  ASSUME UNCHANGED <<equal, frames, coming, buffers, held>>, Holds' = Holds, Brings' = Brings
  PROVE  /\ Live' = Live => Way' = Way
         /\ ~Live' => Way' = {} \/ (Holds /\ Way' = {held})
<1>1. Waiting' = Waiting /\ NextFrame' = NextFrame
  BY DEF Waiting, NextFrame
<1> QED
  BY <1>1 DEF Way

\* Every step keeps WayInv: what is dropped is skipped up to a key frame that
\* was encoded after it.
LEMMA WayStep == NodeTyped /\ ControlInv /\ OrderInv /\ OrderInv' /\ NodeTyped' /\ WayInv /\ [EncoderNext]_encoderVars => WayInv'
<1> SUFFICES ASSUME NodeTyped, ControlInv, OrderInv, WayInv, [EncoderNext]_encoderVars, ~Exempt' PROVE WayInv'
  BY DEF WayInv
<1>e. causes \subseteq causes' /\ (Exempt => Exempt') /\ ~Exempt /\ equal' = equal
  BY ExemptStays, EqualStays
<1>q. buffers \in Seq(Frames) /\ held \in Frames /\ coming \in Frames
  BY DEF NodeTyped, QueueTyped
<1> DEFINE Kept == UNCHANGED <<frames, coming, buffers, held>> /\ Holds' = Holds /\ Brings' = Brings /\ SkipKept
<1>1. ASSUME Kept, Live' = Live \/ ~Live' PROVE WayInv'
  BY <1>1, <1>e, FramesKept, WayKept
<1>2. CASE Creating
  <2>1. Kept
    BY <1>2 DEF Creating, codecVars, syncVars, Holds, Brings, SkipKept
  <2>2. CASE StartCapture
    BY <1>1, <1>2, <2>1, <2>2 DEF StartCapture, Creating, InitEncoder, CodecsEqual, NotConvertible, Live, ControlInv, Past
  <2>3. CASE SetsFlag
    BY <1>1, <1>2, <2>1, <2>3 DEF SetsFlag, Creating, Live, ControlInv, Exempt
  <2>4. CASE CreatePipeline
    BY <1>1, <1>2, <2>1, <2>4 DEF CreatePipeline, Creating, Live
  <2> QED
    BY <1>2, <2>2, <2>3, <2>4 DEF Creating
<1>3. CASE CreateSyncEncodeBufferThread
  <2>1. Kept
    <3>1. Holds' = Holds
      <4>1. sync = "off" /\ sync' = "top"
        BY <1>3 DEF CreateSyncEncodeBufferThread, ControlInv
      <4> QED
        BY <4>1 DEF Holds
    <3> QED
      BY <1>3, <3>1 DEF CreateSyncEncodeBufferThread, codecVars, syncVars, Brings, SkipKept
  <2> QED
    BY <1>1, <1>3, <2>1 DEF CreateSyncEncodeBufferThread, Live
<1>4. CASE StopEncoding \/ ReleaseVideoEncoder \/ Joins \/ StopReturns
  <2>1. Kept
    BY <1>4 DEF StopEncoding, ReleaseVideoEncoder, Joins, StopReturns, codecVars, syncVars, Holds, Brings, SkipKept
  <2>2. Live' = Live \/ ~Live'
    BY <1>4 DEF StopEncoding, ReleaseVideoEncoder, Joins, StopReturns, Live
  <2> QED
    BY <1>1, <2>1, <2>2
<1>5. CASE Empties
  <2>1. Holds' = Holds /\ UNCHANGED <<held>> /\ SkipKept
    BY <1>5 DEF Empties, EmptiesBuffers, Woken, Holds, SkipKept, syncVars
  <2>2. ~Live'
    BY <1>5 DEF Empties, EmptiesBuffers, Live, ControlInv, Past, Exempt, nodeVars
  <2>3. Way' = {} \/ (Holds /\ Way' = {held})
    BY <2>1, <2>2 DEF Way
  <2> QED
    BY <1>e, <2>1, <2>3, WayKept
<1>6. CASE ErrorHandling \/ SendDataAsync \/ UNCHANGED encoderVars
  <2>1. Kept
    BY <1>6 DEF ErrorHandling, OnError, ErrorTests, ErrorHalts, SendDataAsync, encoderVars, codecVars, syncVars, Holds, Brings,
      SkipKept
  <2>2. Live' = Live \/ ~Live'
    BY <1>6 DEF ErrorHandling, OnError, ErrorTests, ErrorHalts, SendDataAsync, encoderVars, nodeVars, Live
  <2> QED
    BY <1>1, <2>1, <2>2
<1>7. ASSUME NEW up \in BOOLEAN, SetParameter(up) PROVE WayInv'
  <2>1. Kept
    BY <1>7 DEF SetParameter, Onward, codecVars, Holds, Brings, SkipKept
  <2>2. Live' = Live
    BY <1>7 DEF SetParameter, nodeVars, Live
  <2> QED
    BY <1>1, <2>1, <2>2
<1>8. CASE Callback \/ ReleasesOutput \/ FeedStream
  <2>0. UNCHANGED <<held>> /\ SkipKept /\ Live' = Live /\ Holds' = Holds
    BY <1>8 DEF Callback, ReleasesOutput, FeedStream, ProcessData, nodeVars, syncVars, Live, Holds, Woken, SkipKept,
      EncoderOutputs, OnOutputBufferAvailable, EncodeDone
  <2>1. ASSUME ~Live PROVE WayInv'
    <3>1. Way' = Way
      BY <2>0, <2>1 DEF Way
    <3> QED
      BY <1>e, <2>0, <3>1, WayKept
  <2>2. ASSUME NEW c, c.n = frames + 1, frames = 0 /\ ~equal => c.key, frames' = frames + 1, Live, ~Brings,
               \/ buffers' = buffers /\ Brings' /\ coming' = c
               \/ c \in Frames /\ buffers' = Append(buffers, c) /\ ~Brings'
        PROVE  WayInv'
    <3> DEFINE R == {f \in {held} : Holds} \union Waiting
    <3>1. Way = R \union {NextFrame}
      BY <2>2 DEF Way
    <3>2. Waiting' = FramesOf(buffers') /\ Waiting = FramesOf(buffers)
      BY DEF Waiting, FramesOf
    <3>3. Way' = R \union {c, NextFrame'}
      <4>1. CASE buffers' = buffers /\ Brings' /\ coming' = c
        BY <2>0, <2>2, <3>2, <4>1 DEF Way
      <4>2. CASE c \in Frames /\ buffers' = Append(buffers, c) /\ ~Brings'
        <5>1. Waiting' = Waiting \union {c}
          BY <1>q, <3>2, <4>2, QueueSets
        <5> QED
          BY <2>0, <2>2, <4>2, <5>1 DEF Way
      <4> QED
        BY <2>2, <4>1, <4>2
    <3>4. NextFrame.n = frames + 1 /\ NextFrame'.n = frames + 2 /\ ~NextFrame'.key /\ (NextFrame.key => c.key)
      <4>1. NextFrame.n = frames + 1 /\ NextFrame'.n = frames' + 1 /\ NextFrame.key = (frames = 0 /\ ~equal)
            /\ NextFrame'.key = (frames' = 0 /\ ~equal')
        BY DEF NextFrame
      <4>2. frames \in Nat /\ frames' = frames + 1 /\ frames' # 0 /\ frames' + 1 = frames + 2
        BY <2>2, Numbers
      <4> QED
        BY <2>2, <4>1, <4>2
    <3>5. \A g \in R : g.n \in Int /\ g.n < NextFrame.n
      <4>1. High = frames /\ (Holds => held.n <= frames)
        BY <2>2, Numbers DEF High, OrderInv
      <4> QED
        BY <3>4, <4>1, WayOrder, Numbers
    <3>6. LastSent' = LastSent /\ sent' = sent /\ isSkipState_' = isSkipState_ /\ lastKeyFrameIndex_' = lastKeyFrameIndex_
      BY <2>0 DEF SkipKept, LastSent
    <3>7. NextFrame.n \in Int /\ c.n = NextFrame.n /\ NextFrame'.n = NextFrame.n + 1
      BY <2>2, <3>4, Numbers
    <3> HIDE DEF R
    <3>8. Starts(Way) => Starts(Way')
      BY <3>1, <3>3, <3>4, <3>5, <3>7, OneComes
    <3>9. Gaps(Way, LastSent, isSkipState_, lastKeyFrameIndex_) => Gaps(Way', LastSent, isSkipState_, lastKeyFrameIndex_)
      BY <3>1, <3>3, <3>4, <3>5, <3>7, OneComes
    <3> QED
      BY <1>e, <3>6, <3>8, <3>9 DEF WayInv
  <2>3. CASE EncoderOutputs /\ Callback
    <3>1. ~Brings /\ Brings' /\ buffers' = buffers /\ frames' = frames + 1 /\ coming'.n = frames + 1
          /\ (frames = 0 => coming'.key)
      BY <2>3 DEF EncoderOutputs, Brings
    <3> QED
      BY <2>1, <2>2, <3>1
  <2>4. CASE OnOutputBufferAvailable /\ Callback
    <3>1. CASE GivesUp
      BY <3>1, <1>e DEF GivesUp, Exempt
    <3>2. CASE GetEncoderOutputBuffer /\ Live
      <4>1. Brings /\ Brings' /\ UNCHANGED <<frames, buffers>> /\ coming' = [coming EXCEPT !.index = index_]
        BY <2>4, <3>2 DEF OnOutputBufferAvailable, GetEncoderOutputBuffer, Brings
      <4>2. coming'.n = coming.n /\ coming'.key = coming.key /\ coming.key \in BOOLEAN /\ coming.n = frames /\ coming.n \in Int
        BY <1>q, <4>1, Numbers DEF Frames, OrderInv
      <4> DEFINE R == {f \in {held} : Holds} \union Waiting
      <4>3. Waiting' = Waiting /\ NextFrame' = NextFrame /\ NextFrame.n = coming.n + 1
        BY <1>e, <4>1, <4>2 DEF Waiting, NextFrame
      <4>4. Way = R \union {coming, NextFrame}
        BY <3>2, <4>1 DEF Way
      <4>5. Way' = R \union {coming', NextFrame}
        BY <2>0, <3>2, <4>1, <4>3 DEF Way
      <4>6. \A g \in R : g.n \in Int /\ g.n < coming.n
        <5>1. High = frames - 1 /\ (Holds => held.n <= frames - 1)
          BY <4>1, Numbers DEF High, OrderInv
        <5> QED
          BY <4>2, <5>1, WayOrder, Numbers
      <4>7. LastSent' = LastSent /\ sent' = sent /\ isSkipState_' = isSkipState_ /\ lastKeyFrameIndex_' = lastKeyFrameIndex_
        BY <2>0 DEF SkipKept, LastSent
      <4> HIDE DEF R
      <4>8. Starts(Way) => Starts(Way')
        BY <4>2, <4>3, <4>4, <4>5, <4>6, OneCounted
      <4>9. Gaps(Way, LastSent, isSkipState_, lastKeyFrameIndex_) => Gaps(Way', LastSent, isSkipState_, lastKeyFrameIndex_)
        BY <4>2, <4>3, <4>4, <4>5, <4>6, OneCounted
      <4> QED
        BY <1>e, <4>7, <4>8, <4>9 DEF WayInv
    <3> QED
      BY <2>1, <2>4, <3>1, <3>2 DEF OnOutputBufferAvailable
  <2>5. CASE EncodeDone /\ Callback
    <3>1. Brings /\ ~Brings' /\ frames' = frames /\ buffers' = Append(buffers, coming)
      BY <2>5 DEF EncodeDone, Brings
    <3>2. Waiting' = Waiting \union {coming} /\ NextFrame' = NextFrame
      BY <1>e, <1>q, <3>1, QueueSets DEF Waiting, FramesOf, NextFrame
    <3>3. Way' = Way
      BY <2>0, <3>1, <3>2 DEF Way
    <3> QED
      BY <1>e, <2>0, <3>3, WayKept
  <2>6. CASE ReleasesOutput
    <3>1. Kept
      BY <2>0, <2>6 DEF ReleasesOutput, Brings
    <3> QED
      BY <1>1, <2>0, <3>1
  <2>7. CASE FeedStream
    <3> DEFINE f == [n |-> frames + 1, index |-> 0, key |-> FALSE]
    <3>1. callback = "none" /\ callback' = callback
      BY <2>7 DEF FeedStream, ControlInv, Past
    <3>2. f \in Frames /\ f.n = frames + 1 /\ equal
      BY <2>7, Numbers, BoundsAssumption DEF FeedStream, Frames
    <3>3. buffers' = Append(buffers, f) /\ frames' = frames + 1
      BY <2>7 DEF FeedStream, ProcessData
    <3> HIDE DEF f
    <3> QED
      BY <2>1, <2>2, <3>1, <3>2, <3>3 DEF Brings
  <2> QED
    BY <1>8, <2>3, <2>4, <2>5, <2>6, <2>7 DEF Callback
<1>9. CASE SyncEncodeBufferThread
  <2>0. UNCHANGED <<frames, coming>> /\ Brings' = Brings /\ Live' = Live /\ NextFrame' = NextFrame
    BY <1>e, <1>9 DEF SyncEncodeBufferThread, codecVars, nodeVars, Brings, Live, NextFrame
  <2>q. Waiting = FramesOf(buffers) /\ Waiting' = FramesOf(buffers')
    BY DEF Waiting, FramesOf
  <2>s. LastSent' = LastSent \/ sent' # sent
    BY DEF LastSent
  <2>h. ASSUME Holds, ~Holds', buffers' = buffers PROVE Way' = Way \ {held}
    <3>1. held \notin Waiting /\ held # NextFrame /\ (Brings => held # coming)
      <4>1. held.n <= High /\ NextFrame.n = frames + 1
        BY <2>h DEF OrderInv, NextFrame
      <4>2. held.n # NextFrame.n /\ (Brings => held.n # coming.n)
        BY <4>1, Numbers DEF OrderInv, High
      <4> QED
        BY <2>h, <4>2, WayOrder, Numbers
    <3>2. Waiting' = Waiting
      BY <2>h, <2>q
    <3> QED
      BY <2>0, <2>h, <3>1, <3>2 DEF Way
  <2>1. CASE SyncTakes
    <3>1. CASE sync' = "exited"
      BY <1>e, <3>1 DEF Exempt
    <3>2. CASE sync' = "asleep"
      <4>1. Kept
        BY <2>0, <2>1, <3>2 DEF SyncTakes, Holds, SkipKept, syncVars
      <4> QED
        BY <1>1, <2>0, <4>1
    <3>3. CASE sync' = "offer"
      <4>1. buffers # <<>> /\ held' = Head(buffers) /\ buffers' = Tail(buffers) /\ ~Holds /\ Holds' /\ encoding
        BY <2>1, <3>3 DEF SyncTakes, Holds
      <4>2. Waiting = Waiting' \union {held'}
        BY <1>q, <2>q, <4>1, QueueSets
      <4>3. Way' = Way
        BY <2>0, <4>1, <4>2 DEF Way, Live
      <4>4. SkipKept
        BY <2>1 DEF SyncTakes, SkipKept, syncVars
      <4> QED
        BY <1>e, <4>3, <4>4, WayKept
    <3> QED
      BY <2>1, <3>1, <3>2, <3>3 DEF SyncTakes
  <2>2. CASE SyncSkips
    <3>1. Holds /\ ~Holds' /\ buffers' = buffers /\ SkipKept /\ ~held.key /\ isSkipState_
      BY <2>2 DEF SyncSkips, Holds, SkipKept, syncVars, Skipped
    <3>2. Way' = Way \ {held} /\ LastSent' = LastSent
      BY <2>h, <3>1 DEF SkipKept, LastSent
    <3>3. held \in Way /\ \A g \in Way : g.n \in Int /\ (g = held \/ held.n < g.n)
      BY <3>1, WayOrder
    <3>4. Starts(Way) => Starts(Way')
      BY <3>1, <3>2, <3>3, OneSkipped
    <3>5. Gaps(Way, LastSent, TRUE, lastKeyFrameIndex_) => Gaps(Way', LastSent, TRUE, lastKeyFrameIndex_)
      BY <3>1, <3>2, <3>3, OneSkipped
    <3>6. isSkipState_ = TRUE /\ isSkipState_' = TRUE /\ lastKeyFrameIndex_' = lastKeyFrameIndex_ /\ sent' = sent
      BY <3>1 DEF SkipKept, NodeTyped, SyncTyped
    <3> QED
      BY <1>e, <3>2, <3>4, <3>5, <3>6 DEF WayInv
  <2>3. CASE SyncOffers
    <3>0. Holds /\ UNCHANGED <<buffers, lastKeyFrameIndex_>>
      BY <2>3 DEF SyncOffers, Holds
    <3>1. isSkipState_' = Ended(isSkipState_, held, lastKeyFrameIndex_)
      BY <2>3 DEF SyncOffers, SkipEnds, Ended, KeyIndex
    <3>2. held \in Way /\ \A g \in Way : g.n \in Int /\ (g = held \/ held.n < g.n)
      BY <3>0, WayOrder
    <3>3. CASE SyncVideoFrameSuccess
      <4>1. ~Holds' /\ sent' = Posting
        BY <3>3 DEF SyncVideoFrameSuccess, Holds
      <4>2. sent' # <<>> /\ LastSent' = held.n
        <5>1. Len(sent') \in {1, 2} /\ sent'[Len(sent')] = held
          BY <4>1, PostingFits DEF NodeTyped, QueueTyped
        <5>2. sent' # <<>>
          BY <5>1
        <5> QED
          BY <5>1, <5>2 DEF LastSent
      <4>3. Way' = Way \ {held}
        BY <2>h, <3>0, <4>1
      <4>4. LastSent < held.n /\ LastSent \in Int
        BY <3>0, Numbers DEF OrderInv
      <4>5. Gaps(Way, LastSent, isSkipState_, lastKeyFrameIndex_)
              => Gaps(Way', held.n, Ended(isSkipState_, held, lastKeyFrameIndex_), lastKeyFrameIndex_)
        BY <3>2, <4>3, <4>4, OneSent
      <4> QED
        BY <1>e, <3>0, <3>1, <4>2, <4>5 DEF WayInv
    <3>4. CASE Unheard
      BY <1>e, <3>4 DEF Unheard, Exempt
    <3>5. CASE Refused
      <4>1. Holds' /\ UNCHANGED <<held, sent>>
        BY <3>5 DEF Refused, Holds
      <4>2. Way' = Way /\ LastSent' = LastSent
        BY <2>0, <2>q, <3>0, <4>1 DEF Way, LastSent
      <4>3. Gaps(Way, LastSent, isSkipState_, lastKeyFrameIndex_)
              => Gaps(Way, LastSent, Ended(isSkipState_, held, lastKeyFrameIndex_), lastKeyFrameIndex_)
        BY <3>2, OneRefused
      <4> QED
        BY <1>e, <3>0, <3>1, <4>1, <4>2, <4>3 DEF WayInv
    <3> QED
      BY <2>3, <3>3, <3>4, <3>5 DEF SyncOffers
  <2>4. CASE SyncVideoFrameFailure
    <3>1. Holds /\ ~Holds' /\ buffers' = <<held>> \o buffers /\ SkipKept
      BY <2>4 DEF SyncVideoFrameFailure, Holds, SkipKept
    <3>2. Waiting' = Waiting \union {held}
      BY <1>q, <2>q, <3>1, QueueSets
    <3>3. Way' = Way \/ Way' = {}
      BY <2>0, <3>1, <3>2 DEF Way
    <3> QED
      BY <1>e, <3>1, <3>3, WayKept
  <2>5. CASE KeepsKeyFrames
    <3> DEFINE kept == KeyFrames(buffers)
    <3>1. /\ ~Holds /\ ~Holds' /\ sent' = sent /\ buffers' = kept /\ isSkipState_' = TRUE
          /\ lastKeyFrameIndex_' = IF kept = <<>> THEN lastKeyFrameIndex_ ELSE kept[Len(kept)].index
          /\ Len(kept) > 1 => "keysKept" \in causes'
      BY <2>5 DEF KeepsKeyFrames, Holds
    <3>2. kept \in Seq(Frames)
      BY <1>q, KeyFramesAre DEF KeysAmong
    <3>3. Waiting' = {f \in Waiting : f.key}
      BY <1>q, <2>q, <3>1, QueueSets
    <3>4. LastSent' = LastSent
      BY <3>1 DEF LastSent
    <3>5. Starts(Way) => Starts(Way')
      <4>1. Way' \subseteq Way
        BY <2>0, <3>1, <3>3 DEF Way
      <4>2. \A f \in Way : f.key => f \in Way'
        BY <2>0, <3>1, <3>3 DEF Way
      <4> QED
        BY <4>1, <4>2, KeysStay
    <3>6. ASSUME Len(kept) <= 1 PROVE Gaps(Way', LastSent, TRUE, lastKeyFrameIndex_')
      <4> SUFFICES ASSUME NEW f \in Way', ~f.key, ~Follows(Way', LastSent, f), NEW g \in Way', g.key, g.n < f.n
                   PROVE  g.index = lastKeyFrameIndex_'
        BY DEF Gaps
      <4>1. Live /\ (f = NextFrame \/ (f = coming /\ Brings))
        <5>1. f \notin Waiting' /\ ~Holds'
          BY <3>1, <3>3
        <5>2. (f \in Waiting' \union {NextFrame'} /\ Live') \/ (f \in {coming'} /\ Live' /\ Brings')
          BY <5>1 DEF Way
        <5> QED
          BY <2>0, <5>1, <5>2
      <4>2. g \in Waiting' \/ (g = coming /\ Brings) \/ g = NextFrame
        BY <2>0, <3>1, <4>1 DEF Way
      <4>3. NextFrame.n = frames + 1 /\ (Brings => coming.n = frames)
        BY DEF NextFrame, OrderInv
      <4>4. g \in Waiting'
        <5>1. g # NextFrame
          BY <4>1, <4>3, Numbers
        <5>2. CASE g = coming /\ Brings
          <6>1. f = NextFrame /\ g.n = f.n - 1
            BY <4>1, <4>3, <5>2, Numbers
          <6> QED
            BY <6>1 DEF Follows
        <5> QED
          BY <4>2, <5>1, <5>2
      <4>5. PICK i \in DOMAIN kept : g = kept[i]
        BY <2>q, <3>1, <4>4 DEF FramesOf
      <4>6. i = Len(kept) /\ kept # <<>>
        BY <3>2, <3>6
      <4> QED
        BY <3>1, <4>5, <4>6
    <3> HIDE DEF kept
    <3>7. Len(kept) \in Nat
      BY <3>2
    <3>8. "keysKept" \notin causes' => "keysKept" \notin causes /\ Len(kept) <= 1
      BY <1>e, <3>1, <3>7
    <3>9. "keysKept" \notin causes' => Gaps(Way', LastSent', isSkipState_', lastKeyFrameIndex_')
      BY <3>1, <3>4, <3>6, <3>8
    <3>10. sent' = <<>> /\ ~equal' => Starts(Way')
      BY <1>e, <3>1, <3>5 DEF WayInv
    <3> QED
      BY <3>9, <3>10 DEF WayInv
  <2>6. CASE Adjusting
    <3>1. Holds' = Holds
      <4>1. sync \in {"raise", "lower"} /\ sync' \in {"top", "drop", "raising", "lowering"}
        BY <2>6 DEF Adjusting, AdjustBitrate, Onward
      <4> QED
        BY <4>1 DEF Holds
    <3>2. Kept
      BY <2>0, <2>6, <3>1 DEF Adjusting, SkipKept
    <3> QED
      BY <1>1, <2>0, <3>2
  <2> QED
    BY <1>9, <2>1, <2>2, <2>3, <2>4, <2>5, <2>6 DEF SyncEncodeBufferThread
<1> QED
  BY <1>2, <1>3, <1>4, <1>5, <1>6, <1>7, <1>8, <1>9 DEF EncoderNext, Controls, Stops, SyncSteps

\* The first frame sent is a key frame, and the next one follows it or is one.
LEMMA SentStep ==
  NodeTyped /\ ControlInv /\ OrderInv /\ WayInv /\ SentFramesDecode /\ [EncoderNext]_encoderVars => SentFramesDecode'
<1> SUFFICES ASSUME NodeTyped, ControlInv, OrderInv, WayInv, SentFramesDecode, [EncoderNext]_encoderVars PROVE SentFramesDecode'
  OBVIOUS
<1>e. causes \subseteq causes' /\ equal' = equal
  BY ExemptStays, EqualStays
<1>1. CASE sent' = sent
  BY <1>e, <1>1 DEF SentFramesDecode
<1>2. CASE SyncOffers /\ SyncVideoFrameSuccess /\ sent' = Posting
  <2>1. Holds /\ sync # "exited" /\ ~Skipped(held) /\ causes' = causes
    BY <1>2 DEF SyncOffers, SyncVideoFrameSuccess, Holds
  <2>2. held \in Way /\ \A g \in Way : g = held \/ held.n < g.n
    BY <2>1, WayOrder
  <2>3. \A g \in Way : g.n \in Int /\ g.n # held.n - 1 /\ ~(g.n < held.n)
    BY <2>2, WayOrder, Numbers
  <2>p. sent \in Seq(Frames) /\ Len(sent) <= 2 /\ held \in Frames
    BY DEF NodeTyped, QueueTyped
  <2>4. CASE sent = <<>>
    <3>1. Len(sent') = 1 /\ sent'[1] = held
      BY <1>2, <2>p, <2>4, PostingFits
    <3>2. held.key \/ equal \/ Exempt
      BY <2>2, <2>3, <2>4 DEF WayInv, Starts
    <3> QED
      BY <1>e, <2>1, <3>1, <3>2 DEF SentFramesDecode, Exempt
  <2>5. CASE sent # <<>>
    <3>1. Len(sent') = 2 /\ sent'[1] = sent[Len(sent)] /\ sent'[2] = held
      BY <1>2, <2>p, <2>5, PostingFits
    <3>2. sent'[1].n = LastSent /\ LastSent < held.n
      BY <2>1, <2>5, <3>1 DEF LastSent, OrderInv
    <3>3. ASSUME ~Exempt, "keysKept" \notin causes, ~held.key PROVE held.n = LastSent + 1
      <4>1. ~isSkipState_
        BY <2>1, <3>3 DEF Skipped
      <4>2. Follows(Way, LastSent, held)
        BY <2>2, <3>3, <4>1 DEF WayInv, Gaps
      <4> QED
        BY <2>3, <4>2, Numbers DEF Follows
    <3>4. held.key \/ held.n = LastSent + 1 \/ causes \intersect {"lost", "keysKept", "revived"} # {}
      BY <2>1, <3>3 DEF Exempt
    <3> QED
      BY <2>1, <3>1, <3>2, <3>4 DEF SentFramesDecode
  <2> QED
    BY <2>4, <2>5
<1>3. CASE SyncEncodeBufferThread
  BY <1>1, <1>2, <1>3 DEF SyncEncodeBufferThread, SyncTakes, SyncSkips, SyncOffers, SyncVideoFrameSuccess, Unheard, Refused,
    SyncVideoFrameFailure, KeepsKeyFrames, Adjusting
<1>4. CASE Controls \/ StopEncoding \/ Stops \/ ErrorHandling
  BY <1>1, <1>4 DEF Controls, Creating, CreateSyncEncodeBufferThread, StopEncoding, Stops, ReleaseVideoEncoder, Empties, Joins,
    StopReturns, ErrorHandling, OnError, ErrorTests, ErrorHalts
<1>5. CASE Callback \/ ReleasesOutput \/ FeedStream \/ SendDataAsync \/ SetParameter(TRUE) \/ SetParameter(FALSE)
           \/ UNCHANGED encoderVars
  BY <1>1, <1>5 DEF Callback, ReleasesOutput, FeedStream, SendDataAsync, SetParameter, encoderVars
<1> QED
  BY <1>3, <1>4, <1>5 DEF EncoderNext, SyncSteps

\* What the runs of the node keep to.
EncoderInv == NodeTyped /\ ControlInv /\ OrderInv /\ WayInv /\ ThreadServes /\ SkipInv /\ SentFramesDecode
LEMMA EncoderInvInit == EncoderInit => EncoderInv
<1> SUFFICES ASSUME EncoderInit PROVE EncoderInv
  OBVIOUS
<1>1. ThreadServes /\ SkipInv
  BY DEF EncoderInit, ThreadServes, SkipInv
<1>2. SentFramesDecode
  <2>1. sent = <<>>
    BY DEF EncoderInit
  <2>2. Len(sent) = 0
    BY <2>1
  <2> QED
    BY <2>2 DEF SentFramesDecode
<1> QED
  BY <1>1, <1>2, NodeTypedInit, ControlInit, OrderInit, WayInit DEF EncoderInv

\* Every step keeps the invariant.
LEMMA EncoderInvStep == EncoderInv /\ [EncoderNext]_encoderVars => EncoderInv'
<1> SUFFICES ASSUME EncoderInv, [EncoderNext]_encoderVars PROVE EncoderInv'
  OBVIOUS
<1>1. NodeTyped' /\ ControlInv' /\ OrderInv'
  BY NodeTypedStep, ControlStep, OrderStep DEF EncoderInv, NodeTyped
<1>2. WayInv'
  BY <1>1, WayStep DEF EncoderInv
<1>3. ThreadServes' /\ SkipInv' /\ SentFramesDecode'
  BY <1>1, ServesStep, SkipStep, SentStep DEF EncoderInv, NodeTyped
<1> QED
  BY <1>1, <1>2, <1>3 DEF EncoderInv

\* Every variable of the encode node keeps to its type, and no more frames
\* wait than the codec has given.
THEOREM EncoderTypeCorrect == EncoderSpec => []EncoderTypeOK
<1>1. EncoderInv => EncoderTypeOK
  BY QueueIsBounded DEF EncoderInv
<1> QED
  BY <1>1, EncoderInvInit, EncoderInvStep, PTL DEF EncoderSpec

\* While the node runs and the codec has not failed the sync thread serves the
\* queue, and a released encoder is left alone until the release, however long
\* the queue, the frame rate and the bit rates.
THEOREM SyncThreadAlwaysServes == EncoderSpec => []SyncThreadServes
<1>1. EncoderInv => SyncThreadServes
  BY DEF EncoderInv, ThreadServes, SkipInv, SyncThreadServes, Past
<1> QED
  BY <1>1, EncoderInvInit, EncoderInvStep, PTL DEF EncoderSpec

\* The frames EncodeDataProcess posts decode one after the other, for any
\* number of frames, refusals and losses of the queue, but for the irregular
\* events the property names.
THEOREM SentFramesAlwaysDecode == EncoderSpec => []SentFramesDecode
<1>1. EncoderInv => SentFramesDecode
  BY DEF EncoderInv
<1> QED
  BY <1>1, EncoderInvInit, EncoderInvStep, PTL DEF EncoderSpec

----------------------------------------------------------------------------
(* What the sink announces: Sublist and MatchedBitrate by induction on      *)
(* numbers, then the item, the stream and the limits it meets.             *)

\* g goes through the first n of a list as Sublist does, and through the first n
\* sizes of the table as MatchedBitrate does.
IsSublist(list, S, n, g) ==
  g = [i \in 0..n |-> IF i = 0 THEN <<>> ELSE IF list[i] \in S THEN Append(g[i - 1], list[i]) ELSE g[i - 1]]
Size(i) == ENCODER_BITRATE_TABLE[i].size
Bitrate(i) == ENCODER_BITRATE_TABLE[i].bitrate
IsMatch(size, n, g) == g = [i \in 0..n |-> IF i = 0 THEN Largest(size) ELSE Better(size, g[i - 1], i)]

\* The recursive definition of Sublist defines a function.
LEMMA SublistExists ==
  ASSUME NEW list, NEW S0, NEW n \in Nat PROVE \E g : IsSublist(list, S0, n, g)
<1> DEFINE S == {m \in Nat : \E g : IsSublist(list, S0, m, g)}
<1>1. 0 \in S
  <2> DEFINE g == [i \in 0..0 |-> <<>>]
  <2>1. IsSublist(list, S0, 0, g)
    BY DEF IsSublist
  <2> QED
    BY <2>1
<1>2. ASSUME NEW m \in S PROVE m + 1 \in S
  <2>1. PICK g : IsSublist(list, S0, m, g)
    OBVIOUS
  <2> DEFINE More(r, i) == IF list[i] \in S0 THEN Append(r, list[i]) ELSE r
             h == [i \in 0..(m + 1) |-> IF i <= m THEN g[i] ELSE More(g[m], m + 1)]
  <2>2. m \in Nat /\ m + 1 \in Nat
    OBVIOUS
  <2>3. \A i \in 0..m : g[i] = IF i = 0 THEN <<>> ELSE More(g[i - 1], i)
    BY <2>1, <2>2 DEF IsSublist
  <2>4. \A i \in 0..m : h[i] = g[i]
    BY <2>2
  <2>5. h[m + 1] = More(g[m], m + 1)
    BY <2>2
  <2> HIDE DEF More
  <2>6. ASSUME NEW i \in 0..(m + 1) PROVE h[i] = IF i = 0 THEN <<>> ELSE More(h[i - 1], i)
    <3>1. CASE i = m + 1
      <4>1. h[i - 1] = g[m] /\ i # 0
        BY <3>1, <2>2, <2>4
      <4> QED
        BY <3>1, <4>1, <2>5
    <3>2. CASE i \in 0..m
      <4>1. i # 0 => i - 1 \in 0..m
        BY <3>2, <2>2
      <4>2. h[i] = g[i] /\ (i # 0 => h[i - 1] = g[i - 1])
        BY <3>2, <4>1, <2>4
      <4> HIDE DEF h
      <4> QED
        BY <3>2, <4>2, <2>3
    <3> QED
      BY <3>1, <3>2, <2>2
  <2>7. h = [i \in 0..(m + 1) |-> IF i = 0 THEN <<>> ELSE More(h[i - 1], i)]
    <3>1. h = [i \in 0..(m + 1) |-> h[i]]
      OBVIOUS
    <3> HIDE DEF h
    <3> QED
      BY <3>1, <2>6
  <2>8. IsSublist(list, S0, m + 1, h)
    <3> HIDE DEF h
    <3> QED
      BY <2>7 DEF IsSublist, More
  <2> QED
    BY <2>8
<1>3. S = Nat
  <2> HIDE DEF S
  <2>1. S \in SUBSET Nat
    BY DEF S
  <2> QED
    BY <1>1, <1>2, <2>1, NumberInduction
<1> QED
  BY <1>3

\* The recursive definition of MatchedBitrate defines a function.
LEMMA MatchExists ==
  ASSUME NEW size, NEW n \in Nat PROVE \E g : IsMatch(size, n, g)
<1> DEFINE S == {m \in Nat : \E g : IsMatch(size, m, g)}
<1>1. 0 \in S
  <2> DEFINE g == [i \in 0..0 |-> Largest(size)]
  <2>1. IsMatch(size, 0, g)
    BY DEF IsMatch
  <2> QED
    BY <2>1
<1>2. ASSUME NEW m \in S PROVE m + 1 \in S
  <2>1. PICK g : IsMatch(size, m, g)
    OBVIOUS
  <2> DEFINE More(r, i) == Better(size, r, i)
             h == [i \in 0..(m + 1) |-> IF i <= m THEN g[i] ELSE More(g[m], m + 1)]
  <2>2. m \in Nat /\ m + 1 \in Nat
    OBVIOUS
  <2>3. \A i \in 0..m : g[i] = IF i = 0 THEN Largest(size) ELSE More(g[i - 1], i)
    BY <2>1, <2>2 DEF IsMatch
  <2>4. \A i \in 0..m : h[i] = g[i]
    BY <2>2
  <2>5. h[m + 1] = More(g[m], m + 1)
    BY <2>2
  <2> HIDE DEF More
  <2>6. ASSUME NEW i \in 0..(m + 1) PROVE h[i] = IF i = 0 THEN Largest(size) ELSE More(h[i - 1], i)
    <3>1. CASE i = m + 1
      <4>1. h[i - 1] = g[m] /\ i # 0
        BY <3>1, <2>2, <2>4
      <4> QED
        BY <3>1, <4>1, <2>5
    <3>2. CASE i \in 0..m
      <4>1. i # 0 => i - 1 \in 0..m
        BY <3>2, <2>2
      <4>2. h[i] = g[i] /\ (i # 0 => h[i - 1] = g[i - 1])
        BY <3>2, <4>1, <2>4
      <4> HIDE DEF h
      <4> QED
        BY <3>2, <4>2, <2>3
    <3> QED
      BY <3>1, <3>2, <2>2
  <2>7. h = [i \in 0..(m + 1) |-> IF i = 0 THEN Largest(size) ELSE More(h[i - 1], i)]
    <3>1. h = [i \in 0..(m + 1) |-> h[i]]
      OBVIOUS
    <3> HIDE DEF h
    <3> QED
      BY <3>1, <2>6
  <2>8. IsMatch(size, m + 1, h)
    <3> HIDE DEF h
    <3> QED
      BY <2>7 DEF IsMatch, More
  <2> QED
    BY <2>8
<1>3. S = Nat
  <2> HIDE DEF S
  <2>1. S \in SUBSET Nat
    BY DEF S
  <2> QED
    BY <1>1, <1>2, <2>1, NumberInduction
<1> QED
  BY <1>3

\* Sublist returns a list of what is in both.
LEMMA SublistIs ==
  ASSUME NEW T, NEW list \in Seq(T), NEW S0
  PROVE  Sublist(list, S0) \in Seq(Members(list) \cap S0)
<1> DEFINE U == Members(list) \cap S0
           kept == CHOOSE g : g = [i \in 0..Len(list) |->
                      IF i = 0 THEN <<>> ELSE IF list[i] \in S0 THEN Append(g[i - 1], list[i]) ELSE g[i - 1]]
<1>1. \E g : g = [i \in 0..Len(list) |->
                      IF i = 0 THEN <<>> ELSE IF list[i] \in S0 THEN Append(g[i - 1], list[i]) ELSE g[i - 1]]
  <2>1. Len(list) \in Nat
    OBVIOUS
  <2>2. \E g : IsSublist(list, S0, Len(list), g)
    BY <2>1, SublistExists
  <2> QED
    BY <2>2, Zenon DEF IsSublist
<1>2. IsSublist(list, S0, Len(list), kept)
  BY <1>1, Zenon DEF IsSublist
<1>3. Sublist(list, S0) = kept[Len(list)]
  BY DEF Sublist
<1> HIDE DEF kept
<1>4. \A i \in 0..Len(list) :
        kept[i] = IF i = 0 THEN <<>> ELSE IF list[i] \in S0 THEN Append(kept[i - 1], list[i]) ELSE kept[i - 1]
  BY <1>2 DEF IsSublist
<1>5. \A i \in 1..Len(list) : list[i] \in Members(list)
  BY DEF Members
<1> HIDE DEF U
<1> DEFINE N == {n \in Nat : n <= Len(list) => kept[n] \in Seq(U)}
<1>6. 0 \in N
  <2>1. 0 \in 0..Len(list)
    OBVIOUS
  <2>2. kept[0] = <<>>
    BY <1>4, <2>1
  <2>3. <<>> \in Seq(U)
    OBVIOUS
  <2>4. kept[0] \in Seq(U)
    BY <2>2, <2>3
  <2> QED
    BY <2>4
<1>7. ASSUME NEW n \in N PROVE n + 1 \in N
  <2> SUFFICES ASSUME n + 1 <= Len(list) PROVE kept[n + 1] \in Seq(U)
    OBVIOUS
  <2>1. n \in Nat /\ n + 1 \in 1..Len(list) /\ n + 1 # 0 /\ (n + 1) - 1 = n /\ kept[n] \in Seq(U)
    OBVIOUS
  <2>2. kept[n + 1] = IF list[n + 1] \in S0 THEN Append(kept[n], list[n + 1]) ELSE kept[n]
    <3> HIDE DEF N
    <3> QED
      BY <1>4, <2>1
  <2>3. list[n + 1] \in S0 => list[n + 1] \in U
    BY <1>5, <2>1 DEF U
  <2> QED
    BY <2>1, <2>2, <2>3
<1>8. N = Nat
  <2>1. N \in SUBSET Nat
    OBVIOUS
  <2> HIDE DEF N
  <2> QED
    BY <1>6, <1>7, <2>1, NumberInduction
<1>9. Len(list) \in N /\ Len(list) <= Len(list)
  <2> HIDE DEF N
  <2> QED
    BY <1>8
<1>10. kept[Len(list)] \in Seq(U)
  BY <1>9
<1> QED
  BY <1>3, <1>10 DEF U

\* The table: ten sizes, each larger than the one before.
LEMMA TableIs ==
  /\ Len(ENCODER_BITRATE_TABLE) = 10 /\ Members(ENCODER_BITRATE_TABLE) = {ENCODER_BITRATE_TABLE[i] : i \in 1..10}
  /\ \A i \in 1..10 : Size(i) \in Nat
  /\ \A i, j \in 1..10 : i < j => Size(i) < Size(j)
  /\ Size(10) = 1920 * 1080 /\ Bitrate(10) = 6000000
<1>1. Len(ENCODER_BITRATE_TABLE) = 10 /\ DOMAIN ENCODER_BITRATE_TABLE = 1..10
  BY DEF ENCODER_BITRATE_TABLE
<1>2. /\ Size(1) = 76800 /\ Size(2) = 172800 /\ Size(3) = 230400 /\ Size(4) = 307200 /\ Size(5) = 388800
      /\ Size(6) = 518400 /\ Size(7) = 691200 /\ Size(8) = 921600 /\ Size(9) = 1555200 /\ Size(10) = 2073600
  BY DEF ENCODER_BITRATE_TABLE, Size
<1>3. Bitrate(10) = 6000000
  BY DEF ENCODER_BITRATE_TABLE, Bitrate
<1> HIDE DEF Size
<1>4. \A i \in 1..10 : i \in {1, 2, 3, 4, 5, 6, 7, 8, 9, 10}
  OBVIOUS
<1>5. \A i \in 1..9 : Size(i) < Size(i + 1)
  BY <1>2
<1>6. \A i, j \in 1..10 : i < j => Size(i) < Size(j)
  BY <1>2, <1>4
<1>7. \A i \in 1..10 : Size(i) \in Nat
  BY <1>2, <1>4
<1> QED
  BY <1>1, <1>2, <1>3, <1>6, <1>7 DEF Members

\* None of the first n sizes is nearer than that of k, nor an equally near one larger.
NearestOf(size, n, k) ==
  \A j \in 1..n : \/ Distance(size, Size(k)) < Distance(size, Size(j))
                  \/ Distance(size, Size(k)) = Distance(size, Size(j)) /\ Size(k) >= Size(j)

\* MatchedBitrate is where that function ends.
LEMMA MatchScanned ==
  ASSUME NEW size
  PROVE  \E g : IsMatch(size, 10, g) /\ MatchedBitrate(size) = g[10].bitrate
<1> DEFINE best == CHOOSE g : g = [i \in 0..10 |-> IF i = 0 THEN Largest(size) ELSE Better(size, g[i - 1], i)]
<1>1. \E g : g = [i \in 0..10 |-> IF i = 0 THEN Largest(size) ELSE Better(size, g[i - 1], i)]
  <2>1. \E g : IsMatch(size, 10, g)
    BY MatchExists
  <2> QED
    BY <2>1, Zenon DEF IsMatch
<1>2. IsMatch(size, 10, best)
  BY <1>1, Zenon DEF IsMatch
<1>3. MatchedBitrate(size) = best[10].bitrate
  BY TableIs DEF MatchedBitrate
<1> QED
  BY <1>2, <1>3

\* MatchedBitrate finds the nearest size.
LEMMA MatchedIsNearest ==
  ASSUME NEW size \in Nat, size <= 1920 * 1080
  PROVE  \E k \in 1..10 : NearestOf(size, 10, k) /\ MatchedBitrate(size) = Bitrate(k)
<1>1. PICK best : IsMatch(size, 10, best) /\ MatchedBitrate(size) = best[10].bitrate
  BY MatchScanned
<1>4. \A i \in 0..10 : best[i] = IF i = 0 THEN Largest(size) ELSE Better(size, best[i - 1], i)
  BY <1>1 DEF IsMatch
<1> DEFINE D(i) == Distance(size, Size(i))
           Entry(k) == [distance |-> D(k), bitrate |-> Bitrate(k)]
           N == {n \in Nat : n <= 10 => \E k \in 1..10 : best[n] = Entry(k) /\ NearestOf(size, n, k)}
<1>5. 0 \in N
  <2>1. D(10) = 1920 * 1080 - size
    BY TableIs DEF Distance
  <2>2. best[0] = Entry(10)
    BY <1>4, <2>1, TableIs DEF Largest
  <2>3. NearestOf(size, 0, 10)
    BY DEF NearestOf
  <2> QED
    BY <2>2, <2>3
<1>6. ASSUME NEW n \in N PROVE n + 1 \in N
  <2> SUFFICES ASSUME n + 1 <= 10 PROVE \E k \in 1..10 : best[n + 1] = Entry(k) /\ NearestOf(size, n + 1, k)
    OBVIOUS
  <2>1. PICK k \in 1..10 : best[n] = Entry(k) /\ NearestOf(size, n, k)
    OBVIOUS
  <2>2. n \in Nat /\ n + 1 \in 1..10 /\ n + 1 # 0 /\ (n + 1) - 1 = n
    OBVIOUS
  <2> HIDE DEF N, D
  <2>3. best[n + 1] = IF D(n + 1) <= D(k) THEN Entry(n + 1) ELSE Entry(k)
    <3>1. best[n + 1] = Better(size, best[n], n + 1)
      BY <1>4, <2>2
    <3> QED
      BY <2>1, <3>1 DEF Better, D, Size, Bitrate
  <2>4. \A i \in 1..10 : D(i) \in Nat
    BY TableIs DEF D, Distance
  <2>5. \A j \in 1..n : D(k) < D(j) \/ (D(k) = D(j) /\ Size(k) >= Size(j))
    BY <2>1 DEF NearestOf, D
  <2>6. \A j \in 1..(n + 1) : j \in 1..n \/ j = n + 1
    BY <2>2
  <2>7. \A j \in 1..n : j \in 1..10 /\ Size(j) < Size(n + 1) /\ Size(j) \in Nat
    BY <2>2, TableIs
  <2>8. CASE D(n + 1) <= D(k)
    <3>1. \A j \in 1..(n + 1) : D(n + 1) < D(j) \/ (D(n + 1) = D(j) /\ Size(n + 1) >= Size(j))
      <4> TAKE j \in 1..(n + 1)
      <4>1. CASE j = n + 1
        BY <4>1, <2>2, TableIs
      <4>2. CASE j \in 1..n
        <5>1. D(n + 1) \in Nat /\ D(j) \in Nat /\ D(k) \in Nat /\ Size(n + 1) \in Nat /\ Size(j) \in Nat
          BY <2>2, <2>4, <2>7, <4>2, TableIs
        <5>2. D(n + 1) <= D(j) /\ Size(j) < Size(n + 1)
          BY <2>5, <2>7, <2>8, <4>2, <5>1
        <5> QED
          BY <5>1, <5>2
      <4> QED
        BY <4>1, <4>2, <2>6
    <3>2. NearestOf(size, n + 1, n + 1)
      BY <3>1 DEF NearestOf, D
    <3> QED
      BY <2>2, <2>3, <2>8, <3>2
  <2>9. CASE ~(D(n + 1) <= D(k))
    <3>1. D(k) < D(n + 1)
      BY <2>2, <2>4, <2>9
    <3>2. NearestOf(size, n + 1, k)
      BY <2>5, <2>6, <3>1 DEF NearestOf, D
    <3> QED
      BY <2>3, <2>9, <3>2
  <2> QED
    BY <2>8, <2>9
<1>7. N = Nat
  <2>1. N \in SUBSET Nat
    OBVIOUS
  <2> HIDE DEF N
  <2> QED
    BY <1>5, <1>6, <2>1, NumberInduction
<1>8. PICK k \in 1..10 : best[10] = Entry(k) /\ NearestOf(size, 10, k)
  <2>1. 10 \in N
    <3> HIDE DEF N
    <3> QED
      BY <1>7
  <2> QED
    BY <2>1
<1> QED
  BY <1>1, <1>8

\* What ProcessProfile announces is of a profile the camera has, of a valid size.
Announced(type, profiles, f, width, height, fps) ==
  \E p \in Members(profiles) :
    /\ p.format \in DOMAIN CovertToDcameraFormat /\ f = CovertToDcameraFormat[p.format]
    /\ p.width = width /\ p.height = height /\ p.rate = fps /\ IsValid(type, p)
LEMMA ProcessedIsAnnounced ==
  ASSUME NEW type, NEW profiles \in Seq(Profiles),
         NEW f \in ProcessProfile(type, profiles).formats, NEW i \in DOMAIN ProcessProfile(type, profiles).resolution[f]
  PROVE  Announced(type, profiles, f, ProcessProfile(type, profiles).resolution[f][i][1],
                   ProcessProfile(type, profiles).resolution[f][i][2], ProcessProfile(type, profiles).fps[f][i])
<1> DEFINE Formats == DOMAIN CovertToDcameraFormat
           K == {p \in Members(profiles) : p.format \in Formats}
           R == {Renamed(p) : p \in K}
           known == Known(profiles)
           named == Named(profiles)
           each == OfFormat(type, profiles, f)
<1>1. \A p \in K : p \in Members(profiles) /\ p \in Profiles /\ p.format \in Formats
  BY DEF Members
<1>2. known \in Seq(Members(profiles) \cap K)
  <2>1. known = Sublist(profiles, K)
    BY DEF Known
  <2> QED
    BY <2>1, SublistIs
<1>3. known \in Seq(K) /\ Len(known) \in Nat /\ DOMAIN known = 1..Len(known) /\ \A j \in DOMAIN known : known[j] \in K
  <2>1. Members(profiles) \cap K = K
    OBVIOUS
  <2>2. known \in Seq(K)
    BY <1>2, <2>1
  <2> HIDE DEF K, known
  <2> QED
    BY <2>2
<1>4. named \in Seq(R)
  <2>1. named = [j \in 1..Len(known) |-> Renamed(known[j])]
    BY <1>3 DEF Named
  <2>2. \A j \in 1..Len(known) : Renamed(known[j]) \in R
    BY <1>3
  <2> HIDE DEF K, R, known, named
  <2>3. named \in [1..Len(known) -> R]
    BY <2>1, <2>2
  <2> QED
    BY <1>3, <2>3
<1> DEFINE Fits == {p \in Members(named) : p.format = f /\ IsValid(type, p)}
<1>5. each \in Seq(Members(named) \cap Fits)
  <2>1. each = Sublist(named, Fits)
    BY DEF OfFormat
  <2> HIDE DEF each, named, Fits, R
  <2> QED
    BY <1>4, <2>1, SublistIs
<1>6. /\ ProcessProfile(type, profiles).resolution[f] = [j \in DOMAIN each |-> <<each[j].width, each[j].height>>]
      /\ ProcessProfile(type, profiles).fps[f] = [j \in DOMAIN each |-> each[j].rate]
  <2>1. ProcessProfile(type, profiles).formats = {p.format : p \in Members(named)}
    BY DEF ProcessProfile
  <2>2. f \in {p.format : p \in Members(named)}
    BY <2>1
  <2> QED
    BY <2>2 DEF ProcessProfile
<1>7. i \in DOMAIN each
  BY <1>6
<1>8. each[i] \in Members(named) /\ each[i].format = f /\ IsValid(type, each[i])
  <2>1. each[i] \in Members(named) \cap Fits
    <3> HIDE DEF each, Fits, named
    <3> QED
      BY <1>5, <1>7, ElementOfSeq
  <2> QED
    BY <2>1
<1>9. PICK p \in K : each[i] = Renamed(p)
  <2>1. Members(named) \subseteq R
    <3> HIDE DEF named, R
    <3> QED
      BY <1>4 DEF Members
  <2> QED
    BY <1>8, <2>1
<1>11. /\ Renamed(p).format = CovertToDcameraFormat[p.format] /\ Renamed(p).width = p.width
       /\ Renamed(p).height = p.height /\ Renamed(p).rate = p.rate
  BY DEF Renamed
<1>12. IsValid(type, p)
  <2>1. IsValid(type, Renamed(p))
    BY <1>8, <1>9
  <2> DEFINE r == Renamed(p)
  <2>2. r.width = p.width /\ r.height = p.height
    BY <1>11
  <2> HIDE DEF r
  <2>3. (WithinContinuous(r) => WithinContinuous(p)) /\ (WithinSnapshot(r) => WithinSnapshot(p))
    BY <2>2 DEF WithinContinuous, WithinSnapshot
  <2> QED
    BY <2>1, <2>3 DEF IsValid, r
<1>13. /\ ProcessProfile(type, profiles).resolution[f][i] = <<p.width, p.height>>
       /\ ProcessProfile(type, profiles).fps[f][i] = p.rate
  <2> HIDE DEF each
  <2> QED
    BY <1>6, <1>7, <1>9, <1>11
<1>14. f = CovertToDcameraFormat[p.format]
  <2> HIDE DEF each
  <2> QED
    BY <1>8, <1>9, <1>11
<1>15. p \in Members(profiles) /\ p.format \in Formats
  BY <1>1
<1> HIDE DEF K, R, known, named, each, Fits
<1> QED
  BY <1>12, <1>13, <1>14, <1>15 DEF Announced

TypeOfKind(kind) == IF kind = "photo" THEN "snapshot" ELSE "continuous"

\* A stream that has been asked for is one of the item, which is that of the camera,
\* and what has been served stays as it was decided.
StreamOffered ==
  stream # NoStream =>
    /\ item # NoItem /\ sinkDevs # "unmade"
    /\ stream.kind \in {"photo", "preview", "video"} /\ stream.codec \in device.codecs
    /\ Announced(TypeOfKind(stream.kind), device.profiles, stream.format, stream.width, stream.height, stream.rate)
AbilityInv ==
  /\ device \in Cameras
  /\ item # NoItem => device.fault = "none" /\ item = CreateDHItem(device)
  /\ sinkDevs # "unmade" /\ device.fault = "none" => sinkDevs = "camera"
  /\ StreamOffered
  /\ served # "no" => stream # NoStream /\ served = IF Serves(stream) THEN "yes" ELSE "refused"

\* A camera, and the item that is made of it if it has no fault.
LEMMA CameraIs ==
  ASSUME NEW c \in Cameras
  PROVE  c.fault \in Faults /\ c.profiles \in Seq(Profiles)
<1>1. c \in [profiles : Offers, modes : SUBSET Modes, codecs : SUBSET Codecs, fault : Faults]
  BY DEF Cameras
<1>2. c.fault \in Faults /\ c.profiles \in Offers
  BY <1>1
<1>3. ASSUME NEW o \in Offers PROVE o \in Seq(Profiles)
  <2>1. CASE o = <<>>
    BY <2>1
  <2>2. CASE \E p \in Profiles : o = <<p>>
    BY <2>2
  <2>3. CASE \E p, q \in Profiles : o = <<p, q>>
    BY <2>3
  <2>4. o = <<>> \/ (\E p \in Profiles : o = <<p>>) \/ (\E p, q \in Profiles : o = <<p, q>>)
    BY DEF Offers
  <2> QED
    BY <2>1, <2>2, <2>3, <2>4
<1> QED
  BY <1>2, <1>3

LEMMA ItemIs ==
  ASSUME NEW c, CreateDHItem(c) # NoItem
  PROVE  /\ c.fault \notin {"incapable", "mode", "busy"}
         /\ CreateDHItem(c).codecs = CreateAVCodecList(c)
         /\ \A m \in DOMAIN CreateDHItem(c).config : CreateDHItem(c).config[m] = Config(c)
<1>1. c.fault \notin {"incapable", "mode", "busy"}
  BY DEF CreateDHItem
<1>2. CreateDHItem(c) = [announced |-> TRUE, codecs |-> CreateAVCodecList(c),
                         config |-> [m \in {"root"} \union c.modes |-> Config(c)]]
  BY <1>1 DEF CreateDHItem
<1> QED
  BY <1>1, <1>2

\* What is asked for is announced.
LEMMA AskedIsAnnounced ==
  ASSUME AbilityInv, Ask
  PROVE  /\ stream' # NoStream /\ stream'.kind \in {"photo", "preview", "video"} /\ stream'.codec \in device.codecs
         /\ Announced(TypeOfKind(stream'.kind), device.profiles, stream'.format, stream'.width, stream'.height,
                      stream'.rate)
<1>1. device.fault = "none" /\ item = CreateDHItem(device) /\ device.profiles \in Seq(Profiles)
  BY CameraIs DEF AbilityInv, Ask
<1>2. /\ item.codecs = CreateAVCodecList(device)
      /\ \A m \in DOMAIN item.config : item.config[m] = Config(device)
  <2>1. CreateDHItem(device) # NoItem
    BY <1>1 DEF Ask
  <2> QED
    BY <1>1, <2>1, ItemIs
<1>3. PICK m \in DOMAIN item.config, kind \in {"photo", "preview", "video"}, codec \in item.codecs :
        \E f \in item.config[m][kind].formats : \E i \in DOMAIN item.config[m][kind].resolution[f] :
          stream' = [kind |-> kind, codec |-> codec, format |-> f, rate |-> item.config[m][kind].fps[f][i],
                     width |-> item.config[m][kind].resolution[f][i][1],
                     height |-> item.config[m][kind].resolution[f][i][2]]
  BY DEF Ask
<1> DEFINE offer == ProcessProfile(TypeOfKind(kind), device.profiles)
<1>4. item.config[m][kind] = offer
  <2>1. item.config[m] = [photo |-> ConfigFormatphoto(device), preview |-> ConfigFormatvideo(device),
                          video |-> ConfigFormatvideo(device)]
    BY <1>2 DEF Config
  <2> QED
    BY <2>1 DEF ConfigFormatphoto, ConfigFormatvideo, TypeOfKind
<1> HIDE DEF offer
<1>5. PICK f \in offer.formats : \E i \in DOMAIN offer.resolution[f] :
          stream' = [kind |-> kind, codec |-> codec, format |-> f, rate |-> offer.fps[f][i],
                     width |-> offer.resolution[f][i][1], height |-> offer.resolution[f][i][2]]
  BY <1>3, <1>4
<1>6. PICK i \in DOMAIN offer.resolution[f] :
          stream' = [kind |-> kind, codec |-> codec, format |-> f, rate |-> offer.fps[f][i],
                     width |-> offer.resolution[f][i][1], height |-> offer.resolution[f][i][2]]
  BY <1>5
<1>7. Announced(TypeOfKind(kind), device.profiles, f, offer.resolution[f][i][1], offer.resolution[f][i][2],
                offer.fps[f][i])
  BY <1>1, ProcessedIsAnnounced DEF offer
<1>8. /\ stream'.kind = kind /\ stream'.codec = codec /\ stream'.format = f /\ stream'.rate = offer.fps[f][i]
      /\ stream'.width = offer.resolution[f][i][1] /\ stream'.height = offer.resolution[f][i][2]
  BY <1>6
<1>9. stream' # NoStream
  BY <1>8 DEF NoStream
<1>10. codec \in device.codecs
  BY <1>2 DEF CreateAVCodecList
<1> QED
  BY <1>7, <1>8, <1>9, <1>10

\* The decision depends on the camera, its device and the stream.
LEMMA ServesStays ==
  ASSUME UNCHANGED <<device, sinkDevs, stream>>
  PROVE  Serves(stream)' <=> Serves(stream)
BY DEF Serves, CreateOutput, InitEncoderMetadataFormat

LEMMA AbilityInvKept ==
  ASSUME AbilityInv, [AbilityNext]_abilityVars
  PROVE  AbilityInv'
<1>1. CASE Query
  <2>1. /\ UNCHANGED <<device, sinkDevs, stream, served>> /\ item = NoItem
        /\ item' = IF device.fault \in {"external", "hidden"} THEN NoItem ELSE CreateDHItem(device)
    BY <1>1 DEF Query
  <2>2. item' # NoItem => device.fault = "none" /\ item' = CreateDHItem(device)
    <3> SUFFICES ASSUME item' # NoItem PROVE device.fault = "none" /\ item' = CreateDHItem(device)
      OBVIOUS
    <3>1. device.fault \notin {"external", "hidden"} /\ item' = CreateDHItem(device)
      BY <2>1
    <3>2. device.fault \notin {"incapable", "mode", "busy"}
      BY <3>1, ItemIs
    <3>3. device.fault \in Faults
      BY CameraIs DEF AbilityInv
    <3> QED
      BY <3>1, <3>2, <3>3 DEF Faults
  <2>3. stream = NoStream /\ served = "no"
    BY <2>1 DEF AbilityInv, StreamOffered
  <2>4. CreateDHItem(device)' = CreateDHItem(device)
    BY <2>1
  <2> QED
    BY <2>1, <2>2, <2>3, <2>4 DEF AbilityInv, StreamOffered
<1>2. CASE GetCameras
  <2>1. /\ UNCHANGED <<device, item, stream, served>> /\ sinkDevs = "unmade"
        /\ device.fault = "none" => sinkDevs' = "camera"
    BY <1>2, Zenon DEF GetCameras
  <2>2. stream = NoStream /\ served = "no"
    BY <2>1 DEF AbilityInv, StreamOffered
  <2>3. CreateDHItem(device)' = CreateDHItem(device)
    BY <2>1
  <2> QED
    BY <2>1, <2>2, <2>3 DEF AbilityInv, StreamOffered
<1>3. CASE Ask
  <2>1. UNCHANGED <<device, item, sinkDevs, served>> /\ item # NoItem /\ sinkDevs # "unmade" /\ stream = NoStream
    BY <1>3 DEF Ask
  <2>2. served = "no"
    BY <2>1 DEF AbilityInv
  <2>3. StreamOffered'
    BY <1>3, <2>1, AskedIsAnnounced DEF StreamOffered
  <2>4. CreateDHItem(device)' = CreateDHItem(device)
    BY <2>1
  <2> QED
    BY <2>1, <2>2, <2>3, <2>4 DEF AbilityInv
<1>4. CASE Serve
  <2>1. /\ UNCHANGED <<device, item, sinkDevs, stream>> /\ stream # NoStream
        /\ served' = IF Serves(stream) THEN "yes" ELSE "refused"
    BY <1>4 DEF Serve
  <2>2. StreamOffered'
    BY <2>1 DEF StreamOffered, AbilityInv
  <2>3. CreateDHItem(device)' = CreateDHItem(device)
    BY <2>1
  <2> QED
    BY <2>1, <2>2, <2>3, ServesStays DEF AbilityInv
<1>5. CASE UNCHANGED abilityVars
  <2>1. UNCHANGED <<device, item, sinkDevs, stream, served>>
    BY <1>5 DEF abilityVars
  <2>2. StreamOffered'
    BY <2>1 DEF StreamOffered, AbilityInv
  <2>3. CreateDHItem(device)' = CreateDHItem(device)
    BY <2>1
  <2> QED
    BY <2>1, <2>2, <2>3, ServesStays DEF AbilityInv
<1> QED
  BY <1>1, <1>2, <1>3, <1>4, <1>5 DEF AbilityNext

\* The size of an encoded picture is at most that of the largest of the table, and
\* its frames fit the buffers.
LEMMA SinkRangeBounds ==
  ASSUME NEW s, InSinkRange(s)
  PROVE  /\ s.width * s.height \in Nat /\ s.width * s.height <= 1920 * 1080
         /\ FrameSize(s) <= MaxInputSize(s) /\ CheckStreamInfo(s) /\ InSourceRange(s)
<1>1. PICK w : w \in 320..1920 /\ w = s.width
  BY Z3 DEF InSinkRange
<1>2. PICK h : h \in 240..1080 /\ h = s.height
  BY Z3 DEF InSinkRange
<1>3. w \in 320..1920 /\ h \in 240..1080
  BY <1>1, <1>2, Zenon
<1> DEFINE size == w * h
<1>4. size \in Nat /\ size <= 1920 * 1080 /\ 4 * w * h = 4 * size /\ 3 * w * h = 3 * size
  <2>1. w \in Nat /\ h \in Nat /\ w <= 1920 /\ h <= 1080
    BY <1>3
  <2>2. w * h <= 1920 * h
    BY <2>1
  <2>3. 1920 * h <= 1920 * 1080
    BY <2>1
  <2>4. 4 * w * h = 4 * (w * h) /\ 3 * w * h = 3 * (w * h)
    BY <2>1
  <2> QED
    BY <2>1, <2>2, <2>3, <2>4
<1>5. s.width * s.height = size /\ 4 * s.width * s.height = 4 * size /\ 3 * s.width * s.height = 3 * size
  BY <1>1, <1>2, <1>4
<1> HIDE DEF size
<1>6. 4 * size <= 1920 * 1080 * 4 /\ (3 * size) \div 2 <= (1920 * 1080 * 3) \div 2 /\ size <= 10000 * 10000
  BY <1>4
<1>7. ASSUME GetPipelineFormat(s.format) = "RGBA_8888" PROVE FrameSize(s) <= MaxInputSize(s)
  <2> DEFINE frame == 4 * size
             largest == 1920 * 1080 * 4
  <2>1. FrameSize(s) = frame /\ MaxInputSize(s) = largest
    BY <1>5, <1>7 DEF FrameSize, MaxInputSize
  <2>2. frame <= largest /\ frame \in Int /\ largest \in Int
    BY <1>4, <1>6
  <2> HIDE DEF frame, largest
  <2> QED
    BY <2>1, <2>2
<1>8. ASSUME GetPipelineFormat(s.format) # "RGBA_8888" PROVE FrameSize(s) <= MaxInputSize(s)
  <2> DEFINE frame == (3 * size) \div 2
             largest == (1920 * 1080 * 3) \div 2
  <2>1. FrameSize(s) = frame /\ MaxInputSize(s) = largest
    BY <1>5, <1>8 DEF FrameSize, MaxInputSize
  <2>2. frame <= largest /\ frame \in Int /\ largest \in Int
    BY <1>4, <1>6
  <2> HIDE DEF frame, largest
  <2> QED
    BY <2>1, <2>2
<1>9. CheckStreamInfo(s)
  BY <1>5, <1>6 DEF CheckStreamInfo
<1>10. InSourceRange(s)
  <2>1. w \in 320..4160 /\ h \in 240..3120
    BY <1>3
  <2> QED
    BY <1>1, <1>2, <2>1 DEF InSourceRange
<1>11. FrameSize(s) <= MaxInputSize(s)
  BY <1>7, <1>8
<1>12. s.width * s.height \in Nat /\ s.width * s.height <= 1920 * 1080
  BY <1>4, <1>5
<1> QED
  BY <1>9, <1>10, <1>11, <1>12

\* A camera without a fault serves what is asked of it, but for the two 10-bit
\* formats and rates above 30.
LEMMA OfferedIsServed ==
  ASSUME AbilityInv, stream # NoStream
  PROVE  \/ Serves(stream)
         \/ stream.format \in {"YCBCR_P010", "YCRCB_P010"}
         \/ stream.kind # "photo" /\ stream.rate > 30
<1> SUFFICES ASSUME stream.format \notin {"YCBCR_P010", "YCRCB_P010"}, stream.kind # "photo" => ~(stream.rate > 30)
             PROVE  Serves(stream)
  OBVIOUS
<1>1. sinkDevs = "camera" /\ stream.kind \in {"photo", "preview", "video"} /\ stream.codec \in device.codecs
      /\ device.profiles \in Seq(Profiles)
  BY CameraIs DEF AbilityInv, StreamOffered
<1>2. PICK p \in Members(device.profiles) :
        /\ p.format \in DOMAIN CovertToDcameraFormat /\ stream.format = CovertToDcameraFormat[p.format]
        /\ p.width = stream.width /\ p.height = stream.height /\ p.rate = stream.rate
        /\ IsValid(TypeOfKind(stream.kind), p)
  BY DEF AbilityInv, StreamOffered, Announced
<1>3. p \in [format : STRING, width : Nat \ {0}, height : Nat \ {0}, rate : Nat]
  <2>1. p \in Profiles
    BY <1>1 DEF Members
  <2> QED
    BY <2>1, ProfilesAssumption
<1>4. CreateOutput(stream)
  <2>1. stream.format \in DOMAIN ConvertToCameraFormat /\ p.format = ConvertToCameraFormat[stream.format]
    BY <1>2 DEF CovertToDcameraFormat, ConvertToCameraFormat
  <2> QED
    BY <1>2, <2>1 DEF CreateOutput, Members
<1> DEFINE size == stream.width * stream.height
<1>5. CASE stream.kind = "photo"
  <2>1. size <= 4096 * 3072
    BY <1>2, <1>5 DEF IsValid, WithinSnapshot, TypeOfKind
  <2>2. size \in Nat
    BY <1>2, <1>3
  <2>3. CheckStreamInfo(stream)
    <3> HIDE DEF size
    <3>1. size <= 10000 * 10000
      BY <2>1, <2>2
    <3> QED
      BY <3>1 DEF CheckStreamInfo, size
  <2> QED
    BY <1>1, <1>4, <1>5, <2>3 DEF Serves
<1>6. CASE stream.kind # "photo"
  <2>1. InSinkRange(stream)
    BY <1>2, <1>6 DEF IsValid, WithinContinuous, TypeOfKind, InSinkRange
  <2>2. stream.rate \in 0..30
    BY <1>2, <1>3, <1>6
  <2>3. CheckStreamInfo(stream) /\ InSourceRange(stream) /\ FrameSize(stream) <= MaxInputSize(stream)
    BY <2>1, SinkRangeBounds
  <2>4. IsInPipelineRange(stream) /\ IsInEncoderRange(stream) /\ IsInDecoderRange(stream)
    BY <2>1, <2>2, <2>3 DEF IsInPipelineRange, IsInEncoderRange, IsInDecoderRange
  <2> QED
    BY <1>1, <1>4, <2>3, <2>4 DEF Serves, InitEncoderMetadataFormat
<1> QED
  BY <1>5, <1>6

\* A stream that is served has a rate of the camera, and the nearest bitrate.
LEMMA ServedFits ==
  ASSUME AbilityInv, served = "yes"
  PROVE  RatesFit
<1>1. stream # NoStream /\ Serves(stream)
  BY DEF AbilityInv
<1>2. PICK p \in Members(device.profiles) : p.width = stream.width /\ p.height = stream.height /\ p.rate = stream.rate
  BY <1>1 DEF AbilityInv, StreamOffered, Announced
<1>3. \E i \in DOMAIN device.profiles :
        <<device.profiles[i].width, device.profiles[i].height, device.profiles[i].rate>>
          = <<stream.width, stream.height, stream.rate>>
  BY <1>2 DEF Members
<1> DEFINE size == stream.width * stream.height
           Table == Members(ENCODER_BITRATE_TABLE)
           IsNearest(e) == \A d \in Table : Distance(size, e.size) < Distance(size, d.size)
                                            \/ (Distance(size, e.size) = Distance(size, d.size) /\ e.size >= d.size)
           nearest == CHOOSE e \in Table : IsNearest(e)
<1>4. ASSUME stream.kind # "photo" PROVE MatchedBitrate(size) = nearest.bitrate
  <2>1. size \in Nat /\ size <= 1920 * 1080
    <3>1. InSinkRange(stream)
      BY <1>1, <1>4 DEF Serves, IsInEncoderRange
    <3> QED
      BY <3>1, SinkRangeBounds
  <2> HIDE DEF size
  <2>2. PICK k \in 1..10 : NearestOf(size, 10, k) /\ MatchedBitrate(size) = Bitrate(k)
    BY <2>1, MatchedIsNearest
  <2>3. ENCODER_BITRATE_TABLE[k] \in Table /\ IsNearest(ENCODER_BITRATE_TABLE[k])
    BY <2>2, TableIs DEF NearestOf, Size
  <2>4. nearest \in Table /\ IsNearest(nearest)
    <3> HIDE DEF IsNearest, Table
    <3> QED
      BY <2>3
  <2>5. PICK l \in 1..10 : nearest = ENCODER_BITRATE_TABLE[l]
    <3> HIDE DEF nearest
    <3> QED
      BY <2>4, TableIs
  <2> HIDE DEF nearest
  <2>6. \A i \in 1..10 : Distance(size, Size(i)) \in Nat /\ Size(i) \in Nat
    BY <2>1, TableIs DEF Distance
  <2>7. \/ Distance(size, Size(k)) < Distance(size, Size(l))
        \/ Distance(size, Size(k)) = Distance(size, Size(l)) /\ Size(k) >= Size(l)
    BY <2>2 DEF NearestOf
  <2>8. \/ Distance(size, Size(l)) < Distance(size, Size(k))
        \/ Distance(size, Size(l)) = Distance(size, Size(k)) /\ Size(l) >= Size(k)
    BY <2>3, <2>4, <2>5 DEF Size
  <2>9. Size(k) = Size(l)
    BY <2>6, <2>7, <2>8
  <2>10. k = l
    BY <2>9, TableIs
  <2> QED
    BY <2>2, <2>5, <2>10 DEF Bitrate
<1> QED
  BY <1>3, <1>4 DEF RatesFit

\* For every camera, its profiles, modes and encoders: a stream of what the sink
\* announces passes every limit on its way, but for 10-bit formats and rates above
\* 30, and is encoded at the bitrate of the nearest size (CreateDHItem,
\* CheckStreamInfo, IsInEncoderRange, InitEncoderMetadataFormat).
THEOREM PromiseIsAlwaysKept == AbilitySpec => []PromiseIsKept
<1>1. AbilityInit(Cameras) => AbilityInv
  BY DEF AbilityInit, AbilityInv, StreamOffered
<1>2. AbilityInv /\ [AbilityNext]_abilityVars => AbilityInv'
  BY AbilityInvKept
<1>3. AbilityInv => PromiseIsKept
  <2> SUFFICES ASSUME AbilityInv PROVE AnnouncedIsServed /\ RatesFit
    BY DEF PromiseIsKept
  <2>1. AnnouncedIsServed
    <3>1. served = "refused" => stream # NoStream /\ ~Serves(stream)
      BY DEF AbilityInv
    <3> QED
      BY <3>1, OfferedIsServed DEF AnnouncedIsServed
  <2>2. RatesFit
    <3>1. CASE served = "yes"
      BY <3>1, ServedFits
    <3>2. CASE served # "yes"
      BY <3>2 DEF RatesFit
    <3> QED
      BY <3>1, <3>2
  <2> QED
    BY <2>1, <2>2
<1> QED
  BY <1>1, <1>2, <1>3, PTL DEF AbilitySpec
=============================================================================
