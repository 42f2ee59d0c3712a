------------------------ MODULE SourceRegistryProofs ------------------------
(***************************************************************************)
(* How far the map of cameras can grow, for any limit and any number of    *)
(* IPC threads.  The threads between the count and the insertion are       *)
(* counted with the entries: the count lets a thread in only when the      *)
(* entries alone are within the limit, and from then on a thread trades    *)
(* its admission for at most one entry.                                    *)
(*                                                                         *)
(* The second part is about a framework that waits for each answer, for    *)
(* any number of cameras, threads and objects: the one request of a camera *)
(* is in one place at a time, which is why none is lost with an object and *)
(* why the camera the HAL holds enabled stays reachable.                   *)
(*                                                                         *)
(* The third part is about the pictures, for frames and streams of any     *)
(* size: offsets and strides first, then where the decoder puts the        *)
(* samples, then how far the crop and the scaling round, in each of the    *)
(* two directions on its own, and the three together at last.              *)
(***************************************************************************)
EXTENDS SourceRegistry, Pictures, FiniteSetTheorems, SequenceTheorems, TLAPS

\* Sets of entries and of admitted callers are finite.
LEMMA FiniteParts ==
  /\ \A S \in SUBSET Cameras : IsFiniteSet(S) /\ Cardinality(S) \in Nat
  /\ \A S \in SUBSET Callers : /\ IsFiniteSet(S) /\ Cardinality(S) \in Nat
                               /\ Cardinality(S) <= Cardinality(Callers)
BY RegistryAssumption, FS_Subset, FS_CardinalityType

\* A step that adds neither an entry nor an admitted caller keeps the sum.
LEMMA SumKept ==
  ASSUME NEW E \in SUBSET Cameras, NEW E2 \in SUBSET E,
         NEW A \in SUBSET Callers, NEW A2 \in SUBSET A,
         Cardinality(E) + Cardinality(A) <= MaxCameras + Cardinality(Callers)
  PROVE  Cardinality(E2) + Cardinality(A2) <= MaxCameras + Cardinality(Callers)
<1>1. Cardinality(E2) <= Cardinality(E) /\ Cardinality(A2) <= Cardinality(A)
  BY FiniteParts, FS_Subset
<1>2. /\ Cardinality(E) \in Nat /\ Cardinality(E2) \in Nat
      /\ Cardinality(A) \in Nat /\ Cardinality(A2) \in Nat
      /\ Cardinality(Callers) \in Nat /\ MaxCameras \in Nat
  BY FiniteParts, RegistryAssumption
<1> QED
  BY <1>1, <1>2

\* A caller that leaves the admitted for one entry keeps the sum.
LEMMA SumTraded ==
  ASSUME NEW E \in SUBSET Cameras, NEW c \in Cameras,
         NEW A \in SUBSET Callers, NEW t \in A,
         Cardinality(E) + Cardinality(A) <= MaxCameras + Cardinality(Callers)
  PROVE  Cardinality(E \cup {c}) + Cardinality(A \ {t})
           <= MaxCameras + Cardinality(Callers)
<1>1. Cardinality(E \cup {c}) <= Cardinality(E) + 1
  <2>1. IsFiniteSet(E) /\ Cardinality(E) \in Nat
    BY FiniteParts
  <2> QED
    BY <2>1, FS_AddElement
<1>2. Cardinality(A \ {t}) = Cardinality(A) - 1
  BY FiniteParts, FS_RemoveElement
<1>3. /\ Cardinality(E) \in Nat /\ Cardinality(A) \in Nat
      /\ Cardinality(E \cup {c}) \in Nat
      /\ Cardinality(Callers) \in Nat /\ MaxCameras \in Nat
  BY FiniteParts, RegistryAssumption
<1> QED
  BY <1>1, <1>2, <1>3

\* A caller lets itself in only when the entries alone are within the limit.
LEMMA SumAdmitted ==
  ASSUME NEW E \in SUBSET Cameras, NEW A \in SUBSET Callers,
         Cardinality(E) <= MaxCameras
  PROVE  Cardinality(E) + Cardinality(A) <= MaxCameras + Cardinality(Callers)
<1>1. /\ Cardinality(E) \in Nat /\ Cardinality(A) \in Nat /\ Cardinality(A) <= Cardinality(Callers)
      /\ Cardinality(Callers) \in Nat /\ MaxCameras \in Nat
  BY FiniteParts, RegistryAssumption
<1> QED
  BY <1>1

Limit == MaxCameras + Cardinality(Callers)
Sum == Cardinality(Entries(camerasMap)) + Cardinality(Admitted)

\* No entry and no caller at the start.
LEMMA BoundedInit == Init => AdmittedBounded
<1> SUFFICES ASSUME Init PROVE AdmittedBounded
  OBVIOUS
<1>1. Entries(camerasMap) = {} /\ Admitted = {}
  BY DEF Init, Entries, Admitted, Idle
<1>2. Sum <= Limit
  BY <1>1, FiniteParts, RegistryAssumption, FS_EmptySet DEF Sum, Limit
<1> QED
  BY <1>2 DEF Init, AdmittedBounded, CallsTyped, Idle, Pcs, Ops, Sum, Limit

\* Every step keeps the entries and the admitted callers together within the limit.
LEMMA BoundedStep == AdmittedBounded /\ [Next]_vars => AdmittedBounded'
<1> SUFFICES ASSUME AdmittedBounded, [Next]_vars PROVE AdmittedBounded'
  OBVIOUS
<1> DEFINE Shape == /\ camerasMap \in [Cameras -> Devs \cup {NoDev}]
                    /\ CallsTyped
                    /\ \A t \in Callers :
                         /\ call[t].pc # "idle" => call[t].cam \in Cameras
                         /\ call[t].pc \in {"insert", "post", "posted"} => call[t].dev \in Devs
                         /\ call[t].pc = "insert" => call[t].op = "REGIST"
<1>s. Shape /\ Sum <= Limit
  BY DEF AdmittedBounded, Sum, Limit
<1>q. ASSUME Shape', Sum' <= Limit PROVE AdmittedBounded'
  BY <1>q DEF AdmittedBounded, Sum, Limit
<1>e. Entries(camerasMap) \in SUBSET Cameras /\ Admitted \in SUBSET Callers
  BY DEF Entries, Admitted
<1>k. ASSUME Entries(camerasMap)' \subseteq Entries(camerasMap), Admitted' \subseteq Admitted
      PROVE  Sum' <= Limit
  BY <1>k, <1>e, <1>s, SumKept DEF Sum, Limit
<1>r. ASSUME NEW t \in Callers, Refuse(t) PROVE AdmittedBounded'
  <2>1. Shape'
    BY <1>r, <1>s DEF Refuse, CallsTyped, Idle, Pcs, Ops
  <2>2. Admitted' \subseteq Admitted
    BY <1>r, <1>s DEF Refuse, Admitted, Idle, CallsTyped
  <2>3. Entries(camerasMap)' = Entries(camerasMap)
    BY <1>r DEF Refuse, Entries
  <2> QED
    BY <2>1, <2>2, <2>3, <1>k, <1>q
<1>1. ASSUME NEW t \in Callers, NEW op \in Ops, NEW c \in Cameras, Request(t, op, c)
      PROVE  AdmittedBounded'
  <2>1. Shape'
    BY <1>1, <1>s DEF Request, CallsTyped, Pcs, Ops
  <2>2. Admitted' \subseteq Admitted
    BY <1>1, <1>s DEF Request, Admitted, CallsTyped, Ops
  <2>3. Entries(camerasMap)' = Entries(camerasMap)
    BY <1>1 DEF Request, Entries
  <2> QED
    BY <2>1, <2>2, <2>3, <1>k, <1>q
<1>2. ASSUME NEW t \in Callers, Count(t) PROVE AdmittedBounded'
  <2>1. CASE Cardinality(Entries(camerasMap)) > MaxCameras
    BY <1>2, <2>1, <1>r DEF Count
  <2>2. CASE ~(Cardinality(Entries(camerasMap)) > MaxCameras)
    <3>1. Shape'
      BY <1>2, <2>2, <1>s DEF Count, CallsTyped, Pcs, Ops
    <3>2. Entries(camerasMap)' = Entries(camerasMap)
      BY <1>2, <2>2 DEF Count, Entries
    <3>3. Admitted' \in SUBSET Callers
      BY DEF Admitted
    <3>4. Cardinality(Entries(camerasMap)) <= MaxCameras
      BY <2>2, <1>e, FiniteParts, RegistryAssumption
    <3>5. Sum' <= Limit
      BY <3>2, <3>3, <3>4, <1>e, SumAdmitted DEF Sum, Limit
    <3> QED
      BY <3>1, <3>5, <1>q
  <2> QED
    BY <2>1, <2>2
<1>3. ASSUME NEW t \in Callers, Find(t) PROVE AdmittedBounded'
  <2>1. CASE Refuse(t)
    BY <2>1, <1>r
  <2>2. CASE ~Refuse(t)
    <3>1. /\ call[t].pc = "find" /\ UNCHANGED camerasMap
          /\ \/ \E d \in Devs : call' = [call EXCEPT ![t] = Holding(t, d, "post")]
             \/ /\ call[t].op = "REGIST"
                /\ \E n \in Devs : call' = [call EXCEPT ![t] = Holding(t, n, "insert")]
      <4> DEFINE c == call[t].cam
                 d == camerasMap[c]
      <4>1. CASE d # NoDev
        <5>1. d \in Devs
          BY <1>3, <4>1, <2>2, <1>s DEF Find, CallsTyped
        <5> QED
          BY <1>3, <4>1, <5>1 DEF Find
      <4>2. CASE d = NoDev /\ call[t].op = "REGIST"
        <5> DEFINE n == CHOOSE x \in Unused : TRUE
        <5>1. /\ Unused # {}
              /\ call' = [call EXCEPT ![t] = Holding(t, n, "insert")]
              /\ call[t].pc = "find" /\ UNCHANGED camerasMap
          BY <1>3, <4>2 DEF Find
        <5>2. n \in Devs
          BY <5>1 DEF Unused
        <5> QED
          BY <4>2, <5>1, <5>2
      <4>3. CASE d = NoDev /\ call[t].op # "REGIST"
        BY <1>3, <4>3, <2>2 DEF Find
      <4> QED
        BY <4>1, <4>2, <4>3
    <3>p. PICK d \in Devs, p \in {"post", "insert"} :
            /\ call' = [call EXCEPT ![t] = Holding(t, d, p)]
            /\ p = "insert" => call[t].op = "REGIST"
      BY <3>1
    <3>h. /\ Holding(t, d, p) \in [pc : Pcs, op : Ops, cam : Cameras \cup {NoDev},
                                   dev : Devs \cup {NoDev}]
          /\ Holding(t, d, p).pc = p /\ Holding(t, d, p).dev = d
          /\ Holding(t, d, p).op = call[t].op /\ Holding(t, d, p).cam = call[t].cam
      BY <1>s DEF Holding, CallsTyped, Pcs
    <3>2. Shape'
      BY <3>1, <3>p, <3>h, <1>s DEF CallsTyped
    <3>3. Admitted' \subseteq Admitted
      BY <3>1, <3>p, <3>h, <1>s DEF Admitted, CallsTyped
    <3>4. Entries(camerasMap)' = Entries(camerasMap)
      BY <3>1 DEF Entries
    <3> QED
      BY <3>2, <3>3, <3>4, <1>k, <1>q
  <2> QED
    BY <2>1, <2>2
<1>4. ASSUME NEW t \in Callers, CamDevInsert(t) PROVE AdmittedBounded'
  <2> DEFINE c == call[t].cam
  <2>1. Shape'
    BY <1>4, <1>s DEF CamDevInsert, CallsTyped, Pcs, Ops
  <2>2. t \in Admitted /\ Admitted' = Admitted \ {t}
    BY <1>4, <1>s DEF CamDevInsert, Admitted, CallsTyped
  <2>3. c \in Cameras
    BY <1>4, <1>s DEF CamDevInsert
  <2>4. Entries(camerasMap)' \subseteq Entries(camerasMap) \cup {c}
    BY <1>4, <1>s DEF CamDevInsert, Entries
  <2>5. Cardinality(Entries(camerasMap) \cup {c}) + Cardinality(Admitted \ {t}) <= Limit
    BY <2>2, <2>3, <1>e, <1>s, SumTraded DEF Sum, Limit
  <2>6. Entries(camerasMap) \cup {c} \in SUBSET Cameras /\ Admitted \ {t} \in SUBSET Callers
    BY <1>e, <2>3
  <2>7. Sum' <= Limit
    BY <2>4, <2>5, <2>6, <2>2, SumKept DEF Sum, Limit
  <2> QED
    BY <2>1, <2>7, <1>q
<1>5. ASSUME NEW t \in Callers, Post(t) \/ Return(t) PROVE AdmittedBounded'
  <2>1. Shape'
    BY <1>5, <1>s DEF Post, Return, Idle, CallsTyped, Pcs, Ops
  <2>2. Admitted' \subseteq Admitted
    BY <1>5, <1>s DEF Post, Return, Idle, Admitted, CallsTyped
  <2>3. Entries(camerasMap)' = Entries(camerasMap)
    BY <1>5 DEF Post, Return, Entries
  <2> QED
    BY <2>1, <2>2, <2>3, <1>k, <1>q
<1>6. ASSUME UNCHANGED <<camerasMap, call>> PROVE AdmittedBounded'
  BY <1>6 DEF AdmittedBounded, CallsTyped, Admitted, Entries
<1>7. ASSUME NEW c \in Cameras, CamDevErase(c) PROVE AdmittedBounded'
  <2>1. Shape'
    BY <1>7, <1>s DEF CamDevErase, CallsTyped
  <2>2. Admitted' \subseteq Admitted
    BY <1>7 DEF CamDevErase, Admitted
  <2>3. Entries(camerasMap)' \subseteq Entries(camerasMap)
    BY <1>7, <1>s DEF CamDevErase, Entries
  <2> QED
    BY <2>1, <2>2, <2>3, <1>k, <1>q
<1>8. ASSUME NEW d \in Devs, Serves(d) PROVE AdmittedBounded'
  <2>1. UNCHANGED <<camerasMap, call>>
    BY <1>8 DEF Serves, RegisterOK, RegisterFails, UnregisterOK, UnregisterFails
  <2> QED
    BY <2>1, <1>6
<1>9. CASE UNCHANGED vars
  BY <1>9, <1>6 DEF vars
<1> QED
  BY <1>1, <1>2, <1>3, <1>4, <1>5, <1>7, <1>8, <1>9 DEF Next, Step

\* In every behaviour the map exceeds MAX_CAMERAS_NUMBER by at most the number
\* of IPC threads, however the calls and the erasing tasks interleave.
THEOREM CamerasAlwaysBounded == Spec => []CamerasBounded
<1>1. AdmittedBounded => CamerasBounded
  <2>1. SUFFICES ASSUME AdmittedBounded PROVE CamerasBounded
    OBVIOUS
  <2>2. Entries(camerasMap) \in SUBSET Cameras /\ Admitted \in SUBSET Callers
    BY DEF Entries, Admitted
  <2>3. /\ Cardinality(Entries(camerasMap)) \in Nat /\ Cardinality(Admitted) \in Nat
        /\ Cardinality(Callers) \in Nat /\ MaxCameras \in Nat
    BY <2>2, FiniteParts, RegistryAssumption
  <2> QED
    BY <2>1, <2>3 DEF AdmittedBounded, CamerasBounded
<1> QED
  BY <1>1, BoundedInit, BoundedStep, PTL DEF Spec

-----------------------------------------------------------------------------
\* A framework that waits for each answer has one request at a time for a camera.

DevState == [cams : SUBSET Cameras, state : {"INIT", "REGIST"}, queue : Seq(Ops)]
Shape ==
  /\ camerasMap \in [Cameras -> Devs \cup {NoDev}]
  /\ devs \in [Devs -> DevState]
  /\ CallsTyped
  /\ \A t \in Callers : /\ call[t].pc # "idle" => call[t].cam \in Cameras
                        /\ call[t].pc \in {"insert", "post", "posted"} => call[t].dev \in Devs
                        /\ call[t].pc \in {"idle", "count", "find"} => call[t].dev = NoDev
                        /\ call[t].pc \in {"count", "insert"} => call[t].op = "REGIST"
  /\ erasing \in [Cameras -> 0..1] /\ owed \in [Cameras -> 0..1]
  /\ enabled \subseteq Cameras /\ orphans \subseteq Cameras

\* The thread has the request for camera c and has not posted it.
Asks(t, c) == call[t].pc \in {"count", "find", "insert", "post"} /\ call[t].cam = c
\* Device d is made for camera c.
For(d, c) == devs[d].cams = {c}
Load(d) == Len(devs[d].queue)

\* Objects in use are made for one camera; the map and the threads refer to
\* objects made for the camera in question.
ObjectInv ==
  /\ \A d \in Devs : devs[d] = Dead \/ \E c \in Cameras : For(d, c)
  /\ \A c \in Cameras : camerasMap[c] # NoDev => For(camerasMap[c], c)
  /\ \A t \in Callers :
       /\ call[t].pc \in {"insert", "post", "posted"} => For(call[t].dev, call[t].cam)
       /\ call[t].pc = "insert" => camerasMap[call[t].cam] = NoDev /\ devs[call[t].dev].state = "INIT"
       /\ call[t].pc = "post" => camerasMap[call[t].cam] = call[t].dev

\* The request for camera c is in one place: nowhere, with one thread, in the queue
\* of the object in the map, or with the task that erases the entry.
NoThread(c) == \A t \in Callers : ~Asks(t, c)
NoQueue(c) == \A d \in Devs : For(d, c) => Load(d) = 0
AtRest(c) == owed[c] = 0 /\ erasing[c] = 0 /\ NoThread(c) /\ NoQueue(c)
WithThread(c) == /\ owed[c] = 1 /\ erasing[c] = 0 /\ NoQueue(c)
                 /\ \E t \in Callers : Asks(t, c) /\ \A u \in Callers \ {t} : ~Asks(u, c)
WithDevice(c) == /\ owed[c] = 1 /\ erasing[c] = 0 /\ NoThread(c)
                 /\ camerasMap[c] # NoDev /\ Load(camerasMap[c]) = 1
                 /\ \A d \in Devs \ {camerasMap[c]} : For(d, c) => Load(d) = 0
WithTask(c) == owed[c] = 1 /\ erasing[c] = 1 /\ NoThread(c) /\ NoQueue(c)
OneRequest(c) == AtRest(c) \/ WithThread(c) \/ WithDevice(c) \/ WithTask(c)

RequestInv == Shape /\ ObjectInv /\ \A c \in Cameras : OneRequest(c)

\* An entry that is about to be erased is not of an enabled camera, but for one
\* whose registering again the HAL has refused.
EnabledInv ==
  /\ EnabledIsReachable
  /\ \A c \in Cameras : erasing[c] > 0 /\ c \in enabled => c \in orphans

\* Queues: a length, and empty when it is zero.
LEMMA Queues == \A q \in Seq(Ops) : Len(q) \in Nat /\ (Len(q) = 0 <=> q = <<>>)
BY EmptySeq, LenProperties

\* An unused object has its type, no request and no camera.
LEMMA DeadIs == Dead \in DevState /\ Len(Dead.queue) = 0 /\ Dead.queue = <<>> /\ \A c : Dead.cams # {c}
BY EmptySeq DEF Dead, DevState

\* An object in use and its queue.
LEMMA ObjectIs ==
  ASSUME Shape, NEW d \in Devs
  PROVE  /\ devs[d] \in DevState /\ Load(d) \in Nat
         /\ Load(d) = 0 <=> devs[d].queue = <<>>
BY Queues DEF Shape, DevState, Load

\* The thread that has a request has the only one for its camera.
LEMMA Asker ==
  ASSUME RequestInv, NEW t \in Callers, call[t].pc \in {"count", "find", "insert", "post"}
  PROVE  LET c == call[t].cam IN
         /\ c \in Cameras /\ owed[c] = 1 /\ erasing[c] = 0 /\ NoQueue(c)
         /\ Asks(t, c) /\ \A u \in Callers \ {t} : ~Asks(u, c)
<1>1. call[t].cam \in Cameras /\ Asks(t, call[t].cam)
  BY DEF RequestInv, Shape, Asks
<1>2. WithThread(call[t].cam)
  BY <1>1 DEF RequestInv, OneRequest, AtRest, WithDevice, WithTask, NoThread
<1> QED
  BY <1>1, <1>2 DEF WithThread

\* The object that has a request is the one in the map, and it has no other.
LEMMA Worker ==
  ASSUME RequestInv, NEW d \in Devs, devs[d].queue # <<>>
  PROVE  /\ CamOf(d) \in Cameras /\ For(d, CamOf(d)) /\ camerasMap[CamOf(d)] = d
         /\ WithDevice(CamOf(d)) /\ Load(d) = 1
<1>1. devs[d] # Dead /\ Load(d) # 0
  BY DeadIs, ObjectIs DEF RequestInv
<1>2. CamOf(d) \in Cameras /\ For(d, CamOf(d))
  BY <1>1 DEF RequestInv, ObjectInv, For, CamOf
<1>3. WithDevice(CamOf(d))
  BY <1>1, <1>2 DEF RequestInv, OneRequest, AtRest, WithThread, WithTask, NoQueue
<1> QED
  BY <1>1, <1>2, <1>3 DEF WithDevice

\* A camera whose request stays where it is.
LEMMA Unmoved ==
  ASSUME NEW c \in Cameras, OneRequest(c),
         owed'[c] = owed[c], erasing'[c] = erasing[c], camerasMap'[c] = camerasMap[c],
         \A t \in Callers : Asks(t, c)' <=> Asks(t, c),
         \A d \in Devs : For(d, c)' => Load(d)' = 0 \/ (For(d, c) /\ Load(d)' = Load(d)),
         WithDevice(c) => Load(camerasMap[c])' = Load(camerasMap[c])
  PROVE  OneRequest(c)'
<1>1. CASE AtRest(c)
  BY <1>1 DEF OneRequest, AtRest, NoThread, NoQueue
<1>2. CASE WithThread(c)
  <2>1. NoQueue(c)'
    BY <1>2 DEF WithThread, NoQueue
  <2>2. PICK t \in Callers : Asks(t, c) /\ \A u \in Callers \ {t} : ~Asks(u, c)
    BY <1>2 DEF WithThread
  <2>3. Asks(t, c)' /\ \A u \in Callers \ {t} : ~Asks(u, c)'
    BY <2>2
  <2> QED
    BY <1>2, <2>1, <2>3 DEF OneRequest, WithThread
<1>3. CASE WithDevice(c)
  <2>1. NoThread(c)' /\ Load(camerasMap[c])' = 1
    BY <1>3 DEF WithDevice, NoThread
  <2>2. \A d \in Devs \ {camerasMap[c]} : For(d, c)' => Load(d)' = 0
    BY <1>3 DEF WithDevice
  <2> QED
    BY <1>3, <2>1, <2>2 DEF OneRequest, WithDevice
<1>4. CASE WithTask(c)
  BY <1>4 DEF OneRequest, WithTask, NoThread, NoQueue
<1> QED
  BY <1>1, <1>2, <1>3, <1>4 DEF OneRequest

\* Objects that are dropped are in no hand: what refers to an object keeps it.
LEMMA Collected ==
  ASSUME Shape, NEW m \in [Cameras -> Devs \cup {NoDev}], NEW cl, devs' = Collect(devs, m, cl)
  PROVE  /\ devs' \in [Devs -> DevState]
         /\ \A d \in Devs : devs'[d] = devs[d] \/ devs'[d] = Dead
         /\ \A c \in Cameras : m[c] # NoDev => devs'[m[c]] = devs[m[c]]
         /\ \A t \in Callers : cl[t].dev \in Devs => devs'[cl[t].dev] = devs[cl[t].dev]
<1>1. \A d \in Devs : devs'[d] = devs[d] \/ devs'[d] = Dead
  BY DEF Collect
<1>2. devs' \in [Devs -> DevState]
  BY DeadIs DEF Collect, Shape
<1> QED
  BY <1>1, <1>2 DEF Collect

-----------------------------------------------------------------------------
\* Every step keeps the one request of each camera in one place.

\* A request is made for a camera that has none.
LEMMA RequestStep ==
  ASSUME MaxOwed = 1, RequestInv, NEW t \in Callers, NEW op \in Ops, NEW c \in Cameras, Request(t, op, c)
  PROVE  RequestInv'
<1>s. Shape /\ ObjectInv /\ \A x \in Cameras : OneRequest(x)
  BY DEF RequestInv
<1> DEFINE p == IF op = "REGIST" THEN "count" ELSE "find"
<1>1. /\ call[t].pc = "idle" /\ owed[c] = 0 /\ owed'[c] = 1
      /\ call'[t].pc \in {"count", "find"} /\ call'[t].cam = c /\ call'[t].dev = NoDev
      /\ call'[t].op = op /\ (call'[t].pc = "count" => op = "REGIST")
      /\ \A u \in Callers \ {t} : call'[u] = call[u]
      /\ \A x \in Cameras \ {c} : owed'[x] = owed[x]
      /\ UNCHANGED <<camerasMap, devs, erasing, enabled, orphans>>
  BY <1>s DEF Request, Shape, CallsTyped
<1>2. Shape'
  <2>1. call' \in [Callers -> [pc : Pcs, op : Ops, cam : Cameras \cup {NoDev}, dev : Devs \cup {NoDev}]]
    BY <1>s DEF Request, Shape, CallsTyped, Pcs
  <2>2. owed' \in [Cameras -> 0..1]
    BY <1>s DEF Request, Shape
  <2> QED
    BY <1>1, <2>1, <2>2, <1>s DEF Shape, CallsTyped
<1>3. ObjectInv'
  BY <1>1, <1>s DEF ObjectInv, For
<1>4. ASSUME NEW x \in Cameras \ {c} PROVE OneRequest(x)'
  <2>1. \A u \in Callers : Asks(u, x)' <=> Asks(u, x)
    BY <1>1 DEF Asks
  <2> QED
    BY <2>1, <1>1, <1>s, Unmoved DEF For, Load
<1>5. OneRequest(c)'
  <2>1. AtRest(c)
    BY <1>1, <1>s DEF OneRequest, WithThread, WithDevice, WithTask
  <2>2. Asks(t, c)' /\ \A u \in Callers \ {t} : ~Asks(u, c)'
    BY <1>1, <2>1 DEF AtRest, NoThread, Asks
  <2>3. WithThread(c)'
    BY <1>1, <2>1, <2>2 DEF AtRest, WithThread, NoQueue, For, Load
  <2> QED
    BY <2>3 DEF OneRequest
<1> QED
  BY <1>2, <1>3, <1>4, <1>5 DEF RequestInv

\* An error return answers it.
LEMMA RefuseStep ==
  ASSUME RequestInv, NEW t \in Callers, call[t].pc \in {"count", "find"}, Refuse(t)
  PROVE  RequestInv'
<1>s. Shape /\ ObjectInv /\ \A x \in Cameras : OneRequest(x)
  BY DEF RequestInv
<1>c. PICK c \in Cameras : c = call[t].cam
  BY <1>s DEF Shape
<1>a. /\ owed[c] = 1 /\ erasing[c] = 0 /\ NoQueue(c)
      /\ Asks(t, c) /\ \A u \in Callers \ {t} : ~Asks(u, c)
  BY Asker, <1>c
<1>1. /\ call'[t] = Idle /\ \A u \in Callers \ {t} : call'[u] = call[u]
      /\ owed'[c] = 0 /\ \A x \in Cameras \ {c} : owed'[x] = owed[x]
      /\ UNCHANGED <<camerasMap, devs, erasing, enabled, orphans>>
  BY <1>s, <1>a, <1>c DEF Refuse, Shape, CallsTyped
<1>2. Shape'
  <2>1. call' \in [Callers -> [pc : Pcs, op : Ops, cam : Cameras \cup {NoDev}, dev : Devs \cup {NoDev}]]
    BY <1>s DEF Refuse, Shape, CallsTyped, Idle, Pcs, Ops
  <2>2. owed' \in [Cameras -> 0..1]
    BY <1>s, <1>a, <1>c DEF Refuse, Shape
  <2> QED
    BY <1>1, <2>1, <2>2, <1>s DEF Shape, CallsTyped, Idle
<1>3. ObjectInv'
  BY <1>1, <1>s DEF ObjectInv, For, Idle
<1>4. ASSUME NEW x \in Cameras \ {c} PROVE OneRequest(x)'
  <2>1. \A u \in Callers : Asks(u, x)' <=> Asks(u, x)
    BY <1>1, <1>c DEF Asks, Idle
  <2> QED
    BY <2>1, <1>1, <1>s, Unmoved DEF For, Load
<1>5. OneRequest(c)'
  <2>1. NoThread(c)'
    BY <1>1, <1>a DEF NoThread, Asks, Idle
  <2> QED
    BY <1>1, <1>a, <2>1 DEF OneRequest, AtRest, NoQueue, For, Load
<1> QED
  BY <1>2, <1>3, <1>4, <1>5 DEF RequestInv

\* A thread goes on with its request for camera c: it has found or made the
\* object d, or entered it in the map.
LEMMA AdvanceStep ==
  ASSUME RequestInv, NEW t \in Callers, NEW c \in Cameras, c = call[t].cam,
         NEW pc \in {"find", "post", "insert"}, NEW d \in Devs \cup {NoDev},
         call[t].pc \in {"count", "find", "insert"},
         call' \in [Callers -> [pc : Pcs, op : Ops, cam : Cameras \cup {NoDev}, dev : Devs \cup {NoDev}]],
         call'[t].pc = pc, call'[t].dev = d, call'[t].cam = c,
         \A u \in Callers \ {t} : call'[u] = call[u],
         pc = "find" => d = NoDev,
         pc = "post" => d # NoDev /\ camerasMap'[c] = d,
         pc = "insert" => /\ d # NoDev /\ camerasMap'[c] = NoDev /\ call'[t].op = "REGIST"
                          /\ For(d, c)' /\ devs'[d].state = "INIT",
         \A x \in Cameras \ {c} : camerasMap'[x] = camerasMap[x],
         camerasMap'[c] = camerasMap[c] \/ (camerasMap'[c] # NoDev /\ devs'[camerasMap'[c]].cams = {c}),
         devs' \in [Devs -> DevState], camerasMap' \in [Cameras -> Devs \cup {NoDev}],
         \A x \in Devs : devs'[x] = devs[x] \/ (devs[x] = Dead /\ For(x, c)' /\ Load(x)' = 0),
         UNCHANGED <<erasing, owed, enabled, orphans>>
  PROVE  RequestInv'
<1>s. Shape /\ ObjectInv /\ \A x \in Cameras : OneRequest(x)
  BY DEF RequestInv
<1>a. /\ owed[c] = 1 /\ erasing[c] = 0 /\ NoQueue(c)
      /\ Asks(t, c) /\ \A u \in Callers \ {t} : ~Asks(u, c)
  BY Asker
<1>2. Shape'
  <2>1. CallsTyped'
    BY DEF CallsTyped
  <2>2. /\ erasing' \in [Cameras -> 0..1] /\ owed' \in [Cameras -> 0..1]
        /\ enabled' \subseteq Cameras /\ orphans' \subseteq Cameras
    BY <1>s DEF Shape
  <2>3. ASSUME NEW u \in Callers
        PROVE  /\ call'[u].pc # "idle" => call'[u].cam \in Cameras
               /\ call'[u].pc \in {"insert", "post", "posted"} => call'[u].dev \in Devs
               /\ call'[u].pc \in {"idle", "count", "find"} => call'[u].dev = NoDev
               /\ call'[u].pc \in {"count", "insert"} => call'[u].op = "REGIST"
    <3>1. CASE u = t
      BY <3>1, <1>s DEF Shape
    <3>2. CASE u # t
      BY <3>2, <1>s DEF Shape
    <3> QED
      BY <3>1, <3>2
  <2> QED
    BY <2>1, <2>2, <2>3 DEF Shape
<1>f. ASSUME NEW x \in Devs, NEW y \in Cameras, For(x, y)
      PROVE  For(x, y)' /\ devs'[x] = devs[x] /\ Load(x)' = Load(x)
  BY <1>f, DeadIs DEF For, Load
<1>o. For(d, c)' \/ d = NoDev
  <2>1. CASE pc = "post"
    <3>1. camerasMap'[c] # NoDev
      BY <2>1, RegistryAssumption
    <3>2. CASE camerasMap'[c] = camerasMap[c]
      <4>1. camerasMap[c] \in Devs /\ For(camerasMap[c], c)
        BY <3>1, <3>2, <1>s DEF Shape, ObjectInv
      <4> QED
        BY <4>1, <3>2, <2>1, <1>f DEF For
    <3> QED
      BY <3>2, <2>1 DEF For
  <2> QED
    BY <2>1
<1>3. ObjectInv'
  <2>1. \A x \in Devs : devs'[x] = Dead \/ \E y \in Cameras : For(x, y)'
    BY <1>s, <1>f DEF ObjectInv
  <2>2. ASSUME NEW y \in Cameras, camerasMap'[y] # NoDev PROVE devs'[camerasMap'[y]].cams = {y}
    <3>1. CASE camerasMap'[y] = camerasMap[y]
      <4>1. camerasMap[y] \in Devs /\ For(camerasMap[y], y)
        BY <3>1, <2>2, <1>s DEF Shape, ObjectInv
      <4> QED
        BY <4>1, <3>1, <1>f DEF For
    <3> QED
      BY <3>1, <2>2
  <2>3. ASSUME NEW u \in Callers \ {t}, call'[u].pc \in {"insert", "post", "posted"}
        PROVE  devs'[call'[u].dev].cams = {call'[u].cam}
    <3>1. call[u].dev \in Devs /\ call[u].cam \in Cameras /\ For(call[u].dev, call[u].cam)
      BY <2>3, <1>s DEF Shape, ObjectInv
    <3>2. For(call[u].dev, call[u].cam)' /\ call'[u] = call[u]
      BY <3>1, <1>f
    <3> QED
      BY <3>2 DEF For
  <2>4. ASSUME NEW u \in Callers \ {t}, call'[u].pc \in {"insert", "post"}
        PROVE  camerasMap'[call'[u].cam] = camerasMap[call[u].cam]
    <3>1. call'[u] = call[u] /\ call[u].cam \in Cameras /\ call[u].cam # c
      BY <2>4, <1>a, <1>s DEF Shape, Asks
    <3> QED
      BY <3>1
  <2>5. ASSUME NEW u \in Callers \ {t}, call'[u].pc = "insert"
        PROVE  devs'[call'[u].dev] = devs[call[u].dev]
    <3>1. call[u].dev \in Devs /\ call[u].cam \in Cameras /\ For(call[u].dev, call[u].cam)
      BY <2>5, <1>s DEF Shape, ObjectInv
    <3> QED
      BY <3>1, <1>f
  <2>6. ASSUME NEW u \in Callers \ {t}
        PROVE  /\ call'[u].pc \in {"insert", "post", "posted"} => devs'[call'[u].dev].cams = {call'[u].cam}
               /\ call'[u].pc = "insert" => /\ camerasMap'[call'[u].cam] = NoDev
                                            /\ devs'[call'[u].dev].state = "INIT"
               /\ call'[u].pc = "post" => camerasMap'[call'[u].cam] = call'[u].dev
    BY <2>3, <2>4, <2>5, <1>s DEF ObjectInv
  <2>7. /\ call'[t].pc \in {"insert", "post", "posted"} => devs'[call'[t].dev].cams = {call'[t].cam}
        /\ call'[t].pc = "insert" => /\ camerasMap'[call'[t].cam] = NoDev
                                     /\ devs'[call'[t].dev].state = "INIT"
        /\ call'[t].pc = "post" => camerasMap'[call'[t].cam] = call'[t].dev
    BY <1>o DEF For
  <2> QED
    BY <2>1, <2>2, <2>6, <2>7 DEF ObjectInv, For
<1>4. ASSUME NEW x \in Cameras \ {c} PROVE OneRequest(x)'
  <2>1. \A u \in Callers : Asks(u, x)' <=> Asks(u, x)
    BY DEF Asks
  <2>2. \A y \in Devs : For(y, x)' => For(y, x) /\ Load(y)' = Load(y)
    BY DEF For, Load
  <2>3. WithDevice(x) => Load(camerasMap[x])' = Load(camerasMap[x])
    BY <1>s, <1>f DEF WithDevice, Shape, ObjectInv
  <2> QED
    BY <2>1, <2>2, <2>3, <1>s, Unmoved
<1>5. OneRequest(c)'
  <2>1. Asks(t, c)' /\ \A u \in Callers \ {t} : ~Asks(u, c)'
    BY <1>a DEF Asks
  <2>2. NoQueue(c)'
    BY <1>a DEF NoQueue, For, Load
  <2> QED
    BY <1>a, <2>1, <2>2 DEF OneRequest, WithThread
<1> QED
  BY <1>2, <1>3, <1>4, <1>5 DEF RequestInv

\* The count lets it go on.
LEMMA CountStep ==
  ASSUME RequestInv, NEW t \in Callers, Count(t)
  PROVE  RequestInv'
<1>s. Shape
  BY DEF RequestInv
<1>1. CASE Refuse(t)
  BY <1>1, RefuseStep DEF Count
<1>2. CASE call' = [call EXCEPT ![t].pc = "find"] /\ UNCHANGED <<camerasMap, devs, erasing, owed, enabled, orphans>>
  <2>1. PICK c \in Cameras : c = call[t].cam
    BY <1>s DEF Shape, Count
  <2>2. /\ call'[t].pc = "find" /\ call'[t].dev = NoDev /\ call'[t].cam = c
        /\ \A u \in Callers \ {t} : call'[u] = call[u]
        /\ call' \in [Callers -> [pc : Pcs, op : Ops, cam : Cameras \cup {NoDev}, dev : Devs \cup {NoDev}]]
    BY <1>2, <1>s, <2>1 DEF Shape, CallsTyped, Pcs, Count
  <2> QED
    BY <1>2, <2>1, <2>2, <1>s, AdvanceStep DEF Shape, Count
<1> QED
  BY <1>1, <1>2 DEF Count

\* The lookup finds the object of the camera, or makes one for a registration.
LEMMA FindStep ==
  ASSUME RequestInv, NEW t \in Callers, Find(t)
  PROVE  RequestInv'
<1>s. Shape /\ ObjectInv
  BY DEF RequestInv
<1>t. call[t].pc = "find"
  BY DEF Find
<1>c. PICK c \in Cameras : c = call[t].cam
  BY <1>s, <1>t DEF Shape
<1>1. CASE Refuse(t)
  BY <1>1, <1>t, RefuseStep
<1>h. ASSUME NEW d \in Devs, NEW pc \in {"post", "insert"}, call' = [call EXCEPT ![t] = Holding(t, d, pc)]
      PROVE  /\ call'[t].pc = pc /\ call'[t].dev = d /\ call'[t].cam = c /\ call'[t].op = call[t].op
             /\ \A u \in Callers \ {t} : call'[u] = call[u]
             /\ call' \in [Callers -> [pc : Pcs, op : Ops, cam : Cameras \cup {NoDev},
                                       dev : Devs \cup {NoDev}]]
  <2>1. call[t] \in [pc : Pcs, op : Ops, cam : Cameras \cup {NoDev}, dev : Devs \cup {NoDev}]
    BY <1>s DEF Shape, CallsTyped
  <2>2. PICK r : r = Holding(t, d, pc)
    OBVIOUS
  <2>3. /\ r \in [pc : Pcs, op : Ops, cam : Cameras \cup {NoDev}, dev : Devs \cup {NoDev}]
        /\ r.pc = pc /\ r.dev = d /\ r.op = call[t].op /\ r.cam = call[t].cam
    BY <2>1, <2>2 DEF Holding, Pcs
  <2> QED
    BY <2>2, <2>3, <1>h, <1>s, <1>c DEF Shape, CallsTyped
<1>2. CASE camerasMap[c] # NoDev
  <2>1. PICK d \in Devs : d = camerasMap[c]
    BY <1>2, <1>s DEF Shape
  <2>2. /\ call' = [call EXCEPT ![t] = Holding(t, d, "post")]
        /\ UNCHANGED <<camerasMap, devs, erasing, owed, enabled, orphans>>
    BY <1>2, <2>1, <1>c DEF Find
  <2> QED
    BY <2>1, <2>2, <1>2, <1>h, <1>c, <1>t, <1>s, AdvanceStep DEF Shape
<1>3. CASE camerasMap[c] = NoDev /\ call[t].op = "REGIST"
  <2>1. PICK n : n = CHOOSE x \in Unused : TRUE
    OBVIOUS
  <2>2. /\ Unused # {}
        /\ call' = [call EXCEPT ![t] = Holding(t, n, "insert")]
        /\ devs' = [devs EXCEPT ![n].cams = {c}]
        /\ UNCHANGED <<camerasMap, erasing, owed, enabled, orphans>>
    BY <1>3, <2>1, <1>c DEF Find
  <2>3. n \in Devs /\ devs[n] = Dead
    BY <2>1, <2>2 DEF Unused
  <2>4. /\ devs' \in [Devs -> DevState]
        /\ devs'[n].cams = {c} /\ devs'[n].state = "INIT" /\ devs'[n].queue = <<>>
        /\ \A x \in Devs \ {n} : devs'[x] = devs[x]
    BY <2>2, <2>3, <1>s, DeadIs DEF Shape, DevState, Dead
  <2>5. For(n, c)' /\ Load(n)' = 0
    BY <2>4, Queues, EmptySeq DEF For, Load
  <2>6. n # NoDev
    BY <2>3, RegistryAssumption
  <2>7. \A x \in Devs : devs'[x] = devs[x] \/ (devs[x] = Dead /\ For(x, c)' /\ Load(x)' = 0)
    BY <2>3, <2>4, <2>5
  <2>8. /\ call'[t].pc = "insert" /\ call'[t].dev = n /\ call'[t].cam = c /\ call'[t].op = "REGIST"
        /\ \A u \in Callers \ {t} : call'[u] = call[u]
        /\ call' \in [Callers -> [pc : Pcs, op : Ops, cam : Cameras \cup {NoDev},
                                  dev : Devs \cup {NoDev}]]
    BY <2>2, <2>3, <1>3, <1>h
  <2> QED
    BY <2>2, <2>3, <2>4, <2>5, <2>6, <2>7, <2>8, <1>3, <1>c, <1>t, <1>s, AdvanceStep DEF Shape
<1>4. CASE camerasMap[c] = NoDev /\ call[t].op # "REGIST"
  BY <1>4, <1>c, <1>1 DEF Find
<1> QED
  BY <1>2, <1>3, <1>4

\* The object is entered where there is no entry.
LEMMA InsertStep ==
  ASSUME RequestInv, NEW t \in Callers, CamDevInsert(t)
  PROVE  RequestInv'
<1>s. Shape /\ ObjectInv
  BY DEF RequestInv
<1>t. call[t].pc = "insert"
  BY DEF CamDevInsert
<1>1. PICK c \in Cameras, d \in Devs : c = call[t].cam /\ d = call[t].dev
  BY <1>s, <1>t DEF Shape
<1>2. camerasMap[c] = NoDev /\ For(d, c)
  BY <1>1, <1>s, <1>t DEF ObjectInv
<1>3. /\ camerasMap' = [camerasMap EXCEPT ![c] = d] /\ UNCHANGED <<devs, erasing, owed, enabled, orphans>>
  BY <1>1, <1>2 DEF CamDevInsert
<1>4. /\ call'[t].pc = "post" /\ call'[t].dev = d /\ call'[t].cam = c
      /\ \A u \in Callers \ {t} : call'[u] = call[u]
      /\ call' \in [Callers -> [pc : Pcs, op : Ops, cam : Cameras \cup {NoDev}, dev : Devs \cup {NoDev}]]
  BY <1>1, <1>s DEF CamDevInsert, Shape, CallsTyped, Pcs
<1>5. /\ camerasMap'[c] = d /\ \A x \in Cameras \ {c} : camerasMap'[x] = camerasMap[x]
      /\ camerasMap' \in [Cameras -> Devs \cup {NoDev}] /\ d # NoDev
      /\ devs'[camerasMap'[c]].cams = {c}
  BY <1>2, <1>3, <1>s, RegistryAssumption DEF Shape, For
<1> QED
  BY <1>1, <1>3, <1>4, <1>5, <1>t, <1>s, AdvanceStep DEF Shape

\* The request goes from the thread to the object in the map.
LEMMA PostStep ==
  ASSUME RequestInv, NEW t \in Callers, Post(t)
  PROVE  RequestInv'
<1>s. Shape /\ ObjectInv /\ \A x \in Cameras : OneRequest(x)
  BY DEF RequestInv
<1>t. call[t].pc = "post"
  BY DEF Post
<1>1. PICK c \in Cameras, d \in Devs : c = call[t].cam /\ d = call[t].dev
  BY <1>s, <1>t DEF Shape
<1>a. /\ owed[c] = 1 /\ erasing[c] = 0 /\ NoQueue(c)
      /\ Asks(t, c) /\ \A u \in Callers \ {t} : ~Asks(u, c)
  BY Asker, <1>1, <1>t
<1>2. camerasMap[c] = d /\ For(d, c) /\ Load(d) = 0
  BY <1>1, <1>s, <1>t, <1>a DEF ObjectInv, NoQueue
<1>3. /\ call'[t].pc = "posted" /\ call'[t].dev = d /\ call'[t].cam = c
      /\ \A u \in Callers \ {t} : call'[u] = call[u]
      /\ call' \in [Callers -> [pc : Pcs, op : Ops, cam : Cameras \cup {NoDev}, dev : Devs \cup {NoDev}]]
  BY <1>1, <1>s DEF Post, Shape, CallsTyped, Pcs
<1>4. /\ devs' \in [Devs -> DevState]
      /\ devs'[d].cams = devs[d].cams /\ devs'[d].state = devs[d].state
      /\ devs'[d].queue = Append(devs[d].queue, call[t].op)
      /\ \A x \in Devs \ {d} : devs'[x] = devs[x]
  <2>1. devs[d] \in DevState /\ call[t].op \in Ops
    BY <1>s DEF Shape, CallsTyped
  <2>2. Append(devs[d].queue, call[t].op) \in Seq(Ops)
    BY <2>1, AppendProperties DEF DevState
  <2> QED
    BY <1>1, <2>1, <2>2, <1>s DEF Post, Shape, DevState
<1>5. Load(d)' = 1
  BY <1>2, <1>4, <1>s, AppendProperties DEF Load, Shape, DevState, CallsTyped
<1>u. UNCHANGED <<camerasMap, erasing, owed, enabled, orphans>>
  BY DEF Post
<1>f. \A x \in Devs, y \in Cameras : For(x, y)' <=> For(x, y)
  BY <1>4 DEF For
<1>6. Shape'
  BY <1>3, <1>4, <1>u, <1>s DEF Shape, CallsTyped
<1>7. ObjectInv'
  <2>1. \A x \in Devs : devs'[x] = Dead \/ \E y \in Cameras : For(x, y)'
    BY <1>2, <1>f, <1>4, <1>s DEF ObjectInv
  <2>2. \A y \in Cameras : camerasMap[y] # NoDev => devs'[camerasMap[y]].cams = {y}
    BY <1>4, <1>s DEF ObjectInv, For, Shape
  <2>3. \A x \in Devs : devs'[x].cams = devs[x].cams /\ devs'[x].state = devs[x].state
    BY <1>4
  <2>4. \A u \in Callers \ {t} : call[u].pc \in {"insert", "post", "posted"} => call[u].dev \in Devs
    BY <1>s DEF Shape
  <2> QED
    BY <2>1, <2>2, <2>3, <2>4, <1>2, <1>3, <1>u, <1>s, SMTT(30) DEF ObjectInv, For
<1>8. ASSUME NEW x \in Cameras \ {c} PROVE OneRequest(x)'
  <2>1. \A u \in Callers : Asks(u, x)' <=> Asks(u, x)
    BY <1>1, <1>3 DEF Asks
  <2>2. \A y \in Devs : For(y, x)' => For(y, x) /\ Load(y)' = Load(y)
    BY <1>f, <1>2, <1>4 DEF For, Load
  <2>3. WithDevice(x) => Load(camerasMap[x])' = Load(camerasMap[x])
    BY <2>2, <1>f, <1>s, <1>u DEF WithDevice, Shape, ObjectInv
  <2> QED
    BY <2>1, <2>2, <2>3, <1>u, <1>s, Unmoved
<1>9. OneRequest(c)'
  <2>1. NoThread(c)'
    BY <1>3, <1>a DEF NoThread, Asks
  <2>2. \A y \in Devs \ {d} : For(y, c)' => Load(y)' = 0
    BY <1>f, <1>4, <1>a DEF NoQueue, Load
  <2>3. d # NoDev
    BY RegistryAssumption
  <2> QED
    BY <2>1, <2>2, <2>3, <1>2, <1>5, <1>u, <1>a DEF OneRequest, WithDevice
<1> QED
  BY <1>6, <1>7, <1>8, <1>9 DEF RequestInv

\* A thread that returns leaves its request with the object it posted to.
LEMMA ReturnStep ==
  ASSUME RequestInv, NEW t \in Callers, Return(t)
  PROVE  RequestInv'
<1>s. Shape /\ ObjectInv /\ \A x \in Cameras : OneRequest(x)
  BY DEF RequestInv
<1>1. /\ call[t].pc = "posted" /\ call'[t] = Idle /\ \A u \in Callers \ {t} : call'[u] = call[u]
      /\ call' \in [Callers -> [pc : Pcs, op : Ops, cam : Cameras \cup {NoDev}, dev : Devs \cup {NoDev}]]
      /\ UNCHANGED <<camerasMap, erasing, owed, enabled, orphans>>
  BY <1>s DEF Return, Shape, CallsTyped, Idle, Pcs, Ops
<1>2. /\ devs' \in [Devs -> DevState]
      /\ \A d \in Devs : devs'[d] = devs[d] \/ devs'[d] = Dead
      /\ \A c \in Cameras : camerasMap[c] # NoDev => devs'[camerasMap[c]] = devs[camerasMap[c]]
      /\ \A u \in Callers : call'[u].dev \in Devs => devs'[call'[u].dev] = devs[call'[u].dev]
  <2>1. devs' = Collect(devs, camerasMap, call')
    BY DEF Return
  <2>2. camerasMap \in [Cameras -> Devs \cup {NoDev}]
    BY <1>s DEF Shape
  <2> QED
    BY <2>1, <2>2, <1>s, Collected
<1>3. Shape'
  BY <1>1, <1>2, <1>s DEF Shape, CallsTyped, Idle
<1>f. \A x \in Devs, y \in Cameras : For(x, y)' => For(x, y) /\ Load(x)' = Load(x)
  BY <1>2, DeadIs DEF For, Load
<1>4. ObjectInv'
  <2>1. \A x \in Devs : devs'[x] = Dead \/ \E y \in Cameras : For(x, y)'
    BY <1>2, <1>s DEF ObjectInv, For
  <2>2. \A u \in Callers \ {t} : call[u].pc \in {"insert", "post", "posted"} => call[u].dev \in Devs
    BY <1>s DEF Shape
  <2>3. \A u \in Callers \ {t} : call[u].pc \in {"insert", "post", "posted"} =>
           devs'[call[u].dev] = devs[call[u].dev]
    BY <2>2, <1>1, <1>2
  <2>4. \A y \in Cameras : camerasMap'[y] # NoDev => devs'[camerasMap'[y]].cams = {y}
    BY <1>1, <1>2, <1>s DEF ObjectInv, For
  <2>5. call'[t].pc = "idle"
    BY <1>1 DEF Idle
  <2>6. \A u \in Callers \ {t} : call[u].pc \in {"insert", "post", "posted"} =>
           devs'[call[u].dev].cams = {call[u].cam}
    BY <2>3, <1>s DEF ObjectInv, For
  <2>7. \A u \in Callers \ {t} : call[u].pc = "insert" => devs'[call[u].dev].state = "INIT"
    BY <2>3, <1>s DEF ObjectInv
  <2>8. \A u \in Callers \ {t} : /\ call[u].pc = "insert" => camerasMap[call[u].cam] = NoDev
                                 /\ call[u].pc = "post" => camerasMap[call[u].cam] = call[u].dev
    BY <1>s DEF ObjectInv
  <2> QED
    BY <2>1, <2>4, <2>5, <2>6, <2>7, <2>8, <1>1 DEF ObjectInv, For
<1>5. ASSUME NEW x \in Cameras PROVE OneRequest(x)'
  <2>1. \A u \in Callers : Asks(u, x)' <=> Asks(u, x)
    BY <1>1 DEF Asks, Idle
  <2>2. WithDevice(x) => Load(camerasMap[x])' = Load(camerasMap[x])
    BY <1>1, <1>2 DEF WithDevice, Load
  <2> QED
    BY <2>1, <2>2, <1>1, <1>f, <1>s, Unmoved
<1> QED
  BY <1>3, <1>4, <1>5 DEF RequestInv

\* The object takes its one request and answers it, or leaves that to a task.
LEMMA ServeStep ==
  ASSUME RequestInv, NEW d \in Devs, devs[d].queue # <<>>, NEW state \in {"INIT", "REGIST"}, Serve(d, state),
         NEW c \in Cameras, c = CamOf(d), AnswerNow(c) \/ AnswerAfterErase(c),
         enabled' \subseteq Cameras, orphans' \subseteq Cameras, UNCHANGED <<camerasMap, call>>
  PROVE  RequestInv'
<1>s. Shape /\ ObjectInv /\ \A x \in Cameras : OneRequest(x)
  BY DEF RequestInv
<1>a. For(d, c) /\ camerasMap[c] = d /\ WithDevice(c) /\ Load(d) = 1
  BY Worker
<1>1. /\ devs' \in [Devs -> DevState]
      /\ devs'[d].cams = devs[d].cams /\ devs'[d].queue = Tail(devs[d].queue)
      /\ \A x \in Devs \ {d} : devs'[x] = devs[x]
  <2>1. devs[d] \in DevState
    BY <1>s DEF Shape
  <2>2. Tail(devs[d].queue) \in Seq(Ops)
    BY <2>1, HeadTailProperties DEF DevState
  <2> QED
    BY <2>1, <2>2, <1>s DEF Serve, Shape, DevState
<1>2. Load(d)' = 0
  BY <1>1, <1>a, <1>s, HeadTailProperties DEF Load, Shape, DevState
<1>f. \A x \in Devs, y \in Cameras : For(x, y)' <=> For(x, y)
  BY <1>1 DEF For
<1>3. /\ owed' \in [Cameras -> 0..1] /\ erasing' \in [Cameras -> 0..1]
      /\ \A x \in Cameras \ {c} : owed'[x] = owed[x] /\ erasing'[x] = erasing[x]
      /\ (owed'[c] = 0 /\ erasing'[c] = 0) \/ (owed'[c] = 1 /\ erasing'[c] = 1)
  <2>1. owed[c] = 1 /\ erasing[c] = 0
    BY <1>a DEF WithDevice
  <2> QED
    BY <2>1, <1>s DEF Shape, AnswerNow, AnswerAfterErase
<1>4. Shape'
  BY <1>1, <1>3, <1>s DEF Shape, CallsTyped
<1>5. ObjectInv'
  <2>1. \A x \in Devs : devs'[x] = Dead \/ \E y \in Cameras : For(x, y)'
    BY <1>a, <1>f, <1>1, <1>s DEF ObjectInv
  <2>2. \A x \in Devs : devs'[x].cams = devs[x].cams
    BY <1>1
  <2>3. ASSUME NEW u \in Callers, call[u].pc = "insert" PROVE devs'[call[u].dev] = devs[call[u].dev]
    <3>1. /\ call[u].dev \in Devs /\ call[u].cam \in Cameras /\ For(call[u].dev, call[u].cam)
          /\ camerasMap[call[u].cam] = NoDev
      BY <2>3, <1>s DEF Shape, ObjectInv
    <3>2. call[u].dev # d
      BY <3>1, <1>a, RegistryAssumption DEF For
    <3> QED
      BY <3>1, <3>2, <1>1
  <2>4. \A u \in Callers : call[u].pc \in {"insert", "post", "posted"} => call[u].dev \in Devs
    BY <1>s DEF Shape
  <2>5. \A y \in Cameras : camerasMap[y] # NoDev => camerasMap[y] \in Devs
    BY <1>s DEF Shape
  <2> QED
    BY <2>1, <2>2, <2>3, <2>4, <2>5, <1>s DEF ObjectInv, For
<1>6. ASSUME NEW x \in Cameras \ {c} PROVE OneRequest(x)'
  <2>1. \A u \in Callers : Asks(u, x)' <=> Asks(u, x)
    BY DEF Asks
  <2>2. \A y \in Devs : For(y, x)' => For(y, x) /\ Load(y)' = Load(y)
    BY <1>f, <1>a, <1>1 DEF For, Load
  <2>3. WithDevice(x) => Load(camerasMap[x])' = Load(camerasMap[x])
    BY <2>2, <1>f, <1>s DEF WithDevice, Shape, ObjectInv
  <2> QED
    BY <2>1, <2>2, <2>3, <1>3, <1>s, Unmoved
<1>7. OneRequest(c)'
  <2>1. NoThread(c)'
    BY <1>a DEF WithDevice, NoThread, Asks
  <2>2. NoQueue(c)'
    BY <1>f, <1>a, <1>1, <1>2 DEF WithDevice, NoQueue, Load
  <2> QED
    BY <2>1, <2>2, <1>3 DEF OneRequest, AtRest, WithTask
<1> QED
  BY <1>4, <1>5, <1>6, <1>7 DEF RequestInv

\* The task erases the entry and answers.
LEMMA EraseStep ==
  ASSUME RequestInv, NEW c \in Cameras, CamDevErase(c)
  PROVE  RequestInv'
<1>s. Shape /\ ObjectInv /\ \A x \in Cameras : OneRequest(x)
  BY DEF RequestInv
<1>a. owed[c] = 1 /\ erasing[c] = 1 /\ NoThread(c) /\ NoQueue(c)
  BY <1>s DEF CamDevErase, OneRequest, AtRest, WithThread, WithDevice, WithTask
<1>1. /\ owed' \in [Cameras -> 0..1] /\ erasing' \in [Cameras -> 0..1]
      /\ owed'[c] = 0 /\ erasing'[c] = 0
      /\ \A x \in Cameras \ {c} : owed'[x] = owed[x] /\ erasing'[x] = erasing[x]
      /\ camerasMap' \in [Cameras -> Devs \cup {NoDev}] /\ camerasMap'[c] = NoDev
      /\ \A x \in Cameras \ {c} : camerasMap'[x] = camerasMap[x]
      /\ UNCHANGED <<call, enabled, orphans>>
  BY <1>a, <1>s DEF CamDevErase, Shape
<1>2. /\ devs' \in [Devs -> DevState]
      /\ \A d \in Devs : devs'[d] = devs[d] \/ devs'[d] = Dead
      /\ \A x \in Cameras : camerasMap'[x] # NoDev => devs'[camerasMap'[x]] = devs[camerasMap'[x]]
      /\ \A u \in Callers : call[u].dev \in Devs => devs'[call[u].dev] = devs[call[u].dev]
  <2>1. devs' = Collect(devs, camerasMap', call)
    BY DEF CamDevErase
  <2> QED
    BY <2>1, <1>1, <1>s, Collected
<1>3. Shape'
  BY <1>1, <1>2, <1>s DEF Shape, CallsTyped
<1>f. \A x \in Devs, y \in Cameras : For(x, y)' => For(x, y) /\ Load(x)' = Load(x)
  BY <1>2, DeadIs DEF For, Load
<1>4. ObjectInv'
  <2>1. \A x \in Devs : devs'[x] = Dead \/ \E y \in Cameras : For(x, y)'
    BY <1>2, <1>s DEF ObjectInv, For
  <2>2. \A y \in Cameras : camerasMap'[y] # NoDev => devs'[camerasMap'[y]].cams = {y}
    BY <1>1, <1>2, <1>s DEF ObjectInv, For
  <2>3. \A u \in Callers : call[u].pc \in {"insert", "post", "posted"} =>
           devs'[call[u].dev] = devs[call[u].dev]
    BY <1>2, <1>s DEF Shape
  <2>4. \A u \in Callers : call[u].pc \in {"insert", "post"} =>
           camerasMap'[call[u].cam] = camerasMap[call[u].cam]
    BY <1>1, <1>a, <1>s DEF NoThread, Asks, Shape
  <2> QED
    BY <2>1, <2>2, <2>3, <2>4, <1>1, <1>s DEF ObjectInv, For
<1>5. ASSUME NEW x \in Cameras \ {c} PROVE OneRequest(x)'
  <2>1. \A u \in Callers : Asks(u, x)' <=> Asks(u, x)
    BY <1>1 DEF Asks
  <2>2. WithDevice(x) => Load(camerasMap[x])' = Load(camerasMap[x])
    BY <1>1, <1>2 DEF WithDevice, Load
  <2> QED
    BY <2>1, <2>2, <1>1, <1>f, <1>s, Unmoved
<1>6. OneRequest(c)'
  BY <1>1, <1>a, <1>f DEF OneRequest, AtRest, NoThread, NoQueue, Asks
<1> QED
  BY <1>3, <1>4, <1>5, <1>6 DEF RequestInv

-----------------------------------------------------------------------------
\* The invariants hold at the start and in every step.

\* No request at the start.
LEMMA RequestInit == Init => RequestInv
<1> SUFFICES ASSUME Init PROVE RequestInv
  OBVIOUS
<1>1. Shape
  BY DeadIs, RegistryAssumption DEF Init, Shape, CallsTyped, Idle, Pcs, Ops
<1>2. ObjectInv
  BY DEF Init, ObjectInv, Idle
<1>3. \A c \in Cameras : AtRest(c)
  BY DeadIs DEF Init, AtRest, NoThread, NoQueue, Asks, Idle, Load
<1> QED
  BY <1>1, <1>2, <1>3 DEF RequestInv, OneRequest

\* What the object does with its request.
LEMMA Serving ==
  ASSUME RequestInv, NEW d \in Devs, Serves(d)
  PROVE  /\ devs[d].queue # <<>> /\ CamOf(d) \in Cameras
         /\ \E state \in {"INIT", "REGIST"} : Serve(d, state)
         /\ AnswerNow(CamOf(d)) \/ AnswerAfterErase(CamOf(d))
         /\ enabled' \subseteq Cameras /\ orphans' \subseteq Cameras /\ UNCHANGED <<camerasMap, call>>
<1>1. devs[d].queue # <<>>
  BY DEF Serves, Handled, RegisterOK, RegisterFails, UnregisterOK, UnregisterFails
<1>2. CamOf(d) \in Cameras
  BY <1>1, Worker
<1>3. devs[d].state \in {"INIT", "REGIST"} /\ enabled \subseteq Cameras /\ orphans \subseteq Cameras
  BY DEF RequestInv, Shape, DevState
<1> QED
  BY <1>1, <1>2, <1>3 DEF Serves, RegisterOK, RegisterFails, UnregisterOK, UnregisterFails

\* Every step keeps it.
LEMMA RequestNext ==
  ASSUME MaxOwed = 1, RequestInv, [Next]_vars
  PROVE  RequestInv'
<1>1. CASE UNCHANGED vars
  BY <1>1 DEF vars, RequestInv, Shape, CallsTyped, ObjectInv, For, OneRequest, AtRest, WithThread, WithDevice,
              WithTask, NoThread, NoQueue, Asks, Load
<1>2. ASSUME NEW d \in Devs, Serves(d) PROVE RequestInv'
  <2>1. PICK state \in {"INIT", "REGIST"}, c \in Cameras : Serve(d, state) /\ c = CamOf(d)
    BY <1>2, Serving
  <2> QED
    BY <1>2, <2>1, Serving, ServeStep
<1> QED
  BY <1>1, <1>2, RequestStep, CountStep, FindStep, InsertStep, PostStep, ReturnStep, EraseStep DEF Next, Step

\* No camera is enabled at the start.
LEMMA EnabledInit == Init => EnabledInv
BY DEF Init, EnabledInv, EnabledIsReachable

\* Where neither the map, the tasks nor a state in it changes.
LEMMA EnabledFrame ==
  ASSUME EnabledInv, UNCHANGED <<camerasMap, erasing, enabled, orphans>>,
         \A c \in Cameras : camerasMap[c] # NoDev => devs'[camerasMap[c]].state = devs[camerasMap[c]].state
  PROVE  EnabledInv'
BY DEF EnabledInv, EnabledIsReachable

\* A thread's step.
LEMMA EnabledThread ==
  ASSUME RequestInv, EnabledInv, NEW t \in Callers, Step(t)
  PROVE  EnabledInv'
<1>s. Shape /\ ObjectInv
  BY DEF RequestInv
<1>m. \A c \in Cameras : camerasMap[c] # NoDev => camerasMap[c] \in Devs
  BY <1>s DEF Shape
<1>d. \A d \in Devs : devs[d] \in DevState
  BY <1>s DEF Shape
<1>r. ASSUME Refuse(t) PROVE EnabledInv'
  BY <1>r, EnabledFrame DEF Refuse
<1>1. CASE Count(t)
  BY <1>1, <1>r, EnabledFrame DEF Count
<1>2. CASE Find(t)
  <2>1. UNCHANGED <<camerasMap, erasing, enabled, orphans>>
    BY <1>2 DEF Find, Refuse
  <2>2. CASE UNCHANGED devs
    BY <2>1, <2>2, EnabledFrame
  <2>3. CASE ~UNCHANGED devs
    <3> DEFINE n == CHOOSE x \in Unused : TRUE
               c == call[t].cam
    <3>1. devs' = [devs EXCEPT ![n].cams = {c}]
      BY <1>2, <2>3 DEF Find, Refuse
    <3> HIDE DEF n
    <3>2. \A d \in Devs : devs'[d].state = devs[d].state
      BY <3>1, <1>d, <1>s DEF Shape, DevState
    <3> QED
      BY <2>1, <3>2, <1>m, EnabledFrame
  <2> QED
    BY <2>2, <2>3
<1>3. CASE CamDevInsert(t)
  <2>1. PICK c \in Cameras, d \in Devs : c = call[t].cam /\ d = call[t].dev
    BY <1>3, <1>s DEF Shape, CamDevInsert
  <2>2. camerasMap[c] = NoDev /\ devs[d].state = "INIT"
    BY <1>3, <2>1, <1>s DEF ObjectInv, CamDevInsert
  <2>3. camerasMap' = [camerasMap EXCEPT ![c] = d] /\ UNCHANGED <<devs, erasing, enabled, orphans>>
    BY <1>3, <2>1, <2>2 DEF CamDevInsert
  <2> QED
    BY <2>2, <2>3, <1>s DEF EnabledInv, EnabledIsReachable, Shape
<1>4. CASE Post(t)
  <2>1. UNCHANGED <<camerasMap, erasing, enabled, orphans>>
    BY <1>4 DEF Post
  <2>2. \A d \in Devs : devs'[d].state = devs[d].state
    BY <1>4, <1>d, <1>s DEF Post, Shape, DevState
  <2> QED
    BY <2>1, <2>2, <1>m, EnabledFrame
<1>5. CASE Return(t)
  <2>1. devs' = Collect(devs, camerasMap, call') /\ UNCHANGED <<camerasMap, erasing, enabled, orphans>>
    BY <1>5 DEF Return
  <2>2. \A c \in Cameras : camerasMap[c] # NoDev => devs'[camerasMap[c]] = devs[camerasMap[c]]
    BY <2>1, <1>m DEF Collect
  <2> QED
    BY <2>1, <2>2, EnabledFrame
<1> QED
  BY <1>1, <1>2, <1>3, <1>4, <1>5 DEF Step

\* The object's step changes its own state and the HAL's together.
LEMMA EnabledServe ==
  ASSUME RequestInv, EnabledInv, NEW d \in Devs, Serves(d)
  PROVE  EnabledInv'
<1>s. Shape /\ ObjectInv
  BY DEF RequestInv
<1>1. devs[d].queue # <<>> /\ UNCHANGED camerasMap
  BY Serving
<1>2. PICK c \in Cameras : c = CamOf(d)
  BY Serving
<1>3. For(d, c) /\ camerasMap[c] = d /\ d # NoDev /\ erasing[c] = 0
  BY <1>1, <1>2, Worker, RegistryAssumption DEF WithDevice
<1>4. \A x \in Cameras \ {c} : camerasMap[x] # d
  BY <1>3, <1>s, RegistryAssumption DEF ObjectInv, For
<1>o. ASSUME NEW state \in {"INIT", "REGIST"}, Serve(d, state)
      PROVE  /\ devs'[d].state = state
             /\ \A x \in Devs \ {d} : devs'[x] = devs[x]
  BY <1>o, <1>s DEF Serve, Shape, DevState
<1>r. devs[d].state \in {"INIT", "REGIST"}
  BY <1>s DEF Shape, DevState
<1>e. IF c \in orphans THEN c \in enabled ELSE (c \in enabled) <=> (devs[d].state = "REGIST")
  BY <1>3 DEF EnabledInv, EnabledIsReachable
<1>q. ASSUME NEW state \in {"INIT", "REGIST"}, Serve(d, state),
             \A x \in Cameras \ {c} : /\ x \in enabled' <=> x \in enabled
                                      /\ x \in orphans' <=> x \in orphans
                                      /\ erasing'[x] = erasing[x],
             IF c \in orphans' THEN c \in enabled' ELSE c \in enabled' <=> state = "REGIST",
             erasing'[c] > 0 /\ c \in enabled' => c \in orphans'
      PROVE  EnabledInv'
  <2>1. \A x \in Cameras \ {c} : camerasMap[x] # NoDev => devs'[camerasMap[x]] = devs[camerasMap[x]]
    BY <1>q, <1>o, <1>4, <1>s DEF Shape
  <2>2. devs'[d].state = state
    BY <1>q, <1>o
  <2> QED
    BY <2>1, <2>2, <1>q, <1>1, <1>3 DEF EnabledInv, EnabledIsReachable
<1>a. ASSUME AnswerNow(c)
      PROVE  erasing'[c] = 0 /\ \A x \in Cameras \ {c} : erasing'[x] = erasing[x]
  BY <1>a, <1>3 DEF AnswerNow
<1>b. ASSUME AnswerAfterErase(c)
      PROVE  \A x \in Cameras \ {c} : erasing'[x] = erasing[x]
  BY <1>b, <1>s DEF AnswerAfterErase, Shape
<1>5. CASE RegisterOK(d)
  BY <1>5, <1>2, <1>a, <1>q DEF RegisterOK
<1>6. CASE RegisterFails(d)
  <2>1. orphans' = (IF c \in enabled THEN orphans \cup {c} ELSE orphans) /\ enabled' = enabled
    BY <1>6, <1>2 DEF RegisterFails
  <2>2. IF c \in orphans' THEN c \in enabled' ELSE c \in enabled' <=> devs[d].state = "REGIST"
    BY <2>1, <1>e
  <2> QED
    BY <1>6, <1>2, <2>1, <2>2, <1>r, <1>b, <1>q DEF RegisterFails
<1>7. CASE UnregisterOK(d)
  <2>1. IF devs[d].state = "REGIST" THEN enabled' = enabled \ {c} /\ orphans' = orphans \ {c}
        ELSE enabled' = enabled /\ orphans' = orphans
    BY <1>7, <1>2 DEF UnregisterOK
  <2> QED
    BY <1>7, <1>2, <2>1, <1>e, <1>b, <1>q DEF UnregisterOK
<1>8. CASE UnregisterFails(d)
  BY <1>8, <1>2, <1>e, <1>a, <1>q DEF UnregisterFails
<1> QED
  BY <1>5, <1>6, <1>7, <1>8 DEF Serves

\* Every step keeps it; the task erases the entry of a camera that is not
\* enabled, or that the HAL refused to register again.
LEMMA EnabledNext ==
  ASSUME RequestInv, EnabledInv, [Next]_vars
  PROVE  EnabledInv'
<1>s. Shape
  BY DEF RequestInv
<1>1. ASSUME NEW c \in Cameras, CamDevErase(c) PROVE EnabledInv'
  <2>1. c \in enabled => c \in orphans
    BY <1>1 DEF CamDevErase, EnabledInv
  <2>2. /\ camerasMap'[c] = NoDev /\ enabled' = enabled /\ orphans' = orphans
        /\ \A x \in Cameras \ {c} : camerasMap'[x] = camerasMap[x] /\ erasing'[x] = erasing[x]
    BY <1>1, <1>s DEF CamDevErase, Shape
  <2>3. \A x \in Cameras : camerasMap'[x] # NoDev => devs'[camerasMap'[x]] = devs[camerasMap'[x]]
    BY <1>1, <1>s DEF CamDevErase, Collect, Shape
  <2> QED
    BY <2>1, <2>2, <2>3 DEF EnabledInv, EnabledIsReachable
<1>2. ASSUME NEW t \in Callers, NEW op \in Ops, NEW c \in Cameras, Request(t, op, c) PROVE EnabledInv'
  BY <1>2, EnabledFrame DEF Request
<1>3. CASE UNCHANGED vars
  BY <1>3, EnabledFrame DEF vars
<1> QED
  BY <1>1, <1>2, <1>3, EnabledThread, EnabledServe DEF Next

\* In every behaviour of a framework that waits for each answer, the variables
\* have their types: the counts of requests and of erasing tasks stay at one, the
\* queues hold operations, and a caller past the lookup holds an object.
THEOREM WaitingTypesCorrect == MaxOwed = 1 => (Spec => []TypeOK)
<1> SUFFICES ASSUME MaxOwed = 1 PROVE Spec => []TypeOK
  OBVIOUS
<1>1. RequestInv => TypeOK
  <2>1. SUFFICES ASSUME Shape PROVE TypeOK
    BY DEF RequestInv
  <2>2. \A d \in Devs : /\ devs[d].cams \subseteq Cameras /\ devs[d].state \in {"INIT", "REGIST"}
                        /\ devs[d].queue \in Seq(Ops)
    BY <2>1 DEF Shape, DevState
  <2>3. \A d \in Devs : \A i \in DOMAIN devs[d].queue : devs[d].queue[i] \in Ops
    BY <2>2, ElementOfSeq, LenProperties
  <2> QED
    BY <2>1, <2>2, <2>3 DEF Shape, TypeOK
<1>2. RequestInv /\ [Next]_vars => RequestInv'
  BY RequestNext
<1> QED
  BY <1>1, <1>2, RequestInit, PTL DEF Spec

\* In every behaviour of a framework that waits for each answer, a request
\* without an answer is with one thread, in the queue of the object in the
\* map, or with the erasing task, whichever way they interleave: none is lost
\* with an object that the map drops.
THEOREM RequestsAreNeverLost == MaxOwed = 1 => (Spec => []NoLostRequest)
<1> SUFFICES ASSUME MaxOwed = 1 PROVE Spec => []NoLostRequest
  OBVIOUS
<1>1. RequestInv => NoLostRequest
  <2>1. SUFFICES ASSUME RequestInv, NEW c \in Cameras, owed[c] > 0
                 PROVE  \/ erasing[c] > 0
                        \/ \E t \in Callers : call[t].pc # "idle" /\ call[t].cam = c
                        \/ \E d \in Devs : devs[d].cams = {c} /\ devs[d].queue # <<>>
    BY DEF NoLostRequest
  <2>s. Shape /\ ObjectInv
    BY <2>1 DEF RequestInv
  <2>2. WithThread(c) \/ WithDevice(c) \/ WithTask(c)
    BY <2>1 DEF RequestInv, OneRequest, AtRest
  <2>3. CASE WithThread(c)
    <3>1. PICK t \in Callers : Asks(t, c)
      BY <2>3 DEF WithThread
    <3> QED
      BY <3>1 DEF Asks
  <2>4. CASE WithDevice(c)
    <3>1. PICK d \in Devs : d = camerasMap[c]
      BY <2>4, <2>s DEF WithDevice, Shape
    <3>2. For(d, c) /\ Load(d) = 1
      BY <2>4, <2>s, <3>1 DEF WithDevice, ObjectInv
    <3>3. devs[d].queue # <<>>
      BY <3>2, <2>s, ObjectIs
    <3> QED
      BY <3>2, <3>3 DEF For
  <2>5. CASE WithTask(c)
    BY <2>5 DEF WithTask
  <2> QED
    BY <2>2, <2>3, <2>4, <2>5
<1>2. RequestInv /\ [Next]_vars => RequestInv'
  BY RequestNext
<1> QED
  BY <1>1, <1>2, RequestInit, PTL DEF Spec

\* Under the same hypothesis, whatever calls of the HAL fail: it holds a camera
\* enabled exactly when the map leads to the object that can disable it, but for
\* the cameras whose registering again it refused, which stay enabled.
THEOREM EnabledIsAlwaysReachable == MaxOwed = 1 => (Spec => []EnabledIsReachable)
<1> SUFFICES ASSUME MaxOwed = 1 PROVE Spec => []EnabledIsReachable
  OBVIOUS
<1>1. RequestInv /\ EnabledInv /\ [Next]_vars => (RequestInv /\ EnabledInv)'
  BY RequestNext, EnabledNext
<1>2. EnabledInv => EnabledIsReachable
  BY DEF EnabledInv
<1> QED
  BY <1>1, <1>2, RequestInit, EnabledInit, PTL DEF Spec

----------------------------------------------------------------------------
\* Quotients, remainders and products, which the provers know little about.
LEMMA DivBounds ==
  ASSUME NEW a \in Nat, NEW b \in Nat \ {0}
  PROVE  /\ a \div b \in Nat /\ a % b \in 0..(b - 1)
         /\ b * (a \div b) <= a /\ a < b * (a \div b) + b
         /\ a % b = a - b * (a \div b)
BY SMTT(30)

LEMMA Multiples ==
  ASSUME NEW w \in Nat \ {0}, NEW p \in Int, NEW q \in Int, p < q
  PROVE  w * p + w <= w * q
<1>1. q - p - 1 \in Nat
  OBVIOUS
<1>2. w * (q - p - 1) >= 0
  BY <1>1
<1>3. w * (q - p - 1) = w * q - w * p - w
  OBVIOUS
<1> QED
  BY <1>2, <1>3

LEMMA Uniq ==
  ASSUME NEW w \in Nat \ {0}, NEW q \in Nat, NEW r \in 0..(w - 1)
  PROVE  (q * w + r) \div w = q /\ (q * w + r) % w = r
<1> DEFINE a == q * w + r
           d == a \div w
<1>1. a \in Nat /\ a = w * q + r
  OBVIOUS
<1> HIDE DEF a
<1>2. d \in Nat /\ w * d <= a /\ a < w * d + w /\ a % w = a - w * d
  BY <1>1, DivBounds
<1> HIDE DEF d
<1>3. ~(d < q)
  BY <1>1, <1>2, Multiples
<1>4. ~(q < d)
  BY <1>1, <1>2, Multiples
<1>5. d = q
  BY <1>2, <1>3, <1>4
<1> QED
  BY <1>1, <1>2, <1>5 DEF a, d

\* The offset of a pixel tells its column and its line.
LEMMA PixelPlace ==
  ASSUME NEW w \in Nat \ {0}, NEW h \in Nat \ {0}, NEW x \in 0..(w - 1), NEW y \in 0..(h - 1)
  PROVE  /\ y * w + x \in Nat /\ y * w + x < w * h
         /\ (y * w + x) \div w = y /\ (y * w + x) % w = x
<1>1. (y * w + x) \div w = y /\ (y * w + x) % w = x
  BY Uniq
<1>2. w * y + w <= w * h
  BY Multiples
<1>3. y * w \in Nat /\ y * w = w * y
  OBVIOUS
<1> QED
  BY <1>1, <1>2, <1>3

LEMMA HalfIs ==
  ASSUME NEW n \in Int
  PROVE  Half(n) \in Int /\ 2 * Half(n) <= n /\ n <= 2 * Half(n) + 1
BY DEF Half

\* A buffer gives back the brightness it was made from.
LEMMA I420Is ==
  ASSUME NEW w \in Nat \ {0}, NEW h \in Nat \ {0}, NEW luma, NEW chroma
  PROVE  /\ I420(w, h, luma, chroma).w = w /\ I420(w, h, luma, chroma).h = h
         /\ \A x \in 0..(w - 1), y \in 0..(h - 1) : Luma(I420(w, h, luma, chroma), x, y) = luma[<<x, y>>]
<1> DEFINE i == I420(w, h, luma, chroma)
<1>1. i.w = w /\ i.h = h
  BY DEF I420
<1>2. \A n \in 0..(Half(w * h * 3) - 1) : n < w * h => At(i.data, n) = luma[<<n % w, n \div w>>]
  BY DEF I420, At
<1> HIDE DEF i
<1>3. w * h \in Nat
  OBVIOUS
<1>4. w * h <= Half(w * h * 3)
  <2>1. \A m \in Nat : m <= (m * 3) \div 2
    OBVIOUS
  <2> QED
    BY <1>3, <2>1 DEF Half
<1>5. ASSUME NEW x \in 0..(w - 1), NEW y \in 0..(h - 1)
      PROVE  Luma(i, x, y) = luma[<<x, y>>]
  <2> DEFINE n == y * w + x
  <2>1. n \in Nat /\ n < w * h /\ n \div w = y /\ n % w = x
    BY PixelPlace
  <2> HIDE DEF n
  <2>2. Half(w * h * 3) \in Int
    BY <1>3, HalfIs
  <2>3. At(i.data, n) = luma[<<x, y>>]
    BY <1>2, <1>3, <1>4, <2>1, <2>2
  <2> QED
    BY <1>1, <2>3 DEF Luma, n
<1> QED
  BY <1>1, <1>5 DEF i

\* The sizes of a configuration.
LEMMA MillionIs == Million \in Nat \ {0}
BY DEF Million
LEMMA SizeIs ==
  ASSUME NEW n \in Sizes
  PROVE  n \in Nat \ {0} /\ n = 2 * Half(n) /\ Half(n) \in Nat \ {0} /\ n >= 2
<1>1. n \in Nat \ {0} /\ n % 2 = 0
  BY SizesAssumption
<1>2. n \in Nat /\ n >= 1
  BY <1>1
<1> QED
  BY <1>1, <1>2 DEF Half

LEMMA ConfigIs ==
  ASSUME NEW c \in Configs
  PROVE  /\ c.w \in Sizes /\ c.h \in Sizes /\ c.dw \in Sizes /\ c.dh \in Sizes
         /\ c.stride \in {c.w, c.w + 2} /\ c.build \in Builds /\ c.systemSwitch \in BOOLEAN /\ c.rotation \in Angles
         /\ ~c.systemSwitch => c.rotation = 0
         /\ c.build = "common" => ~c.systemSwitch
BY DEF Configs

\* What the codec put where, with the padding of its lines and height.
LEMMA SurfaceIs ==
  ASSUME NEW c \in Configs, NEW x \in 0..(c.w - 1), NEW y \in 0..(c.h - 1)
  PROVE  At(Surface(c), y * c.stride + x) = <<"Y", x, y>>
<1>1. c.w \in Nat \ {0} /\ c.h \in Nat \ {0} /\ c.stride \in Nat \ {0} /\ c.w <= c.stride
  BY ConfigIs, SizeIs
<1>2. SurfaceHeight(c) \in Nat \ {0} /\ c.h <= SurfaceHeight(c)
  <2> DEFINE a == c.h + HeightAlign - 1
             d == a \div HeightAlign
  <2>1. HeightAlign \in Nat \ {0}
    BY AlignAssumption
  <2>2. a \in Nat /\ a = c.h + HeightAlign - 1
    BY <1>1, <2>1
  <2> HIDE DEF a
  <2>3. d \in Nat /\ a < HeightAlign * d + HeightAlign
    BY <2>1, <2>2, DivBounds
  <2> HIDE DEF d
  <2>4. d * HeightAlign \in Nat /\ d * HeightAlign = HeightAlign * d
    BY <2>1, <2>3
  <2>5. d * HeightAlign >= c.h
    BY <1>1, <2>1, <2>2, <2>3, <2>4
  <2>6. SurfaceHeight(c) = d * HeightAlign
    BY DEF SurfaceHeight, GetAlignedHeight, d, a
  <2> QED
    BY <1>1, <2>4, <2>5, <2>6
<1> DEFINE H == SurfaceHeight(c)
           n == y * c.stride + x
           Y == c.stride * H
<1> HIDE DEF H
<1>3. n \in Nat /\ n < Y /\ n \div c.stride = y /\ n % c.stride = x
  <2>1. x \in 0..(c.stride - 1) /\ y \in 0..(H - 1)
    BY <1>1, <1>2 DEF H
  <2> QED
    BY <1>1, <1>2, <2>1, PixelPlace DEF H
<1>4. Y \in Nat /\ Y <= Half(Y * 3)
  <2>1. \A m \in Nat : m <= (m * 3) \div 2
    OBVIOUS
  <2>2. Y \in Nat
    BY <1>1, <1>2 DEF H
  <2> QED
    BY <2>1, <2>2 DEF Half
<1>5. \A m \in 0..(Half(Y * 3) - 1) :
        m < Y /\ m % c.stride < c.w /\ m \div c.stride < c.h
          => At(Surface(c), m) = <<"Y", m % c.stride, m \div c.stride>>
  BY DEF Surface, At, H
<1> HIDE DEF n, Y
<1>6. Half(Y * 3) \in Int
  BY <1>4, HalfIs
<1>7. n \in 0..(Half(Y * 3) - 1) /\ x < c.w /\ y < c.h
  BY <1>1, <1>3, <1>4, <1>6
<1> QED
  BY <1>3, <1>5, <1>7 DEF n

\* A pixel of the turned frame is as far from the middle as its sample, turned.
Sideways(angle) == angle \in {90, 270}

TurnsWell(angle, w, h, v, u, x, y) ==
  LET t == Turned(angle, w, h, x, y)
  IN /\ t[1] \in 0..(w - 1) /\ t[2] \in 0..(h - 1)
     /\ <<2 * t[1] + 1 - w, 2 * t[2] + 1 - h>> = Turn(angle, <<2 * x + 1 - v, 2 * y + 1 - u>>)
LEMMA TurnedIs ==
  ASSUME NEW angle \in Angles, NEW w \in Nat \ {0}, NEW h \in Nat \ {0},
         NEW v, NEW u, v = (IF Sideways(angle) THEN h ELSE w), u = (IF Sideways(angle) THEN w ELSE h),
         NEW x \in 0..(v - 1), NEW y \in 0..(u - 1)
  PROVE  TurnsWell(angle, w, h, v, u, x, y)
<1>1. CASE angle = 0
  BY <1>1 DEF Turned, Turn, Sideways, TurnsWell
<1>2. CASE angle = 90
  BY <1>2 DEF Turned, Turn, Sideways, TurnsWell
<1>3. CASE angle = 180
  BY <1>3 DEF Turned, Turn, Sideways, TurnsWell
<1>4. CASE angle = 270
  BY <1>4 DEF Turned, Turn, Sideways, TurnsWell
<1> QED
  BY <1>1, <1>2, <1>3, <1>4 DEF Angles

\* The rotation reads each sample where the codec put it.
LEMMA RotatedIs ==
  ASSUME NEW c \in Configs, NEW angle \in Angles
  PROVE  LET i == NV12ToI420Rotate(c, angle)
         IN /\ i.w = (IF Sideways(angle) THEN c.h ELSE c.w) /\ i.h = (IF Sideways(angle) THEN c.w ELSE c.h)
            /\ \A x \in 0..(i.w - 1), y \in 0..(i.h - 1) :
                 LET t == Turned(angle, c.w, c.h, x, y) IN Luma(i, x, y) = <<"Y", t[1], t[2]>>
<1> DEFINE i == NV12ToI420Rotate(c, angle)
           w == IF Sideways(angle) THEN c.h ELSE c.w
           h == IF Sideways(angle) THEN c.w ELSE c.h
           t(x, y) == Turned(angle, c.w, c.h, x, y)
           luma == [p \in Pixels(w, h) |-> At(Surface(c), Turned(angle, c.w, c.h, p[1], p[2])[2] * c.stride
                                                            + Turned(angle, c.w, c.h, p[1], p[2])[1])]
<1>1. w \in Nat \ {0} /\ h \in Nat \ {0} /\ c.w \in Nat \ {0} /\ c.h \in Nat \ {0}
  BY ConfigIs, SizeIs
<1>2. \E chroma : i = I420(w, h, luma, chroma)
  BY DEF NV12ToI420Rotate, Sideways
<1>3. \A x \in 0..(w - 1), y \in 0..(h - 1) : luma[<<x, y>>] = At(Surface(c), t(x, y)[2] * c.stride + t(x, y)[1])
  BY DEF Pixels
<1> HIDE DEF luma, i
<1>4. i.w = w /\ i.h = h /\ \A x \in 0..(w - 1), y \in 0..(h - 1) : Luma(i, x, y) = luma[<<x, y>>]
  <2>1. PICK chroma : i = I420(w, h, luma, chroma)
    BY <1>2
  <2> HIDE DEF w, h
  <2> QED
    BY <1>1, <2>1, I420Is
<1>5. ASSUME NEW x \in 0..(w - 1), NEW y \in 0..(h - 1)
      PROVE  Luma(i, x, y) = <<"Y", t(x, y)[1], t(x, y)[2]>>
  <2>1. t(x, y)[1] \in 0..(c.w - 1) /\ t(x, y)[2] \in 0..(c.h - 1)
    <3>1. TurnsWell(angle, c.w, c.h, w, h, x, y)
      BY <1>1, TurnedIs
    <3> QED
      BY <3>1 DEF TurnsWell
  <2> DEFINE a == t(x, y)[1]
             b == t(x, y)[2]
  <2>2. Luma(i, x, y) = At(Surface(c), b * c.stride + a)
    BY <1>3, <1>4
  <2>3. a \in 0..(c.w - 1) /\ b \in 0..(c.h - 1)
    BY <2>1
  <2> HIDE DEF a, b
  <2>4. Luma(i, x, y) = <<"Y", a, b>>
    BY <2>2, <2>3, SurfaceIs
  <2> QED
    BY <2>4 DEF a, b
<1> QED
  BY <1>4, <1>5 DEF i

\* What a sample of the decoded picture is: one of the frame, which the turn brought
\* there or next to there, or black beside the square of a picture on its side.
Lies(c, angle) == Sideways(angle) /\ c.w # c.h
Beside(n, size, side) == 2 * n + 1 - size >= side - 1 \/ 2 * n + 1 - size <= -side - 1
StandsBlack(c, angle, x, y, s) ==
  /\ s = Black("Y") /\ Lies(c, angle)
  /\ Beside(x, c.w, Least(c.w, c.h)) \/ Beside(y, c.h, Least(c.w, c.h))
StandsTurned(c, angle, x, y, s) ==
  \E d \in {-2, 0, 2}, col \in Nat, row \in Nat :
    /\ s = <<"Y", col, row>> /\ (d # 0 => Lies(c, angle))
    /\ <<2 * col + 1 - c.w, 2 * row + 1 - c.h>> = Turn(angle, <<2 * x + 1 - c.w + d, 2 * y + 1 - c.h - d>>)
Stands(c, angle, x, y, s) == StandsBlack(c, angle, x, y, s) \/ StandsTurned(c, angle, x, y, s)

\* A picture that keeps its sides.
LEMMA UprightStands ==
  ASSUME NEW c \in Configs, NEW angle \in Angles, ~Lies(c, angle),
         NEW x \in 0..(c.w - 1), NEW y \in 0..(c.h - 1)
  PROVE  Stands(c, angle, x, y, Luma(NV12ToI420Rotate(c, angle), x, y))
<1> DEFINE i == NV12ToI420Rotate(c, angle)
           t == Turned(angle, c.w, c.h, x, y)
<1>1. c.w \in Nat \ {0} /\ c.h \in Nat \ {0}
  BY ConfigIs, SizeIs
<1>2. i.w = c.w /\ i.h = c.h
  BY RotatedIs DEF Lies
<1>3. Luma(i, x, y) = <<"Y", t[1], t[2]>>
  BY <1>2, RotatedIs
<1>4. t[1] \in Nat /\ t[2] \in Nat
      /\ <<2 * t[1] + 1 - c.w, 2 * t[2] + 1 - c.h>> = Turn(angle, <<2 * x + 1 - c.w, 2 * y + 1 - c.h>>)
  <2>1. c.w = (IF Sideways(angle) THEN c.h ELSE c.w) /\ c.h = (IF Sideways(angle) THEN c.w ELSE c.h)
    BY DEF Lies
  <2>2. /\ t[1] \in 0..(c.w - 1) /\ t[2] \in 0..(c.h - 1)
        /\ <<2 * t[1] + 1 - c.w, 2 * t[2] + 1 - c.h>> = Turn(angle, <<2 * x + 1 - c.w, 2 * y + 1 - c.h>>)
    <3>1. TurnsWell(angle, c.w, c.h, c.w, c.h, x, y)
      BY <1>1, <2>1, TurnedIs
    <3> QED
      BY <3>1 DEF TurnsWell
  <2> QED
    BY <1>1, <2>2
<1> HIDE DEF i, t
<1>5. 2 * x + 1 - c.w + 0 = 2 * x + 1 - c.w /\ 2 * y + 1 - c.h - 0 = 2 * y + 1 - c.h
  BY <1>1
<1> QED
  BY <1>3, <1>4, <1>5 DEF Stands, StandsBlack, StandsTurned, i, t

\* The place of the square is even, and at most a sample from the middle.
LEMMA CentreIs ==
  ASSUME NEW n \in Sizes, NEW side \in Sizes, side <= n
  PROVE  /\ Centre(n, side) \in Nat
         /\ \E e \in {0, 1} : 2 * Centre(n, side) = n - side - 2 * e
         /\ n = side => Centre(n, side) = 0
<1> DEFINE a == Half(n)
           b == Half(side)
<1>1. n = 2 * a /\ side = 2 * b /\ a \in Nat /\ b \in Nat
  BY SizeIs
<1> HIDE DEF a, b
<1>2. Half(n - side) = a - b /\ a - b \in Nat
  BY <1>1 DEF Half
<1>3. Centre(n, side) = 2 * ((a - b) \div 2)
  BY <1>2 DEF Centre, Even, Half
<1> QED
  BY <1>1, <1>2, <1>3

\* Where a pixel of the square is in the turned picture.
LEMMA SquareStands ==
  ASSUME NEW c \in Configs, NEW angle \in Angles, Lies(c, angle),
         NEW x \in 0..(c.w - 1), NEW y \in 0..(c.h - 1), NEW X \in 0..(c.h - 1), NEW Y \in 0..(c.w - 1),
         NEW d \in {-2, 0, 2}, 2 * X + 1 - c.h = 2 * x + 1 - c.w + d, 2 * Y + 1 - c.w = 2 * y + 1 - c.h - d
  PROVE  Stands(c, angle, x, y, Luma(NV12ToI420Rotate(c, angle), X, Y))
<1> DEFINE i == NV12ToI420Rotate(c, angle)
           t == Turned(angle, c.w, c.h, X, Y)
<1>1. c.w \in Nat \ {0} /\ c.h \in Nat \ {0} /\ Sideways(angle)
  BY ConfigIs, SizeIs DEF Lies
<1>2. i.w = c.h /\ i.h = c.w
  BY <1>1, RotatedIs
<1>3. Luma(i, X, Y) = <<"Y", t[1], t[2]>>
  BY <1>2, RotatedIs
<1>4. TurnsWell(angle, c.w, c.h, c.h, c.w, X, Y)
  BY <1>1, TurnedIs
<1>5. t[1] \in Nat /\ t[2] \in Nat
      /\ <<2 * t[1] + 1 - c.w, 2 * t[2] + 1 - c.h>> = Turn(angle, <<2 * x + 1 - c.w + d, 2 * y + 1 - c.h - d>>)
  BY <1>1, <1>4 DEF TurnsWell
<1> HIDE DEF i, t
<1> QED
  BY <1>3, <1>5 DEF Stands, StandsBlack, StandsTurned, i, t

\* A picture on its side: the square is pasted, and the rest is black.
LEMMA LyingStands ==
  ASSUME NEW c \in Configs, NEW angle \in Angles, Lies(c, angle),
         NEW x \in 0..(c.w - 1), NEW y \in 0..(c.h - 1)
  PROVE  LET i == I420CopyBySystemSwitch(c, NV12ToI420Rotate(c, angle))
         IN i.w = c.w /\ i.h = c.h /\ Stands(c, angle, x, y, Luma(i, x, y))
<1> DEFINE r == NV12ToI420Rotate(c, angle)
           i == I420CopyBySystemSwitch(c, r)
           side == Least(c.w, c.h)
           cropX == Centre(c.h, side)
           cropY == Centre(c.w, side)
           pasteX == Centre(c.w, side)
           pasteY == Centre(c.h, side)
           inside == x \in pasteX..(pasteX + side - 1) /\ y \in pasteY..(pasteY + side - 1)
           X == x - pasteX + cropX
           Y == y - pasteY + cropY
<1>1. /\ c.w \in Nat \ {0} /\ c.h \in Nat \ {0} /\ Sideways(angle) /\ c.w # c.h
      /\ c.w \in Sizes /\ c.h \in Sizes
  BY ConfigIs, SizeIs DEF Lies
<1>2. r.w = c.h /\ r.h = c.w
  BY <1>1, RotatedIs
<1>3. i.w = c.w /\ i.h = c.h /\ Luma(i, x, y) = IF inside THEN Luma(r, X, Y) ELSE Black("Y")
  <2> HIDE DEF r
  <2> DEFINE luma == [p \in Pixels(c.w, c.h) |->
                       IF p[1] \in pasteX..(pasteX + side - 1) /\ p[2] \in pasteY..(pasteY + side - 1)
                       THEN Luma(r, p[1] - pasteX + cropX, p[2] - pasteY + cropY) ELSE Black("Y")]
  <2>1. \E chroma : i = I420(c.w, c.h, luma, chroma)
    BY <1>2 DEF I420CopyBySystemSwitch
  <2>2. luma[<<x, y>>] = IF inside THEN Luma(r, X, Y) ELSE Black("Y")
    BY DEF Pixels
  <2> HIDE DEF luma, i, X, Y, inside
  <2>3. i.w = c.w /\ i.h = c.h /\ Luma(i, x, y) = luma[<<x, y>>]
    BY <1>1, <2>1, I420Is
  <2> QED
    BY <2>2, <2>3
<1> HIDE DEF i
<1>4. CASE c.w < c.h
  <2>1. side = c.w /\ side \in Sizes /\ side <= c.h /\ side <= c.w
    BY <1>1, <1>4 DEF Least
  <2> DEFINE k == Centre(c.h, c.w)
  <2>2. PICK e \in {0, 1} : 2 * k = c.h - c.w - 2 * e
    BY <1>1, <1>4, CentreIs
  <2>3. k \in Nat /\ Centre(c.w, c.w) = 0
    BY <1>1, <1>4, CentreIs
  <2>4. cropX = k /\ pasteY = k /\ cropY = 0 /\ pasteX = 0
    BY <2>1, <2>3
  <2> HIDE DEF k, side, cropX, cropY, pasteX, pasteY, r
  <2>5. CASE inside
    <3>1. X \in 0..(c.h - 1) /\ Y \in 0..(c.w - 1) /\ X = x + k /\ Y = y - k
      BY <1>1, <1>4, <2>1, <2>2, <2>3, <2>4, <2>5
    <3> HIDE DEF X, Y
    <3> DEFINE d == -2 * e
    <3>2. d \in {-2, 0, 2} /\ 2 * X + 1 - c.h = 2 * x + 1 - c.w + d /\ 2 * Y + 1 - c.w = 2 * y + 1 - c.h - d
      BY <1>1, <2>2, <2>3, <3>1
    <3> HIDE DEF d
    <3>3. Stands(c, angle, x, y, Luma(r, X, Y))
      BY <3>1, <3>2, SquareStands DEF r
    <3> QED
      BY <1>3, <2>5, <3>3 DEF i, r
  <2>6. CASE ~inside
    <3>1. ~(y \in k..(k + c.w - 1))
      BY <1>1, <2>1, <2>3, <2>4, <2>6
    <3>2. Beside(y, c.h, c.w)
      BY <1>1, <2>2, <2>3, <3>1 DEF Beside
    <3> QED
      BY <1>3, <2>1, <2>6, <3>2 DEF Stands, StandsBlack, StandsTurned, i, r, side
  <2> QED
    BY <2>5, <2>6
<1>5. CASE c.h < c.w
  <2>1. side = c.h /\ side \in Sizes /\ side <= c.h /\ side <= c.w
    BY <1>1, <1>5 DEF Least
  <2> DEFINE k == Centre(c.w, c.h)
  <2>2. PICK e \in {0, 1} : 2 * k = c.w - c.h - 2 * e
    BY <1>1, <1>5, CentreIs
  <2>3. k \in Nat /\ Centre(c.h, c.h) = 0
    BY <1>1, <1>5, CentreIs
  <2>4. cropX = 0 /\ pasteY = 0 /\ cropY = k /\ pasteX = k
    BY <2>1, <2>3
  <2> HIDE DEF k, side, cropX, cropY, pasteX, pasteY, r
  <2>5. CASE inside
    <3>1. X \in 0..(c.h - 1) /\ Y \in 0..(c.w - 1) /\ X = x - k /\ Y = y + k
      BY <1>1, <1>5, <2>1, <2>2, <2>3, <2>4, <2>5
    <3> HIDE DEF X, Y
    <3> DEFINE d == 2 * e
    <3>2. d \in {-2, 0, 2} /\ 2 * X + 1 - c.h = 2 * x + 1 - c.w + d /\ 2 * Y + 1 - c.w = 2 * y + 1 - c.h - d
      BY <1>1, <2>2, <2>3, <3>1
    <3> HIDE DEF d
    <3>3. Stands(c, angle, x, y, Luma(r, X, Y))
      BY <3>1, <3>2, SquareStands DEF r
    <3> QED
      BY <1>3, <2>5, <3>3 DEF i, r
  <2>6. CASE ~inside
    <3>1. ~(x \in k..(k + c.h - 1))
      BY <1>1, <2>1, <2>3, <2>4, <2>6
    <3>2. Beside(x, c.w, c.h)
      BY <1>1, <2>2, <2>3, <3>1 DEF Beside
    <3> QED
      BY <1>3, <2>1, <2>6, <3>2 DEF Stands, StandsBlack, StandsTurned, i, r, side
  <2> QED
    BY <2>5, <2>6
<1> QED
  BY <1>1, <1>4, <1>5

\* Every pixel of the decoded picture, in the build that converts it there.
LEMMA DecodedStands ==
  ASSUME NEW c \in Configs, NEW angle \in Angles, c.build = "main", ~c.systemSwitch => angle = 0,
         NEW x \in 0..(c.w - 1), NEW y \in 0..(c.h - 1)
  PROVE  /\ DecodedImage(c, angle).w = c.w /\ DecodedImage(c, angle).h = c.h
         /\ Stands(c, angle, x, y, Luma(DecodedImage(c, angle), x, y))
<1> DEFINE i == DecodedImage(c, angle)
           r == NV12ToI420Rotate(c, angle)
<1>0. "main" # "common"
  OBVIOUS
<1>1. c.w \in Nat \ {0} /\ c.h \in Nat \ {0}
  BY ConfigIs, SizeIs
<1>2. r.w = (IF Sideways(angle) THEN c.h ELSE c.w) /\ r.h = (IF Sideways(angle) THEN c.w ELSE c.h)
  BY RotatedIs
<1>3. CASE ~Lies(c, angle)
  <2>1. r.w = c.w /\ r.h = c.h
    BY <1>2, <1>3 DEF Lies
  <2>2. i = r
    BY <2>1 DEF DecodedImage, ConvertToI420, UniversalRotateCropAndPadNv12ToI420
  <2>3. Stands(c, angle, x, y, Luma(r, x, y))
    BY <1>3, UprightStands
  <2> QED
    BY <2>1, <2>2, <2>3
<1>4. CASE Lies(c, angle)
  <2>1. ~(r.w = c.w /\ r.h = c.h) /\ c.systemSwitch
    BY <1>2, <1>4 DEF Lies, Sideways
  <2>2. i = I420CopyBySystemSwitch(c, r)
    BY <2>1 DEF DecodedImage, UniversalRotateCropAndPadNv12ToI420
  <2> QED
    BY <1>4, <2>2, LyingStands
<1> QED
  BY <1>3, <1>4

LEMMA ProductWithin ==
  ASSUME NEW m \in Int, NEW a \in Nat, NEW r \in Nat, NEW b \in Nat, -a <= m, m <= a, r <= b
  PROVE  m * r \in Int /\ -(a * b) <= m * r /\ m * r <= a * b
<1>1. (a - m) * r >= 0 /\ (a + m) * r >= 0 /\ a * (b - r) >= 0
  BY SMT
<1>2. (a - m) * r = a * r - m * r /\ (a + m) * r = a * r + m * r /\ a * (b - r) = a * b - a * r
  BY SMT
<1>3. m * r \in Int /\ a * r \in Int /\ a * b \in Int
  BY SMT
<1> QED
  BY <1>1, <1>2, <1>3

\* The library reads within the picture, less than a sample off.
LEMMA NearestIs ==
  ASSUME NEW to \in Nat \ {0}, NEW from \in Nat \ {0}, NEW n \in 0..(to - 1)
  PROVE  /\ Nearest(n, to, from) \in 0..(from - 1)
         /\ (2 * n + 1) * from - 2 * to * Nearest(n, to, from) \in 0..(2 * to - 1)
         /\ Nearest(n, to, to) = n
<1>1. \A f \in Nat \ {0} : LET N == Nearest(n, to, f)
                           IN N \in Nat /\ 2 * to * N <= (2 * n + 1) * f /\ (2 * n + 1) * f < 2 * to * N + 2 * to
  <2> TAKE f \in Nat \ {0}
  <2> DEFINE a == (2 * n + 1) * f
             b == 2 * to
  <2>1. a \in Nat /\ b \in Nat \ {0}
    BY SMT
  <2> HIDE DEF a, b
  <2>2. a \div b \in Nat /\ b * (a \div b) <= a /\ a < b * (a \div b) + b
    BY <2>1, DivBounds
  <2>3. Nearest(n, to, f) = a \div b
    BY DEF Nearest, a, b
  <2> QED
    BY <2>2, <2>3 DEF a, b
<1>2. Nearest(n, to, from) < from
  <2> DEFINE N == Nearest(n, to, from)
  <2>1. N \in Nat /\ 2 * to * N <= (2 * n + 1) * from
    BY <1>1
  <2> HIDE DEF N
  <2>2. (2 * to - 1 - (2 * n + 1)) * from >= 0
    BY SMT
  <2>3. (2 * to - 1 - (2 * n + 1)) * from = 2 * to * from - from - (2 * n + 1) * from
    BY SMT
  <2>4. (2 * n + 1) * from < 2 * to * from
    BY <2>2, <2>3
  <2>5. from < N => 2 * to * from + 2 * to <= 2 * to * N
    BY <2>1, Multiples
  <2>6. from = N => 2 * to * from = 2 * to * N
    OBVIOUS
  <2> QED
    BY <2>1, <2>4, <2>5, <2>6 DEF N
<1>3. Nearest(n, to, to) = n
  <2> DEFINE N == Nearest(n, to, to)
  <2>1. N \in Nat /\ 2 * to * N <= (2 * n + 1) * to /\ (2 * n + 1) * to < 2 * to * N + 2 * to
    BY <1>1
  <2> HIDE DEF N
  <2>2. (2 * n + 1) * to = 2 * to * n + to
    BY SMT
  <2>3. n < N => 2 * to * n + 2 * to <= 2 * to * N
    BY <2>1, Multiples
  <2>4. N < n => 2 * to * N + 2 * to <= 2 * to * n
    BY <2>1, Multiples
  <2> QED
    BY <2>1, <2>2, <2>3, <2>4 DEF N
<1> QED
  <2> DEFINE N == Nearest(n, to, from)
             a == (2 * n + 1) * from
             b == 2 * to * N
  <2>1. N \in Nat /\ b <= a /\ a < b + 2 * to /\ N < from
    BY <1>1, <1>2
  <2>2. a \in Int /\ b \in Int
    BY <2>1
  <2> HIDE DEF N, a, b
  <2>3. a - b \in 0..(2 * to - 1)
    BY <2>1, <2>2
  <2> QED
    BY <1>3, <2>1, <2>3 DEF N, a, b

\* A column is in its place, but for roundings of less than three halves; so is a line.
InPlace(X, w, p, dw, scale, D) ==
  LET E == (2 * X + 1 - w) * D - (2 * p + 1 - dw) * scale IN -(3 * D) < E /\ E < 2 * D

\* Scaling of all columns, when the scale is off by less than Crop sees.
LEMMA WholeAxis ==
  ASSUME NEW w \in Nat \ {0}, NEW dw \in Nat \ {0}, NEW dh \in Nat \ {0}, NEW p \in 0..(dw - 1),
         NEW e \in Int, -dh < e, e < dh
  PROVE  /\ Nearest(p, dw, w) \in 0..(w - 1)
         /\ InPlace(Nearest(p, dw, w), w, p, dw, w * dh - e, dw * dh)
<1> DEFINE N == Nearest(p, dw, w)
           s == (2 * p + 1) * w - 2 * dw * N
           m == 2 * p + 1 - dw
           D == dw * dh
<1>1. N \in 0..(w - 1) /\ s \in 0..(2 * dw - 1)
  BY NearestIs
<1> HIDE DEF N
<1>2. (2 * N + 1 - w) * D - m * (w * dh - e) = dh * (dw - s) + m * e
  <2>1. N \in Int
    BY <1>1
  <2> QED
    BY <2>1, SMTT(30)
<1> HIDE DEF s
<1>3. -(dw * dh) < dh * (dw - s) /\ dh * (dw - s) <= dw * dh /\ dh * (dw - s) \in Int
  <2>1. dw - s \in Int /\ -(dw - 1) <= dw - s /\ dw - s <= dw
    BY <1>1
  <2>2. dh * (dw - (dw - s)) >= 0 /\ dh * ((dw - s) + (dw - 1)) >= 0
    BY <2>1, <1>1, SMT
  <2>3. dh * (dw - (dw - s)) = dw * dh - dh * (dw - s) /\ dh * ((dw - s) + (dw - 1)) = dh * (dw - s) + dw * dh - dh
    BY <1>1, SMT
  <2> QED
    BY <1>1, <2>2, <2>3
<1>4. -(dw * dh) < m * e /\ m * e < dw * dh /\ m * e \in Int
  <2>1. m \in Int /\ -(dw - 1) <= m /\ m <= dw - 1 /\ dw - 1 \in Nat /\ dh - 1 \in Nat
    OBVIOUS
  <2> HIDE DEF m
  <2>2. (dw - 1) * (dh - 1) = dw * dh - dw - dh + 1
    BY SMT
  <2>3. CASE e >= 0
    <3>1. m * e \in Int /\ -((dw - 1) * (dh - 1)) <= m * e /\ m * e <= (dw - 1) * (dh - 1)
      BY <2>1, <2>3, ProductWithin
    <3> QED
      BY <2>2, <3>1
  <2>4. CASE e < 0
    <3>1. -e \in Nat /\ -e <= dh - 1
      BY <2>4
    <3>2. m * (-e) \in Int /\ -((dw - 1) * (dh - 1)) <= m * (-e) /\ m * (-e) <= (dw - 1) * (dh - 1)
      BY <2>1, <3>1, ProductWithin
    <3>3. m * (-e) = -(m * e)
      BY <2>1, SMT
    <3>4. m * e \in Int
      BY <2>1
    <3> QED
      BY <2>2, <3>2, <3>3, <3>4
  <2> QED
    BY <2>3, <2>4
<1> QED
  <2> DEFINE A == dh * (dw - s)
             B == m * e
             E == (2 * N + 1 - w) * D - m * (w * dh - e)
  <2>1. D \in Nat /\ A \in Int /\ B \in Int /\ E = A + B /\ -D < A /\ A <= D /\ -D < B /\ B < D
    BY <1>2, <1>3, <1>4
  <2>2. InPlace(N, w, p, dw, w * dh - e, dw * dh) = (-(3 * D) < E /\ E < 2 * D)
    BY DEF InPlace
  <2> HIDE DEF A, B, E, D
  <2>3. -(3 * D) < E /\ E < 2 * D
    BY <2>1
  <2> QED
    BY <1>1, <2>2, <2>3 DEF N

\* Scaling of the columns that a crop leaves.
CutWell(w, h, dw, dh, p) ==
  LET cw == (h * dw) \div dh
      N == Nearest(p, dw, cw)
  IN /\ cw \in 1..w /\ N \in 0..(cw - 1)
     /\ Half(w - cw) + N \in 0..(w - 1)
     /\ InPlace(Half(w - cw) + N, w, p, dw, h * dw, dw * dh)
LEMMA CutAxis ==
  ASSUME NEW w \in Nat \ {0}, NEW h \in Nat \ {0}, NEW dw \in Nat \ {0}, NEW dh \in Nat \ {0},
         h * dw < w * dh, dh <= h * dw, NEW p \in 0..(dw - 1)
  PROVE  CutWell(w, h, dw, dh, p)
<1> DEFINE cw == (h * dw) \div dh
           N == Nearest(p, dw, cw)
           q == Half(w - cw)
           r == h * dw - dh * cw
           s == (2 * p + 1) * cw - 2 * dw * N
           t == w - cw - 2 * q
           m == 2 * p + 1 - dw
           D == dw * dh
<1>1. h * dw \in Nat
  OBVIOUS
<1>2. cw \in Nat /\ dh * cw <= h * dw /\ h * dw < dh * cw + dh
  BY <1>1, DivBounds
<1> HIDE DEF cw
<1>3. cw >= 1
  <2>1. cw = 0 => dh * cw = 0
    OBVIOUS
  <2> QED
    BY <1>1, <1>2, <2>1
<1>4. cw <= w
  <2>1. w < cw => dh * w + dh <= dh * cw
    BY <1>2, Multiples
  <2>2. w * dh \in Int /\ dh * w = w * dh /\ dh * cw \in Int
    BY <1>2
  <2> QED
    BY <1>1, <1>2, <2>1, <2>2
<1>5. N \in 0..(cw - 1) /\ s \in 0..(2 * dw - 1)
  <2>1. cw \in Nat \ {0}
    BY <1>2, <1>3
  <2> QED
    BY <2>1, NearestIs
<1> HIDE DEF N
<1>6. q \in Int /\ 2 * q <= w - cw /\ w - cw <= 2 * q + 1 /\ t \in {0, 1}
  <2>1. q \in Int /\ 2 * q <= w - cw /\ w - cw <= 2 * q + 1
    BY <1>2, HalfIs
  <2> HIDE DEF q
  <2>2. t \in Int /\ 0 <= t /\ t <= 1
    BY <1>2, <2>1
  <2> QED
    BY <2>1, <2>2
<1> HIDE DEF q
<1>7. q + N \in 0..(w - 1)
  BY <1>2, <1>3, <1>4, <1>5, <1>6
<1>8. r \in 0..(dh - 1)
  <2>1. dh * cw \in Int
    BY <1>2
  <2> QED
    BY <1>1, <1>2, <2>1
<1>9. (2 * (q + N) + 1 - w) * D - m * (h * dw) = D - dh * s - t * D - m * r
  <2>1. 2 * (q + N) + 1 - w = 2 * N + 1 - cw - t
    BY <1>2, <1>5, <1>6
  <2>2. N \in Int /\ cw \in Int /\ t \in Int
    BY <1>2, <1>5, <1>6
  <2> HIDE DEF t
  <2>3. (2 * N + 1 - cw - t) * D - m * (h * dw) = D - dh * s - t * D - m * r
    BY <2>2, SMTT(30)
  <2> QED
    BY <2>1, <2>3
<1> HIDE DEF r, s, t
<1>10. 0 <= dh * s /\ dh * s <= 2 * D - dh /\ dh * s \in Int /\ D \in Nat
  <2>1. dh * s >= 0 /\ dh * (2 * dw - 1 - s) >= 0
    BY <1>5, SMT
  <2>2. dh * (2 * dw - 1 - s) = 2 * D - dh - dh * s
    BY <1>5, SMT
  <2> QED
    BY <1>5, <2>1, <2>2
<1>11. m * r \in Int /\ -(D - dw - dh + 1) <= m * r /\ m * r <= D - dw - dh + 1
  <2>1. m \in Int /\ -(dw - 1) <= m /\ m <= dw - 1 /\ dw - 1 \in Nat /\ dh - 1 \in Nat /\ r \in Nat /\ r <= dh - 1
    BY <1>8
  <2> HIDE DEF m
  <2>2. (dw - 1) * (dh - 1) = D - dw - dh + 1
    BY SMT
  <2>3. m * r \in Int /\ -((dw - 1) * (dh - 1)) <= m * r /\ m * r <= (dw - 1) * (dh - 1)
    BY <2>1, ProductWithin
  <2> QED
    BY <2>2, <2>3
<1>12. t * D \in {0, D}
  BY <1>6, <1>10
<1> QED
  <2> DEFINE A == dh * s
             B == m * r
             T == t * D
             E == (2 * (q + N) + 1 - w) * D - m * (h * dw)
  <2>1. /\ D \in Nat /\ A \in Int /\ B \in Int /\ T \in {0, D} /\ E = D - A - T - B /\ 0 <= A /\ A <= 2 * D - dh
        /\ -(D - dw - dh + 1) <= B /\ B <= D - dw - dh + 1
    BY <1>9, <1>10, <1>11, <1>12
  <2>2. InPlace(q + N, w, p, dw, h * dw, dw * dh) = (-(3 * D) < E /\ E < 2 * D)
    BY DEF InPlace
  <2> HIDE DEF A, B, E, D, T
  <2>3. -(3 * D) < E /\ E < 2 * D
    BY <2>1
  <2> QED
    <3>1. cw \in 1..w
      BY <1>2, <1>3, <1>4
    <3>2. InPlace(q + N, w, p, dw, h * dw, dw * dh)
      BY <2>2, <2>3
    <3> QED
      BY <1>5, <1>7, <3>1, <3>2 DEF CutWell, N, q, cw

\* The conversion of a picture, column by column and line by line.
ScaledWell(c, i, x, y) ==
  LET k == ConvertResolution(c, i)
      X == Nearest(x, c.dw, i.w)
      Y == Nearest(y, c.dh, i.h)
  IN k.w = c.dw /\ k.h = c.dh /\ Luma(k, x, y) = Luma(i, X, Y)
LEMMA ScaledIs ==
  ASSUME NEW c \in Configs, NEW i, i.w \in Nat \ {0}, i.h \in Nat \ {0},
         NEW x \in 0..(c.dw - 1), NEW y \in 0..(c.dh - 1)
  PROVE  ScaledWell(c, i, x, y)
<1>1. c.dw \in Nat \ {0} /\ c.dh \in Nat \ {0}
  BY ConfigIs, SizeIs
<1>2. CASE i.w = c.dw /\ i.h = c.dh
  <2>1. Nearest(x, c.dw, c.dw) = x /\ Nearest(y, c.dh, c.dh) = y
    BY <1>1, NearestIs
  <2>2. ConvertResolution(c, i) = i
    BY <1>2 DEF ConvertResolution
  <2> QED
    BY <1>2, <2>1, <2>2 DEF ScaledWell
<1>3. CASE ~(i.w = c.dw /\ i.h = c.dh)
  <2> DEFINE luma == [p \in Pixels(c.dw, c.dh) |-> Luma(i, Nearest(p[1], c.dw, i.w), Nearest(p[2], c.dh, i.h))]
             k == ConvertResolution(c, i)
  <2>1. \E chroma : k = I420(c.dw, c.dh, luma, chroma)
    BY <1>3 DEF ConvertResolution, I420Scale
  <2>2. luma[<<x, y>>] = Luma(i, Nearest(x, c.dw, i.w), Nearest(y, c.dh, i.h))
    BY DEF Pixels
  <2> HIDE DEF luma, k
  <2>3. k.w = c.dw /\ k.h = c.dh /\ Luma(k, x, y) = luma[<<x, y>>]
    BY <1>1, <2>1, I420Is
  <2> QED
    BY <2>2, <2>3 DEF ScaledWell, k
<1> QED
  BY <1>2, <1>3

LEMMA FormatIs ==
  ASSUME NEW c, NEW i, NEW p \in Pixels(i.w, i.h)
  PROVE  ConvertFormat(c, i).data[p][1] = Luma(i, p[1], p[2])
BY DEF ConvertFormat

LEMMA CropIs ==
  ASSUME NEW c \in Configs, NEW i, ~SameAspect(c, i), CropWidth(c, i) \in Nat \ {0}, CropHeight(c, i) \in Nat \ {0}
  PROVE  /\ Crop(c, i).w = CropWidth(c, i) /\ Crop(c, i).h = CropHeight(c, i)
         /\ \A x \in 0..(CropWidth(c, i) - 1), y \in 0..(CropHeight(c, i) - 1) :
              Luma(Crop(c, i), x, y) = Luma(i, Half(i.w - CropWidth(c, i)) + x, Half(i.h - CropHeight(c, i)) + y)
<1> DEFINE cw == CropWidth(c, i)
           ch == CropHeight(c, i)
           luma == [p \in Pixels(cw, ch) |-> Luma(i, Half(i.w - cw) + p[1], Half(i.h - ch) + p[2])]
           k == Crop(c, i)
<1>1. \E chroma : k = I420(cw, ch, luma, chroma)
  BY DEF Crop
<1>2. \A x \in 0..(cw - 1), y \in 0..(ch - 1) : luma[<<x, y>>] = Luma(i, Half(i.w - cw) + x, Half(i.h - ch) + y)
  BY DEF Pixels
<1> HIDE DEF luma, k, cw, ch
<1>3. k.w = cw /\ k.h = ch /\ \A x \in 0..(cw - 1), y \in 0..(ch - 1) : Luma(k, x, y) = luma[<<x, y>>]
  BY <1>1, I420Is DEF cw, ch
<1> QED
  BY <1>2, <1>3 DEF k, cw, ch

\* The sample of a pixel of the stream is the one of a column and a line of the picture
\* in its place.
BroaderOf(c) == c.w * c.dh > c.h * c.dw
ScaleXOf(c) == IF c.systemSwitch /\ BroaderOf(c) THEN c.h * c.dw ELSE c.w * c.dh
ScaleYOf(c) == IF c.systemSwitch /\ ~BroaderOf(c) THEN c.w * c.dh ELSE c.h * c.dw
Placed(c, X, Y, x, y) ==
  /\ X \in 0..(c.w - 1) /\ Y \in 0..(c.h - 1)
  /\ InPlace(X, c.w, x, c.dw, ScaleXOf(c), c.dw * c.dh)
  /\ InPlace(Y, c.h, y, c.dh, ScaleYOf(c), c.dw * c.dh)

\* Without a crop, also when the aspects differ by less than Crop sees.
LEMMA WholePlaced ==
  ASSUME NEW c \in Configs, NEW x \in 0..(c.dw - 1), NEW y \in 0..(c.dh - 1),
         c.systemSwitch => Abs(c.w * c.dh - c.h * c.dw) * Million < c.h * c.dh
  PROVE  Placed(c, Nearest(x, c.dw, c.w), Nearest(y, c.dh, c.h), x, y)
<1> DEFINE w == c.w
           h == c.h
           dw == c.dw
           dh == c.dh
           gap == w * dh - h * dw
           e == w * dh - ScaleXOf(c)
           f == h * dw - ScaleYOf(c)
<1>1. w \in Nat \ {0} /\ h \in Nat \ {0} /\ dw \in Nat \ {0} /\ dh \in Nat \ {0}
  BY ConfigIs, SizeIs
<1>2. h * dh < dw * Million /\ h * dh < dh * Million
  BY ConfigIs, SizesAssumption
<1>3. w * dh \in Int /\ h * dw \in Int /\ gap \in Int
  BY <1>1
<1>4. c.systemSwitch => Abs(gap) < dw /\ Abs(gap) < dh /\ Abs(gap) \in Nat
  <2> SUFFICES ASSUME c.systemSwitch PROVE Abs(gap) < dw /\ Abs(gap) < dh /\ Abs(gap) \in Nat
    OBVIOUS
  <2> DEFINE a == Abs(gap)
             m == h * dh
  <2>1. a \in Nat
    BY <1>3 DEF Abs
  <2>2. a * Million < m /\ m < dw * Million /\ m < dh * Million /\ m \in Int
    BY <1>1, <1>2
  <2> HIDE DEF a, m, dw, dh
  <2>3. \A n \in Nat : n <= a => n * Million <= a * Million
    <3> TAKE n \in Nat
    <3>1. n <= a => (a - n) * Million >= 0
      BY <2>1, MillionIs
    <3>2. (a - n) * Million = a * Million - n * Million
      BY <2>1, MillionIs
    <3>3. n * Million \in Int /\ a * Million \in Int
      BY <2>1, MillionIs
    <3> QED
      BY <3>1, <3>2, <3>3
  <2>4. dw * Million \in Int /\ dh * Million \in Int /\ a * Million \in Int
    BY <1>1, <2>1, MillionIs
  <2>5. ~(dw <= a) /\ ~(dh <= a)
    BY <1>1, <2>2, <2>3, <2>4
  <2> QED
    BY <1>1, <2>1, <2>5 DEF a
<1>5. e \in Int /\ -dh < e /\ e < dh
  <2> HIDE DEF w, h, dw, dh
  <2>1. e \in {0, gap} /\ (e = 0 \/ c.systemSwitch)
    BY <1>3 DEF ScaleXOf, BroaderOf, w, h, dw, dh
  <2> HIDE DEF e, gap
  <2> QED
    BY <1>1, <1>3, <1>4, <2>1 DEF Abs
<1>6. f \in Int /\ -dw < f /\ f < dw
  <2> HIDE DEF w, h, dw, dh
  <2>1. f \in {0, -gap} /\ (f = 0 \/ c.systemSwitch)
    BY <1>3 DEF ScaleYOf, BroaderOf, w, h, dw, dh
  <2> HIDE DEF f, gap
  <2> QED
    BY <1>1, <1>3, <1>4, <2>1 DEF Abs
<1>7. w * dh - e = ScaleXOf(c) /\ h * dw - f = ScaleYOf(c) /\ dw * dh = dh * dw
  <2> HIDE DEF w, h, dw, dh
  <2>1. ScaleXOf(c) \in Int /\ ScaleYOf(c) \in Int
    BY <1>3 DEF ScaleXOf, ScaleYOf, w, h, dw, dh
  <2> QED
    BY <1>1, <1>3, <2>1
<1> HIDE DEF e, f, w, h, dw, dh, gap
<1>8. Nearest(x, dw, w) \in 0..(w - 1) /\ InPlace(Nearest(x, dw, w), w, x, dw, w * dh - e, dw * dh)
  <2>1. x \in 0..(dw - 1)
    BY DEF dw
  <2> QED
    BY <1>1, <1>5, <2>1, WholeAxis
<1>9. Nearest(y, dh, h) \in 0..(h - 1) /\ InPlace(Nearest(y, dh, h), h, y, dh, h * dw - f, dh * dw)
  <2>1. y \in 0..(dh - 1)
    BY DEF dh
  <2> QED
    BY <1>1, <1>6, <2>1, WholeAxis
<1>10. InPlace(Nearest(x, dw, w), w, x, dw, ScaleXOf(c), dw * dh) /\ InPlace(Nearest(y, dh, h), h, y, dh, ScaleYOf(c), dw * dh)
  BY <1>7, <1>8, <1>9
<1> QED
  BY <1>8, <1>9, <1>10 DEF Placed, w, h, dw, dh

\* A picture whose sample at a pixel is the one of the decoded picture in its place.
Faithful(c, i, k, x, y) ==
  /\ k.w = c.dw /\ k.h = c.dh /\ DOMAIN k.data = Pixels(c.dw, c.dh)
  /\ \E X \in Nat, Y \in Nat : Placed(c, X, Y, x, y) /\ k.data[<<x, y>>][1] = Luma(i, X, Y)

LEMMA FormattedIs ==
  ASSUME NEW c \in Configs, NEW i, NEW j, j.w \in Nat \ {0}, j.h \in Nat \ {0},
         NEW x \in 0..(c.dw - 1), NEW y \in 0..(c.dh - 1),
         NEW X \in Nat, NEW Y \in Nat, Placed(c, X, Y, x, y),
         Luma(j, Nearest(x, c.dw, j.w), Nearest(y, c.dh, j.h)) = Luma(i, X, Y)
  PROVE  Faithful(c, i, ConvertFormat(c, ConvertResolution(c, j)), x, y)
<1> DEFINE m == ConvertResolution(c, j)
           k == ConvertFormat(c, m)
<1>1. m.w = c.dw /\ m.h = c.dh /\ Luma(m, x, y) = Luma(i, X, Y)
  BY ScaledIs DEF ScaledWell
<1> HIDE DEF m
<1>2. <<x, y>> \in Pixels(c.dw, c.dh)
  BY DEF Pixels
<1>3. k.data[<<x, y>>][1] = Luma(m, x, y)
  <2>1. k.data[<<x, y>>][1] = Luma(m, <<x, y>>[1], <<x, y>>[2])
    BY <1>1, <1>2, FormatIs
  <2> QED
    BY <2>1
<1>4. k.w = m.w /\ k.h = m.h /\ DOMAIN k.data = Pixels(m.w, m.h)
  BY DEF ConvertFormat
<1> HIDE DEF k
<1>5. Faithful(c, i, k, x, y)
  BY <1>1, <1>3, <1>4 DEF Faithful
<1> QED
  BY <1>5 DEF k, m

LEMMA ConvertedIs ==
  ASSUME NEW c \in Configs, c.build = "main", NEW i, i.w = c.w, i.h = c.h,
         NEW x \in 0..(c.dw - 1), NEW y \in 0..(c.dh - 1)
  PROVE  Faithful(c, i, ConvertedImage(c, i), x, y)
<1> DEFINE w == c.w
           h == c.h
           dw == c.dw
           dh == c.dh
           j == IF c.systemSwitch THEN Crop(c, i) ELSE i
<1>1. w \in Nat \ {0} /\ h \in Nat \ {0} /\ dw \in Nat \ {0} /\ dh \in Nat \ {0}
  BY ConfigIs, SizeIs
<1>2. ConvertedImage(c, i) = ConvertFormat(c, ConvertResolution(c, j))
  <2>1. c.build # "common"
    OBVIOUS
  <2> QED
    BY <2>1 DEF ConvertedImage
<1>3. dh <= h * dw /\ dw <= w * dh
  <2>1. h * dw >= dh /\ w * dh >= dw
    BY ConfigIs, SizesAssumption
  <2> QED
    BY <1>1, <2>1
<1>4. CASE c.systemSwitch => SameAspect(c, i)
  <2>1. j = i
    BY <1>4 DEF Crop
  <2>2. Placed(c, Nearest(x, dw, w), Nearest(y, dh, h), x, y)
    BY <1>4, WholePlaced DEF SameAspect
  <2>3. Nearest(x, dw, w) \in Nat /\ Nearest(y, dh, h) \in Nat
    <3>1. Nearest(x, dw, w) \in 0..(w - 1) /\ Nearest(y, dh, h) \in 0..(h - 1)
      BY <2>2 DEF Placed
    <3> QED
      BY <3>1
  <2> HIDE DEF j
  <2>4. j.w \in Nat \ {0} /\ j.h \in Nat \ {0} /\ j.w = w /\ j.h = h
    BY <1>1, <2>1
  <2>5. Faithful(c, i, ConvertFormat(c, ConvertResolution(c, j)), x, y)
    BY <2>1, <2>2, <2>3, <2>4, FormattedIs
  <2> QED
    BY <1>2, <2>5 DEF j
<1>5. ASSUME c.systemSwitch, ~SameAspect(c, i), BroaderOf(c)
      PROVE  Faithful(c, i, ConvertedImage(c, i), x, y)
  <2> DEFINE cw == (h * dw) \div dh
             N == Nearest(x, dw, cw)
             M == Nearest(y, dh, h)
  <2>1. CutWell(w, h, dw, dh, x)
    <3>1. h * dw < w * dh /\ x \in 0..(dw - 1)
      BY <1>1, <1>5 DEF BroaderOf
    <3> HIDE DEF w, h, dw, dh
    <3> QED
      BY <1>1, <1>3, <3>1, CutAxis
  <2>2. /\ cw \in 1..w /\ N \in 0..(cw - 1) /\ Half(w - cw) + N \in 0..(w - 1)
        /\ InPlace(Half(w - cw) + N, w, x, dw, h * dw, dw * dh)
    BY <2>1 DEF CutWell
  <2>3. M \in 0..(h - 1) /\ InPlace(M, h, y, dh, h * dw, dw * dh)
    <3> HIDE DEF w, h, dw, dh
    <3>1. 0 \in Int /\ -dw < 0 /\ 0 < dw /\ y \in 0..(dh - 1)
      BY <1>1 DEF dh
    <3>2. M \in 0..(h - 1) /\ InPlace(M, h, y, dh, h * dw - 0, dh * dw)
      BY <1>1, <3>1, WholeAxis
    <3>3. h * dw - 0 = h * dw /\ dh * dw = dw * dh
      BY <1>1
    <3> QED
      BY <3>2, <3>3
  <2>4. CropWidth(c, i) = cw /\ CropHeight(c, i) = h
    BY <1>5 DEF CropWidth, CropHeight, BroaderOf
  <2>5. ScaleXOf(c) = h * dw /\ ScaleYOf(c) = h * dw
    BY <1>5 DEF ScaleXOf, ScaleYOf
  <2> HIDE DEF cw, N, M
  <2>6. Placed(c, Half(w - cw) + N, M, x, y)
    BY <2>2, <2>3, <2>5 DEF Placed
  <2>7. Half(h - h) = 0 /\ 0 + M = M
    BY <1>1, <2>3 DEF Half
  <2>8. j.w = cw /\ j.h = h /\ Luma(j, N, M) = Luma(i, Half(w - cw) + N, M)
    <3>1. cw \in Nat \ {0} /\ j = Crop(c, i)
      BY <1>5, <2>2, <1>1
    <3>2. Luma(Crop(c, i), N, M) = Luma(i, Half(i.w - cw) + N, Half(i.h - h) + M) /\ Crop(c, i).w = cw /\ Crop(c, i).h = h
      BY <1>1, <1>5, <2>2, <2>3, <2>4, <3>1, CropIs
    <3> QED
      BY <2>7, <3>1, <3>2
  <2> HIDE DEF j
  <2>9. Half(w - cw) + N \in Nat /\ M \in Nat /\ cw \in Nat \ {0}
    BY <2>2, <2>3, <1>1
  <2>10. Luma(j, Nearest(x, c.dw, j.w), Nearest(y, c.dh, j.h)) = Luma(i, Half(w - cw) + N, M)
    BY <2>8 DEF N, M
  <2>11. Faithful(c, i, ConvertFormat(c, ConvertResolution(c, j)), x, y)
    BY <1>1, <2>6, <2>8, <2>9, <2>10, FormattedIs
  <2> QED
    BY <1>2, <2>11 DEF j
<1>6. ASSUME c.systemSwitch, ~SameAspect(c, i), ~BroaderOf(c)
      PROVE  Faithful(c, i, ConvertedImage(c, i), x, y)
  <2> DEFINE ch == (w * dh) \div dw
             N == Nearest(x, dw, w)
             M == Nearest(y, dh, ch)
  <2>1. CutWell(h, w, dh, dw, y)
    <3>1. w * dh <= h * dw /\ y \in 0..(dh - 1)
      BY <1>1, <1>6 DEF BroaderOf
    <3>2. w * dh # h * dw
      <4>1. h * dh \in Int /\ h * dh >= 1
        BY <1>1
      <4>2. w * dh = h * dw => Abs(w * dh - h * dw) * Million = 0
        <5>1. w * dh = h * dw => w * dh - h * dw = 0
          BY <1>1
        <5> QED
          BY <5>1, MillionIs DEF Abs
      <4>3. ~(Abs(w * dh - h * dw) * Million < h * dh)
        BY <1>6 DEF SameAspect
      <4> DEFINE a == Abs(w * dh - h * dw) * Million
                 b == h * dh
      <4> HIDE DEF a, b
      <4>4. w * dh = h * dw => a = 0
        BY <4>2 DEF a
      <4>5. ~(a < b) /\ b >= 1 /\ b \in Int
        BY <4>1, <4>3 DEF a, b
      <4> QED
        BY <4>4, <4>5
    <3> HIDE DEF w, h, dw, dh
    <3>3. w * dh < h * dw
      BY <1>1, <3>1, <3>2
    <3> QED
      BY <1>1, <1>3, <3>1, <3>3, CutAxis
  <2>2. /\ ch \in 1..h /\ M \in 0..(ch - 1) /\ Half(h - ch) + M \in 0..(h - 1)
        /\ InPlace(Half(h - ch) + M, h, y, dh, w * dh, dh * dw)
    BY <2>1 DEF CutWell
  <2>3. N \in 0..(w - 1) /\ InPlace(N, w, x, dw, w * dh, dw * dh)
    <3> HIDE DEF w, h, dw, dh
    <3>1. 0 \in Int /\ -dh < 0 /\ 0 < dh /\ x \in 0..(dw - 1)
      BY <1>1 DEF dw
    <3>2. N \in 0..(w - 1) /\ InPlace(N, w, x, dw, w * dh - 0, dw * dh)
      BY <1>1, <3>1, WholeAxis
    <3>3. w * dh - 0 = w * dh
      BY <1>1
    <3> QED
      BY <3>2, <3>3
  <2>4. CropWidth(c, i) = w /\ CropHeight(c, i) = ch
    BY <1>6 DEF CropWidth, CropHeight, BroaderOf
  <2>5. ScaleXOf(c) = w * dh /\ ScaleYOf(c) = w * dh /\ dh * dw = dw * dh
    BY <1>1, <1>6 DEF ScaleXOf, ScaleYOf
  <2> HIDE DEF ch, N, M
  <2>6. Placed(c, N, Half(h - ch) + M, x, y)
    BY <2>2, <2>3, <2>5 DEF Placed
  <2>7. Half(w - w) = 0 /\ 0 + N = N
    BY <1>1, <2>3 DEF Half
  <2>8. j.w = w /\ j.h = ch /\ Luma(j, N, M) = Luma(i, N, Half(h - ch) + M)
    <3>1. ch \in Nat \ {0} /\ j = Crop(c, i)
      BY <1>6, <2>2, <1>1
    <3>2. Luma(Crop(c, i), N, M) = Luma(i, Half(i.w - w) + N, Half(i.h - ch) + M) /\ Crop(c, i).w = w /\ Crop(c, i).h = ch
      BY <1>1, <1>6, <2>2, <2>3, <2>4, <3>1, CropIs
    <3> QED
      BY <2>7, <3>1, <3>2
  <2> HIDE DEF j
  <2>9. N \in Nat /\ Half(h - ch) + M \in Nat /\ ch \in Nat \ {0}
    BY <2>2, <2>3, <1>1
  <2>10. Luma(j, Nearest(x, c.dw, j.w), Nearest(y, c.dh, j.h)) = Luma(i, N, Half(h - ch) + M)
    BY <2>8 DEF N, M
  <2>11. Faithful(c, i, ConvertFormat(c, ConvertResolution(c, j)), x, y)
    BY <1>1, <2>6, <2>8, <2>9, <2>10, FormattedIs
  <2> QED
    BY <1>2, <2>11 DEF j
<1> QED
  BY <1>4, <1>5, <1>6

\* What the stream shows at a pixel: the sample that stands in its place in the frame.
Shows(c, angle, k, x, y) ==
  /\ k.w = c.dw /\ k.h = c.dh /\ DOMAIN k.data = Pixels(c.dw, c.dh)
  /\ \E X \in Nat, Y \in Nat : Placed(c, X, Y, x, y) /\ Stands(c, angle, X, Y, k.data[<<x, y>>][1])
UnpaddedOf(c) == c.stride = c.w /\ SurfaceHeight(c) = c.h /\ AlignedLine(c.w) = c.w

\* The build that rotates, crops and scales; and the one that leaves it to the library.
LEMMA MainShows ==
  ASSUME NEW c \in Configs, NEW angle \in Angles, c.build = "main", ~c.systemSwitch => angle = 0,
         NEW x \in 0..(c.dw - 1), NEW y \in 0..(c.dh - 1)
  PROVE  Shows(c, angle, ConvertedImage(c, DecodedImage(c, angle)), x, y)
<1> DEFINE i == DecodedImage(c, angle)
           k == ConvertedImage(c, i)
<1>1. c.w \in Nat \ {0} /\ c.h \in Nat \ {0}
  BY ConfigIs, SizeIs
<1>2. \A X \in 0..(c.w - 1), Y \in 0..(c.h - 1) : i.w = c.w /\ i.h = c.h /\ Stands(c, angle, X, Y, Luma(i, X, Y))
  BY DecodedStands
<1>3. i.w = c.w /\ i.h = c.h
  <2>1. 0 \in 0..(c.w - 1) /\ 0 \in 0..(c.h - 1)
    BY <1>1
  <2> QED
    BY <1>2, <2>1
<1> HIDE DEF i
<1>4. Faithful(c, i, k, x, y)
  BY <1>3, ConvertedIs
<1> HIDE DEF k
<1>5. PICK X \in Nat, Y \in Nat : Placed(c, X, Y, x, y) /\ k.data[<<x, y>>][1] = Luma(i, X, Y)
  BY <1>4 DEF Faithful
<1>6. X \in 0..(c.w - 1) /\ Y \in 0..(c.h - 1)
  BY <1>5 DEF Placed
<1>7. Stands(c, angle, X, Y, k.data[<<x, y>>][1])
  BY <1>2, <1>5, <1>6
<1>8. Shows(c, angle, k, x, y)
  BY <1>4, <1>5, <1>7 DEF Shows, Faithful
<1> QED
  BY <1>8 DEF i, k

LEMMA CommonShows ==
  ASSUME NEW c \in Configs, c.build = "common", UnpaddedOf(c),
         NEW x \in 0..(c.dw - 1), NEW y \in 0..(c.dh - 1)
  PROVE  Shows(c, 0, ConvertedImage(c, DecodedImage(c, 0)), x, y)
<1> DEFINE i == CopySurface(c)
           k == SwsScale(c, i)
           X == Nearest(x, c.dw, c.w)
           Y == Nearest(y, c.dh, c.h)
           n == Y * c.w + X
<1>1. /\ c.w \in Nat \ {0} /\ c.h \in Nat \ {0} /\ c.dw \in Nat \ {0} /\ c.dh \in Nat \ {0}
      /\ ~c.systemSwitch
  BY ConfigIs, SizeIs
<1>2. ConvertedImage(c, DecodedImage(c, 0)) = k
  BY DEF ConvertedImage, DecodedImage
<1>3. Placed(c, X, Y, x, y)
  BY <1>1, WholePlaced
<1>4. X \in 0..(c.w - 1) /\ Y \in 0..(c.h - 1)
  BY <1>3 DEF Placed
<1>5. k.w = c.dw /\ k.h = c.dh /\ DOMAIN k.data = Pixels(c.dw, c.dh)
  BY DEF SwsScale
<1>6. k.data[<<x, y>>][1] = IF n < c.w * c.h THEN At(i.data, n) ELSE Nowhere
  <2>1. <<x, y>> \in Pixels(c.dw, c.dh)
    BY DEF Pixels
  <2> HIDE DEF i
  <2> QED
    BY <2>1 DEF SwsScale, UnpaddedOf
<1> HIDE DEF X, Y, k
<1>7. n \in Nat /\ n < c.w * c.h
  BY <1>1, <1>4, PixelPlace
<1>8. At(i.data, n) = At(Surface(c), n)
  <2>1. c.w * c.h \in Nat /\ c.w * c.h <= Half(c.w * c.h * 3) /\ Half(c.w * c.h * 3) \in Int
    <3> DEFINE m == c.w * c.h
    <3>1. m \in Nat
      BY <1>1
    <3> HIDE DEF m
    <3>2. m <= Half(m * 3) /\ Half(m * 3) \in Int
      BY <3>1 DEF Half
    <3> QED
      BY <3>1, <3>2 DEF m
  <2> HIDE DEF n
  <2>2. n \in 0..(Half(c.w * c.h * 3) - 1)
    BY <1>7, <2>1
  <2> QED
    BY <2>2 DEF CopySurface, At
<1>9. At(Surface(c), n) = <<"Y", X, Y>>
  <2>1. At(Surface(c), Y * c.stride + X) = <<"Y", X, Y>>
    BY <1>4, SurfaceIs
  <2> QED
    BY <2>1 DEF UnpaddedOf
<1> HIDE DEF n, i
<1>10. k.data[<<x, y>>][1] = <<"Y", X, Y>>
  BY <1>6, <1>7, <1>8, <1>9
<1>11. X \in Nat /\ Y \in Nat
  BY <1>4
<1>12. Stands(c, 0, X, Y, <<"Y", X, Y>>)
  <2>1. 2 * X + 1 - c.w = 2 * X + 1 - c.w + 0 /\ 2 * Y + 1 - c.h = 2 * Y + 1 - c.h - 0
    BY <1>1, <1>11
  <2>2. \A v : Turn(0, v) = v
    BY DEF Turn
  <2>3. <<2 * X + 1 - c.w, 2 * Y + 1 - c.h>> = Turn(0, <<2 * X + 1 - c.w + 0, 2 * Y + 1 - c.h - 0>>)
    BY <2>1, <2>2
  <2>4. 0 \in {-2, 0, 2}
    OBVIOUS
  <2> QED
    BY <1>11, <2>3, <2>4 DEF Stands, StandsBlack, StandsTurned
<1>13. Shows(c, 0, k, x, y)
  BY <1>3, <1>5, <1>10, <1>11, <1>12 DEF Shows
<1> QED
  BY <1>2, <1>13

----------------------------------------------------------------------------
\* From the middle of the frame: a sample in its place, moved by two halves, is near it.
LEMMA NearIs ==
  ASSUME NEW a \in Int, NEW v \in Int, NEW D \in Nat \ {0}, NEW d \in {-2, 0, 2}, NEW S \in {3, 5},
         -(3 * D) < a * D - v, a * D - v < 2 * D, d # 0 => S = 5
  PROVE  Abs((a + d) * D - v) < S * D /\ Abs((-(a + d)) * D - -v) < S * D
<1> DEFINE E == a * D - v
           F == d * D
           T == S * D
<1>1. E \in Int /\ F \in Int /\ T \in Int
  OBVIOUS
<1>2. (a + d) * D - v = E + F /\ (-(a + d)) * D - -v = -(E + F)
  BY SMT
<1>3. /\ F \in {-(2 * D), 0, 2 * D} /\ T \in {3 * D, 5 * D} /\ (F # 0 => T = 5 * D)
      /\ -(3 * D) < E /\ E < 2 * D
  OBVIOUS
<1> HIDE DEF E, F, T
<1>4. -T < E + F /\ E + F < T
  BY <1>1, <1>3
<1> QED
  BY <1>1, <1>2, <1>4 DEF Abs, T

\* What is beside the square is not well inside of it, seen from the stream.
LEMMA BesideIs ==
  ASSUME NEW n \in Nat, NEW size \in Nat, NEW side \in Nat, NEW v \in Int, NEW D \in Nat \ {0},
         -(3 * D) < (2 * n + 1 - size) * D - v, (2 * n + 1 - size) * D - v < 2 * D, Beside(n, size, side)
  PROVE  ~(Abs(v) <= (side - 4) * D) /\ ~(Abs(-v) <= (side - 4) * D)
<1> DEFINE a == 2 * n + 1 - size
           A == a * D
           m == side * D
<1>1. a \in Int /\ A \in Int /\ m \in Int /\ (side - 4) * D = m - 4 * D
  BY SMT
<1>2. a >= side - 1 \/ a <= -side - 1
  BY DEF Beside
<1> HIDE DEF a
<1>3. CASE a >= side - 1
  <2>1. (a - (side - 1)) * D >= 0
    BY <1>1, <1>3
  <2>2. (a - (side - 1)) * D = A - m + D
    BY <1>1, SMT
  <2>3. A - v < 2 * D
    BY DEF a
  <2> HIDE DEF A, m
  <2>4. v > m - 4 * D
    BY <1>1, <2>1, <2>2, <2>3
  <2>5. Abs(v) >= v /\ Abs(-v) >= v /\ Abs(v) \in Int /\ Abs(-v) \in Int
    BY DEF Abs
  <2> QED
    BY <1>1, <2>4, <2>5
<1>4. CASE a <= -side - 1
  <2>1. (-side - 1 - a) * D >= 0
    BY <1>1, <1>4
  <2>2. (-side - 1 - a) * D = -m - D - A
    BY <1>1, SMT
  <2>3. -(3 * D) < A - v
    BY DEF a
  <2> HIDE DEF A, m
  <2>4. -v > m - 4 * D
    BY <1>1, <2>1, <2>2, <2>3
  <2>5. Abs(v) >= -v /\ Abs(-v) >= -v /\ Abs(v) \in Int /\ Abs(-v) \in Int
    BY DEF Abs
  <2> QED
    BY <1>1, <2>4, <2>5
<1> QED
  BY <1>2, <1>3, <1>4

\* What PictureShowsFrame asks of a sample s at a pixel whose place, from the middle, is v.
SampleRight(s, v) ==
  IF s = Black("Y") THEN Across /\ ~InsideOfSquare(v)
  ELSE /\ s[1] = "Y"
       /\ Near((2 * s[2] + 1 - config.w) * Denominator, v[1])
       /\ Near((2 * s[3] + 1 - config.h) * Denominator, v[2])

LEMMA ShowsIsRight ==
  ASSUME config \in Configs, rotate \in Angles, NEW k,
         NEW x \in 0..(config.dw - 1), NEW y \in 0..(config.dh - 1), Shows(config, rotate, k, x, y)
  PROVE  SampleRight(k.data[<<x, y>>][1], Turn(rotate, FromMiddle(<<x, y>>)))
<1> DEFINE c == config
           D == Denominator
           vx == (2 * x + 1 - c.dw) * ScaleX
           vy == (2 * y + 1 - c.dh) * ScaleY
           s == k.data[<<x, y>>][1]
           side == Least(c.w, c.h)
<1>1. /\ c.w \in Nat \ {0} /\ c.h \in Nat \ {0} /\ c.dw \in Nat \ {0} /\ c.dh \in Nat \ {0}
      /\ D \in Nat \ {0} /\ D = c.dw * c.dh
  <2>1. c.w \in Nat \ {0} /\ c.h \in Nat \ {0} /\ c.dw \in Nat \ {0} /\ c.dh \in Nat \ {0}
    BY ConfigIs, SizeIs
  <2>2. c.dw * c.dh \in Nat \ {0}
    BY <2>1
  <2> QED
    BY <2>1, <2>2 DEF Denominator
<1>2. ScaleX = ScaleXOf(c) /\ ScaleY = ScaleYOf(c) /\ ScaleX \in Int /\ ScaleY \in Int
  BY <1>1 DEF ScaleX, ScaleY, ScaleXOf, ScaleYOf, Broader, BroaderOf
<1>3. vx \in Int /\ vy \in Int
  BY <1>1, <1>2
<1>4. FromMiddle(<<x, y>>) = <<vx, vy>>
  BY DEF FromMiddle
<1>5. PICK X \in Nat, Y \in Nat : Placed(c, X, Y, x, y) /\ Stands(c, rotate, X, Y, s)
  BY DEF Shows
<1> DEFINE a == 2 * X + 1 - c.w
           b == 2 * Y + 1 - c.h
<1>6. -(3 * D) < a * D - vx /\ a * D - vx < 2 * D /\ -(3 * D) < b * D - vy /\ b * D - vy < 2 * D
  BY <1>1, <1>2, <1>5 DEF Placed, InPlace
<1>7. Across <=> Lies(c, rotate)
  BY DEF Across, Lies, Sideways
<1>8. a \in Int /\ b \in Int /\ side \in Nat
  BY <1>1 DEF Least
<1>9. Turn(rotate, <<vx, vy>>) \in {<<vx, vy>>, <<vy, -vx>>, <<-vx, -vy>>, <<-vy, vx>>}
  BY DEF Turn, Angles
<1> HIDE DEF vx, vy, D, s
<1>10. CASE StandsBlack(c, rotate, X, Y, s)
  <2>0. s = Black("Y") /\ Lies(c, rotate) /\ (Beside(X, c.w, side) \/ Beside(Y, c.h, side))
    BY <1>10 DEF StandsBlack
  <2> DEFINE m == (side - 4) * D
             v == Turn(rotate, <<vx, vy>>)
  <2>1. Beside(X, c.w, side) => ~(Abs(vx) <= m) /\ ~(Abs(-vx) <= m)
    <3> HIDE DEF side
    <3> QED
      BY <1>1, <1>3, <1>6, <1>8, BesideIs
  <2>2. Beside(Y, c.h, side) => ~(Abs(vy) <= m) /\ ~(Abs(-vy) <= m)
    <3> HIDE DEF side
    <3> QED
      BY <1>1, <1>3, <1>6, <1>8, BesideIs
  <2> HIDE DEF m, side
  <2>3. ~(Abs(v[1]) <= m) \/ ~(Abs(v[2]) <= m)
    <3>1. v \in {<<vx, vy>>, <<vy, -vx>>, <<-vx, -vy>>, <<-vy, vx>>}
      BY <1>9
    <3> HIDE DEF v
    <3> QED
      BY <2>0, <2>1, <2>2, <3>1
  <2> HIDE DEF v
  <2>4. ~InsideOfSquare(v)
    <3>1. InsideOfSquare(v) => Abs(v[1]) <= m /\ Abs(v[2]) <= m
      BY DEF InsideOfSquare, m, side, D
    <3> QED
      BY <2>3, <3>1
  <2> QED
    BY <1>4, <1>7, <2>0, <2>4 DEF SampleRight, s, v
<1>11. CASE StandsTurned(c, rotate, X, Y, s)
  <2>1. PICK d \in {-2, 0, 2}, col \in Nat, row \in Nat :
              /\ s = <<"Y", col, row>> /\ (d # 0 => Lies(c, rotate))
              /\ <<2 * col + 1 - c.w, 2 * row + 1 - c.h>> = Turn(rotate, <<2 * X + 1 - c.w + d, 2 * Y + 1 - c.h - d>>)
    BY <1>11 DEF StandsTurned
  <2> DEFINE p == 2 * col + 1 - c.w
             q == 2 * row + 1 - c.h
             S == Slack
             e == -d
  <2>2. S \in {3, 5} /\ (d # 0 => S = 5) /\ e \in {-2, 0, 2} /\ (e # 0 => S = 5) 
    BY <1>7, <1>8, <2>1 DEF Slack
  <2>9. 2 * Y + 1 - c.h - d = b + e
    BY <1>1
  <2> HIDE DEF a, b, S, p, q, e
  <2>3. Abs((a + d) * D - vx) < S * D /\ Abs((-(a + d)) * D - -vx) < S * D
    BY <1>1, <1>3, <1>6, <1>8, <2>2, NearIs
  <2>4. Abs((b + e) * D - vy) < S * D /\ Abs((-(b + e)) * D - -vy) < S * D
    BY <1>1, <1>3, <1>6, <1>8, <2>2, NearIs
  <2> DEFINE v == Turn(rotate, <<vx, vy>>)
  <2>5. <<p, q>> = Turn(rotate, <<a + d, b + e>>)
    BY <2>1, <2>9 DEF p, q, a, b
  <2>6. Abs(p * D - v[1]) < S * D /\ Abs(q * D - v[2]) < S * D
    <3>1. CASE rotate = 0
      <4>1. p = a + d /\ q = b + e /\ v[1] = vx /\ v[2] = vy
        BY <2>5, <3>1 DEF Turn
      <4> QED
        BY <2>3, <2>4, <4>1
    <3>2. CASE rotate = 90
      <4>1. p = b + e /\ q = -(a + d) /\ v[1] = vy /\ v[2] = -vx
        BY <2>5, <3>2 DEF Turn
      <4> QED
        BY <2>3, <2>4, <4>1
    <3>3. CASE rotate = 180
      <4>1. p = -(a + d) /\ q = -(b + e) /\ v[1] = -vx /\ v[2] = -vy
        BY <2>5, <3>3 DEF Turn
      <4> QED
        BY <2>3, <2>4, <4>1
    <3>4. CASE rotate = 270
      <4>1. p = -(b + e) /\ q = a + d /\ v[1] = -vy /\ v[2] = vx
        BY <2>5, <3>4 DEF Turn
      <4> QED
        BY <2>3, <2>4, <4>1
    <3> QED
      BY <3>1, <3>2, <3>3, <3>4 DEF Angles
  <2> HIDE DEF v
  <2>7. Near(p * D, v[1]) /\ Near(q * D, v[2])
    BY <2>6 DEF Near, S, D
  <2>8. s # Black("Y") /\ s[1] = "Y" /\ s[2] = col /\ s[3] = row
    <3>1. col # -1
      OBVIOUS
    <3> QED
      BY <2>1, <3>1 DEF Black
  <2> QED
    BY <1>4, <2>7, <2>8 DEF SampleRight, s, v, p, q, D
<1> QED
  BY <1>5, <1>10, <1>11 DEF Stands

----------------------------------------------------------------------------
\* Only a configuration and the orientation decide what the picture becomes.
PictureKept ==
  /\ config \in Configs /\ rotate \in Angles /\ (~config.systemSwitch => rotate = 0)
  /\ stage = "decoded" => picture = DecodedImage(config, rotate)
  /\ stage = "done" => picture = ConvertedImage(config, DecodedImage(config, rotate))

LEMMA PictureStarts == PictureInit => PictureKept
<1> SUFFICES ASSUME PictureInit PROVE PictureKept
  OBVIOUS
<1>1. config.rotation \in {0, 90, 180, 270} /\ (~config.systemSwitch => config.rotation = 0) /\ config \in Configs
  BY ConfigIs DEF PictureInit, Angles
<1>2. rotate \in Angles /\ (~config.systemSwitch => rotate = 0)
  BY <1>1 DEF PictureInit, Angles
<1>3. stage # "decoded" /\ stage # "done"
  BY DEF PictureInit
<1> QED
  BY <1>1, <1>2, <1>3 DEF PictureKept

LEMMA PictureStays == PictureKept /\ [PictureNext]_pictureVars => PictureKept'
<1> SUFFICES ASSUME PictureKept, [PictureNext]_pictureVars PROVE PictureKept'
  OBVIOUS
<1>1. CASE UpdateRotation
  <2>1. rotate' \in Angles
    <3>1. PICK camera \in {0, 90, 180, 270}, screen \in {0, 90, 180, 270} :
            rotate' = IF camera = 90 /\ screen \notin {0, 180} THEN (screen - camera + 180) % 360
                      ELSE (screen - camera + 360) % 360
      BY <1>1 DEF UpdateRotation, Angles
    <3> QED
      BY <3>1 DEF Angles
  <2>2. stage' # "decoded" /\ stage' # "done"
    BY <1>1 DEF UpdateRotation
  <2> QED
    BY <1>1, <2>1, <2>2 DEF UpdateRotation, PictureKept
<1>2. CASE CopyDecodedImage
  BY <1>2 DEF CopyDecodedImage, PictureKept
<1>3. CASE ProcessData
  <2>1. config' = config /\ rotate' = rotate /\ stage = "decoded" /\ stage' \in {"undefined", "done"}
        /\ (stage' = "done" => picture' = ConvertedImage(config, picture))
    BY <1>3 DEF ProcessData
  <2> QED
    BY <2>1 DEF PictureKept
<1>4. CASE UNCHANGED pictureVars
  BY <1>4 DEF pictureVars, PictureKept
<1> QED
  BY <1>1, <1>2, <1>3, <1>4 DEF PictureNext

LEMMA PictureIsRight == PictureKept => PictureShowsFrame
<1> SUFFICES ASSUME PictureKept, Shown PROVE
      /\ picture.w = config.dw /\ picture.h = config.dh
      /\ \A p \in DOMAIN picture.data : SampleRight(picture.data[p][1], Turn(rotate, FromMiddle(p)))
  BY DEF PictureShowsFrame, SampleRight
<1>1. /\ config \in Configs /\ rotate \in Angles /\ (~config.systemSwitch => rotate = 0)
      /\ picture = ConvertedImage(config, DecodedImage(config, rotate))
  BY DEF PictureKept, Shown
<1>2. ASSUME NEW x \in 0..(config.dw - 1), NEW y \in 0..(config.dh - 1)
      PROVE  Shows(config, rotate, picture, x, y)
  <2>1. CASE config.build = "main"
    BY <1>1, <2>1, MainShows
  <2>2. CASE config.build = "common"
    <3>1. rotate = 0 /\ UnpaddedOf(config)
      BY <1>1, <2>2, ConfigIs DEF Shown, Unpadded, UnpaddedOf
    <3> QED
      BY <1>1, <2>2, <3>1, CommonShows
  <2> QED
    BY <1>1, <2>1, <2>2, ConfigIs DEF Builds
<1>3. picture.w = config.dw /\ picture.h = config.dh /\ DOMAIN picture.data = Pixels(config.dw, config.dh)
  <2>1. 0 \in 0..(config.dw - 1) /\ 0 \in 0..(config.dh - 1)
    BY <1>1, ConfigIs, SizeIs
  <2> QED
    BY <1>2, <2>1 DEF Shows
<1>4. ASSUME NEW p \in DOMAIN picture.data
      PROVE  SampleRight(picture.data[p][1], Turn(rotate, FromMiddle(p)))
  <2>1. PICK x \in 0..(config.dw - 1), y \in 0..(config.dh - 1) : p = <<x, y>>
    BY <1>3, <1>4 DEF Pixels
  <2> QED
    BY <1>1, <1>2, <2>1, ShowsIsRight
<1> QED
  BY <1>3, <1>4

\* The stream shows the frame of the camera upright, centred and with its proportions
\* (PictureShowsFrame), for all sizes, paddings, turns and formats: what
\* DecodeDataProcess and ScaleConvertProcess do to the brightness of a frame.
THEOREM FramesAreShown == PictureSpec => []PictureShowsFrame
<1>1. PictureInit => PictureKept
  BY PictureStarts
<1>2. PictureKept /\ [PictureNext]_pictureVars => PictureKept'
  BY PictureStays
<1>3. PictureKept => PictureShowsFrame
  BY PictureIsRight
<1> QED
  BY <1>1, <1>2, <1>3, PTL DEF PictureSpec
=============================================================================
