--------------------------- MODULE SourceRegistry ---------------------------
(***************************************************************************)
(* The source service's map of cameras, DistributedCameraSourceService::   *)
(* camerasMap_, and the life of the device objects in it.                  *)
(*                                                                         *)
(* IPC threads register and unregister cameras; each takes camDevMutex_    *)
(* once to count, once to find and once to insert, and holds nothing in    *)
(* between.  The device object they post to answers from its own thread;   *)
(* an answer that ends the device (a failed registration, a successful     *)
(* unregistration) erases the map entry by a task of its own, and only     *)
(* then tells the framework.  All else that points to a device object is   *)
(* a weak_ptr: an object neither in the map nor in the hands of a caller   *)
(* is gone, with the events still in its queue.                            *)
(*                                                                         *)
(* The device's own states are those of SourceDev, with every state in     *)
(* which the HAL holds the device enabled counted as REGIST.               *)
(***************************************************************************)
EXTENDS Naturals, Sequences, FiniteSets

CONSTANTS
  Cameras,     \* the DCameraIndex values: pairs of a device and a camera
  Callers,     \* IPC threads of the service
  Devs,        \* DCameraSourceDev objects that may exist at once (a bound)
  NoDev,       \* nullptr
  MaxCameras,  \* MAX_CAMERAS_NUMBER
  MaxOwed,     \* requests per camera that the framework leaves unanswered;
               \* 1 when it waits for each answer
  Kept,        \* bound: cameras that it asks for only while they have no entry,
               \* and never gives back
  Faults       \* HAL calls that may fail: "enable", "reenable", "disable"

ASSUME RegistryAssumption ==
  /\ IsFiniteSet(Cameras) /\ IsFiniteSet(Callers) /\ Kept \subseteq Cameras
  /\ NoDev \notin Devs
  /\ MaxCameras \in Nat /\ MaxOwed \in Nat
  /\ Faults \subseteq {"enable", "reenable", "disable"}

VARIABLES
  camerasMap,  \* the map: NoDev where a camera has no entry
  devs,        \* every device object: its camera, state and event queue
  call,        \* what each IPC thread is doing
  erasing,     \* CamDevErase tasks submitted and not yet run, per camera
  owed,        \* requests of the framework without an answer, per camera
  enabled,     \* cameras the HAL holds enabled
  orphans      \* history: those of them whose registering again it has refused since

vars == <<camerasMap, devs, call, erasing, owed, enabled, orphans>>

Ops  == {"REGIST", "UNREGIST"}
Pcs  == {"idle", "count", "find", "insert", "post", "posted"}
Idle == [pc |-> "idle", op |-> "REGIST", cam |-> NoDev, dev |-> NoDev]
Dead == [cams |-> {}, state |-> "INIT", queue |-> <<>>]

Entries(m) == {c \in Cameras : m[c] # NoDev}

\* shared_ptr: an object that no entry and no caller refers to is destroyed.
Collect(ds, m, cl) ==
  [d \in Devs |-> IF (\E c \in Cameras : m[c] = d) \/ (\E t \in Callers : cl[t].dev = d)
                  THEN ds[d] ELSE Dead]

Init ==
  /\ camerasMap = [c \in Cameras |-> NoDev]
  /\ devs = [d \in Devs |-> Dead]
  /\ call = [t \in Callers |-> Idle]
  /\ erasing = [c \in Cameras |-> 0]
  /\ owed = [c \in Cameras |-> 0]
  /\ enabled = {} /\ orphans = {}
-----------------------------------------------------------------------------
(* RegisterDistributedHardware and UnregisterDistributedHardware.           *)

Request(t, op, c) ==
  /\ call[t].pc = "idle" /\ owed[c] < MaxOwed
  /\ c \in Kept => op = "REGIST" /\ camerasMap[c] = NoDev
  /\ call' = [call EXCEPT ![t] = [pc |-> IF op = "REGIST" THEN "count" ELSE "find",
                                  op |-> op, cam |-> c, dev |-> NoDev]]
  /\ owed' = [owed EXCEPT ![c] = @ + 1]
  /\ UNCHANGED <<camerasMap, devs, erasing, enabled, orphans>>

\* An error return is the answer.
Refuse(t) ==
  /\ call' = [call EXCEPT ![t] = Idle]
  /\ owed' = [owed EXCEPT ![call[t].cam] = @ - 1]
  /\ UNCHANGED <<camerasMap, devs, erasing, enabled, orphans>>

\* A slip: no limit at all.
CountUnlimited(t) ==
  /\ call[t].pc = "count"
  /\ call' = [call EXCEPT ![t].pc = "find"]
  /\ UNCHANGED <<camerasMap, devs, erasing, owed, enabled, orphans>>

\* The limit refuses when the count already exceeds it.
Count(t) ==
  /\ call[t].pc = "count"
  /\ IF Cardinality(Entries(camerasMap)) > MaxCameras
     THEN Refuse(t)
     ELSE /\ call' = [call EXCEPT ![t].pc = "find"]
          /\ UNCHANGED <<camerasMap, devs, erasing, owed, enabled, orphans>>

\* Objects are alike: any unused one will do for the next device.
Unused == {d \in Devs : devs[d] = Dead}

Holding(t, d, pc) == [call[t] EXCEPT !.dev = d, !.pc = pc]

\* GetCamDevByIndex; a new device for a registration that finds none.
Find(t) ==
  /\ call[t].pc = "find"
  /\ LET c == call[t].cam
         d == camerasMap[c]
     IN CASE d # NoDev ->
               /\ call' = [call EXCEPT ![t] = Holding(t, d, "post")]
               /\ UNCHANGED <<camerasMap, devs, erasing, owed, enabled, orphans>>
          [] d = NoDev /\ call[t].op = "REGIST" ->
               /\ Unused # {}
               /\ LET n == CHOOSE x \in Unused : TRUE
                  IN /\ call' = [call EXCEPT ![t] = Holding(t, n, "insert")]
                     /\ devs' = [devs EXCEPT ![n].cams = {c}]
               /\ UNCHANGED <<camerasMap, erasing, owed, enabled, orphans>>
          [] OTHER -> Refuse(t)

\* CamDevInsert: emplace leaves an entry that is already there.
CamDevInsert(t) ==
  /\ call[t].pc = "insert"
  /\ LET c == call[t].cam
     IN camerasMap' = [camerasMap EXCEPT ![c] = IF @ = NoDev THEN call[t].dev ELSE @]
  /\ call' = [call EXCEPT ![t].pc = "post"]
  /\ UNCHANGED <<devs, erasing, owed, enabled, orphans>>

Post(t) ==
  /\ call[t].pc = "post"
  /\ devs' = [devs EXCEPT ![call[t].dev].queue = Append(@, call[t].op)]
  /\ call' = [call EXCEPT ![t].pc = "posted"]
  /\ UNCHANGED <<camerasMap, erasing, owed, enabled, orphans>>

\* The call returns and drops its reference.
Return(t) ==
  /\ call[t].pc = "posted"
  /\ call' = [call EXCEPT ![t] = Idle]
  /\ devs' = Collect(devs, camerasMap, call')
  /\ UNCHANGED <<camerasMap, erasing, owed, enabled, orphans>>
-----------------------------------------------------------------------------
(* The device's thread and its answers through the state listener.          *)

Handled(d, op) == devs[d].queue # <<>> /\ Head(devs[d].queue) = op
Serve(d, state) == devs' = [devs EXCEPT ![d].queue = Tail(@), ![d].state = state]
CamOf(d) == CHOOSE c \in Cameras : devs[d].cams = {c}

AnswerNow(c) ==
  /\ owed' = [owed EXCEPT ![c] = @ - 1]
  /\ UNCHANGED erasing
AnswerAfterErase(c) ==
  /\ erasing' = [erasing EXCEPT ![c] = @ + 1]
  /\ UNCHANGED owed

RegisterOK(d) ==
  /\ Handled(d, "REGIST")
  /\ Serve(d, "REGIST")
  /\ enabled' = enabled \cup {CamOf(d)} /\ orphans' = orphans \ {CamOf(d)}
  /\ AnswerNow(CamOf(d))
  /\ UNCHANGED <<camerasMap, call>>

\* The state stays, and a camera enabled before stays enabled in the HAL; the
\* answer erases the entry all the same.
RegisterFails(d) ==
  /\ Handled(d, "REGIST")
  /\ IF CamOf(d) \in enabled THEN "reenable" \in Faults ELSE "enable" \in Faults
  /\ Serve(d, devs[d].state)
  /\ AnswerAfterErase(CamOf(d))
  /\ orphans' = IF CamOf(d) \in enabled THEN orphans \cup {CamOf(d)} ELSE orphans
  /\ UNCHANGED <<camerasMap, call, enabled>>

\* In INIT the HAL is not asked.
UnregisterOK(d) ==
  /\ Handled(d, "UNREGIST")
  /\ Serve(d, "INIT")
  /\ IF devs[d].state = "REGIST"
     THEN enabled' = enabled \ {CamOf(d)} /\ orphans' = orphans \ {CamOf(d)}
     ELSE UNCHANGED <<enabled, orphans>>
  /\ AnswerAfterErase(CamOf(d))
  /\ UNCHANGED <<camerasMap, call>>

\* A slip: a failed unregistration erases too.
UnregisterFailsErasing(d) ==
  /\ Handled(d, "UNREGIST") /\ devs[d].state = "REGIST" /\ "disable" \in Faults
  /\ Serve(d, "REGIST")
  /\ AnswerAfterErase(CamOf(d))
  /\ UNCHANGED <<camerasMap, call, enabled, orphans>>

UnregisterFails(d) ==
  /\ Handled(d, "UNREGIST") /\ devs[d].state = "REGIST" /\ "disable" \in Faults
  /\ Serve(d, "REGIST")
  /\ AnswerNow(CamOf(d))
  /\ UNCHANGED <<camerasMap, call, enabled, orphans>>

\* A slip: the task erases and does not answer.
CamDevEraseUntold(c) ==
  /\ erasing[c] > 0
  /\ erasing' = [erasing EXCEPT ![c] = @ - 1]
  /\ camerasMap' = [camerasMap EXCEPT ![c] = NoDev]
  /\ devs' = Collect(devs, camerasMap', call)
  /\ UNCHANGED <<call, owed, enabled, orphans>>

\* The listener's task: erase whatever the entry holds by now, then answer.
CamDevErase(c) ==
  /\ erasing[c] > 0
  /\ erasing' = [erasing EXCEPT ![c] = @ - 1]
  /\ camerasMap' = [camerasMap EXCEPT ![c] = NoDev]
  /\ devs' = Collect(devs, camerasMap', call)
  /\ owed' = [owed EXCEPT ![c] = @ - 1]
  /\ UNCHANGED <<call, enabled, orphans>>

Step(t) == Count(t) \/ Find(t) \/ CamDevInsert(t) \/ Post(t) \/ Return(t)
Serves(d) == RegisterOK(d) \/ RegisterFails(d) \/ UnregisterOK(d) \/ UnregisterFails(d)

Next ==
  \/ \E t \in Callers, op \in Ops, c \in Cameras : Request(t, op, c)
  \/ \E t \in Callers : Step(t)
  \/ \E d \in Devs : Serves(d)
  \/ \E c \in Cameras : CamDevErase(c)

Spec == Init /\ [][Next]_vars

\* IPC threads return, event runners empty their queues, and ffrt runs the
\* tasks it is given.
FairSpec ==
  /\ Spec
  /\ \A t \in Callers : WF_vars(Step(t))
  /\ \A d \in Devs : WF_vars(Serves(d))
  /\ \A c \in Cameras : WF_vars(CamDevErase(c))
-----------------------------------------------------------------------------
(* Properties.                                                              *)

CallsTyped == call \in [Callers -> [pc : Pcs, op : Ops, cam : Cameras \cup {NoDev},
                                    dev : Devs \cup {NoDev}]]

\* Every variable has its type, and a caller past the lookup holds a device.
TypeOK ==
  /\ camerasMap \in [Cameras -> Devs \cup {NoDev}]
  /\ \A d \in Devs : /\ devs[d].cams \subseteq Cameras
                     /\ devs[d].state \in {"INIT", "REGIST"}
                     /\ \A i \in DOMAIN devs[d].queue : devs[d].queue[i] \in Ops
  /\ CallsTyped
  /\ \A t \in Callers : /\ call[t].pc # "idle" => call[t].cam \in Cameras
                        /\ call[t].pc \in {"insert", "post", "posted"} => call[t].dev \in Devs
  /\ erasing \in [Cameras -> 0..MaxOwed]
  /\ owed \in [Cameras -> 0..MaxOwed]
  /\ enabled \subseteq Cameras /\ orphans \subseteq Cameras

\* The count and the insertion are separate critical sections, and the count
\* refuses only above the limit: each IPC thread can exceed it by one camera,
\* and by no more.
CamerasBounded == Cardinality(Entries(camerasMap)) <= MaxCameras + Cardinality(Callers)

\* The callers that passed the count and have yet to insert; with them the
\* bound is inductive.
Admitted == {t \in Callers : call[t].pc \in {"find", "insert"} /\ call[t].op = "REGIST"}
AdmittedBounded ==
  /\ camerasMap \in [Cameras -> Devs \cup {NoDev}]
  /\ CallsTyped
  /\ \A t \in Callers : /\ call[t].pc # "idle" => call[t].cam \in Cameras
                        /\ call[t].pc \in {"insert", "post", "posted"} => call[t].dev \in Devs
                        /\ call[t].pc = "insert" => call[t].op = "REGIST"
  /\ Cardinality(Entries(camerasMap)) + Cardinality(Admitted)
       <= MaxCameras + Cardinality(Callers)

\* A framework that waits for each answer never loses one: a request without
\* an answer is with a caller, in the queue of a device object that still
\* exists, or with the task that will answer it.
NoLostRequest ==
  \A c \in Cameras : owed[c] > 0 =>
    \/ erasing[c] > 0
    \/ \E t \in Callers : call[t].pc # "idle" /\ call[t].cam = c
    \/ \E d \in Devs : devs[d].cams = {c} /\ devs[d].queue # <<>>

\* The HAL holds a camera enabled exactly when the map leads to a device
\* object that knows it, so that it can be disabled again; except that a
\* camera enabled already, whose registering again the HAL refuses, stays
\* enabled while RegistState answers with a failure and the listener erases
\* its entry, until a later registration succeeds.
EnabledIsReachable ==
  \A c \in Cameras :
    IF c \in orphans THEN c \in enabled
    ELSE (c \in enabled) <=> (camerasMap[c] # NoDev /\ devs[camerasMap[c]].state = "REGIST")

\* Every request of a framework that waits is answered.
Answered == \A c \in Cameras : (owed[c] > 0) ~> (owed[c] = 0)
=============================================================================
