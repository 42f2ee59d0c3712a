------------------------------ MODULE FrameFeed ------------------------------
(***************************************************************************)
(* One producer of the source (DCameraStreamDataProcessProducer): it takes *)
(* the frames of one stream to the camera HDF.  Photos wait in buffers_    *)
(* for the snapshot thread.  Video frames pass the smoother, whose thread  *)
(* posts each to the event thread or, while sound and picture are kept in  *)
(* step, hands it to the sync thread through the sync queue.               *)
(*                                                                         *)
(* A step is what a thread does under one lock or between two accesses to  *)
(* what the threads share.  A thread that has found nothing to do still    *)
(* holds its mutex ("drowsy") before it waits ("asleep"): a notification   *)
(* in between, sent without the mutex, wakes nobody.                       *)
(***************************************************************************)
EXTENDS Naturals, Sequences, FiniteSets

CONSTANTS MaxPhotos,   \* DCAMERA_PRODUCER_MAX_BUFFER_SIZE
          MaxSync,     \* DCAMERA_MAX_SYNC_BUFFER_SIZE
          MaxFrames,   \* bound: frames fed
          MaxModes     \* bound: changes of the work mode

ASSUME SizesAssumption == MaxPhotos \in Nat \ {0} /\ MaxSync \in Nat \ {0}
ASSUME BoundsAssumption == MaxFrames \in Nat /\ MaxModes \in Nat

VARIABLES
  kind,       \* streamType_: "photo" for SNAPSHOT_FRAME, "video" for CONTINUOUS_FRAME
  running,    \* state_, the state of the smoother and syncRunning_, by the thread they stop
  at,         \* per thread: where it is
  held,       \* per thread: the frame it has in its hands, 0 if none
  frames,     \* how many have been fed; a frame is its number
  buffers,    \* buffers_
  smoothing,  \* dataQueue_ of the smoother
  tasks,      \* the tasks posted to the event handler
  syncing,    \* syncBufferQueue_
  mode,       \* workModeParam_: its number, 0 when isAVsync is false
  modes,      \* how many there have been
  memory,     \* syncMem_: the mode it is of, 0 for null, and whether it could be mapped
  word,       \* the lock word of that memory says it is free
  changing,   \* UpdateProducerWorkMode has begun: the mode it sets, else NoMode
  stopping,   \* where Stop is
  driver,     \* the frames shuttered, in order
  dropped,    \* history: frames given up because a queue was full, they were late, or no memory
              \* was mapped
  causes      \* history: the irregular events there have been

queues == <<buffers, smoothing, tasks, syncing>>
syncVars == <<mode, modes, memory, word, changing>>
vars == <<kind, running, at, held, frames, queues, syncVars, stopping, driver, dropped, causes>>

Threads == {"snap", "smooth", "event", "sync"}
NoMemory == [of |-> 0, ok |-> FALSE]
NoMode == MaxModes + 1
Mutexed == stopping = "no" /\ changing = NoMode   \* producerMutex_ is free

Init ==
  /\ kind \in {"photo", "video"}
  /\ running = [t \in Threads |-> FALSE]
  /\ at = [t \in Threads |-> "off"] /\ held = [t \in Threads |-> 0]
  /\ frames = 0 /\ buffers = <<>> /\ smoothing = <<>> /\ tasks = <<>> /\ syncing = <<>>
  /\ mode = 0 /\ modes = 0 /\ memory = NoMemory /\ word = TRUE /\ changing = NoMode
  /\ stopping = "no" /\ driver = <<>> /\ dropped = {} /\ causes = {}

Goes(t, place) == at' = [at EXCEPT ![t] = place]
Takes(t, f) == held' = [held EXCEPT ![t] = f]
(* A notification: a thread that waits looks again.                        *)
Wake(t) == IF at[t] = "asleep" THEN "look" ELSE at[t]

(* Start: the threads of the stream's kind begin.                          *)
Mine == IF kind = "photo" THEN {"snap"} ELSE {"smooth", "event", "sync"}
Start ==
  /\ stopping = "no" /\ \A t \in Threads : at[t] = "off"
  /\ running' = [t \in Threads |-> t \in Mine]
  /\ at' = [t \in Threads |-> IF t \in Mine THEN "look" ELSE "off"]
  /\ UNCHANGED <<kind, held, frames, queues, syncVars, stopping, driver, dropped, causes>>

----------------------------------------------------------------------------
(* FeedStream: the oldest photo makes room; a video frame goes to the      *)
(* smoother.                                                               *)
FeedPhoto ==
  LET full == Len(buffers) >= MaxPhotos
  IN  /\ kind = "photo"
      /\ buffers' = Append(IF full THEN Tail(buffers) ELSE buffers, frames + 1)
      /\ dropped' = IF full THEN dropped \union {Head(buffers)} ELSE dropped
      /\ causes' = IF full /\ at["snap"] \in {"feed", "pop"} THEN causes \union {"overtaken"} ELSE causes
      /\ Goes("snap", Wake("snap"))
      /\ UNCHANGED smoothing
PushData ==
  /\ kind = "video" /\ running["smooth"] /\ at["smooth"] # "drowsy"
  /\ smoothing' = Append(smoothing, frames + 1)
  /\ Goes("smooth", Wake("smooth"))
  /\ UNCHANGED <<buffers, dropped, causes>>
FeedStream ==
  /\ Mutexed /\ frames < MaxFrames /\ \E t \in Threads : at[t] # "off"
  /\ FeedPhoto \/ PushData
  /\ frames' = frames + 1
  /\ UNCHANGED <<kind, running, held, tasks, syncing, syncVars, stopping, driver>>

(* FeedStreamToDriver: a frame that does not fit the acquired buffer, or   *)
(* cannot be copied to it, is shuttered as it is; only AcquireBuffer and   *)
(* ShutterBuffer make the call fail.                                       *)
Shuttered(t) == driver' = Append(driver, held[t])

(* LooperSnapShot.  Its wait and Stop share bufferMutex_.                  *)
SnapLooks ==
  /\ at["snap"] = "look"
  /\ IF ~running["snap"] THEN Goes("snap", "ended") /\ UNCHANGED held
     ELSE IF buffers = <<>> THEN Goes("snap", "asleep") /\ UNCHANGED held
     ELSE Goes("snap", "feed") /\ Takes("snap", Head(buffers))
  /\ UNCHANGED <<queues, driver>>

(* A photo that could not be fed is tried again.                           *)
SnapFeeds ==
  /\ at["snap"] = "feed"
  /\ \/ Shuttered("snap") /\ Goes("snap", "pop")
     \/ UNCHANGED driver /\ Goes("snap", "look")
  /\ UNCHANGED <<held, queues>>
SnapPops ==
  /\ at["snap"] = "pop"
  /\ buffers' = Tail(buffers)
  /\ Goes("snap", "look") /\ Takes("snap", 0)
  /\ UNCHANGED <<smoothing, tasks, syncing, driver>>
LooperSnapShot ==
  /\ SnapLooks \/ SnapFeeds \/ SnapPops
  /\ UNCHANGED <<kind, running, frames, syncVars, stopping, dropped, causes>>

----------------------------------------------------------------------------
(* LooperSmooth.  StopSmooth sets the state without queueMutex_.           *)
SmoothLooks ==
  /\ at["smooth"] = "look"
  /\ IF ~running["smooth"] THEN Goes("smooth", "ended") /\ UNCHANGED held
     ELSE IF smoothing = <<>> THEN Goes("smooth", "drowsy") /\ UNCHANGED held
     ELSE Goes("smooth", "pace") /\ Takes("smooth", Head(smoothing))
  /\ UNCHANGED <<memory, queues, dropped>>
(* SmoothFeeding: the thread sleeps for a while, or until it is stopped.   *)
SmoothFeeding ==
  /\ at["smooth"] = "pace" /\ Goes("smooth", "notify")
  /\ UNCHANGED <<held, memory, queues, dropped>>
(* OnSmoothFinished holds workModeParamMtx_ from here to the last step of  *)
(* WritePtsAndAddBuffer when there is sound to keep in step with.          *)
OnSmoothFinished ==
  /\ at["smooth"] = "notify"
  /\ IF mode # 0 THEN Goes("smooth", "map") /\ UNCHANGED tasks
     ELSE Goes("smooth", "pop") /\ tasks' = Append(tasks, held["smooth"])
  /\ UNCHANGED <<held, memory, buffers, smoothing, syncing, dropped>>
WritingPts == at["smooth"] \in {"map", "spin", "taking", "hold", "put"}

(* WritePtsAndAddBuffer: memory that could not be mapped stays, and every  *)
(* frame is given up.                                                      *)
MapsMemory ==
  /\ at["smooth"] = "map"
  /\ IF memory # NoMemory THEN UNCHANGED memory ELSE \E ok \in BOOLEAN : memory' = [of |-> mode, ok |-> ok]
  /\ IF memory'.ok THEN Goes("smooth", "spin") /\ UNCHANGED dropped
     ELSE Goes("smooth", "pop") /\ dropped' = dropped \union {held["smooth"]}
  /\ UNCHANGED <<held, queues>>

(* A full sync queue loses its oldest frame.                               *)
AddSyncBuffer ==
  LET full == Len(syncing) >= MaxSync
  IN  /\ at["smooth"] = "put" /\ at["sync"] # "drowsy"
      /\ syncing' = Append(IF full THEN Tail(syncing) ELSE syncing, held["smooth"])
      /\ dropped' = IF full THEN dropped \union {Head(syncing)} ELSE dropped
      /\ at' = [at EXCEPT !["smooth"] = "pop", !["sync"] = Wake("sync")]
      /\ UNCHANGED <<held, memory, buffers, smoothing, tasks>>
SmoothPops ==
  /\ at["smooth"] = "pop"
  /\ smoothing' = Tail(smoothing)
  /\ Goes("smooth", "look") /\ Takes("smooth", 0)
  /\ UNCHANGED <<memory, buffers, tasks, syncing, dropped>>
LooperSmooth ==
  /\ \/ SmoothLooks \/ SmoothFeeding \/ OnSmoothFinished \/ MapsMemory \/ AddSyncBuffer \/ SmoothPops
  /\ UNCHANGED <<kind, running, frames, mode, modes, word, changing, stopping, driver, causes>>

(* A wait begins; the mutex is free again.                                 *)
FallsAsleep(t) ==
  /\ at[t] = "drowsy" /\ Goes(t, "asleep")
  /\ UNCHANGED <<kind, running, held, frames, queues, syncVars, stopping, driver, dropped, causes>>

----------------------------------------------------------------------------
(* The lock word of the shared memory, for the smoother's and the sync     *)
(* thread: each reads it until it is free, writes that it is taken, and    *)
(* when it has done writes that it is free.                                *)
InMemory == {"spin", "taking", "hold"}
UsesWord(t) ==
  /\ t \in {"smooth", "sync"} /\ memory # NoMemory
  /\ \/ at[t] = "spin" /\ word /\ Goes(t, "taking") /\ UNCHANGED word
     \/ at[t] = "taking" /\ Goes(t, "hold") /\ word' = FALSE
     \/ /\ at[t] = "hold" /\ word' = TRUE
        /\ Goes(t, IF t = "smooth" THEN "put" ELSE IF held[t] = 0 THEN "look" ELSE "compare")
  /\ UNCHANGED <<kind, running, held, frames, queues, mode, modes, memory, changing, stopping, driver,
                 dropped, causes>>
(* The memory was unmapped under a thread that uses it: the process dies.  *)
Crashed == causes \intersect {"smoothCrash", "syncCrash"} # {}
Faults(t) ==
  /\ at[t] \in InMemory /\ memory = NoMemory
  /\ causes' = causes \union {IF t = "sync" THEN "syncCrash" ELSE "smoothCrash"}
               \union {"stopped" : x \in {x \in {stopping} : x # "no"}}
  /\ UNCHANGED <<kind, running, at, held, frames, queues, syncVars, stopping, driver, dropped>>

(* The event thread runs the posted tasks; a frame the HDF refuses is lost. *)
RunsTask ==
  /\ at["event"] = "look"
  /\ IF ~running["event"] THEN Goes("event", "ended") /\ UNCHANGED <<held, tasks>>
     ELSE tasks # <<>> /\ Goes("event", "feed") /\ Takes("event", Head(tasks)) /\ tasks' = Tail(tasks)
  /\ UNCHANGED <<buffers, smoothing, syncing, driver, dropped>>
TaskFeeds ==
  /\ at["event"] = "feed" /\ Goes("event", "look") /\ Takes("event", 0)
  /\ \/ Shuttered("event") /\ UNCHANGED dropped
     \/ dropped' = dropped \union {held["event"]} /\ UNCHANGED driver
  /\ UNCHANGED queues
EventThread ==
  /\ RunsTask \/ TaskFeeds
  /\ UNCHANGED <<kind, running, frames, syncVars, stopping, causes>>

(* SyncVideoThread.  Stop clears syncRunning_ without syncBufferMutex_.    *)
WaitForVideoFrame ==
  /\ at["sync"] = "look"
  /\ IF ~running["sync"] THEN Goes("sync", "ended") /\ UNCHANGED <<held, syncing>>
     ELSE IF syncing = <<>> THEN Goes("sync", "drowsy") /\ UNCHANGED <<held, syncing>>
     ELSE Goes("sync", "check") /\ Takes("sync", Head(syncing)) /\ syncing' = Tail(syncing)
  /\ UNCHANGED <<driver, dropped>>
GivesUp ==
  /\ Goes("sync", "look") /\ Takes("sync", 0) /\ dropped' = dropped \union {held["sync"]}
  /\ UNCHANGED <<syncing, driver>>
(* SyncVideoFrame without memory counts as late.                           *)
SyncVideoFrame ==
  /\ at["sync"] = "check"
  /\ IF memory.ok THEN Goes("sync", "spin") /\ UNCHANGED <<held, syncing, driver, dropped>> ELSE GivesUp

(* Slip: an early frame goes back to the end.                              *)
ComparesTimesBack ==
  /\ at["sync"] = "compare"
  /\ \/ Goes("sync", "feed") /\ UNCHANGED <<held, syncing, driver, dropped>>
     \/ syncing # <<>> /\ GivesUp
     \/ /\ Goes("sync", "look") /\ Takes("sync", 0) /\ syncing' = Append(syncing, held["sync"])
        /\ UNCHANGED <<driver, dropped>>
(* A late frame is given up while others wait; an early one goes back to   *)
(* the front.                                                              *)
ComparesTimes ==
  /\ at["sync"] = "compare"
  /\ \/ Goes("sync", "feed") /\ UNCHANGED <<held, syncing, driver, dropped>>
     \/ syncing # <<>> /\ GivesUp
     \/ /\ Goes("sync", "look") /\ Takes("sync", 0) /\ syncing' = <<held["sync"]>> \o syncing
        /\ UNCHANGED <<driver, dropped>>
SyncFeeds ==
  /\ at["sync"] = "feed"
  /\ \/ /\ Shuttered("sync") /\ Goes("sync", "clock") /\ Takes("sync", 0)
        /\ UNCHANGED <<syncing, dropped>>
     \/ GivesUp
UpdateVideoClock ==
  /\ at["sync"] = "clock" /\ ~WritingPts
  /\ Goes("sync", IF mode # 0 /\ memory.ok THEN "spin" ELSE "look")
  /\ UNCHANGED <<held, syncing, driver, dropped>>
SyncVideoThread ==
  /\ \/ WaitForVideoFrame \/ SyncVideoFrame \/ ComparesTimes \/ SyncFeeds \/ UpdateVideoClock
  /\ UNCHANGED <<kind, running, frames, buffers, smoothing, tasks, syncVars, stopping, causes>>

----------------------------------------------------------------------------
(* UpdateProducerWorkMode: the memory goes first when there is no sound    *)
(* any more, the parameters follow under workModeParamMtx_.                *)
InPipe == \/ tasks # <<>> \/ syncing # <<>>
          \/ \E t \in {"event", "sync"} : held[t] # 0
UpdateBegins ==
  /\ Mutexed /\ kind = "video" /\ at["smooth"] # "off" /\ modes < MaxModes
  /\ \E m \in {0, modes + 1} :
       /\ changing' = m
       /\ memory' = IF m = 0 THEN NoMemory ELSE memory
  /\ modes' = modes + 1
  /\ UNCHANGED <<kind, running, at, held, frames, queues, mode, word, stopping, driver, dropped, causes>>
UpdateEnds ==
  /\ changing # NoMode /\ ~WritingPts
  /\ mode' = changing /\ changing' = NoMode
  /\ causes' = causes \union {"switched" : x \in {x \in {mode} : InPipe /\ (x = 0) # (changing = 0)}}
  /\ UNCHANGED <<kind, running, at, held, frames, queues, modes, memory, word, stopping, driver, dropped>>

(* Stop: each thread is told, woken and waited for in turn; the event      *)
(* thread ends after the task it runs, and the memory goes before the sync *)
(* thread is told.                                                         *)
Tells(t, next) ==
  /\ running' = [running EXCEPT ![t] = FALSE] /\ stopping' = next
  /\ UNCHANGED <<at, smoothing, memory, causes>>
Wakes(t, next) ==
  /\ Goes(t, Wake(t)) /\ stopping' = next
  /\ causes' = IF at[t] = "drowsy" THEN causes \union {"missed"} ELSE causes
  /\ UNCHANGED <<running, smoothing, memory>>
Joined(t) == at[t] = "ended" /\ UNCHANGED <<at, causes>>

(* Under bufferMutex_.                                                     *)
StopBegins ==
  /\ Mutexed /\ \E t \in Threads : at[t] # "off"
  /\ IF kind = "photo" THEN Tells("snap", "wakeSnap") ELSE Tells("smooth", "wakeSmooth")
StopSnap ==
  \/ stopping = "wakeSnap" /\ Wakes("snap", "joinSnap")
  \/ stopping = "joinSnap" /\ Joined("snap") /\ stopping' = "done" /\ UNCHANGED <<running, smoothing, memory>>

(* Slip: a smoother that waits for data is not woken.                      *)
StopSmoothQuiet ==
  /\ stopping \in {"wakeSmooth", "joinSmooth"} /\ Joined("smooth") /\ stopping' = "joinEvent"
  /\ smoothing' = <<>> /\ running' = [running EXCEPT !["event"] = FALSE] /\ UNCHANGED memory
(* StopSmooth notifies and joins.                                          *)
StopSmooth ==
  \/ stopping = "wakeSmooth" /\ Wakes("smooth", "joinSmooth")
  \/ /\ stopping = "joinSmooth" /\ Joined("smooth") /\ stopping' = "joinEvent" /\ smoothing' = <<>>
     /\ running' = [running EXCEPT !["event"] = FALSE] /\ UNCHANGED memory
StopRest ==
  \/ /\ stopping = "joinEvent" /\ Joined("event") /\ stopping' = "tellSync"
     /\ memory' = NoMemory /\ UNCHANGED <<running, smoothing>>
  \/ stopping = "tellSync" /\ Tells("sync", "wakeSync")
  \/ stopping = "wakeSync" /\ Wakes("sync", "joinSync")
  \/ stopping = "joinSync" /\ Joined("sync") /\ stopping' = "done" /\ UNCHANGED <<running, smoothing, memory>>
Stop ==
  /\ StopBegins \/ StopSnap \/ StopSmooth \/ StopRest
  /\ UNCHANGED <<kind, held, frames, buffers, tasks, syncing, mode, modes, word, changing, driver, dropped>>

----------------------------------------------------------------------------
Runs(t) ==
  \/ t = "snap" /\ LooperSnapShot
  \/ t = "smooth" /\ LooperSmooth
  \/ t = "event" /\ EventThread
  \/ t = "sync" /\ SyncVideoThread
  \/ FallsAsleep(t) \/ Faults(t)
Next ==
  /\ ~Crashed
  /\ \/ Start \/ FeedStream \/ UpdateBegins \/ UpdateEnds \/ Stop
     \/ \E t \in Threads : Runs(t) \/ UsesWord(t)

(* Every thread that can go on does, and so do Stop and a change of mode   *)
(* once they have begun.  A thread that spins reads the lock word free     *)
(* sooner or later: the other one sleeps for a frame's time between uses.  *)
Fairness ==
  /\ \A t \in Threads : WF_vars(~Crashed /\ Runs(t))
  /\ \A t \in {"smooth", "sync"} : SF_vars(~Crashed /\ UsesWord(t))
  /\ WF_vars(~Crashed /\ UpdateEnds)
  /\ WF_vars(~Crashed /\ stopping # "no" /\ Stop)
Spec == Init /\ [][Next]_vars /\ Fairness

----------------------------------------------------------------------------
Increasing(s) == \A i \in 1 .. Len(s) - 1 : s[i] < s[i + 1]
Elements(s) == {s[i] : i \in DOMAIN s}

(* Frames, modes and threads are those there have been, the photos never   *)
(* exceed their limit, and the sync queue exceeds its own by the one frame *)
(* that is early and put back.                                             *)
TypeOK ==
  /\ kind \in {"photo", "video"} /\ running \in [Threads -> BOOLEAN]
  /\ frames \in 0 .. MaxFrames /\ held \in [Threads -> 0 .. MaxFrames]
  /\ Len(buffers) <= MaxPhotos /\ Len(syncing) <= MaxSync + 1
  /\ mode \in 0 .. MaxModes /\ memory.of \in 0 .. MaxModes

(* The HDF gets the frames of a stream in the order they were fed, whatever *)
(* is late, early, refused or dropped on the way; a change of mode while   *)
(* frames are under way lets the two threads that feed overtake each other. *)
(* And until Stop, every frame fed has reached the HDF, is in a queue or in *)
(* a thread's hands, or was given up for a reason the code knows.  The     *)
(* exception is a photo that the snapshot thread drops unfed, because a    *)
(* full queue had already dropped the one it was feeding.                  *)
FramesReachDriver ==
  /\ Increasing(driver) \/ "switched" \in causes
  /\ stopping = "no" =>
       \A f \in 1 .. frames :
         \/ f \in dropped \union Elements(driver)
         \/ \E q \in {buffers, smoothing, tasks, syncing} : f \in Elements(q)
         \/ \E t \in Threads : held[t] = f
         \/ "overtaken" \in causes

(* Stop comes to an end, in whatever state it finds the threads, unless it *)
(* notified one between its test and its wait: the join then lasts for     *)
(* ever, with producerMutex_ held.                                         *)
StopEnds == [](stopping # "no" => <>(stopping = "done" \/ "missed" \in causes \/ Crashed))
=============================================================================
