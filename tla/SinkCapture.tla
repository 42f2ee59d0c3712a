---------------------------- MODULE SinkCapture ----------------------------
(***************************************************************************)
(* Starting and stopping a capture on the sink: DCameraSinkController with *)
(* the output (DCameraSinkOutput, DCameraSinkDataProcess) and the camera   *)
(* operator (DCameraClient) it drives.                                     *)
(*                                                                         *)
(* A CAPTURE command starts two tasks: one builds the encoder pipeline,    *)
(* one opens the camera.  Each posts its result to the controller's event  *)
(* thread, which waits for both, asks for authorization and commits, all   *)
(* under captureStateMutex_.  Three threads stop: the control channel's,   *)
(* the IPC's, and the task that cleans up after a disconnection; a stop    *)
(* waits at most three seconds for a start to end.                         *)
(*                                                                         *)
(* The camera framework is external and known by the calls made to it.     *)
(* Pause, resume, settings and UnInit are left out.                        *)
(***************************************************************************)
EXTENDS Naturals, Sequences, FiniteSets

CONSTANTS
  StreamSets,   \* the sets of streams a source may have configured
  NoRequest,    \* no CAPTURE command in hand
  FaultSets,    \* the sets of things that may go wrong together
  MaxCleanups   \* cleanup tasks that may wait at once (a bound)

ASSUME CaptureAssumption ==
  /\ StreamSets \subseteq SUBSET {"preview", "photo"}
  /\ \A s \in StreamSets : "preview" \in s
  /\ FaultSets \subseteq SUBSET {"pipeline", "prepare", "commit", "shot", "denied",
                                 "timeout", "crossing", "streams"}
  /\ MaxCleanups \in Nat

VARIABLES
  faults,        \* what may go wrong in this behaviour; never changes.  "crossing":
                 \* a disconnection is reported while a command is being handled;
                 \* "streams": a source configures other streams than the last one
  captureState,  \* captureState_
  infos,         \* captureInfosCache_: the streams, and whether to take a photo
  tasks,         \* preparation tasks submitted and not yet done, per part
  events,        \* the event thread's queue of results
  ready,         \* the parts whose ready flag is set
  failed,        \* the parts whose recorded result is an error
  deciding,      \* the event thread holds captureStateMutex_ and waits for authorization
  pipeline,      \* the continuous data process's pipeline_
  camera,        \* cameraInput_, captureSession_ and the outputs of the client
  peer,          \* the streams of the connected source; {} when none is
  request,       \* the CAPTURE command the control channel's thread handles
  stopping,      \* the threads inside StopCapture
  cleanups       \* cleanup tasks submitted and not yet running

work  == <<captureState, infos, tasks, events, ready, failed, deciding>>
parts == <<pipeline, camera>>
threads == <<faults, peer, request, stopping, cleanups>>
vars == <<work, parts, threads>>

Parts    == {"encoder", "camera"}
Stoppers == {"control", "ipc", "cleanup"}
Requests == {r \in [streams : StreamSets, shot : BOOLEAN] : r.shot => "photo" \in r.streams}
Client(input, session, outputs) ==
  [input |-> input, session |-> session, outputs |-> outputs]
Clients == [input : {"none", "closed", "open"}, session : {"none", "created", "running"},
            outputs : SUBSET {"preview", "photo"}]
Released == Client("none", "none", {})
NoTasks  == [p \in Parts |-> 0]

Init ==
  /\ faults \in FaultSets
  /\ captureState = "IDLE"
  /\ infos = [streams |-> {}, shot |-> FALSE]
  /\ tasks = NoTasks /\ events = <<>>
  /\ ready = {} /\ failed = {} /\ deciding = FALSE
  /\ pipeline = "none" /\ camera = Released
  /\ peer = {} /\ request = NoRequest /\ stopping = {} /\ cleanups = 0

MutexFree == ~deciding
ControlIdle == request = NoRequest /\ "control" \notin stopping
-----------------------------------------------------------------------------
(* The control session and its commands.                                    *)

Connected(s) ==
  /\ peer = {} /\ cleanups < MaxCleanups
  /\ "streams" \in faults \/ infos.streams \in {{}, s}
  /\ peer' = s
  /\ UNCHANGED <<faults, work, parts, request, stopping, cleanups>>

\* A slip: the cleanup task is not submitted.
DisconnectedUnheeded ==
  /\ peer # {} /\ ("crossing" \in faults \/ ControlIdle)
  /\ peer' = {}
  /\ UNCHANGED <<faults, work, parts, request, stopping, cleanups>>

Disconnected ==
  /\ peer # {} /\ ("crossing" \in faults \/ ControlIdle)
  /\ peer' = {}
  /\ cleanups' = cleanups + 1
  /\ UNCHANGED <<faults, work, parts, request, stopping>>

ReceiveCapture(r) ==
  /\ peer = r.streams /\ ControlIdle
  /\ request' = r
  /\ UNCHANGED <<faults, work, parts, peer, stopping, cleanups>>

ReceiveStop ==
  /\ peer # {} /\ ControlIdle
  /\ stopping' = stopping \cup {"control"}
  /\ UNCHANGED <<faults, work, parts, peer, request, cleanups>>

\* A start during a start is dropped; the tasks outlive the critical section.
StartCaptureInner ==
  /\ request # NoRequest /\ MutexFree
  /\ request' = NoRequest
  /\ IF captureState = "STARTING" THEN UNCHANGED work
     ELSE /\ captureState' = "STARTING"
          /\ infos' = request
          /\ ready' = {} /\ failed' = {}
          /\ tasks' = [p \in Parts |-> tasks[p] + 1]
          /\ UNCHANGED <<events, deciding>>
  /\ UNCHANGED <<faults, parts, peer, stopping, cleanups>>
-----------------------------------------------------------------------------
(* The two preparation tasks.                                               *)

Done(p, ok) ==
  /\ tasks[p] > 0
  /\ tasks' = [tasks EXCEPT ![p] = @ - 1]
  /\ events' = Append(events, [part |-> p, ok |-> ok])
  /\ UNCHANGED <<captureState, infos, ready, failed, deciding, threads>>

\* A slip: the result of GetProperty is ignored.
EncoderTaskOptimistic ==
  /\ pipeline' = IF pipeline = "none"
                 THEN IF "pipeline" \in faults THEN "broken" ELSE "built"
                 ELSE pipeline
  /\ Done("encoder", TRUE)
  /\ UNCHANGED camera

\* A pipeline that exists is taken as it is, one whose creation failed
\* included; such a one has no surface to give.
EncoderTask ==
  /\ \/ /\ pipeline = "none" /\ pipeline' = "built"
     \/ /\ pipeline = "none" /\ "pipeline" \in faults /\ pipeline' = "broken"
     \/ /\ pipeline # "none" /\ UNCHANGED pipeline
  /\ Done("encoder", pipeline' = "built")
  /\ UNCHANGED camera

\* A client with outputs counts as configured.
CameraTask ==
  /\ \/ /\ camera.outputs # {} /\ UNCHANGED camera
        /\ Done("camera", TRUE)
     \/ /\ camera.outputs = {}
        /\ camera' = Client("open", "created", {})
        /\ Done("camera", TRUE)
     \/ /\ camera.outputs = {} /\ "prepare" \in faults
        /\ camera' \in {camera, Client("closed", camera.session, {}),
                        Client("open", camera.session, {}), Client("open", "none", {})}
        /\ Done("camera", FALSE)
  /\ UNCHANGED pipeline
-----------------------------------------------------------------------------
(* The event thread.                                                        *)

\* A slip: a failure is forgotten.
ProcessEventForgiving ==
  /\ events # <<>> /\ MutexFree
  /\ ready' = ready \cup {Head(events).part}
  /\ UNCHANGED failed
  /\ events' = Tail(events)
  /\ deciding' = (ready' = Parts)
  /\ UNCHANGED <<captureState, infos, tasks, parts, threads>>

ProcessEvent ==
  /\ events # <<>> /\ MutexFree
  /\ LET e == Head(events)
     IN /\ ready' = ready \cup {e.part}
        /\ failed' = IF e.ok THEN failed \ {e.part} ELSE failed \cup {e.part}
  /\ events' = Tail(events)
  /\ deciding' = (ready' = Parts)
  /\ UNCHANGED <<captureState, infos, tasks, parts, threads>>

Decide(state) ==
  /\ deciding
  /\ deciding' = FALSE
  /\ captureState' = state
  /\ UNCHANGED <<infos, tasks, events, ready, failed, pipeline, threads>>

\* Denied, or not answered in time: nothing that was prepared is undone.
AuthorizationRefused ==
  /\ "denied" \in faults
  /\ Decide("IDLE")
  /\ UNCHANGED camera

PreparationFailed ==
  /\ failed # {}
  /\ Decide("IDLE")
  /\ UNCHANGED camera

\* CommitCapture: outputs and session are configured only by a client without
\* outputs; the photo is taken by one that has a photo output.
CommitOK ==
  /\ failed = {}
  /\ LET outputs == IF camera.outputs = {} THEN infos.streams ELSE camera.outputs
     IN /\ infos.shot => "photo" \in outputs
        /\ camera' = IF camera.outputs = {}
                     THEN Client(camera.input, "running", outputs)
                     ELSE camera
  /\ Decide("RUNNING")

\* Some outputs are created, or all of them and then the session is not started.
ConfigurationFails ==
  /\ failed = {} /\ camera.outputs = {} /\ "commit" \in faults
  /\ \E made \in SUBSET infos.streams :
       camera' = Client(camera.input, camera.session, made)
  /\ Decide("IDLE")

PhotoFails ==
  /\ failed = {} /\ infos.shot
  /\ LET outputs == IF camera.outputs = {} THEN infos.streams ELSE camera.outputs
     IN /\ "photo" \notin outputs \/ "shot" \in faults
        /\ camera' = IF camera.outputs = {}
                     THEN Client(camera.input, "running", outputs)
                     ELSE camera
  /\ Decide("IDLE")
-----------------------------------------------------------------------------
(* StopCapture and the cleanup after a disconnection.                       *)

IpcStop ==
  /\ "ipc" \notin stopping
  /\ stopping' = stopping \cup {"ipc"}
  /\ UNCHANGED <<faults, work, parts, peer, request, cleanups>>

\* autoLock_: one cleanup at a time.
Cleanup ==
  /\ cleanups > 0 /\ "cleanup" \notin stopping
  /\ cleanups' = cleanups - 1
  /\ stopping' = stopping \cup {"cleanup"}
  /\ UNCHANGED <<faults, work, parts, peer, request>>

\* A slip: a stop does not wait for a start to end.
StopCaptureHasty(t) ==
  /\ t \in stopping /\ MutexFree
  /\ stopping' = stopping \ {t}
  /\ IF captureState = "IDLE" THEN UNCHANGED <<work, parts>>
     ELSE /\ captureState' = "IDLE"
          /\ pipeline' = "none" /\ camera' = Released
          /\ UNCHANGED <<infos, tasks, events, ready, failed, deciding>>
  /\ UNCHANGED <<faults, peer, request, cleanups>>

\* In IDLE a stop does nothing, whatever a failed start has left behind.
StopCapture(t) ==
  /\ t \in stopping /\ MutexFree /\ captureState # "STARTING"
  /\ stopping' = stopping \ {t}
  /\ IF captureState = "IDLE" THEN UNCHANGED <<work, parts>>
     ELSE /\ captureState' = "IDLE"
          /\ pipeline' = "none" /\ camera' = Released
          /\ UNCHANGED <<infos, tasks, events, ready, failed, deciding>>
  /\ UNCHANGED <<faults, peer, request, cleanups>>

\* Three seconds of STARTING: the stop gives up.
StopTimesOut(t) ==
  /\ t \in stopping /\ MutexFree /\ captureState = "STARTING" /\ "timeout" \in faults
  /\ stopping' = stopping \ {t}
  /\ UNCHANGED <<faults, work, parts, peer, request, cleanups>>

Verdict == AuthorizationRefused \/ PreparationFailed \/ CommitOK \/ ConfigurationFails \/ PhotoFails

Next ==
  \/ \E s \in StreamSets : Connected(s)
  \/ Disconnected
  \/ \E r \in Requests : ReceiveCapture(r)
  \/ ReceiveStop \/ StartCaptureInner
  \/ EncoderTask \/ CameraTask
  \/ ProcessEvent \/ Verdict
  \/ IpcStop \/ Cleanup
  \/ \E t \in Stoppers : StopCapture(t) \/ StopTimesOut(t)

Spec == Init /\ [][Next]_vars

\* Tasks run, the event thread empties its queue, the wait for authorization
\* is bounded, and a thread that can take the mutex does.
FairSpec ==
  /\ Spec
  /\ WF_vars(StartCaptureInner)
  /\ WF_vars(EncoderTask) /\ WF_vars(CameraTask)
  /\ WF_vars(ProcessEvent) /\ WF_vars(Verdict)
  /\ WF_vars(Cleanup)
  /\ \A t \in Stoppers : WF_vars(StopCapture(t) \/ StopTimesOut(t))
-----------------------------------------------------------------------------
(* Properties.                                                              *)

\* Every variable has its type; no part has two tasks at once, and a connected
\* session leaves room for its cleanup.
TypeOK ==
  /\ captureState \in {"IDLE", "STARTING", "RUNNING"}
  /\ infos \in [streams : SUBSET {"preview", "photo"}, shot : BOOLEAN]
  /\ tasks \in [Parts -> {0, 1}]
  /\ events \in Seq([part : Parts, ok : BOOLEAN])
  /\ ready \subseteq Parts /\ failed \subseteq Parts
  /\ deciding \in BOOLEAN
  /\ pipeline \in {"none", "broken", "built"}
  /\ camera \in Clients
  /\ peer \in {{}} \cup StreamSets
  /\ request \in Requests \cup {NoRequest}
  /\ stopping \subseteq Stoppers
  /\ cleanups \in 0..MaxCleanups
  /\ peer # {} => cleanups < MaxCleanups

Queued(p) == \E i \in DOMAIN events : events[i].part = p

\* While a start is in progress each part of it is in exactly one place: its
\* task, the event queue or the ready flag.  Outside a start nothing is on its
\* way: no result of one attempt is ever taken for a later one.
PreparationOwned ==
  /\ \A i, j \in DOMAIN events : events[i].part = events[j].part => i = j
  /\ \A p \in Parts :
       IF captureState = "STARTING"
       THEN /\ tasks[p] = 1 \/ Queued(p) \/ p \in ready
            /\ tasks[p] = 1 => ~Queued(p) /\ p \notin ready
            /\ Queued(p) => p \notin ready
       ELSE tasks[p] = 0 /\ ~Queued(p)
  /\ deciding <=> captureState = "STARTING" /\ ready = Parts

\* A capture reported as running has its encoder and an open camera with an
\* output, whatever failed before, in this attempt or in an earlier one.
RunningIsWired ==
  captureState = "RUNNING" =>
    pipeline = "built" /\ camera.input = "open" /\ camera.outputs # {}

\* The encoder and the camera are taken down only when no preparation task is
\* using them and no result of one is on its way.
TeardownExcludesPreparation ==
  [][ \/ pipeline # "none" /\ pipeline' = "none"
      \/ camera # Released /\ camera' = Released
      => tasks = NoTasks /\ events = <<>> ]_vars

\* Whatever fails, a start ends, so that later starts and stops are heard; and
\* when nothing fails and the source goes away, its capture is released, a start
\* in progress included, unless a source is back before.
StartsAndLossesEnd ==
  /\ captureState = "STARTING" ~> captureState # "STARTING"
  /\ peer = {} /\ faults = {} ~> peer # {} \/ (pipeline = "none" /\ camera = Released)

\* "CheckAndCommitCapture successfully started capture": what is reported as
\* started is a running session.
ReportedCaptureRuns == captureState = "RUNNING" => camera.session = "running"

=============================================================================
