----------------------------- MODULE SourceDev -----------------------------
(***************************************************************************)
(* One distributed camera on the source device: DCameraSourceDev with its  *)
(* event queue, its state machine, its controller (the control session)    *)
(* and its input (the data sessions and the streams).                      *)
(*                                                                         *)
(* Every request becomes an event of one FIFO queue, which one thread      *)
(* empties: the framework's REGIST and UNREGIST, the HAL's OPEN, CLOSE,    *)
(* CONFIG, RELEASE, START, STOP and UPDATE, and the CLOSE and NOTIFY       *)
(* events that the softbus callback threads post when a session ends.      *)
(* The callbacks run beside that thread, so opening the control session,   *)
(* and each data session, is split where they can come in between: at Bind *)
(* (the session is connected, and of the control session the state is      *)
(* already OPENED) and at RecordSourceSocketSession (only then can a       *)
(* shutdown find the session).                                             *)
(*                                                                         *)
(* Left to other modules: the wait of DCameraSourceInput::OpenChannel      *)
(* (here it never expires), and the service's map of devices.              *)
(***************************************************************************)
EXTENDS Naturals, Sequences

CONSTANTS
  Sockets,     \* softbus socket ids; each is bound at most once (a bound)
  Kinds,       \* stream kinds: a subset of {"continuous", "snapshot"}
  HalOps,      \* the requests the HAL makes in this instance
  HdiFaults,   \* HDI calls that may fail: "provider", "enable", "disable", "notify"
  MaxQueue     \* bound: no request is posted to a queue this long

ASSUME KindsAssumption == /\ Kinds \subseteq {"continuous", "snapshot"}
                          /\ "continuous" \in Kinds
ASSUME HalAssumption == HalOps \subseteq {"OPEN", "CLOSE", "CONFIG", "RELEASE", "START",
                                         "STOP", "UPDATE"}
ASSUME HdiAssumption == HdiFaults \subseteq {"provider", "enable", "disable", "notify"}
ASSUME QueueAssumption == MaxQueue \in Nat

VARIABLES
  queue,       \* events of srcDevEventHandler_, oldest first
  state,       \* stateMachine_->currentState_
  binding,     \* {s} while the device thread is between Bind and the record of s
  opening,     \* how far CONFIG has come with each kind's data session: see OpenSteps
  ctlInit,     \* the controller's indexs_ is not empty
  control,     \* softbusSessions_ of the controller's channel_
  openSess,    \* sockets whose DCameraSoftbusSession has sessionId_ # -1
  recorded,    \* keys of sourceSocketSessionMap_
  phase,       \* each socket's life: see Phases
  missed,      \* history: a shutdown that came between Bind and the record
  channels,    \* the input's channels_ entries: see MapStates
  procs,       \* the input's dataProcess_ entry of the continuous kind
  dataSess,    \* kinds whose channel holds a softbus session
  dataUp,      \* kinds whose channelState_ is CONNECTED
  dataCb,      \* kinds whose shutdown callback has found its session
  dataAlive,   \* kinds whose data socket is bound and not shut, by either side
  dataMissed,  \* history: kinds shut down between the Bind and the record
  streams,     \* kinds with a configured stream
  producers,   \* kinds with a running producer
  enabled,     \* the HAL holds the device enabled
  told,        \* what the HAL last heard of the channel, see HalViews
  crossed,     \* history: an open and a close passed each other
  crashed      \* a null shared_ptr was dereferenced: the process is gone

devVars  == <<queue, state, binding, opening>>
sessVars == <<control, openSess, recorded, phase, missed>>
mapVars  == <<channels, procs>>
endVars  == <<dataAlive, dataMissed>>
dataVars == <<dataSess, dataUp, dataCb, endVars>>
strmVars == <<streams, producers>>
halVars  == <<enabled, told, crossed>>
vars == <<queue, state, binding, opening, ctlInit, control, openSess, recorded,
          phase, missed, channels, procs, dataSess, dataUp, dataCb, dataAlive,
          dataMissed, streams, producers, enabled, told, crossed, crashed>>

States     == {"INIT", "REGIST", "OPENED", "CONFIG_STREAM", "CAPTURE"}
OpenStates == {"OPENED", "CONFIG_STREAM", "CAPTURE"}

\* "up": connected.  "called": the peer shut it down and OnShutdown has begun.
\* "found": OnShutdown holds its session.  "done": nothing more can come of it.
Phases == {"free", "up", "called", "found", "done"}

\* A map entry is missing, holds an object, or was created null by operator[].
MapStates == {"absent", "live", "null"}

\* Of one kind in OpenChannel: not to be opened, still to be bound, bound and not
\* yet recorded, with a session, without one.
OpenSteps == {"none", "begun", "bound", "opened", "failed"}
NoOpening == [k \in Kinds |-> "none"]

\* "none": the HAL has heard nothing since it last asked to close.
HalViews == {"none", "connected", "disconnected"}

FwkOps   == {"REGIST", "UNREGIST"}
PlainOps == FwkOps \cup {"OPEN", "CLOSE", "UPDATE", "CONNECTED", "DISCONNECTED"}
KindOps  == {"CONFIG", "RELEASE", "START", "STOP"}
Events   == [op : PlainOps \cup KindOps, kinds : SUBSET Kinds]
Ev(op)   == [op |-> op, kinds |-> {}]

Idle     == binding = {} /\ opening = NoOpening /\ ~crashed
Head1(op) == Idle /\ queue # <<>> /\ Head(queue).op = op
HasOp(q, op) == \E i \in DOMAIN q : q[i].op = op
Queued(op) == HasOp(queue, op)

\* Slips: no CLOSE event; no NOTIFY event.
DisconnectionNotClosing == <<Ev("DISCONNECTED")>>
DisconnectionUntold     == <<Ev("CLOSE")>>

\* What OnChannelConnectedEvent and OnChannelDisconnectedEvent post.
Connection    == <<Ev("CONNECTED")>>
Disconnection == <<Ev("CLOSE"), Ev("DISCONNECTED")>>

Init ==
  /\ queue = <<>> /\ state = "INIT" /\ ctlInit = FALSE
  /\ binding = {} /\ opening = NoOpening
  /\ control = {} /\ openSess = {} /\ recorded = {} /\ missed = {}
  /\ phase = [s \in Sockets |-> "free"]
  /\ channels = "absent" /\ procs = "absent"
  /\ dataSess = {} /\ dataUp = {} /\ dataCb = {} /\ dataAlive = {} /\ dataMissed = {}
  /\ streams = {} /\ producers = {}
  /\ enabled = FALSE /\ told = "none" /\ crossed = FALSE /\ crashed = FALSE
-----------------------------------------------------------------------------
(* Requests: each posts one event and returns.                              *)

FwkRequest(op) ==
  /\ ~crashed /\ Len(queue) < MaxQueue
  /\ op \in FwkOps
  /\ queue' = Append(queue, Ev(op))
  /\ UNCHANGED <<state, binding, opening, ctlInit, sessVars, mapVars, dataVars, strmVars,
                 halVars, crashed>>

\* A request of the HAL through the callback it got from EnableDCameraDevice.
\* A close crosses an open that the HAL has not heard the end of.
HalRequest(op, kinds) ==
  /\ ~crashed /\ Len(queue) < MaxQueue
  /\ enabled /\ op \in HalOps
  /\ queue' = Append(queue, [op |-> op, kinds |-> kinds])
  /\ told' = IF op = "CLOSE" THEN "none" ELSE told
  /\ crossed' = (crossed \/ (op = "CLOSE" /\ (Queued("OPEN") \/ Queued("CONNECTED"))))
  /\ UNCHANGED <<state, binding, opening, ctlInit, sessVars, mapVars, dataVars, strmVars,
                 enabled, crashed>>
-----------------------------------------------------------------------------
(* Parts of the handlers.                                                   *)

Pop == queue' = Tail(queue)
MayFail(calls) == calls \cap HdiFaults # {}

\* DCameraSourceInput::CloseChannel: reading channels_[] inserts a null entry.
CloseInput ==
  /\ channels' = IF channels = "absent" THEN "null" ELSE channels
  /\ dataSess' = IF channels = "live" THEN {} ELSE dataSess
  /\ dataUp' = IF channels = "live" THEN {} ELSE dataUp
  /\ dataAlive' = IF channels = "live" THEN {} ELSE dataAlive
  /\ dataMissed' = IF channels = "live" THEN {} ELSE dataMissed

\* Slips in CloseChannel: without ReleaseSession; without CloseSession.
CloseControllerUnreleased ==
  IF ctlInit
  THEN /\ openSess' = openSess \ control
       /\ recorded' = recorded \ control
       /\ UNCHANGED <<control, phase>>
  ELSE UNCHANGED <<control, openSess, recorded, phase>>
CloseControllerUnshut ==
  IF ctlInit THEN control' = {} /\ UNCHANGED <<openSess, recorded, phase>>
             ELSE UNCHANGED <<control, openSess, recorded, phase>>

\* DCameraSourceController::CloseChannel.  A session the peer has shut has
\* sessionId_ = -1 already, so its record is not erased.
CloseController ==
  LET closing == control \cap openSess IN
  IF ctlInit
  THEN /\ control' = {}
       /\ openSess' = openSess \ closing
       /\ recorded' = recorded \ closing
       /\ phase' = [s \in Sockets |->
                      IF s \in closing /\ phase[s] = "up" THEN "done" ELSE phase[s]]
  ELSE UNCHANGED <<control, openSess, recorded, phase>>

\* DCameraSourceDev::CloseCamera.
CloseCamera == CloseInput /\ CloseController

\* Init of the two parts: a new channel_; emplace keeps an entry that is there.
InitController == ctlInit' = TRUE /\ control' = {}
InitInput ==
  /\ channels' = IF channels = "absent" THEN "live" ELSE channels
  /\ procs' = IF procs = "absent" THEN "live" ELSE procs

\* UnInit of the two parts.
UnInitController == ctlInit' = FALSE
UnInitInput ==
  /\ channels' = "absent" /\ procs' = "absent"
  /\ dataSess' = {} /\ dataUp' = {} /\ dataAlive' = {} /\ dataMissed' = {}
  /\ streams' = {} /\ producers' = {}
UnInitAll == UnInitController /\ UnInitInput

\* Looking dataProcess_[CONTINUOUS_FRAME] up with operator[].
TouchProcs == procs' = IF procs = "absent" THEN "null" ELSE procs

\* The end of UnRegister: DisableDCameraDevice.
DisableDevice ==
  \/ state' = "INIT" /\ enabled' = FALSE
  \/ MayFail({"disable", "provider"}) /\ UNCHANGED <<state, enabled>>

\* SendData over the control session can succeed.
ControlUsable == ctlInit /\ control # {} /\ control \subseteq openSess
-----------------------------------------------------------------------------
(* The device thread.  Ops that have an effect, by state; the others are    *)
(* answered DCAMERA_WRONG_STATE or are idempotent.                          *)

InitHandles       == {"REGIST"}
RegistHandles     == {"REGIST", "UNREGIST", "OPEN", "CONNECTED", "DISCONNECTED"}
OpenedHandles     == {"UNREGIST", "CLOSE", "CONFIG", "UPDATE", "CONNECTED", "DISCONNECTED"}
ConfiguredHandles == {"UNREGIST", "CLOSE", "CONFIG", "RELEASE", "START", "UPDATE",
                      "CONNECTED", "DISCONNECTED"}
CapturingHandles  == {"UNREGIST", "CLOSE", "START", "STOP", "UPDATE", "CONNECTED",
                      "DISCONNECTED"}
Handled == [st \in States |-> CASE st = "INIT"          -> InitHandles
                                [] st = "REGIST"        -> RegistHandles
                                [] st = "OPENED"        -> OpenedHandles
                                [] st = "CONFIG_STREAM" -> ConfiguredHandles
                                [] st = "CAPTURE"       -> CapturingHandles]

Handles(op) == Head1(op) /\ op \in Handled[state]

Ignore ==
  /\ Idle /\ queue # <<>> /\ Head(queue).op \notin Handled[state]
  /\ Pop
  /\ UNCHANGED <<state, binding, opening, ctlInit, sessVars, mapVars, dataVars, strmVars,
                 halVars, crashed>>

Register ==
  /\ Handles("REGIST") /\ Pop
  /\ \/ /\ MayFail({"provider"})          \* the controller's Init: nothing done
        /\ UNCHANGED <<state, ctlInit, control, mapVars, dataSess, dataUp, endVars,
                       strmVars, enabled>>
     \/ /\ MayFail({"provider", "enable"}) \* both parts uninitialised again
        /\ UnInitAll
        /\ control' = {}
        /\ UNCHANGED <<state, enabled>>
     \/ /\ state' = "REGIST" /\ enabled' = TRUE
        /\ InitController /\ InitInput
        /\ UNCHANGED <<dataSess, dataUp, endVars, strmVars>>
  /\ UNCHANGED <<binding, opening, openSess, recorded, phase, missed, dataCb, told, crossed,
                 crashed>>

UnregisterIdle ==
  /\ Handles("UNREGIST") /\ state = "REGIST" /\ Pop
  /\ UnInitAll /\ DisableDevice
  /\ UNCHANGED <<binding, opening, sessVars, dataCb, told, crossed, crashed>>

\* From OPENED: close, UnRegister.
LeaveOpened == CloseController /\ UnInitAll /\ DisableDevice

\* From CONFIG_STREAM, and alike from CAPTURE: close, release the streams (which
\* fails without a data process, and ends it there), UnRegister.
LeaveStreams ==
  /\ CloseController
  /\ IF procs = "live"
     THEN UnInitAll /\ DisableDevice
     ELSE CloseInput /\ TouchProcs /\ UNCHANGED <<state, ctlInit, strmVars, enabled>>

\* From an open state: tell the HAL first, and give up when that fails.
UnregisterOpen ==
  /\ Handles("UNREGIST") /\ state \in OpenStates /\ Pop
  /\ \/ /\ MayFail({"notify", "provider"})
        /\ UNCHANGED <<state, ctlInit, sessVars, mapVars, dataVars, strmVars, enabled, told>>
     \/ /\ told' = "disconnected"
        /\ IF state = "OPENED" THEN LeaveOpened ELSE LeaveStreams
        /\ UNCHANGED <<missed, dataCb>>
  /\ UNCHANGED <<binding, opening, crossed, crashed>>

\* The network id, the all-connect resource, the access right, the peer's system
\* or its service is refused: nothing is done.  CreateSession fails: a close is posted.
AccessRefused == Pop
BindFails == ctlInit /\ control = {} /\ queue' = Tail(queue) \o Disconnection

OpenRefused ==
  /\ Handles("OPEN")
  /\ AccessRefused \/ BindFails
  /\ UNCHANGED <<state, binding, opening, ctlInit, sessVars, mapVars, dataVars, strmVars,
                 halVars, crashed>>

\* OnSessionState(CONNECTED) moves the state machine and posts CONNECTED.
SessionConnected == state' = "OPENED" /\ queue' = Tail(queue) \o Connection

\* Bind succeeds.  The open crosses a close that is already queued and will run after it.
Bind(s) ==
  /\ Handles("OPEN") /\ ctlInit /\ control = {} /\ phase[s] = "free"
  /\ phase' = [phase EXCEPT ![s] = "up"]
  /\ openSess' = openSess \cup {s}
  /\ binding' = {s}
  /\ SessionConnected
  /\ crossed' = (crossed \/ Queued("CLOSE") \/ Queued("UNREGIST"))
  /\ UNCHANGED <<opening, ctlInit, control, recorded, missed, mapVars, dataVars,
                 strmVars, enabled, told, crashed>>

\* RecordSourceSocketSession, then softbusSessions_.push_back.
Record(s) ==
  /\ ~crashed /\ s \in binding
  /\ recorded' = recorded \cup {s}
  /\ control' = control \cup {s}
  /\ binding' = {}
  /\ UNCHANGED <<queue, state, opening, ctlInit, openSess, phase, missed, mapVars, dataVars,
                 strmVars, halVars, crashed>>
-----------------------------------------------------------------------------
CloseOpened ==
  /\ Handles("CLOSE") /\ state = "OPENED" /\ Pop
  /\ CloseCamera
  /\ state' = "REGIST"
  /\ UNCHANGED <<binding, opening, ctlInit, missed, procs, dataCb, strmVars, halVars, crashed>>

\* CloseCamera first; then ReleaseAllStreams may fail and leave the state.
CloseConfigured ==
  /\ Handles("CLOSE") /\ state = "CONFIG_STREAM" /\ Pop
  /\ CloseCamera /\ TouchProcs
  /\ IF procs = "live"
     THEN state' = "REGIST" /\ streams' = {} /\ producers' = {}
     ELSE UNCHANGED <<state, strmVars>>
  /\ UNCHANGED <<binding, opening, ctlInit, missed, dataCb, halVars, crashed>>

\* StopAllCapture looks the entry up as ReleaseAllStreams does.
StopAllCapture == TouchProcs

\* StopAllCapture and ReleaseAllStreams first: CloseCamera only if they succeed.
CloseCapturing ==
  /\ Handles("CLOSE") /\ state = "CAPTURE" /\ Pop
  /\ StopAllCapture
  /\ IF procs = "live"
     THEN /\ CloseCamera
          /\ state' = "REGIST" /\ streams' = {} /\ producers' = {}
     ELSE UNCHANGED <<state, control, openSess, recorded, phase, channels, dataSess,
                      dataUp, endVars, strmVars>>
  /\ UNCHANGED <<binding, opening, ctlInit, missed, dataCb, halVars, crashed>>

\* DCameraSourceInput::ConfigStreams releases every stream and configures anew.
ConfigureInput == streams' = Head(queue).kinds /\ producers' = {}

\* ChannelNeg fails after the streams are configured: they stay so.
NegotiationFails == UNCHANGED <<state, opening, crashed>>

\* OpenChannel begins with every kind whose channel is not up; without a channels_
\* entry a null is used, and with all of them up the configuration is done.
OpenDataChannels ==
  LET missing == Kinds \ dataUp IN
  /\ opening' = [k \in Kinds |->
                   IF channels = "live" /\ k \in missing THEN "begun" ELSE opening[k]]
  /\ state' = IF missing = {} THEN "CONFIG_STREAM" ELSE state
  /\ crashed' = (missing # {} /\ channels # "live")

ConfigStreams ==
  /\ Handles("CONFIG") /\ Pop
  /\ TouchProcs
  /\ \/ procs # "live" /\ UNCHANGED <<state, opening, strmVars, crashed>>
     \/ procs = "live" /\ ConfigureInput /\ (NegotiationFails \/ OpenDataChannels)
  /\ UNCHANGED <<binding, ctlInit, sessVars, channels, dataVars, halVars>>

\* CreateSession for a data channel, on the device thread or on the thread of the
\* input's handler_: one that holds a session counts as created, up or not; a Bind
\* connects the channel, and one that fails posts a disconnection.
BindData(k) ==
  /\ ~crashed /\ opening[k] = "begun"
  /\ \/ /\ k \in dataSess
        /\ opening' = [opening EXCEPT ![k] = "opened"]
        /\ UNCHANGED <<queue, dataUp, dataAlive>>
     \/ /\ k \notin dataSess
        /\ opening' = [opening EXCEPT ![k] = "bound"]
        /\ dataUp' = dataUp \cup {k} /\ dataAlive' = dataAlive \cup {k}
        /\ UNCHANGED queue
     \/ /\ k \notin dataSess
        /\ opening' = [opening EXCEPT ![k] = "failed"]
        /\ queue' = queue \o Disconnection
        /\ UNCHANGED <<dataUp, dataAlive>>
  /\ UNCHANGED <<state, binding, ctlInit, sessVars, mapVars, dataSess, dataCb, dataMissed,
                 strmVars, halVars, crashed>>

\* RecordSourceSocketSession, then softbusSessions_.push_back.
RecordData(k) ==
  /\ ~crashed /\ opening[k] = "bound"
  /\ opening' = [opening EXCEPT ![k] = "opened"]
  /\ dataSess' = dataSess \cup {k}
  /\ UNCHANGED <<queue, state, binding, ctlInit, sessVars, mapVars, dataUp, dataCb,
                 endVars, strmVars, halVars, crashed>>

\* DoConfigStreamsTask moves the state once every channel has a session.
ConfiguredUnless(failed) == state' = IF failed = {} THEN "CONFIG_STREAM" ELSE state

FinishConfig ==
  /\ ~crashed /\ opening # NoOpening
  /\ \A k \in Kinds : opening[k] \notin {"begun", "bound"}
  /\ ConfiguredUnless({k \in Kinds : opening[k] = "failed"})
  /\ opening' = NoOpening
  /\ UNCHANGED <<queue, binding, ctlInit, sessVars, mapVars, dataVars, strmVars,
                 halVars, crashed>>

\* Slip: a released stream keeps its producer.
ReleaseStreamsRunning ==
  /\ Handles("RELEASE") /\ Pop
  /\ TouchProcs
  /\ IF procs = "live"
     THEN /\ streams' = streams \ Head(queue).kinds
          /\ state' = IF streams' = {} THEN "OPENED" ELSE state
          /\ UNCHANGED producers
     ELSE UNCHANGED <<state, strmVars>>
  /\ UNCHANGED <<binding, opening, ctlInit, sessVars, channels, dataVars, halVars, crashed>>

\* DCameraSourceInput::ReleaseStreams stops the producer of each stream it releases.
ReleaseInput ==
  /\ streams' = streams \ Head(queue).kinds
  /\ producers' = producers \ Head(queue).kinds

ReleaseStreams ==
  /\ Handles("RELEASE") /\ Pop
  /\ TouchProcs
  /\ IF procs = "live"
     THEN /\ ReleaseInput
          /\ state' = IF streams' = {} THEN "OPENED" ELSE state
     ELSE UNCHANGED <<state, strmVars>>
  /\ UNCHANGED <<binding, opening, ctlInit, sessVars, channels, dataVars, halVars, crashed>>

\* A capture whose data process is missing is skipped; a stream that is not
\* configured has nothing to start.
StartProducers ==
  producers' = IF procs = "live" THEN producers \cup (Head(queue).kinds \cap streams)
               ELSE producers

\* The CAPTURE command over the control session.
AskSink == (ControlUsable /\ state' = "CAPTURE") \/ UNCHANGED state

\* The producers start before the sink is asked to capture, and stay if it is not.
StartCapture ==
  /\ Handles("START") /\ Pop
  /\ TouchProcs /\ StartProducers
  /\ AskSink
  /\ UNCHANGED <<binding, opening, ctlInit, sessVars, channels, dataVars, streams, halVars, crashed>>

\* Only continuous streams are stopped by id; with the last of them all stop.
ProducersLeft == producers \ (Head(queue).kinds \cap {"continuous"})

\* The sink is told to stop with the last producer; the answer changes nothing.
StopCapture ==
  LET left == ProducersLeft
      allStop == procs = "live" /\ "continuous" \notin left IN
  /\ Handles("STOP") /\ Pop
  /\ TouchProcs
  /\ producers' = IF allStop THEN {} ELSE IF procs = "live" THEN left ELSE producers
  /\ state' = IF allStop THEN "CONFIG_STREAM" ELSE state
  /\ UNCHANGED <<binding, opening, ctlInit, sessVars, channels, dataVars, streams, halVars, crashed>>

\* The input finds the map entry and uses it without looking at it.
UpdateInput == crashed' = (procs = "null")

UpdateSettings ==
  /\ Handles("UPDATE") /\ Pop
  /\ UpdateInput
  /\ UNCHANGED <<state, binding, opening, ctlInit, sessVars, mapVars, dataVars, strmVars, halVars>>

\* IDCameraProvider::Notify: the HAL hears of the channel unless the call fails.
TellHal ==
  \/ told' = IF Head(queue).op = "CONNECTED" THEN "connected" ELSE "disconnected"
  \/ MayFail({"notify", "provider"}) /\ UNCHANGED told

Notify ==
  /\ Handles("CONNECTED") \/ Handles("DISCONNECTED")
  /\ Pop
  /\ TellHal
  /\ UNCHANGED <<state, binding, opening, ctlInit, sessVars, mapVars, dataVars, strmVars,
                 enabled, crossed, crashed>>
-----------------------------------------------------------------------------
(* The softbus callback threads.                                            *)

\* The peer shuts the socket: OnShutdown is called.
PeerShutdown(s) ==
  /\ ~crashed /\ phase[s] = "up"
  /\ phase' = [phase EXCEPT ![s] = "called"]
  /\ UNCHANGED <<devVars, ctlInit, control, openSess, recorded, missed, mapVars,
                 dataVars, strmVars, halVars, crashed>>

\* SourceOnShutDown looks the session up; not found, it returns.
FindSession(s) ==
  /\ ~crashed /\ phase[s] = "called"
  /\ phase' = [phase EXCEPT ![s] = IF s \in recorded THEN "found" ELSE "done"]
  /\ missed' = IF s \in binding THEN missed \cup {s} ELSE missed
  /\ UNCHANGED <<devVars, ctlInit, control, openSess, recorded, mapVars,
                 dataVars, strmVars, halVars, crashed>>

\* OnSessionClose: sessionId_ = -1, and the controller posts the disconnection.
SessionClosed(s) ==
  /\ ~crashed /\ phase[s] = "found"
  /\ phase' = [phase EXCEPT ![s] = "done"]
  /\ openSess' = openSess \ {s}
  /\ queue' = queue \o Disconnection
  /\ UNCHANGED <<state, binding, opening, ctlInit, control, recorded, missed, mapVars,
                 dataVars, strmVars, halVars, crashed>>

\* The same for a data channel; the callback may outlive the session it found, and
\* finds none between the Bind and the record.
DataShutdown(k) ==
  /\ ~crashed /\ k \in dataAlive \ dataCb
  /\ dataAlive' = dataAlive \ {k}
  /\ \/ k \in dataSess /\ dataCb' = dataCb \cup {k} /\ UNCHANGED dataMissed
     \/ k \notin dataSess /\ dataMissed' = dataMissed \cup {k} /\ UNCHANGED dataCb
  /\ UNCHANGED <<devVars, ctlInit, sessVars, mapVars, dataSess, dataUp, strmVars,
                 halVars, crashed>>
DataClosed(k) ==
  /\ ~crashed /\ k \in dataCb
  /\ dataCb' = dataCb \ {k}
  /\ dataUp' = dataUp \ {k}
  /\ queue' = queue \o Disconnection
  /\ UNCHANGED <<state, binding, opening, ctlInit, sessVars, mapVars, dataSess, endVars,
                 strmVars, halVars, crashed>>
-----------------------------------------------------------------------------
\* The HAL's callbacks: a configuration and a capture without a stream are refused.
SessionRequest  == \E op \in {"OPEN", "CLOSE"} : HalRequest(op, {})
StreamsRequest  == \E kinds \in SUBSET Kinds :
                     \/ HalRequest("RELEASE", kinds)
                     \/ kinds # {} /\ HalRequest("CONFIG", kinds)
CaptureRequest  == \E kinds \in SUBSET Kinds :
                     \/ HalRequest("STOP", kinds)
                     \/ kinds # {} /\ HalRequest("START", kinds)
SettingsRequest == HalRequest("UPDATE", {})

Request == \/ \E op \in FwkOps : FwkRequest(op)
           \/ SessionRequest \/ StreamsRequest \/ CaptureRequest \/ SettingsRequest

DeviceThread == \/ Ignore \/ Register \/ UnregisterIdle \/ UnregisterOpen
                \/ OpenRefused \/ CloseOpened \/ CloseConfigured \/ CloseCapturing
                \/ ConfigStreams \/ ReleaseStreams \/ StartCapture \/ StopCapture
                \/ UpdateSettings \/ Notify
                \/ \E s \in Sockets : Bind(s) \/ Record(s)
                \/ \E k \in Kinds : BindData(k) \/ RecordData(k)
                \/ FinishConfig

Callback(s) == FindSession(s) \/ SessionClosed(s)

Next == \/ Request
        \/ DeviceThread
        \/ \E s \in Sockets : PeerShutdown(s) \/ Callback(s)
        \/ \E k \in Kinds : DataShutdown(k) \/ DataClosed(k)

Spec == Init /\ [][Next]_vars

\* The event runner, the input's handler_ and the softbus threads are scheduled; nobody else must act.
FairSpec == /\ Spec
            /\ WF_vars(DeviceThread)
            /\ \A s \in Sockets : WF_vars(Callback(s))
            /\ \A k \in Kinds : WF_vars(DataClosed(k))
-----------------------------------------------------------------------------
(* Properties.                                                              *)

\* Every variable has its type: at most the known events, states and map entries.
TypeOK ==
  /\ queue \in Seq(Events) /\ state \in States
  /\ binding \in SUBSET Sockets /\ opening \in [Kinds -> OpenSteps] /\ ctlInit \in BOOLEAN
  /\ control \in SUBSET Sockets /\ openSess \in SUBSET Sockets
  /\ recorded \in SUBSET Sockets /\ missed \in SUBSET Sockets
  /\ phase \in [Sockets -> Phases]
  /\ channels \in MapStates /\ procs \in MapStates
  /\ dataSess \in SUBSET Kinds /\ dataUp \in SUBSET Kinds /\ dataCb \in SUBSET Kinds
  /\ dataAlive \in SUBSET Kinds /\ dataMissed \in SUBSET Kinds
  /\ streams \in SUBSET Kinds /\ producers \in SUBSET Kinds
  /\ enabled \in BOOLEAN /\ told \in HalViews
  /\ crossed \in BOOLEAN /\ crashed \in BOOLEAN

\* The state machine and the sessions agree: a camera that is not open holds no
\* control or data session, and an open one whose controller is initialised
\* holds a control session (or its open is between Bind and the record).
SessionMatchesState ==
  /\ state \notin OpenStates => control = {} /\ binding = {} /\ dataSess = {}
  /\ state \in OpenStates /\ ctlInit => control \cup binding # {}

\* No open socket without an owner: whatever failed or crossed, each session
\* that is still open belongs to the control channel or to the open in progress,
\* so the next CLOSE shuts it.
NoOrphanSession == openSess \subseteq control \cup binding

\* A control session that died is never held for good: it is up, or its
\* shutdown is being reported, or a CLOSE is queued.  The one exception is the
\* shutdown that came before RecordSourceSocketSession and found no session.
DeadSessionCloses ==
  \A s \in control :
    phase[s] \in {"up", "called", "found"} \/ Queued("CLOSE") \/ s \in missed

\* The inductive invariant behind the three properties above: what the open in
\* progress owns, what an uninitialised controller or input cannot hold, and
\* what the callback threads may find.
BindingInv ==
  /\ \A s, t \in binding : s = t
  /\ binding # {} => state = "OPENED" /\ ctlInit /\ control = {}
  /\ \A s \in binding : /\ s \notin recorded /\ phase[s] \in {"up", "called", "done"}
                        /\ phase[s] = "done" => s \in missed
InitInv ==
  /\ ~ctlInit => control = {}
  /\ channels # "live" => dataSess = {}
  /\ ctlInit /\ state \in {"CONFIG_STREAM", "CAPTURE"} => procs = "live"
RecordInv ==
  /\ control \subseteq recorded
  /\ \A s \in Sockets : phase[s] = "free" => s \notin recorded /\ s \notin binding
OpeningInv ==
  opening # NoOpening =>
    /\ binding = {} /\ state \in {"OPENED", "CONFIG_STREAM"}
    /\ channels = "live" /\ procs = "live"
SessionInv ==
  /\ BindingInv /\ InitInv /\ RecordInv /\ OpeningInv
  /\ SessionMatchesState /\ NoOrphanSession /\ DeadSessionCloses

\* A configured camera has every data channel connected to a socket that is alive,
\* or the end of that socket is being reported, or a CLOSE is queued: OpenChannel
\* never leaves CONFIG_STREAM with a channel silently missing.  The one exception is
\* the shutdown that came before RecordSourceSocketSession and found no session: the
\* channel stays CONNECTED over a dead socket until somebody else closes the camera.
DataLossCloses ==
  state \in {"CONFIG_STREAM", "CAPTURE"} /\ ctlInit =>
    \/ Kinds \subseteq (dataUp \cap dataAlive) \cup dataCb \cup dataMissed
    \/ Queued("CLOSE")

\* A producer runs only for a configured stream of a camera that is configured
\* or capturing, also when StartCapture failed after the producers had started.
ProducersHaveStreams ==
  /\ producers \subseteq streams
  /\ producers # {} => state \in {"CONFIG_STREAM", "CAPTURE"}

\* If no open crossed a close, the HAL is not left believing in a channel that
\* is gone: the camera is open, or a DISCONNECTED is on its way to the HAL.
NoSilentClose ==
  told = "connected" /\ ~crossed /\ ~MayFail({"notify", "provider"}) =>
    state \in OpenStates \/ Queued("DISCONNECTED")

\* The camera keeps the promises of CameraLifecycle: a session is taken by OPEN
\* alone, never kept over a CLOSE or an UNREGIST, and the streams move only while
\* it is held.  The session is the control channel's, or the one being recorded.
Lifecycle == INSTANCE CameraLifecycle
             WITH Sockets <- Sockets, state <- state, session <- control \cup binding,
                  used <- {s \in Sockets : phase[s] # "free"}
ImplementsLifecycle == Lifecycle!Spec

\* Once OnShutdown has found a control session, the device lets go of it.
FoundSessionIsDropped ==
  \A s \in Sockets : (s \in control /\ phase[s] = "found") ~> (s \notin control)
=============================================================================
