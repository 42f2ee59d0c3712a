-------------------------- MODULE SourceDevProofs --------------------------
(***************************************************************************)
(* Proofs about SourceDev, for any number of sockets, any queue bound and  *)
(* any set of HDI faults:                                                  *)
(*   - TypeOK is an invariant;                                             *)
(*   - SessionInv, which says how the state machine, the control session   *)
(*     and the softbus callbacks fit together, is an invariant, and with   *)
(*     it SessionMatchesState, NoOrphanSession and DeadSessionCloses;      *)
(*   - SourceDev implements CameraLifecycle;                               *)
(*   - the producers have streams, the loss of a data channel closes the   *)
(*     camera, and the HAL hears of every close: ProducersHaveStreams,     *)
(*     DataLossCloses and NoSilentClose, each from an invariant of its own *)
(*     (DataSockets and DataInv, and HearingInv, for the last two).        *)
(* Then the commands that sources and sinks exchange, for any metadata in  *)
(* them: what Base64 encodes it decodes (MetadataSurvivesText), and a      *)
(* message from which anything may be missing is read as the command it    *)
(* was made of, or refused (CommandsAlwaysArrive).                         *)
(***************************************************************************)
EXTENDS SourceDev, Commands, SequenceTheorems, TLAPS

-----------------------------------------------------------------------------
(* The queue: what is queued after a pop, an append, a posted pair.         *)

\* Taking the head of a queue of events leaves a queue of events.
LEMMA PopType ==
  ASSUME NEW q \in Seq(Events), q # <<>>
  PROVE  Tail(q) \in Seq(Events) /\ Head(q) \in Events
OBVIOUS

\* The events without kinds are events.
LEMMA EvType == \A op \in PlainOps : Ev(op) \in Events
BY DEF Ev, Events

\* The pair that a disconnection posts consists of events.
LEMMA DisconnectionType == Disconnection \in Seq(Events)
BY EvType DEF Disconnection, PlainOps

\* The empty queue is a queue of events, and so are two queues put together.
LEMMA ConcatType ==
  /\ <<>> \in Seq(Events)
  /\ \A q, r \in Seq(Events) : q \o r \in Seq(Events)
OBVIOUS

\* Kinds of the event at the head are kinds of streams.
LEMMA HeadKinds ==
  ASSUME NEW q \in Seq(Events), q # <<>>
  PROVE  Head(q).kinds \in SUBSET Kinds
BY PopType DEF Events

-----------------------------------------------------------------------------
(* Type correctness.                                                        *)

\* Every step keeps the types.
LEMMA TypeStep == TypeOK /\ [Next]_vars => TypeOK'
<1> SUFFICES ASSUME TypeOK, [Next]_vars PROVE TypeOK'
  OBVIOUS
<1> USE DEF States, OpenStates, Phases, MapStates, HalViews, endVars
<1>p. ASSUME Idle /\ queue # <<>>, Pop PROVE queue' \in Seq(Events)
  BY <1>p, PopType DEF TypeOK, Handles, Head1, Pop
<1>1. CASE Request
  <2>1. ASSUME NEW op \in FwkOps, FwkRequest(op) PROVE TypeOK'
    BY <2>1, EvType DEF TypeOK, FwkRequest, PlainOps, sessVars, mapVars, dataVars,
       strmVars, halVars
  <2>2. ASSUME NEW op, NEW kinds \in SUBSET Kinds, HalRequest(op, kinds)
        PROVE  TypeOK'
    <3>1. [op |-> op, kinds |-> kinds] \in Events
      BY <2>2, HalAssumption DEF HalRequest, Events, PlainOps, KindOps
    <3> QED
      BY <2>2, <3>1 DEF TypeOK, HalRequest, sessVars, mapVars, dataVars, strmVars
  <2> QED
    BY <1>1, <2>1, <2>2 DEF Request, SessionRequest, StreamsRequest, CaptureRequest,
       SettingsRequest
<1>2. CASE Ignore
  BY <1>2, <1>p DEF TypeOK, Ignore, sessVars, mapVars, dataVars, strmVars, halVars
<1>3. CASE Register
  <2>1. queue' \in Seq(Events)
    BY <1>3, <1>p DEF Register, InitController, InitInput, Handles, Head1
  <2>2. /\ state' \in States /\ enabled' \in BOOLEAN /\ ctlInit' \in BOOLEAN
        /\ control' \in SUBSET Sockets
        /\ channels' \in MapStates /\ procs' \in MapStates
    BY <1>3 DEF TypeOK, Register, InitController, InitInput, UnInitAll,
       UnInitController, UnInitInput, mapVars
  <2>3. /\ dataSess' \in SUBSET Kinds /\ dataUp' \in SUBSET Kinds
        /\ dataAlive' \in SUBSET Kinds /\ dataMissed' \in SUBSET Kinds
        /\ streams' \in SUBSET Kinds /\ producers' \in SUBSET Kinds
    BY <1>3 DEF TypeOK, Register, InitController, InitInput, UnInitAll,
       UnInitController, UnInitInput, strmVars
  <2> QED
    BY <1>3, <2>1, <2>2, <2>3 DEF TypeOK, Register, InitController, InitInput
<1>4. CASE UnregisterIdle
  BY <1>4, <1>p DEF TypeOK, UnregisterIdle, Handles, Head1, UnInitAll,
     UnInitController, UnInitInput, DisableDevice, sessVars
<1>5. CASE UnregisterOpen
  <2>1. queue' \in Seq(Events)
    BY <1>5, <1>p DEF UnregisterOpen, LeaveOpened, LeaveStreams, Handles, Head1
  <2>2. /\ state' \in States /\ enabled' \in BOOLEAN /\ ctlInit' \in BOOLEAN
        /\ told' \in HalViews
        /\ channels' \in MapStates /\ procs' \in MapStates
    BY <1>5 DEF TypeOK, UnregisterOpen, LeaveOpened, LeaveStreams, UnInitAll,
       UnInitController, UnInitInput, CloseInput, TouchProcs, DisableDevice, mapVars
  <2>3. /\ dataSess' \in SUBSET Kinds /\ dataUp' \in SUBSET Kinds
        /\ dataCb' \in SUBSET Kinds
        /\ dataAlive' \in SUBSET Kinds /\ dataMissed' \in SUBSET Kinds
        /\ streams' \in SUBSET Kinds /\ producers' \in SUBSET Kinds
    BY <1>5 DEF TypeOK, UnregisterOpen, LeaveOpened, LeaveStreams, UnInitAll,
       UnInitController, UnInitInput, CloseInput, dataVars, strmVars
  <2>4. /\ control' \in SUBSET Sockets /\ openSess' \in SUBSET Sockets
        /\ recorded' \in SUBSET Sockets /\ missed' \in SUBSET Sockets
        /\ phase' \in [Sockets -> Phases]
    BY <1>5 DEF TypeOK, UnregisterOpen, LeaveOpened, LeaveStreams, CloseController,
       sessVars
  <2> QED
    BY <1>5, <2>1, <2>2, <2>3, <2>4 DEF TypeOK, UnregisterOpen, LeaveOpened,
       LeaveStreams
<1>6. CASE OpenRefused
  <2>1. queue' \in Seq(Events)
    <3>1. Tail(queue) \in Seq(Events)
      BY <1>6, PopType DEF TypeOK, OpenRefused, AccessRefused, BindFails, Handles,
         Head1
    <3> QED
      BY <1>6, <3>1, DisconnectionType, ConcatType DEF OpenRefused, AccessRefused,
         BindFails, Pop
  <2> QED
    BY <1>6, <2>1 DEF TypeOK, OpenRefused, AccessRefused, BindFails, sessVars,
       mapVars, dataVars, strmVars, halVars
<1>7. CASE CloseOpened
  BY <1>7, <1>p DEF TypeOK, CloseOpened, CloseCamera, Handles, Head1, CloseInput,
     CloseController, strmVars, halVars
<1>8. CASE CloseConfigured
  BY <1>8, <1>p DEF TypeOK, CloseConfigured, CloseCamera, Handles, Head1,
     CloseInput, CloseController, TouchProcs, strmVars, halVars
<1>9. CASE CloseCapturing
  BY <1>9, <1>p DEF TypeOK, CloseCapturing, CloseCamera, StopAllCapture, Handles,
     Head1, CloseInput, CloseController, TouchProcs, strmVars, halVars
<1>10. CASE ConfigStreams
  <2>1. queue' \in Seq(Events) /\ Head(queue).kinds \in SUBSET Kinds
    BY <1>10, <1>p, HeadKinds DEF TypeOK, ConfigStreams, Handles, Head1
  <2>2. state' \in States /\ crashed' \in BOOLEAN /\ opening' \in [Kinds -> OpenSteps]
    BY <1>10 DEF TypeOK, ConfigStreams, NegotiationFails, OpenDataChannels, OpenSteps
  <2>3. /\ streams' \in SUBSET Kinds /\ producers' \in SUBSET Kinds
        /\ procs' \in MapStates
    BY <1>10, <2>1 DEF TypeOK, ConfigStreams, ConfigureInput, TouchProcs, strmVars
  <2> QED
    BY <1>10, <2>1, <2>2, <2>3 DEF TypeOK, ConfigStreams, sessVars, dataVars, halVars
<1>11. CASE ReleaseStreams
  BY <1>11, <1>p DEF TypeOK, ReleaseStreams, ReleaseInput, Handles, Head1,
     TouchProcs, sessVars, dataVars, strmVars, halVars
<1>12. CASE StartCapture
  BY <1>12, <1>p DEF TypeOK, StartCapture, StartProducers, AskSink, Handles, Head1,
     TouchProcs, sessVars, dataVars, halVars
<1>13. CASE StopCapture
  BY <1>13, <1>p DEF TypeOK, StopCapture, ProducersLeft, Handles, Head1, TouchProcs,
     sessVars, dataVars, halVars
<1>14. CASE UpdateSettings
  BY <1>14, <1>p DEF TypeOK, UpdateSettings, UpdateInput, Handles, Head1, sessVars,
     mapVars, dataVars, strmVars, halVars
<1>15. CASE Notify
  BY <1>15, <1>p DEF TypeOK, Notify, TellHal, Handles, Head1, sessVars, mapVars,
     dataVars, strmVars
<1>16. ASSUME NEW s \in Sockets, Bind(s) PROVE TypeOK'
  BY <1>16, PopType, EvType DEF TypeOK, Bind, SessionConnected, Connection, Handles,
     Head1, PlainOps, mapVars, dataVars, strmVars
<1>17. ASSUME NEW s \in Sockets, Record(s) PROVE TypeOK'
  BY <1>17 DEF TypeOK, Record, mapVars, dataVars, strmVars, halVars
<1>18. ASSUME NEW s \in Sockets, PeerShutdown(s) \/ Callback(s) PROVE TypeOK'
  <2>1. CASE PeerShutdown(s)
    BY <2>1 DEF TypeOK, PeerShutdown, devVars, mapVars, dataVars, strmVars, halVars
  <2>2. CASE FindSession(s)
    BY <2>2 DEF TypeOK, FindSession, devVars, mapVars, dataVars, strmVars, halVars
  <2>3. CASE SessionClosed(s)
    BY <2>3, DisconnectionType, ConcatType DEF TypeOK, SessionClosed, mapVars, dataVars, strmVars,
       halVars
  <2> QED
    BY <1>18, <2>1, <2>2, <2>3 DEF Callback
<1>19. ASSUME NEW k \in Kinds, DataShutdown(k) \/ DataClosed(k) PROVE TypeOK'
  <2>1. CASE DataShutdown(k)
    BY <2>1 DEF TypeOK, DataShutdown, devVars, sessVars, strmVars, mapVars, halVars
  <2>2. CASE DataClosed(k)
    <3>1. queue' \in Seq(Events)
      BY <2>2, DisconnectionType, ConcatType DEF TypeOK, DataClosed
    <3> QED
      BY <2>2, <3>1 DEF TypeOK, DataClosed, sessVars, mapVars, strmVars, halVars
  <2> QED
    BY <1>19, <2>1, <2>2
<1>20. CASE UNCHANGED vars
  BY <1>20 DEF TypeOK, vars
<1>21. ASSUME NEW k \in Kinds, BindData(k) PROVE TypeOK'
  <2>1. queue' \in Seq(Events)
    BY <1>21, DisconnectionType, ConcatType DEF TypeOK, BindData
  <2>2. opening' \in [Kinds -> OpenSteps]
    BY <1>21 DEF TypeOK, BindData, OpenSteps
  <2>3. dataUp' \in SUBSET Kinds /\ dataAlive' \in SUBSET Kinds
    BY <1>21 DEF TypeOK, BindData
  <2> QED
    BY <1>21, <2>1, <2>2, <2>3 DEF TypeOK, BindData, sessVars, mapVars, strmVars, halVars
<1>22. ASSUME NEW k \in Kinds, RecordData(k) PROVE TypeOK'
  BY <1>22 DEF TypeOK, RecordData, OpenSteps, sessVars, mapVars, strmVars, halVars
<1>23. CASE FinishConfig
  BY <1>23 DEF TypeOK, FinishConfig, ConfiguredUnless, NoOpening, OpenSteps, sessVars, mapVars,
     dataVars, strmVars, halVars
<1> QED
  BY <1>1, <1>2, <1>3, <1>4, <1>5, <1>6, <1>7, <1>8, <1>9, <1>10, <1>11, <1>12, <1>13,
     <1>14, <1>15, <1>16, <1>17, <1>18, <1>19, <1>20, <1>21, <1>22, <1>23 DEF Next, DeviceThread

\* Every variable keeps its type, whatever the order of requests and callbacks.
THEOREM TypeCorrect == Spec => []TypeOK
<1>1. Init => TypeOK
  BY ConcatType DEF Init, TypeOK, States, Phases, MapStates, HalViews, NoOpening, OpenSteps
<1> QED
  BY <1>1, TypeStep, PTL DEF Spec

-----------------------------------------------------------------------------
(* The session invariant.                                                   *)

\* Popping an event keeps the others.
LEMMA PopKeeps ==
  ASSUME NEW q \in Seq(Events), q # <<>>, NEW op, HasOp(q, op), Head(q).op # op
  PROVE  HasOp(Tail(q), op)
<1>1. PICK i \in DOMAIN q : q[i].op = op
  BY DEF HasOp
<1>2. i \in 1..Len(q) /\ i # 1 /\ Len(q) \in Nat
  BY <1>1
<1>3. i - 1 \in DOMAIN Tail(q) /\ Tail(q)[i - 1] = q[i]
  BY <1>2
<1> QED
  BY <1>1, <1>3 DEF HasOp

\* Posting events keeps those that are queued.
LEMMA PostKeeps ==
  ASSUME NEW q \in Seq(Events), NEW r \in Seq(Events), NEW op, HasOp(q, op)
  PROVE  HasOp(q \o r, op)
<1>1. PICK i \in DOMAIN q : q[i].op = op
  BY DEF HasOp
<1>2. i \in DOMAIN (q \o r) /\ (q \o r)[i] = q[i]
  BY <1>1
<1> QED
  BY <1>1, <1>2 DEF HasOp

\* A posted disconnection puts a CLOSE on the queue.
LEMMA PostAdds ==
  ASSUME NEW q \in Seq(Events), NEW r \in Seq(Events), r # <<>>
  PROVE  HasOp(q \o r, r[1].op)
<1>1. Len(q) + 1 \in DOMAIN (q \o r) /\ (q \o r)[Len(q) + 1] = r[1]
  OBVIOUS
<1> QED
  BY <1>1 DEF HasOp

\* The disconnection that a lost session posts begins with a CLOSE.
LEMMA DisconnectionCloses ==
  ASSUME NEW q \in Seq(Events)
  PROVE  HasOp(q \o Disconnection, "CLOSE")
<1>1. Disconnection # <<>> /\ Disconnection[1].op = "CLOSE"
  BY DEF Disconnection, Ev
<1> QED
  BY <1>1, PostAdds, DisconnectionType

\* The parts of SessionInv that a step leaves alone when it touches neither the
\* sessions nor the state, and keeps every queued CLOSE.
LEMMA SessionQuiet ==
  ASSUME TypeOK, SessionInv,
         UNCHANGED <<binding, opening, ctlInit, control, openSess, recorded, phase, missed>>,
         state' = state, channels' = channels, dataSess' = dataSess,
         procs = "live" => procs' = "live",
         control # {} /\ Queued("CLOSE") => Queued("CLOSE")'
  PROVE  SessionInv'
BY DEF SessionInv, BindingInv, InitInv, RecordInv, OpeningInv, SessionMatchesState,
   NoOrphanSession, DeadSessionCloses

\* Every step keeps what ties the state to its sessions.
LEMMA SessionStep == TypeOK /\ SessionInv /\ [Next]_vars => SessionInv'
<1> SUFFICES ASSUME TypeOK, SessionInv, [Next]_vars PROVE SessionInv'
  OBVIOUS
<1> USE DEF OpenStates, endVars
<1>o. \A op : Handles(op) => binding = {} /\ opening = NoOpening
  BY DEF Handles, Head1, Idle
<1>n. opening' = NoOpening => OpeningInv'
  BY DEF OpeningInv, NoOpening
<1> DEFINE Held == Queued("CLOSE") => Queued("CLOSE")'
<1>q. queue \in Seq(Events)
  BY DEF TypeOK
<1>p. ASSUME Idle, queue # <<>>, Pop, Head(queue).op # "CLOSE" PROVE Held
  BY <1>q, <1>p, PopKeeps DEF Queued, Pop
<1>1. CASE Request
  <2>1. ASSUME NEW e \in Events, queue' = Append(queue, e) PROVE Held
    <3>1. Append(queue, e) = queue \o <<e>> /\ <<e>> \in Seq(Events)
      BY <1>q, <2>1
    <3> QED
      BY <2>1, <3>1, <1>q, PostKeeps DEF Queued
  <2>2. ASSUME NEW op \in FwkOps, FwkRequest(op) PROVE SessionInv'
    <3>1. Held
      BY <2>1, <2>2, EvType DEF FwkRequest, PlainOps
    <3> QED
      BY <2>2, <3>1, SessionQuiet DEF FwkRequest, sessVars, mapVars, dataVars
  <2>3. ASSUME NEW op, NEW kinds \in SUBSET Kinds, HalRequest(op, kinds)
        PROVE  SessionInv'
    <3>1. [op |-> op, kinds |-> kinds] \in Events
      BY <2>3, HalAssumption DEF HalRequest, Events, PlainOps, KindOps
    <3>2. Held
      BY <2>1, <2>3, <3>1 DEF HalRequest
    <3> QED
      BY <2>3, <3>2, SessionQuiet DEF HalRequest, sessVars, mapVars, dataVars
  <2> QED
    BY <1>1, <2>2, <2>3 DEF Request, SessionRequest, StreamsRequest, CaptureRequest,
       SettingsRequest
<1>2. CASE Ignore
  <2>1. control # {} => Held
    BY <1>2, <1>p DEF Ignore, Handled, InitHandles, RegistHandles, OpenedHandles,
       ConfiguredHandles, CapturingHandles, SessionInv, SessionMatchesState, TypeOK,
       States
  <2> QED
    BY <1>2, <2>1, SessionQuiet DEF Ignore, sessVars, mapVars, dataVars
<1>3. CASE Register
  <2>1. state \in {"INIT", "REGIST"} /\ control = {} /\ binding = {}
    BY <1>3 DEF Register, InitController, InitInput, Handles, Handled, InitHandles,
       RegistHandles, OpenedHandles, ConfiguredHandles, CapturingHandles,
       SessionInv, SessionMatchesState, TypeOK, States
  <2>9. OpeningInv'
    BY <1>3, <1>o, <1>n DEF Register
  <2> QED
    BY <1>3, <2>9, <2>1 DEF Register, InitController, InitInput, UnInitAll,
       UnInitController, UnInitInput, mapVars, SessionInv, BindingInv, InitInv,
       RecordInv, SessionMatchesState, NoOrphanSession, DeadSessionCloses
<1>4. CASE UnregisterIdle
  <2>1. control = {} /\ binding = {}
    BY <1>4 DEF UnregisterIdle, SessionInv, SessionMatchesState
  <2>9. OpeningInv'
    BY <1>4, <1>o, <1>n DEF UnregisterIdle
  <2> QED
    BY <1>4, <2>9, <2>1 DEF UnregisterIdle, UnInitAll, UnInitController, UnInitInput,
       DisableDevice, sessVars, SessionInv, BindingInv, InitInv, RecordInv,
       SessionMatchesState, NoOrphanSession, DeadSessionCloses
<1>5. CASE UnregisterOpen
  <2>1. Held /\ binding = {}
    BY <1>5, <1>p DEF UnregisterOpen, LeaveOpened, LeaveStreams, Handles, Head1,
       Idle
  <2>2. CASE UNCHANGED <<state, ctlInit, sessVars, mapVars, dataVars>>
    BY <1>5, <2>1, <2>2, SessionQuiet DEF UnregisterOpen, LeaveOpened, LeaveStreams,
       sessVars, mapVars, dataVars
  <2>3. CASE /\ CloseController /\ UNCHANGED missed
             /\ \/ UnInitAll /\ DisableDevice
                \/ /\ CloseInput /\ TouchProcs /\ UNCHANGED <<state, ctlInit>>
                   /\ state # "OPENED" /\ procs # "live"
    <3>1. control' = {} /\ openSess' = {}
      BY <2>1, <2>3 DEF CloseController, SessionInv, InitInv, NoOrphanSession
    <3>2. OpeningInv'
      BY <1>5, <1>o, <1>n DEF UnregisterOpen
    <3> QED
      BY <1>5, <2>1, <2>3, <3>1, <3>2 DEF UnregisterOpen, LeaveOpened, LeaveStreams,
         CloseController, CloseInput, UnInitAll, UnInitController, UnInitInput,
         DisableDevice, TouchProcs, TypeOK, SessionInv, BindingInv, InitInv,
         RecordInv, SessionMatchesState, NoOrphanSession, DeadSessionCloses
  <2> QED
    BY <1>5, <2>2, <2>3 DEF UnregisterOpen, LeaveOpened, LeaveStreams
<1>6. CASE OpenRefused
  <2>1. Held
    <3>1. queue # <<>> /\ HasOp(queue, "CLOSE") => HasOp(Tail(queue), "CLOSE")
      BY <1>6, <1>q, PopKeeps DEF OpenRefused, AccessRefused, BindFails, Handles,
         Head1
    <3> QED
      BY <1>6, <1>q, <3>1, PopType, PostKeeps, DisconnectionType
      DEF OpenRefused, AccessRefused, BindFails, Handles, Head1, Queued, Pop
  <2> QED
    BY <1>6, <2>1, SessionQuiet DEF OpenRefused, AccessRefused, BindFails, sessVars,
       mapVars, dataVars
<1>7. CASE CloseOpened
  <2>1. binding = {}
    BY <1>7 DEF CloseOpened, CloseCamera, Handles, Head1, Idle
  <2>2. control' = {} /\ openSess' = {}
    BY <1>7, <2>1 DEF CloseOpened, CloseCamera, CloseController, SessionInv,
       InitInv, NoOrphanSession
  <2>9. OpeningInv'
    BY <1>7, <1>o, <1>n DEF CloseOpened
  <2> QED
    BY <1>7, <2>9, <2>1, <2>2 DEF CloseOpened, CloseCamera, CloseController, CloseInput,
       TypeOK, SessionInv, BindingInv, InitInv, RecordInv, SessionMatchesState,
       NoOrphanSession, DeadSessionCloses
<1>8. CASE CloseConfigured
  <2>1. binding = {}
    BY <1>8 DEF CloseConfigured, CloseCamera, Handles, Head1, Idle
  <2>2. control' = {} /\ openSess' = {}
    BY <1>8, <2>1 DEF CloseConfigured, CloseCamera, CloseController, SessionInv,
       InitInv, NoOrphanSession
  <2>9. OpeningInv'
    BY <1>8, <1>o, <1>n DEF CloseConfigured
  <2> QED
    BY <1>8, <2>9, <2>1, <2>2 DEF CloseConfigured, CloseCamera, CloseController,
       CloseInput, TouchProcs, TypeOK, SessionInv, BindingInv, InitInv, RecordInv,
       SessionMatchesState, NoOrphanSession, DeadSessionCloses
<1>9. CASE CloseCapturing
  <2>1. binding = {}
    BY <1>9 DEF CloseCapturing, CloseCamera, StopAllCapture, Handles, Head1, Idle
  <2>2. procs = "live" \/ control = {}
    BY <1>9 DEF CloseCapturing, CloseCamera, StopAllCapture, SessionInv, InitInv
  <2>3. control' = {} /\ openSess' = {}
    BY <1>9, <2>1, <2>2 DEF CloseCapturing, CloseCamera, StopAllCapture,
       CloseController, SessionInv, InitInv, NoOrphanSession
  <2>9. OpeningInv'
    BY <1>9, <1>o, <1>n DEF CloseCapturing
  <2> QED
    BY <1>9, <2>9, <2>1, <2>2, <2>3 DEF CloseCapturing, CloseCamera, StopAllCapture,
       CloseController, CloseInput, TouchProcs, TypeOK, SessionInv, BindingInv,
       InitInv, RecordInv, SessionMatchesState, NoOrphanSession, DeadSessionCloses
<1>10. CASE ConfigStreams
  <2>1. binding = {} /\ opening = NoOpening /\ state \in {"OPENED", "CONFIG_STREAM"}
    BY <1>10, <1>o DEF ConfigStreams, Handles, Head1, Handled, InitHandles, RegistHandles,
       OpenedHandles, ConfiguredHandles, CapturingHandles, TypeOK, States
  <2>2. Held
    BY <1>10, <1>p DEF ConfigStreams, Handles, Head1
  <2>3. /\ state' \in {state, "CONFIG_STREAM"}
        /\ state' # state => procs' = "live"
        /\ procs = "live" => procs' = "live"
    BY <1>10 DEF ConfigStreams, NegotiationFails, OpenDataChannels, TouchProcs
  <2>4. opening' # NoOpening => procs' = "live" /\ channels' = "live"
    BY <1>10, <2>1 DEF ConfigStreams, NegotiationFails, OpenDataChannels, TouchProcs, NoOpening
  <2>5. OpeningInv'
    BY <1>10, <2>1, <2>3, <2>4 DEF ConfigStreams, OpeningInv, NoOpening
  <2> QED
    BY <1>10, <2>1, <2>2, <2>3, <2>5 DEF ConfigStreams, sessVars, dataVars, SessionInv,
       BindingInv, InitInv, RecordInv, SessionMatchesState, NoOrphanSession, DeadSessionCloses
<1>11. CASE ReleaseStreams
  <2>1. Held /\ state = "CONFIG_STREAM" /\ binding = {}
    BY <1>11, <1>p DEF ReleaseStreams, ReleaseInput, Handles, Head1, Handled,
       InitHandles, RegistHandles, OpenedHandles, ConfiguredHandles,
       CapturingHandles, Idle, TypeOK, States
  <2>9. OpeningInv'
    BY <1>11, <1>o, <1>n DEF ReleaseStreams
  <2> QED
    BY <1>11, <2>9, <2>1 DEF ReleaseStreams, ReleaseInput, TouchProcs, sessVars, dataVars,
       strmVars, SessionInv, BindingInv, InitInv, RecordInv, SessionMatchesState,
       NoOrphanSession, DeadSessionCloses
<1>12. CASE StartCapture
  <2>1. Held /\ state \in {"CONFIG_STREAM", "CAPTURE"} /\ binding = {}
    BY <1>12, <1>p DEF StartCapture, StartProducers, AskSink, Handles, Head1,
       Handled, InitHandles, RegistHandles, OpenedHandles, ConfiguredHandles,
       CapturingHandles, Idle, TypeOK, States
  <2>9. OpeningInv'
    BY <1>12, <1>o, <1>n DEF StartCapture
  <2> QED
    BY <1>12, <2>9, <2>1 DEF StartCapture, StartProducers, AskSink, TouchProcs, sessVars,
       dataVars, SessionInv, BindingInv, InitInv, RecordInv, SessionMatchesState,
       NoOrphanSession, DeadSessionCloses
<1>13. CASE StopCapture
  <2>1. Held /\ state = "CAPTURE" /\ binding = {}
    BY <1>13, <1>p DEF StopCapture, ProducersLeft, Handles, Head1, Handled,
       InitHandles, RegistHandles, OpenedHandles, ConfiguredHandles,
       CapturingHandles, Idle, TypeOK, States
  <2>9. OpeningInv'
    BY <1>13, <1>o, <1>n DEF StopCapture
  <2> QED
    BY <1>13, <2>9, <2>1 DEF StopCapture, ProducersLeft, TouchProcs, sessVars, dataVars,
       SessionInv, BindingInv, InitInv, RecordInv, SessionMatchesState,
       NoOrphanSession, DeadSessionCloses
<1>14. CASE UpdateSettings
  <2>1. Held
    BY <1>14, <1>p DEF UpdateSettings, UpdateInput, Handles, Head1
  <2> QED
    BY <1>14, <2>1, SessionQuiet DEF UpdateSettings, UpdateInput, sessVars, mapVars,
       dataVars
<1>15. CASE Notify
  <2>1. Held
    BY <1>15, <1>p DEF Notify, TellHal, Handles, Head1
  <2> QED
    BY <1>15, <2>1, SessionQuiet DEF Notify, TellHal, sessVars, mapVars, dataVars
<1>16. ASSUME NEW s \in Sockets, Bind(s) PROVE SessionInv'
  <2>1. state = "REGIST" /\ binding = {} /\ control = {} /\ openSess = {}
    BY <1>16 DEF Bind, SessionConnected, Connection, Handles, Head1, Handled,
       InitHandles, RegistHandles, OpenedHandles, ConfiguredHandles,
       CapturingHandles, Idle, TypeOK, States, SessionInv, NoOrphanSession
  <2>2. OpeningInv'
    BY <1>16, <1>o, <1>n DEF Bind
  <2> QED
    BY <1>16, <2>1, <2>2 DEF Bind, SessionConnected, Connection, mapVars, dataVars,
       TypeOK, SessionInv, BindingInv, InitInv, RecordInv, SessionMatchesState,
       NoOrphanSession, DeadSessionCloses
<1>17. ASSUME NEW s \in Sockets, Record(s) PROVE SessionInv'
  <2>1. binding = {s} /\ control = {} /\ state = "OPENED" /\ ctlInit
    BY <1>17 DEF Record, SessionInv, BindingInv, TypeOK
  <2>2. phase[s] \in {"up", "called"} \/ s \in missed
    BY <2>1 DEF SessionInv, BindingInv
  <2>3. OpeningInv'
    BY <1>17, <2>1, <1>n DEF Record, SessionInv, OpeningInv
  <2> QED
    BY <1>17, <2>1, <2>2, <2>3 DEF Record, mapVars, dataVars, TypeOK, SessionInv, BindingInv,
       InitInv, RecordInv, SessionMatchesState, NoOrphanSession, DeadSessionCloses
<1>18. ASSUME NEW s \in Sockets, PeerShutdown(s) \/ Callback(s) PROVE SessionInv'
  <2>1. CASE PeerShutdown(s)
    BY <2>1 DEF PeerShutdown, devVars, mapVars, dataVars, TypeOK, SessionInv, BindingInv,
       InitInv, RecordInv, OpeningInv, SessionMatchesState, NoOrphanSession, DeadSessionCloses, Queued
  <2>2. CASE FindSession(s)
    BY <2>2 DEF FindSession, devVars, mapVars, dataVars, TypeOK, SessionInv, BindingInv,
       InitInv, RecordInv, OpeningInv, SessionMatchesState, NoOrphanSession, DeadSessionCloses, Queued
  <2>3. CASE SessionClosed(s)
    <3>1. Queued("CLOSE")'
      BY <2>3, <1>q, DisconnectionCloses DEF SessionClosed, Queued
    <3>2. s \notin binding
      BY <2>3 DEF SessionClosed, SessionInv, BindingInv
    <3> QED
      BY <2>3, <3>1, <3>2 DEF SessionClosed, mapVars, dataVars, TypeOK, SessionInv,
         BindingInv, InitInv, RecordInv, OpeningInv, SessionMatchesState, NoOrphanSession,
         DeadSessionCloses
  <2> QED
    BY <1>18, <2>1, <2>2, <2>3 DEF Callback
<1>19. ASSUME NEW k \in Kinds, DataShutdown(k) \/ DataClosed(k) PROVE SessionInv'
  <2>1. Held
    BY <1>19, <1>q, PostKeeps, DisconnectionType
    DEF DataShutdown, DataClosed, devVars, Queued
  <2> QED
    BY <1>19, <2>1, SessionQuiet DEF DataShutdown, DataClosed, devVars, sessVars, mapVars
<1>20. CASE UNCHANGED vars
  <2>1. Held
    BY <1>20 DEF vars, Queued
  <2> QED
    BY <1>20, <2>1, SessionQuiet DEF vars
<1>21. ASSUME NEW k \in Kinds, BindData(k) \/ RecordData(k) PROVE SessionInv'
  <2>1. Held
    BY <1>21, <1>q, PostKeeps, DisconnectionType DEF BindData, RecordData, Queued
  <2>2. opening # NoOpening
    BY <1>21 DEF BindData, RecordData, NoOpening
  <2>3. UNCHANGED <<binding, ctlInit, sessVars, mapVars, state>>
    BY <1>21 DEF BindData, RecordData
  <2> QED
    BY <2>1, <2>2, <2>3 DEF sessVars, mapVars, SessionInv, BindingInv, InitInv, RecordInv,
       OpeningInv, SessionMatchesState, NoOrphanSession, DeadSessionCloses
<1>22. CASE FinishConfig
  <2>1. Held /\ opening' = NoOpening
    BY <1>22 DEF FinishConfig, Queued
  <2>2. state' \in {state, "CONFIG_STREAM"} /\ opening # NoOpening
    BY <1>22 DEF FinishConfig, ConfiguredUnless
  <2> QED
    BY <1>22, <2>1, <2>2, <1>n DEF FinishConfig, sessVars, mapVars, dataVars, SessionInv,
       BindingInv, InitInv, RecordInv, OpeningInv, SessionMatchesState, NoOrphanSession,
       DeadSessionCloses
<1> QED
  BY <1>1, <1>2, <1>3, <1>4, <1>5, <1>6, <1>7, <1>8, <1>9, <1>10, <1>11, <1>12, <1>13,
     <1>14, <1>15, <1>16, <1>17, <1>18, <1>19, <1>20, <1>21, <1>22 DEF Next, DeviceThread

\* The state machine, the control session and the callbacks fit together in
\* every reachable state.
THEOREM SessionInvariant == Spec => []SessionInv
<1>1. Init => SessionInv
  BY DEF Init, SessionInv, BindingInv, InitInv, RecordInv, OpeningInv, SessionMatchesState,
     OpenStates, NoOrphanSession, DeadSessionCloses
<1> QED
  BY <1>1, SessionStep, TypeCorrect, PTL DEF Spec

\* A camera that is not open holds no session, an open one holds its control session.
THEOREM StateAndSessionsAgree == Spec => []SessionMatchesState
<1>1. SessionInv => SessionMatchesState
  BY DEF SessionInv
<1> QED
  BY <1>1, SessionInvariant, PTL

\* Every open socket has an owner that will shut it.
THEOREM NoSessionLeaks == Spec => []NoOrphanSession
<1>1. SessionInv => NoOrphanSession
  BY DEF SessionInv
<1> QED
  BY <1>1, SessionInvariant, PTL

\* A dead control session is being reported or closed, unless its shutdown came
\* between Bind and RecordSourceSocketSession.
THEOREM DeadSessionsClose == Spec => []DeadSessionCloses
<1>1. SessionInv => DeadSessionCloses
  BY DEF SessionInv
<1> QED
  BY <1>1, SessionInvariant, PTL

-----------------------------------------------------------------------------
(* The refinement: SourceDev implements CameraLifecycle.                    *)

\* A data process that is there belongs to an initialised controller.
ProcsInv == procs = "live" => ctlInit

\* Both parts are initialised and uninitialised together.
LEMMA ProcsStep == ProcsInv /\ [Next]_vars => ProcsInv'
<1> SUFFICES ASSUME ProcsInv, [Next]_vars PROVE ProcsInv'
  OBVIOUS
<1>1. CASE UNCHANGED <<procs, ctlInit>>
  BY <1>1 DEF ProcsInv
<1>2. CASE TouchProcs /\ UNCHANGED ctlInit
  BY <1>2 DEF ProcsInv, TouchProcs
<1>3. CASE UnInitAll
  BY <1>3 DEF ProcsInv, UnInitAll, UnInitInput
<1>4. CASE InitController
  BY <1>4 DEF ProcsInv, InitController
<1>5. CASE Request
  BY <1>1, <1>5 DEF Request, SessionRequest, StreamsRequest, CaptureRequest,
     SettingsRequest, FwkRequest, HalRequest, mapVars
<1>6. CASE Register
  BY <1>1, <1>3, <1>4, <1>6 DEF Register, mapVars
<1>7. CASE UnregisterIdle
  BY <1>3, <1>7 DEF UnregisterIdle
<1>8. CASE UnregisterOpen
  BY <1>1, <1>2, <1>3, <1>8 DEF UnregisterOpen, LeaveOpened, LeaveStreams, mapVars
<1>9. CASE CloseOpened \/ CloseConfigured \/ CloseCapturing
  BY <1>1, <1>2, <1>9 DEF CloseOpened, CloseConfigured, CloseCapturing, StopAllCapture
<1>10. CASE ConfigStreams \/ ReleaseStreams \/ StartCapture \/ StopCapture
  BY <1>2, <1>10 DEF ConfigStreams, ReleaseStreams, StartCapture, StopCapture
<1>11. CASE Ignore \/ OpenRefused \/ UpdateSettings \/ Notify
  BY <1>1, <1>11 DEF Ignore, OpenRefused, UpdateSettings, Notify, mapVars
<1>12. ASSUME NEW s \in Sockets,
              Bind(s) \/ Record(s) \/ PeerShutdown(s) \/ Callback(s)
       PROVE  ProcsInv'
  BY <1>1, <1>12 DEF Bind, Record, PeerShutdown, Callback, FindSession, SessionClosed,
     mapVars
<1>13. ASSUME NEW k \in Kinds,
              BindData(k) \/ RecordData(k) \/ FinishConfig \/ DataShutdown(k) \/ DataClosed(k)
       PROVE  ProcsInv'
  BY <1>1, <1>13 DEF BindData, RecordData, FinishConfig, DataShutdown, DataClosed, mapVars
<1>14. CASE UNCHANGED vars
  BY <1>1, <1>14 DEF vars
<1> QED
  BY <1>5, <1>6, <1>7, <1>8, <1>9, <1>10, <1>11, <1>12, <1>13, <1>14, KindsAssumption DEF Next, DeviceThread

\* In every reachable state.
LEMMA ProcsInvariant == Spec => []ProcsInv
<1>1. Init => ProcsInv
  BY DEF Init, ProcsInv
<1> QED
  BY <1>1, ProcsStep, PTL DEF Spec

\* A step that leaves the state, the session and the used sockets is a stutter.
LEMMA LifecycleStutter ==
  ASSUME UNCHANGED <<state, control, binding, phase>>
  PROVE  UNCHANGED Lifecycle!vars
BY DEF Lifecycle!vars

\* CloseController uses no new socket.
LEMMA CloseUsesNone ==
  ASSUME TypeOK, CloseController
  PROVE  {s \in Sockets : phase'[s] # "free"} = {s \in Sockets : phase[s] # "free"}
BY DEF TypeOK, CloseController

\* Every step of the device is a step of its life cycle, or none.
LEMMA LifecycleStep ==
  ASSUME TypeOK, SessionInv, ProcsInv, [Next]_vars
  PROVE  [Lifecycle!Next]_(Lifecycle!vars)
<1> USE DEF OpenStates, Lifecycle!OpenStates
<1>a. control # {} \/ binding # {} => state \in OpenStates
  BY DEF SessionInv, SessionMatchesState
<1>1. CASE Request \/ Ignore \/ OpenRefused \/ UpdateSettings \/ Notify
  BY <1>1, LifecycleStutter DEF Request, SessionRequest, StreamsRequest, CaptureRequest,
     SettingsRequest, FwkRequest, HalRequest, Ignore, OpenRefused, UpdateSettings, Notify,
     sessVars
<1>2. CASE Register
  <2>1. state \in {"INIT", "REGIST"} /\ control = {} /\ control' = {}
    BY <1>2, <1>a DEF Register, InitController, Handles, Handled, InitHandles, RegistHandles,
       OpenedHandles, ConfiguredHandles, CapturingHandles, TypeOK, States
  <2>2. state' \in {state, "REGIST"} /\ UNCHANGED <<binding, phase>>
    BY <1>2 DEF Register
  <2> QED
    BY <2>1, <2>2, LifecycleStutter DEF Lifecycle!Next, Lifecycle!Register, Lifecycle!vars
<1>3. CASE UnregisterIdle
  <2>1. control = {} /\ binding = {}
    BY <1>3, <1>a DEF UnregisterIdle
  <2>2. state = "REGIST" /\ state' \in {state, "INIT"}
        /\ UNCHANGED <<control, binding, phase>>
    BY <1>3 DEF UnregisterIdle, DisableDevice, sessVars
  <2> QED
    BY <2>1, <2>2, LifecycleStutter DEF Lifecycle!Next, Lifecycle!Unregister, Lifecycle!vars
<1>4. CASE UnregisterOpen
  <2>1. binding = {} /\ binding' = {} /\ state \in OpenStates
    BY <1>4 DEF UnregisterOpen, Handles, Head1, Idle
  <2>2. CASE UNCHANGED <<state, sessVars>>
    BY <2>1, <2>2, LifecycleStutter DEF sessVars
  <2>3. CASE CloseController /\ state' \in {state, "INIT"}
    <3>1. control' = {}
      BY <2>1, <2>3 DEF CloseController, SessionInv, InitInv
    <3> QED
      BY <2>1, <2>3, <3>1, CloseUsesNone
      DEF Lifecycle!Next, Lifecycle!Unregister, Lifecycle!Drop, Lifecycle!vars
  <2> QED
    BY <1>4, <2>2, <2>3 DEF UnregisterOpen, LeaveOpened, LeaveStreams, DisableDevice
<1>5. CASE CloseOpened \/ CloseConfigured \/ CloseCapturing
  <2>1. binding = {} /\ binding' = {} /\ state \in OpenStates
    BY <1>5 DEF CloseOpened, CloseConfigured, CloseCapturing, Handles, Head1, Idle
  <2>2. CASE UNCHANGED <<state, control, phase>>
    BY <2>1, <2>2, LifecycleStutter
  <2>3. CASE CloseController /\ state' \in {state, "REGIST"}
    <3>1. control' = {}
      BY <2>1, <2>3 DEF CloseController, SessionInv, InitInv
    <3> QED
      BY <2>1, <2>3, <3>1, CloseUsesNone
      DEF Lifecycle!Next, Lifecycle!Close, Lifecycle!Drop, Lifecycle!vars
  <2> QED
    BY <1>5, <2>2, <2>3 DEF CloseOpened, CloseConfigured, CloseCapturing, CloseCamera
<1>6. CASE ConfigStreams \/ ReleaseStreams \/ StartCapture \/ StopCapture
  <2>1. UNCHANGED <<control, binding, phase>>
    BY <1>6 DEF ConfigStreams, ReleaseStreams, StartCapture, StopCapture, sessVars
  <2>2. CASE state' = state
    BY <2>1, <2>2, LifecycleStutter
  <2>3. CASE state' # state
    <3>1. ctlInit
      BY <1>6, <2>3 DEF ProcsInv, ConfigStreams, ReleaseStreams, StartCapture, StopCapture,
         AskSink, ControlUsable
    <3>2. <<state, state'>> \in Lifecycle!StreamMoves /\ state \in OpenStates
      BY <1>6, <2>3 DEF ConfigStreams, NegotiationFails, OpenDataChannels,
         ReleaseStreams, StartCapture, AskSink, StopCapture, Handles, Head1, Handled,
         InitHandles, RegistHandles, OpenedHandles, ConfiguredHandles, CapturingHandles,
         TypeOK, States, Lifecycle!StreamMoves
    <3>3. control \cup binding # {}
      BY <3>1, <3>2 DEF SessionInv, SessionMatchesState
    <3> QED
      BY <2>1, <3>2, <3>3 DEF Lifecycle!Next, Lifecycle!Stream
  <2> QED
    BY <2>2, <2>3
<1>7. ASSUME NEW s \in Sockets, Bind(s) PROVE Lifecycle!Next
  <2>1. state = "REGIST" /\ binding = {} /\ control = {}
    BY <1>7, <1>a DEF Bind, Handles, Head1, Handled, InitHandles, RegistHandles,
       OpenedHandles, ConfiguredHandles, CapturingHandles, Idle, TypeOK, States
  <2>2. /\ control' \cup binding' = {s} /\ state' = "OPENED"
        /\ phase' = [phase EXCEPT ![s] = "up"] /\ phase[s] = "free"
    BY <1>7, <2>1 DEF Bind, SessionConnected
  <2>3. {x \in Sockets : phase'[x] # "free"} = {x \in Sockets : phase[x] # "free"} \cup {s}
    BY <2>2 DEF TypeOK
  <2> QED
    BY <2>1, <2>2, <2>3 DEF Lifecycle!Next, Lifecycle!Open
<1>8. ASSUME NEW s \in Sockets, Record(s) PROVE UNCHANGED Lifecycle!vars
  <2>1. binding = {s} /\ control = {} /\ binding' = {} /\ control' = {s}
    BY <1>8 DEF Record, SessionInv, BindingInv, TypeOK
  <2> QED
    BY <1>8, <2>1 DEF Record, Lifecycle!vars
<1>9. ASSUME NEW s \in Sockets, PeerShutdown(s) \/ Callback(s)
      PROVE  UNCHANGED Lifecycle!vars
  <2>1. UNCHANGED <<state, control, binding>>
    BY <1>9 DEF PeerShutdown, Callback, FindSession, SessionClosed, devVars
  <2>2. \E p \in Phases \ {"free"} : phase' = [phase EXCEPT ![s] = p] /\ phase[s] # "free"
    BY <1>9 DEF PeerShutdown, Callback, FindSession, SessionClosed, Phases
  <2>3. {x \in Sockets : phase'[x] # "free"} = {x \in Sockets : phase[x] # "free"}
    BY <2>2 DEF TypeOK
  <2> QED
    BY <2>1, <2>3 DEF Lifecycle!vars
<1>10. ASSUME NEW k \in Kinds, BindData(k) \/ RecordData(k) \/ DataShutdown(k) \/ DataClosed(k)
       PROVE  UNCHANGED Lifecycle!vars
  BY <1>10, LifecycleStutter DEF BindData, RecordData, DataShutdown, DataClosed, devVars,
     sessVars
<1>11. CASE UNCHANGED vars
  BY <1>11, LifecycleStutter DEF vars
<1>12. CASE FinishConfig
  <2>1. UNCHANGED <<control, binding, phase>> /\ state' \in {state, "CONFIG_STREAM"}
    BY <1>12 DEF FinishConfig, ConfiguredUnless, sessVars
  <2>2. state \in {"OPENED", "CONFIG_STREAM"} /\ procs = "live"
    BY <1>12 DEF FinishConfig, SessionInv, OpeningInv
  <2>3. <<state, state'>> \in Lifecycle!StreamMoves \/ state' = state
    BY <2>1, <2>2 DEF Lifecycle!StreamMoves
  <2>4. control \cup binding # {}
    BY <2>2 DEF ProcsInv, SessionInv, SessionMatchesState
  <2> QED
    BY <2>1, <2>2, <2>3, <2>4, LifecycleStutter DEF Lifecycle!Next, Lifecycle!Stream
<1> QED
  BY <1>1, <1>2, <1>3, <1>4, <1>5, <1>6, <1>7, <1>8, <1>9, <1>10, <1>11, <1>12
  DEF Next, DeviceThread

\* The source device implements the life cycle of a camera, for any number of
\* sockets: whatever the callbacks, requests and failures, its session is taken
\* and given back as CameraLifecycle says.
THEOREM DeviceImplementsLifecycle == Spec => ImplementsLifecycle
<1>1. Init => Lifecycle!Init
  BY DEF Init, Lifecycle!Init
<1> QED
  BY <1>1, LifecycleStep, TypeCorrect, SessionInvariant, ProcsInvariant, PTL
  DEF Spec, ImplementsLifecycle, Lifecycle!Spec

-----------------------------------------------------------------------------
(* The streams.                                                             *)

\* Every step keeps the producers within the streams and the states that have some.
LEMMA ProducersStep == TypeOK /\ ProducersHaveStreams /\ [Next]_vars => ProducersHaveStreams'
<1> SUFFICES ASSUME TypeOK, ProducersHaveStreams, [Next]_vars PROVE ProducersHaveStreams'
  OBVIOUS
<1> USE DEF ProducersHaveStreams
<1>1. CASE UNCHANGED <<streams, producers, state>>
  BY <1>1
<1>2. CASE producers' = {}
  BY <1>2
<1>3. CASE Request
  BY <1>1, <1>3 DEF Request, SessionRequest, StreamsRequest, CaptureRequest, SettingsRequest,
     FwkRequest, HalRequest, strmVars
<1>4. CASE Ignore \/ OpenRefused \/ UpdateSettings \/ Notify
  BY <1>1, <1>4 DEF Ignore, OpenRefused, UpdateSettings, Notify, strmVars
<1>5. CASE Register \/ UnregisterIdle
  <2>1. producers = {}
    BY <1>5 DEF Register, UnregisterIdle, Handles, Handled, InitHandles, RegistHandles, OpenedHandles,
       ConfiguredHandles, CapturingHandles, TypeOK, States
  <2> QED
    BY <1>2, <1>5, <2>1 DEF Register, UnregisterIdle, UnInitAll, UnInitInput, strmVars
<1>6. CASE UnregisterOpen
  BY <1>1, <1>2, <1>6 DEF UnregisterOpen, LeaveOpened, LeaveStreams, UnInitAll, UnInitInput, strmVars
<1>7. CASE CloseOpened
  BY <1>2, <1>7 DEF CloseOpened, strmVars
<1>8. CASE CloseConfigured \/ CloseCapturing
  BY <1>1, <1>2, <1>8 DEF CloseConfigured, CloseCapturing, strmVars
<1>9. CASE ConfigStreams
  BY <1>1, <1>2, <1>9 DEF ConfigStreams, ConfigureInput, strmVars
<1>10. CASE ReleaseStreams
  BY <1>1, <1>10 DEF ReleaseStreams, ReleaseInput, strmVars
<1>11. CASE StartCapture
  <2>1. state \in {"CONFIG_STREAM", "CAPTURE"}
    BY <1>11 DEF StartCapture, Handles, Handled, InitHandles, RegistHandles, OpenedHandles,
       ConfiguredHandles, CapturingHandles, TypeOK, States
  <2> QED
    BY <1>11, <2>1 DEF StartCapture, StartProducers, AskSink
<1>12. CASE StopCapture
  <2>1. state = "CAPTURE"
    BY <1>12 DEF StopCapture, Handles, Handled, InitHandles, RegistHandles, OpenedHandles,
       ConfiguredHandles, CapturingHandles, TypeOK, States
  <2> QED
    BY <1>12, <2>1 DEF StopCapture, ProducersLeft
<1>13. ASSUME NEW s \in Sockets, Bind(s) PROVE ProducersHaveStreams'
  <2>1. producers = {}
    BY <1>13 DEF Bind, Handles, Handled, InitHandles, RegistHandles, OpenedHandles,
       ConfiguredHandles, CapturingHandles, TypeOK, States
  <2> QED
    BY <1>13, <1>2, <2>1 DEF Bind, strmVars
<1>14. ASSUME NEW s \in Sockets, Record(s) \/ PeerShutdown(s) \/ Callback(s)
       PROVE  ProducersHaveStreams'
  BY <1>1, <1>14 DEF Record, PeerShutdown, Callback, FindSession, SessionClosed, devVars, strmVars
<1>15. ASSUME NEW k \in Kinds, DataShutdown(k) \/ DataClosed(k) PROVE ProducersHaveStreams'
  BY <1>1, <1>15 DEF DataShutdown, DataClosed, devVars, strmVars
<1>17. ASSUME NEW k \in Kinds, BindData(k) \/ RecordData(k) PROVE ProducersHaveStreams'
  BY <1>1, <1>17 DEF BindData, RecordData, strmVars
<1>18. CASE FinishConfig
  BY <1>18 DEF FinishConfig, ConfiguredUnless, strmVars
<1>16. CASE UNCHANGED vars
  BY <1>1, <1>16 DEF vars
<1> QED
  BY <1>3, <1>4, <1>5, <1>6, <1>7, <1>8, <1>9, <1>10, <1>11, <1>12, <1>13, <1>14, <1>15,
     <1>16, <1>17, <1>18
  DEF Next, DeviceThread

\* A producer runs only for a configured stream of a camera that is configured
\* or capturing, whatever failed on the way.
THEOREM ProducersAlwaysHaveStreams == Spec => []ProducersHaveStreams
<1>1. Init => ProducersHaveStreams
  BY DEF Init, ProducersHaveStreams
<1> QED
  BY <1>1, ProducersStep, TypeCorrect, PTL DEF Spec

-----------------------------------------------------------------------------
(* The data channels.                                                       *)

\* A connected channel has a live socket, or the end of the socket is being
\* reported, or was lost between the Bind and the record.
DataSockets == dataUp \subseteq dataAlive \cup dataCb \cup dataMissed

\* Every step keeps it.
LEMMA SocketsStep == DataSockets /\ [Next]_vars => DataSockets'
<1> SUFFICES ASSUME DataSockets, [Next]_vars PROVE DataSockets'
  OBVIOUS
<1> USE DEF endVars
<1>1. CASE UNCHANGED dataVars
  BY <1>1 DEF DataSockets, dataVars
<1>2. CASE UnInitAll
  BY <1>2 DEF DataSockets, UnInitAll, UnInitInput
<1>3. CASE CloseInput /\ UNCHANGED dataCb
  BY <1>3 DEF DataSockets, CloseInput
<1>4. CASE UNCHANGED <<dataSess, dataUp, dataCb, endVars>>
  BY <1>1, <1>4 DEF dataVars
<1>5. CASE Request \/ Ignore \/ OpenRefused \/ UpdateSettings \/ Notify
  BY <1>1, <1>5 DEF Request, SessionRequest, StreamsRequest, CaptureRequest, SettingsRequest,
     FwkRequest, HalRequest, Ignore, OpenRefused, UpdateSettings, Notify
<1>6. CASE Register \/ UnregisterIdle
  BY <1>2, <1>4, <1>6 DEF Register, UnregisterIdle
<1>7. CASE UnregisterOpen
  BY <1>1, <1>2, <1>3, <1>7 DEF UnregisterOpen, LeaveOpened, LeaveStreams
<1>8. CASE CloseOpened \/ CloseConfigured \/ CloseCapturing
  BY <1>3, <1>4, <1>8 DEF CloseOpened, CloseConfigured, CloseCapturing, CloseCamera
<1>9. CASE ConfigStreams \/ ReleaseStreams \/ StartCapture \/ StopCapture \/ FinishConfig
  BY <1>1, <1>9 DEF ConfigStreams, ReleaseStreams, StartCapture, StopCapture, FinishConfig
<1>10. ASSUME NEW s \in Sockets,
              Bind(s) \/ Record(s) \/ PeerShutdown(s) \/ Callback(s)
       PROVE  DataSockets'
  BY <1>1, <1>10 DEF Bind, Record, PeerShutdown, Callback, FindSession, SessionClosed
<1>11. ASSUME NEW k \in Kinds, BindData(k) \/ RecordData(k) PROVE DataSockets'
  BY <1>11 DEF DataSockets, BindData, RecordData
<1>12. ASSUME NEW k \in Kinds, DataShutdown(k) \/ DataClosed(k) PROVE DataSockets'
  BY <1>12 DEF DataSockets, DataShutdown, DataClosed
<1>13. CASE UNCHANGED vars
  BY <1>1, <1>13 DEF vars, dataVars
<1> QED
  BY <1>5, <1>6, <1>7, <1>8, <1>9, <1>10, <1>11, <1>12, <1>13 DEF Next, DeviceThread

\* The kinds that OpenChannel takes for opened: they hold a session, or the present
\* CONFIG has bound them or found them up.
Settled(k) == \/ k \in dataSess
              \/ opening[k] \in {"bound", "opened"}
              \/ opening # NoOpening /\ opening[k] = "none"

\* A channel that is taken for opened and is not up has its CLOSE queued, and so
\* have one that could not be opened and a configured camera that misses one.
DataInv ==
  ctlInit =>
    \/ Queued("CLOSE")
    \/ /\ \A k \in Kinds : opening[k] # "failed" /\ (Settled(k) => k \in dataUp)
       /\ state \in {"CONFIG_STREAM", "CAPTURE"} => Kinds \subseteq dataUp

\* A step that touches no data channel keeps it.
LEMMA DataQuiet ==
  ASSUME DataInv, ctlInit' => ctlInit, UNCHANGED <<dataSess, dataUp, opening>>,
         state' \in {"CONFIG_STREAM", "CAPTURE"} => state \in {"CONFIG_STREAM", "CAPTURE"},
         ctlInit /\ Queued("CLOSE") => Queued("CLOSE")'
  PROVE  DataInv'
BY DEF DataInv, Settled, NoOpening

\* Every step keeps it.
LEMMA DataStep == TypeOK /\ SessionInv /\ DataInv /\ [Next]_vars => DataInv'
<1> SUFFICES ASSUME TypeOK, SessionInv, DataInv, [Next]_vars PROVE DataInv'
  OBVIOUS
<1> DEFINE Held == Queued("CLOSE") => Queued("CLOSE")'
<1>q. queue \in Seq(Events)
  BY DEF TypeOK
<1>h. \A op : Handles(op) => /\ queue # <<>> /\ Head(queue).op = op /\ op \in Handled[state]
                             /\ opening = NoOpening
  BY DEF Handles, Head1, Idle
<1>p. ASSUME queue # <<>>, Pop, Head(queue).op # "CLOSE" PROVE Held
  BY <1>q, <1>p, PopKeeps DEF Queued, Pop
<1>a. ASSUME NEW r \in Seq(Events), queue' = queue \o r PROVE Held
  BY <1>a, <1>q, PostKeeps DEF Queued
<1>e. ASSUME dataSess' = {}, opening' = NoOpening, state' \notin {"CONFIG_STREAM", "CAPTURE"}
      PROVE  DataInv'
  BY <1>e DEF DataInv, Settled, NoOpening
<1>u. ASSUME ~ctlInit' \/ Queued("CLOSE")' PROVE DataInv'
  BY <1>u DEF DataInv
<1>s. state \notin OpenStates => dataSess = {}
  BY DEF SessionInv, SessionMatchesState
<1> USE DEF OpenStates, endVars
<1>1. CASE Request
  <2>1. PICK e \in Events : queue' = Append(queue, e)
    <3>1. ASSUME NEW op \in FwkOps, FwkRequest(op) PROVE \E e \in Events : queue' = Append(queue, e)
      BY <3>1, EvType DEF FwkRequest, PlainOps
    <3>2. ASSUME NEW op, NEW kinds \in SUBSET Kinds, HalRequest(op, kinds)
          PROVE  \E e \in Events : queue' = Append(queue, e)
      BY <3>2, HalAssumption DEF HalRequest, Events, PlainOps, KindOps
    <3> QED
      BY <1>1, <3>1, <3>2 DEF Request, SessionRequest, StreamsRequest, CaptureRequest, SettingsRequest
  <2>2. Held
    <3>1. queue' = queue \o <<e>> /\ <<e>> \in Seq(Events)
      BY <2>1, <1>q
    <3> QED
      BY <3>1, <1>a
  <2>3. UNCHANGED <<state, opening, ctlInit, dataSess, dataUp>>
    BY <1>1 DEF Request, SessionRequest, StreamsRequest, CaptureRequest, SettingsRequest,
       FwkRequest, HalRequest, dataVars
  <2> QED
    BY <2>2, <2>3, DataQuiet
<1>2. CASE Ignore
  <2>1. CASE state \in OpenStates
    <3>1. Held
      BY <1>2, <2>1, <1>p DEF Ignore, Handled, OpenedHandles, ConfiguredHandles, CapturingHandles, States
    <3> QED
      BY <1>2, <3>1, DataQuiet DEF Ignore, dataVars
  <2>2. CASE state \notin OpenStates
    BY <1>2, <2>2, <1>s, <1>e DEF Ignore, Idle, dataVars
  <2> QED
    BY <2>1, <2>2
<1>3. CASE Register \/ UnregisterIdle
  <2>1. state \in {"INIT", "REGIST"}
    BY <1>3, <1>h DEF Register, UnregisterIdle, Handled, InitHandles, RegistHandles,
       OpenedHandles, ConfiguredHandles, CapturingHandles, TypeOK, States
  <2>2. dataSess' = {} /\ state' \in {"INIT", "REGIST"} /\ opening' = NoOpening
    BY <1>3, <2>1, <1>s, <1>h DEF Register, UnregisterIdle, UnInitAll, UnInitInput, DisableDevice
  <2> QED
    BY <2>2, <1>e
<1>4. CASE UnregisterOpen
  <2>1. Held
    BY <1>4, <1>h, <1>p DEF UnregisterOpen
  <2>2. CASE UNCHANGED <<state, ctlInit, sessVars, mapVars, dataVars>>
    BY <1>4, <2>1, <2>2, DataQuiet DEF UnregisterOpen, dataVars
  <2>3. CASE UnInitAll
    BY <2>3, <1>u DEF UnInitAll, UnInitController
  <2>4. CASE state # "OPENED" /\ procs # "live" /\ UNCHANGED <<state, ctlInit>>
    <3>1. ~ctlInit
      BY <1>4, <2>4 DEF UnregisterOpen, SessionInv, InitInv
    <3> QED
      BY <2>4, <3>1, <1>u
  <2> QED
    BY <1>4, <2>2, <2>3, <2>4 DEF UnregisterOpen, LeaveOpened, LeaveStreams
<1>5. CASE OpenRefused
  <2>1. state = "REGIST"
    BY <1>5, <1>h DEF OpenRefused, Handled, InitHandles, RegistHandles, OpenedHandles, ConfiguredHandles,
       CapturingHandles, TypeOK, States
  <2> QED
    BY <1>5, <2>1, <1>s, <1>e, <1>h DEF OpenRefused, dataVars
<1>6. CASE CloseOpened \/ CloseConfigured \/ CloseCapturing
  <2>1. \/ state' = "REGIST" /\ CloseInput
        \/ ~ctlInit /\ UNCHANGED ctlInit
    BY <1>6 DEF CloseOpened, CloseConfigured, CloseCapturing, CloseCamera, SessionInv, InitInv
  <2>2. CASE state' = "REGIST" /\ CloseInput
    <3>1. dataSess' = {}
      BY <2>2 DEF CloseInput, SessionInv, InitInv
    <3>2. opening' = NoOpening
      BY <1>6, <1>h DEF CloseOpened, CloseConfigured, CloseCapturing
    <3> QED
      BY <2>2, <3>1, <3>2, <1>e
  <2> QED
    BY <2>1, <2>2, <1>u
<1>7. CASE ConfigStreams
  <2>1. Held /\ opening = NoOpening /\ UNCHANGED <<ctlInit, dataSess, dataUp>>
    BY <1>7, <1>h, <1>p DEF ConfigStreams, dataVars
  <2>2. state # "CAPTURE"
    BY <1>7, <1>h DEF ConfigStreams, Handled, InitHandles, RegistHandles, OpenedHandles,
       ConfiguredHandles, CapturingHandles, TypeOK, States
  <2>3. CASE UNCHANGED <<state, opening>>
    BY <2>1, <2>3, DataQuiet
  <2>4. CASE OpenDataChannels
    <3>1. SUFFICES ASSUME ctlInit, ~Queued("CLOSE") PROVE DataInv'
      BY <2>1, <1>u
    <3>2. \A k \in Kinds : opening'[k] \in {"none", "begun"} /\ (opening'[k] = "none" => k \in dataUp \/ opening' = NoOpening)
      BY <2>1, <2>4 DEF OpenDataChannels, NoOpening
    <3>3. \A k \in Kinds : k \in dataSess => k \in dataUp
      BY <3>1 DEF DataInv, Settled
    <3>4. \A k \in Kinds : opening'[k] # "failed" /\ (Settled(k)' => k \in dataUp')
      BY <2>1, <3>2, <3>3 DEF Settled
    <3>5. state' \in {"CONFIG_STREAM", "CAPTURE"} => Kinds \subseteq dataUp'
      <4>1. state' # state => Kinds \subseteq dataUp
        BY <2>4 DEF OpenDataChannels
      <4> QED
        BY <2>1, <3>1, <4>1 DEF DataInv
    <3> QED
      BY <3>4, <3>5 DEF DataInv
  <2> QED
    BY <1>7, <2>3, <2>4 DEF ConfigStreams, NegotiationFails
<1>8. CASE ReleaseStreams \/ StartCapture \/ StopCapture
  <2>1. queue # <<>> /\ Head(queue).op # "CLOSE" /\ Pop
        /\ UNCHANGED <<opening, ctlInit, dataSess, dataUp>>
    BY <1>8, <1>h DEF ReleaseStreams, StartCapture, StopCapture, dataVars
  <2>2. state \in {"CONFIG_STREAM", "CAPTURE"}
    BY <1>8, <1>h DEF ReleaseStreams, StartCapture, StopCapture, Handled, InitHandles,
       RegistHandles, OpenedHandles, ConfiguredHandles, CapturingHandles, TypeOK, States
  <2> QED
    BY <2>1, <2>2, <1>p, DataQuiet
<1>9. CASE UpdateSettings \/ Notify
  <2>1. queue # <<>> /\ Head(queue).op # "CLOSE" /\ Pop
        /\ UNCHANGED <<opening, ctlInit, dataSess, dataUp, state>>
    BY <1>9, <1>h DEF UpdateSettings, Notify, dataVars
  <2> QED
    BY <2>1, <1>p, DataQuiet
<1>10. ASSUME NEW s \in Sockets, Bind(s) PROVE DataInv'
  <2>1. state = "REGIST"
    BY <1>10, <1>h DEF Bind, Handled, InitHandles, RegistHandles, OpenedHandles, ConfiguredHandles,
       CapturingHandles, TypeOK, States
  <2> QED
    BY <1>10, <2>1, <1>s, <1>e, <1>h DEF Bind, SessionConnected, dataVars
<1>11. ASSUME NEW s \in Sockets, Record(s) \/ PeerShutdown(s) \/ FindSession(s) PROVE DataInv'
  <2>1. UNCHANGED <<opening, ctlInit, dataSess, dataUp, state, queue>>
    BY <1>11 DEF Record, PeerShutdown, FindSession, devVars, dataVars
  <2> QED
    BY <2>1, DataQuiet DEF Queued
<1>12. ASSUME NEW s \in Sockets, SessionClosed(s) PROVE DataInv'
  BY <1>12, <1>a, DisconnectionType, DataQuiet DEF SessionClosed, dataVars
<1>13. ASSUME NEW k \in Kinds, DataShutdown(k) PROVE DataInv'
  BY <1>13, DataQuiet DEF DataShutdown, devVars, Queued
<1>14. ASSUME NEW k \in Kinds, DataClosed(k) PROVE DataInv'
  <2>1. Queued("CLOSE")'
    BY <1>14, <1>q, DisconnectionCloses DEF DataClosed, Queued
  <2> QED
    BY <2>1, <1>u
<1>15. CASE UNCHANGED vars
  BY <1>15, DataQuiet DEF vars, Queued
<1>16. ASSUME NEW k \in Kinds, BindData(k) PROVE DataInv'
  <2>1. Queued("CLOSE") \/ opening'[k] = "failed" => Queued("CLOSE")'
    <3>1. CASE queue' = queue /\ opening'[k] # "failed"
      BY <3>1 DEF Queued
    <3>2. CASE queue' = queue \o Disconnection
      BY <3>2, <1>q, DisconnectionCloses DEF Queued
    <3> QED
      BY <1>16, <3>1, <3>2 DEF BindData, TypeOK
  <2>2. SUFFICES ASSUME ctlInit, ~Queued("CLOSE"), opening'[k] # "failed" PROVE DataInv'
    BY <1>16, <2>1, <1>u DEF BindData
  <2>3. opening # NoOpening /\ opening' \in {[opening EXCEPT ![k] = "opened"], [opening EXCEPT ![k] = "bound"]}
    BY <1>16, <2>2 DEF BindData, NoOpening, TypeOK
  <2>4. /\ k \in dataUp' /\ dataUp \subseteq dataUp' /\ UNCHANGED <<state, dataSess>>
    BY <1>16, <2>2 DEF BindData, DataInv, Settled, TypeOK
  <2>5. \A x \in Kinds \ {k} : opening'[x] = opening[x] /\ (Settled(x)' => Settled(x))
    BY <2>3, <2>4 DEF Settled, TypeOK
  <2> QED
    BY <2>2, <2>4, <2>5 DEF DataInv
<1>17. ASSUME NEW k \in Kinds, RecordData(k) PROVE DataInv'
  <2>1. /\ opening[k] = "bound" /\ opening' = [opening EXCEPT ![k] = "opened"]
        /\ dataSess' = dataSess \cup {k} /\ UNCHANGED <<queue, ctlInit, state, dataUp>>
    BY <1>17 DEF RecordData
  <2>2. opening # NoOpening
    BY <2>1 DEF NoOpening
  <2>3. \A x \in Kinds : Settled(x)' => Settled(x)
    BY <2>1, <2>2 DEF Settled, TypeOK
  <2>4. \A x \in Kinds : opening[x] # "failed" => opening'[x] # "failed"
    BY <2>1 DEF TypeOK
  <2> QED
    BY <2>1, <2>3, <2>4 DEF DataInv, Queued
<1>18. CASE FinishConfig
  <2>1. /\ opening # NoOpening /\ opening' = NoOpening /\ UNCHANGED <<queue, ctlInit, dataSess, dataUp>>
        /\ \A k \in Kinds : opening[k] \in {"none", "opened", "failed"}
    BY <1>18 DEF FinishConfig, dataVars, TypeOK, OpenSteps
  <2>2. SUFFICES ASSUME ctlInit, ~Queued("CLOSE") PROVE DataInv'
    BY <2>1, <1>u DEF Queued
  <2>3. Kinds \subseteq dataUp
    BY <2>1, <2>2 DEF DataInv, Settled
  <2>4. \A k \in Kinds : opening'[k] # "failed"
    BY <2>1 DEF NoOpening
  <2> QED
    BY <2>1, <2>3, <2>4 DEF DataInv
<1> QED
  BY <1>1, <1>2, <1>3, <1>4, <1>5, <1>6, <1>7, <1>8, <1>9, <1>10, <1>11, <1>12, <1>13, <1>14, <1>15,
     <1>16, <1>17, <1>18
  DEF Next, DeviceThread, Callback

\* A camera that is configured or capturing has every data channel connected over
\* a live socket, or its end is being reported, or a CLOSE is queued, however the
\* channels are lost, reopened and half closed; but for the shutdown that came
\* between the Bind and the record of a data session.
THEOREM DataLossesClose == Spec => []DataLossCloses
<1>1. Init => DataInv /\ DataSockets
  BY DEF Init, DataInv, DataSockets, Settled, NoOpening
<1>2. DataInv /\ DataSockets => DataLossCloses
  BY DEF DataInv, DataSockets, DataLossCloses
<1> QED
  BY <1>1, <1>2, DataStep, SocketsStep, TypeCorrect, SessionInvariant, PTL DEF Spec

-----------------------------------------------------------------------------
(* What the HAL hears of the channel.                                       *)

\* No close comes before the report of an open.
Early(q) == \A k \in DOMAIN q : q[k].op = "CONNECTED" =>
              \A i \in 1 .. k - 1 : q[i].op \notin {"CLOSE", "UNREGIST"}
\* Each close is followed by the report of it.
Paired(q) == \A i \in DOMAIN q : q[i].op = "CLOSE" => i + 1 \in DOMAIN q /\ q[i + 1].op = "DISCONNECTED"
\* Posted events that disturb neither.
Quiet(r) == r \in Seq(Events) /\ ~HasOp(r, "CONNECTED") /\ Paired(r)

\* If no open crossed a close: a camera whose open is to be reported is open, and
\* nothing closes it before the report; once the HAL has heard of the channel, or
\* is about to, a close is followed by the report of it; and a camera that the HAL
\* believes in is open, or the next event tells the HAL that it is not.
HearingInv ==
  ~crossed =>
    /\ HasOp(queue, "CONNECTED") => state \in OpenStates
    /\ Early(queue)
    /\ told = "connected" \/ HasOp(queue, "CONNECTED") => Paired(queue)
    /\ told = "connected" /\ ~MayFail({"notify", "provider"}) =>
         \/ state \in OpenStates
         \/ state = "REGIST" /\ queue # <<>> /\ Head(queue).op = "DISCONNECTED"

\* A pop disturbs neither order.
LEMMA PopOrder ==
  ASSUME NEW q \in Seq(Events), q # <<>>
  PROVE  /\ Early(q) => Early(Tail(q))
         /\ Paired(q) => Paired(Tail(q))
         /\ \A op : HasOp(Tail(q), op) => HasOp(q, op)
         /\ Head(q).op = "CONNECTED" => HasOp(q, "CONNECTED")
         /\ Early(q) /\ Head(q).op \in {"CLOSE", "UNREGIST"} => ~HasOp(q, "CONNECTED")
         /\ Paired(q) /\ Head(q).op = "CLOSE" => Tail(q) # <<>> /\ Head(Tail(q)).op = "DISCONNECTED"
<1>1. /\ Len(q) \in Nat /\ Len(q) > 0 /\ Head(q) = q[1] /\ DOMAIN q = 1 .. Len(q)
      /\ DOMAIN Tail(q) = 1 .. Len(q) - 1
      /\ \A i \in 1 .. Len(q) - 1 : Tail(q)[i] = q[i + 1]
  OBVIOUS
<1>2. Early(q) => Early(Tail(q))
  BY <1>1 DEF Early
<1>3. Paired(q) => Paired(Tail(q))
  <2>1. SUFFICES ASSUME Paired(q), NEW i \in 1 .. Len(q) - 1, Tail(q)[i].op = "CLOSE"
                 PROVE  i + 1 \in 1 .. Len(q) - 1 /\ Tail(q)[i + 1].op = "DISCONNECTED"
    BY <1>1 DEF Paired
  <2>2. i + 1 \in 1 .. Len(q) /\ q[i + 1].op = "CLOSE"
    BY <1>1, <2>1
  <2>3. (i + 1) + 1 \in 1 .. Len(q) /\ q[(i + 1) + 1].op = "DISCONNECTED"
    BY <1>1, <2>1, <2>2 DEF Paired
  <2>4. i + 1 \in 1 .. Len(q) - 1
    BY <1>1, <2>3
  <2> QED
    BY <1>1, <2>3, <2>4
<1>4. \A op : HasOp(Tail(q), op) => HasOp(q, op)
  BY <1>1 DEF HasOp
<1>5. Early(q) /\ Head(q).op \in {"CLOSE", "UNREGIST"} => ~HasOp(q, "CONNECTED")
  BY <1>1 DEF Early, HasOp
<1>6. Paired(q) /\ Head(q).op = "CLOSE" => Tail(q) # <<>> /\ Head(Tail(q)).op = "DISCONNECTED"
  <2>1. SUFFICES ASSUME Paired(q), Head(q).op = "CLOSE"
                 PROVE  Tail(q) # <<>> /\ Head(Tail(q)).op = "DISCONNECTED"
    OBVIOUS
  <2>2. 2 \in DOMAIN q /\ q[2].op = "DISCONNECTED"
    BY <1>1, <2>1 DEF Paired
  <2>3. Len(q) - 1 > 0 /\ Tail(q)[1] = q[2]
    BY <1>1, <2>2
  <2>4. Tail(q) \in Seq(Events) /\ Len(Tail(q)) = Len(q) - 1
    OBVIOUS
  <2>5. \A s \in Seq(Events) : Len(s) > 0 => s # <<>> /\ Head(s) = s[1]
    OBVIOUS
  <2>6. Len(Tail(q)) > 0
    BY <2>3, <2>4
  <2>7. Tail(q) # <<>> /\ Head(Tail(q)) = Tail(q)[1]
    BY <2>4, <2>5, <2>6
  <2> QED
    BY <2>2, <2>3, <2>7
<1>7. Head(q).op = "CONNECTED" => HasOp(q, "CONNECTED")
  BY <1>1 DEF HasOp
<1> QED
  BY <1>2, <1>3, <1>4, <1>5, <1>6, <1>7

\* Nor do posted events.
LEMMA PostOrder ==
  ASSUME NEW q \in Seq(Events), NEW r \in Seq(Events)
  PROVE  /\ Early(q) /\ ~HasOp(r, "CONNECTED") => Early(q \o r)
         /\ Paired(q) /\ Paired(r) => Paired(q \o r)
         /\ \A op : HasOp(q \o r, op) => HasOp(q, op) \/ HasOp(r, op)
         /\ q # <<>> => q \o r # <<>> /\ Head(q \o r) = Head(q)
<1>1. /\ Len(q) \in Nat /\ Len(r) \in Nat /\ DOMAIN q = 1 .. Len(q) /\ DOMAIN r = 1 .. Len(r)
      /\ DOMAIN (q \o r) = 1 .. Len(q) + Len(r)
      /\ \A i \in 1 .. Len(q) : (q \o r)[i] = q[i]
      /\ \A i \in Len(q) + 1 .. Len(q) + Len(r) : (q \o r)[i] = r[i - Len(q)] /\ i - Len(q) \in DOMAIN r
  OBVIOUS
<1>2. Early(q) /\ ~HasOp(r, "CONNECTED") => Early(q \o r)
  BY <1>1 DEF Early, HasOp
<1>3. Paired(q) /\ Paired(r) => Paired(q \o r)
  <2>1. SUFFICES ASSUME Paired(q), Paired(r), NEW i \in 1 .. Len(q) + Len(r), (q \o r)[i].op = "CLOSE"
                 PROVE  i + 1 \in 1 .. Len(q) + Len(r) /\ (q \o r)[i + 1].op = "DISCONNECTED"
    BY <1>1 DEF Paired
  <2>2. CASE i \in 1 .. Len(q)
    <3>1. i + 1 \in 1 .. Len(q) /\ q[i + 1].op = "DISCONNECTED"
      BY <1>1, <2>1, <2>2 DEF Paired
    <3> QED
      BY <1>1, <3>1
  <2>3. CASE i \in Len(q) + 1 .. Len(q) + Len(r)
    <3>1. (i - Len(q)) + 1 \in 1 .. Len(r) /\ r[(i - Len(q)) + 1].op = "DISCONNECTED"
      BY <1>1, <2>1, <2>3 DEF Paired
    <3>2. i + 1 \in Len(q) + 1 .. Len(q) + Len(r) /\ (i + 1) - Len(q) = (i - Len(q)) + 1
      BY <1>1, <2>3, <3>1
    <3> QED
      BY <1>1, <3>1, <3>2
  <2> QED
    BY <1>1, <2>2, <2>3
<1>4. \A op : HasOp(q \o r, op) => HasOp(q, op) \/ HasOp(r, op)
  BY <1>1 DEF HasOp
<1>5. q # <<>> => q \o r # <<>> /\ Head(q \o r) = Head(q)
  BY <1>1
<1> QED
  BY <1>2, <1>3, <1>4, <1>5

\* What the handlers and the callbacks post.
LEMMA QuietPosts ==
  /\ Quiet(<<>>) /\ Quiet(Disconnection)
  /\ \A e \in Events : e.op \notin {"CLOSE", "CONNECTED"} => Quiet(<<e>>)
<1>1. Quiet(<<>>)
  BY ConcatType DEF Quiet, HasOp, Paired
<1>2. Quiet(Disconnection)
  <2>1. /\ DOMAIN Disconnection = {1, 2} /\ Disconnection[1].op = "CLOSE"
        /\ Disconnection[2].op = "DISCONNECTED"
    BY DEF Disconnection, Ev
  <2> QED
    BY <2>1, DisconnectionType DEF Quiet, HasOp, Paired
<1>3. \A e \in Events : e.op \notin {"CLOSE", "CONNECTED"} => Quiet(<<e>>)
  BY DEF Quiet, HasOp, Paired
<1> QED
  BY <1>1, <1>2, <1>3

\* A step that only posts.
LEMMA HearingPosted ==
  ASSUME TypeOK, HearingInv, NEW r, Quiet(r), queue' = queue \o r, crossed' = crossed, state' = state,
         told' = told
  PROVE  HearingInv'
<1>1. /\ Early(queue) => Early(queue')
      /\ Paired(queue) => Paired(queue')
      /\ HasOp(queue', "CONNECTED") => HasOp(queue, "CONNECTED")
      /\ queue # <<>> => queue' # <<>> /\ Head(queue') = Head(queue)
  BY PostOrder DEF Quiet, TypeOK
<1> QED
  BY <1>1 DEF HearingInv

\* A step that takes an event which closes nothing and leaves an open camera open.
LEMMA HearingPopped ==
  ASSUME TypeOK, HearingInv, queue # <<>>, NEW r, Quiet(r), queue' = Tail(queue) \o r,
         crossed => crossed', state \in OpenStates => state' \in OpenStates,
         ~crossed /\ told' = "connected" => told = "connected" \/ Head(queue).op = "CONNECTED",
         ~crossed /\ told' = "connected" /\ ~MayFail({"notify", "provider"}) => state' \in OpenStates
  PROVE  HearingInv'
<1>1. queue \in Seq(Events) /\ Tail(queue) \in Seq(Events)
  BY PopType DEF TypeOK
<1>2. /\ Early(queue) => Early(queue')
      /\ Paired(queue) => Paired(queue')
      /\ HasOp(queue', "CONNECTED") => HasOp(queue, "CONNECTED")
  BY <1>1, PopOrder, PostOrder DEF Quiet
<1>3. Head(queue).op = "CONNECTED" => HasOp(queue, "CONNECTED")
  BY <1>1, PopOrder
<1> QED
  BY <1>2, <1>3 DEF HearingInv

\* A step that takes a close.
LEMMA HearingClosed ==
  ASSUME TypeOK, HearingInv, queue # <<>>, Head(queue).op \in {"CLOSE", "UNREGIST"}, queue' = Tail(queue),
         crossed' = crossed, state' \in {state, "REGIST", "INIT"},
         told' = "connected" => told = "connected" /\ (state' = state \/ Head(queue).op = "CLOSE"),
         state' = "INIT" => state = "INIT" \/ told' # "connected"
  PROVE  HearingInv'
<1>1. queue \in Seq(Events)
  BY DEF TypeOK
<1>2. SUFFICES ASSUME ~crossed PROVE HearingInv'
  BY DEF HearingInv
<1>3. ~HasOp(queue, "CONNECTED") /\ ~HasOp(queue', "CONNECTED") /\ Early(queue')
  BY <1>1, <1>2, PopOrder DEF HearingInv
<1>4. told' = "connected" => Paired(queue')
  BY <1>1, <1>2, PopOrder DEF HearingInv
<1>5. ASSUME told' = "connected", ~MayFail({"notify", "provider"})
      PROVE  \/ state' \in OpenStates
             \/ state' = "REGIST" /\ queue' # <<>> /\ Head(queue').op = "DISCONNECTED"
  <2>1. state \in OpenStates
    BY <1>2, <1>5 DEF HearingInv
  <2>2. CASE Head(queue).op = "CLOSE"
    BY <1>1, <1>2, <1>5, <2>1, <2>2, PopOrder DEF HearingInv, OpenStates
  <2>3. CASE state' = state
    BY <2>1, <2>3
  <2> QED
    BY <1>5, <2>2, <2>3
<1> QED
  BY <1>3, <1>4, <1>5 DEF HearingInv

\* Every step keeps it.
LEMMA HearingStep == TypeOK /\ SessionInv /\ HearingInv /\ [Next]_vars => HearingInv'
<1> SUFFICES ASSUME TypeOK, SessionInv, HearingInv, [Next]_vars PROVE HearingInv'
  OBVIOUS
<1> USE DEF OpenStates
<1>q. queue \in Seq(Events)
  BY DEF TypeOK
<1>h. \A op : Handles(op) => queue # <<>> /\ Head(queue).op = op /\ op \in Handled[state]
  BY DEF Handles, Head1
<1>u. ASSUME UNCHANGED <<queue, state, told, crossed>> PROVE HearingInv'
  BY <1>u DEF HearingInv
<1>e. ASSUME NEW e \in Events, queue' = Append(queue, e) PROVE queue' = queue \o <<e>>
  BY <1>e, <1>q
<1>t. queue # <<>> => Tail(queue) \in Seq(Events) /\ Tail(queue) \o <<>> = Tail(queue)
  BY <1>q
<1>p. ASSUME Pop, queue # <<>>, crossed' = crossed, state \in OpenStates => state' \in OpenStates,
             told' = "connected" => told = "connected" \/ Head(queue).op = "CONNECTED",
             ~crossed /\ told' = "connected" /\ ~MayFail({"notify", "provider"}) => state' \in OpenStates
      PROVE  HearingInv'
  <2>1. queue' = Tail(queue) \o <<>>
    BY <1>p, <1>t DEF Pop
  <2> QED
    BY <1>p, <2>1, QuietPosts, HearingPopped
\* A camera that the HAL believes in is open, or the head of the queue tells it.
<1>b. ~crossed /\ told = "connected" /\ ~MayFail({"notify", "provider"}) =>
        state \in OpenStates \/ (state = "REGIST" /\ Head(queue).op = "DISCONNECTED")
  BY DEF HearingInv
<1>1. CASE Request
  <2>1. ASSUME NEW op \in FwkOps, FwkRequest(op) PROVE HearingInv'
    <3>1. Ev(op) \in Events /\ Ev(op).op = op /\ op \notin {"CLOSE", "CONNECTED"}
      BY EvType DEF PlainOps, FwkOps, Ev
    <3> QED
      BY <2>1, <3>1, <1>e, QuietPosts, HearingPosted DEF FwkRequest, halVars
  <2>2. ASSUME NEW op, NEW kinds \in SUBSET Kinds, HalRequest(op, kinds) PROVE HearingInv'
    <3>1. PICK e \in Events : e = [op |-> op, kinds |-> kinds]
      BY <2>2, HalAssumption DEF HalRequest, Events, PlainOps, KindOps
    <3>2. e.op = op /\ op # "CONNECTED" /\ queue' = queue \o <<e>> /\ UNCHANGED state
      BY <2>2, <3>1, <1>e, HalAssumption DEF HalRequest
    <3>3. CASE op # "CLOSE"
      <4>1. told' = told /\ crossed' = crossed
        BY <2>2, <3>3 DEF HalRequest, TypeOK
      <4> QED
        BY <3>2, <3>3, <4>1, QuietPosts, HearingPosted
    <3>4. CASE op = "CLOSE"
      <4>1. told' = "none" /\ (~crossed' => ~crossed /\ ~HasOp(queue, "CONNECTED"))
        BY <2>2, <3>4 DEF HalRequest, Queued
      <4>2. <<e>> \in Seq(Events) /\ ~HasOp(<<e>>, "CONNECTED")
        BY <3>2 DEF HasOp
      <4>3. /\ Early(queue) => Early(queue')
            /\ HasOp(queue', "CONNECTED") => HasOp(queue, "CONNECTED")
        BY <1>q, <3>2, <4>2, PostOrder
      <4> QED
        BY <4>1, <4>3 DEF HearingInv
    <3> QED
      BY <3>3, <3>4
  <2> QED
    BY <1>1, <2>1, <2>2 DEF Request, SessionRequest, StreamsRequest, CaptureRequest, SettingsRequest
<1>2. CASE Ignore
  <2>1. state = "REGIST" => Head(queue).op # "DISCONNECTED"
    BY <1>2 DEF Ignore, Handled, RegistHandles, States
  <2>2. Pop /\ queue # <<>> /\ UNCHANGED <<state, told, crossed>>
    BY <1>2 DEF Ignore, halVars
  <2> QED
    BY <2>1, <2>2, <1>b, <1>p
<1>3. CASE Register \/ UnregisterIdle
  <2>1. /\ state \in {"INIT", "REGIST"} /\ queue # <<>> /\ Head(queue).op \in {"REGIST", "UNREGIST"}
        /\ Pop /\ UNCHANGED <<told, crossed>>
    BY <1>3, <1>h DEF Register, UnregisterIdle, Handled, InitHandles, RegistHandles,
       OpenedHandles, ConfiguredHandles, CapturingHandles, TypeOK, States
  <2> QED
    BY <2>1, <1>b, <1>p
<1>4. CASE UnregisterOpen
  <2>1. queue # <<>> /\ Head(queue).op = "UNREGIST" /\ Pop /\ UNCHANGED crossed
    BY <1>4, <1>h DEF UnregisterOpen
  <2>2. CASE UNCHANGED <<state, told>>
    BY <2>1, <2>2, HearingClosed DEF Pop
  <2>3. CASE told' = "disconnected" /\ state' \in {state, "INIT"}
    BY <2>1, <2>3, HearingClosed DEF Pop
  <2> QED
    BY <1>4, <2>2, <2>3 DEF UnregisterOpen, LeaveOpened, LeaveStreams, DisableDevice
<1>5. CASE OpenRefused
  <2>1. /\ queue # <<>> /\ Head(queue).op = "OPEN" /\ state = "REGIST"
        /\ UNCHANGED <<state, told, crossed>>
    BY <1>5, <1>h DEF OpenRefused, Handled, InitHandles, RegistHandles, OpenedHandles, ConfiguredHandles,
       CapturingHandles, TypeOK, States, halVars
  <2>2. PICK r : Quiet(r) /\ queue' = Tail(queue) \o r
    BY <1>5, <2>1, <1>t, QuietPosts DEF OpenRefused, AccessRefused, BindFails, Pop
  <2> QED
    BY <2>1, <2>2, <1>b, HearingPopped
<1>6. CASE CloseOpened \/ CloseConfigured \/ CloseCapturing
  <2>1. /\ queue # <<>> /\ Head(queue).op = "CLOSE" /\ Pop /\ UNCHANGED <<told, crossed>>
        /\ state' \in {state, "REGIST"}
    BY <1>6, <1>h DEF CloseOpened, CloseConfigured, CloseCapturing, halVars
  <2> QED
    BY <2>1, HearingClosed DEF Pop
<1>7. CASE ConfigStreams
  <2>1. /\ queue # <<>> /\ Head(queue).op = "CONFIG" /\ state \in {"OPENED", "CONFIG_STREAM"}
        /\ state' \in {state, "CONFIG_STREAM"} /\ UNCHANGED <<told, crossed>>
    <3>1. queue # <<>> /\ Head(queue).op = "CONFIG" /\ state \in {"OPENED", "CONFIG_STREAM"}
      BY <1>7, <1>h DEF ConfigStreams, Handled, InitHandles, RegistHandles, OpenedHandles,
         ConfiguredHandles, CapturingHandles, TypeOK, States
    <3>2. state' \in {state, "CONFIG_STREAM"} /\ UNCHANGED <<told, crossed>>
      BY <1>7 DEF ConfigStreams, NegotiationFails, OpenDataChannels, halVars
    <3> QED
      BY <3>1, <3>2
  <2> QED
    BY <1>7, <2>1, <1>p DEF ConfigStreams
<1>8. CASE ReleaseStreams \/ StartCapture \/ StopCapture
  <2>1. /\ queue # <<>> /\ Pop /\ UNCHANGED <<told, crossed>> /\ state' \in OpenStates
    BY <1>8, <1>h DEF ReleaseStreams, StartCapture, AskSink, StopCapture, Handled, InitHandles,
       RegistHandles, OpenedHandles, ConfiguredHandles, CapturingHandles, TypeOK, States, halVars
  <2> QED
    BY <2>1, <1>p
<1>9. CASE UpdateSettings
  <2>1. /\ queue # <<>> /\ Head(queue).op = "UPDATE" /\ Pop /\ UNCHANGED <<told, crossed, state>>
    BY <1>9, <1>h DEF UpdateSettings, halVars
  <2> QED
    BY <2>1, <1>b, <1>p
<1>10. CASE Notify
  <2>1. /\ queue # <<>> /\ Pop /\ UNCHANGED <<crossed, state>>
    BY <1>10, <1>h DEF Notify
  <2>2. CASE Head(queue).op = "CONNECTED"
    <3>1. ~crossed => state \in OpenStates
      BY <1>q, <2>1, <2>2, PopOrder DEF HearingInv
    <3> QED
      BY <2>1, <2>2, <3>1, <1>p
  <2>3. CASE Head(queue).op = "DISCONNECTED"
    <3>1. told' = "disconnected" \/ (MayFail({"notify", "provider"}) /\ told' = told)
      BY <1>10, <2>3 DEF Notify, TellHal
    <3> QED
      BY <2>1, <2>3, <3>1, <1>p
  <2> QED
    BY <1>10, <1>h, <2>2, <2>3 DEF Notify
<1>11. ASSUME NEW s \in Sockets, Bind(s) PROVE HearingInv'
  <2>1. /\ queue # <<>> /\ state = "REGIST" /\ state' = "OPENED" /\ Head(queue).op = "OPEN"
        /\ queue' = Tail(queue) \o Connection /\ UNCHANGED told
        /\ ~crossed' => ~crossed /\ ~HasOp(queue, "CLOSE") /\ ~HasOp(queue, "UNREGIST")
    <3>1. queue # <<>> /\ Head(queue).op = "OPEN" /\ state = "REGIST"
      BY <1>11, <1>h DEF Bind, Handled, InitHandles, RegistHandles, OpenedHandles,
         ConfiguredHandles, CapturingHandles, TypeOK, States
    <3>2. state' = "OPENED" /\ queue' = Tail(queue) \o Connection /\ UNCHANGED told
      BY <1>11 DEF Bind, SessionConnected
    <3>3. crossed' = (crossed \/ HasOp(queue, "CLOSE") \/ HasOp(queue, "UNREGIST"))
      BY <1>11 DEF Bind, Queued
    <3>4. ~crossed' => ~crossed /\ ~HasOp(queue, "CLOSE") /\ ~HasOp(queue, "UNREGIST")
      BY <3>3, Zenon
    <3> QED
      BY <3>1, <3>2, <3>4
  <2>2. SUFFICES ASSUME ~crossed' PROVE HearingInv'
    BY DEF HearingInv
  <2>3. ~HasOp(Tail(queue), "CLOSE") /\ ~HasOp(Tail(queue), "UNREGIST") /\ Tail(queue) \in Seq(Events)
    BY <2>1, <2>2, <1>q, <1>t, PopOrder
  <2>4. Connection \in Seq(Events) /\ DOMAIN Connection = {1} /\ Connection[1].op = "CONNECTED"
    BY EvType DEF Connection, PlainOps, Ev
  <2>5. ~HasOp(Connection, "CLOSE") /\ ~HasOp(Connection, "UNREGIST")
    BY <2>4 DEF HasOp
  <2>6. ~HasOp(queue', "CLOSE") /\ ~HasOp(queue', "UNREGIST")
    BY <2>1, <2>3, <2>4, <2>5, PostOrder
  <2>7. Early(queue') /\ Paired(queue')
    <3>1. queue' \in Seq(Events)
      BY <2>1, <2>3, <2>4, ConcatType
    <3> QED
      BY <3>1, <2>6 DEF Early, Paired, HasOp
  <2> QED
    BY <2>1, <2>7 DEF HearingInv
<1>12. ASSUME NEW s \in Sockets, Record(s) \/ PeerShutdown(s) \/ FindSession(s) PROVE HearingInv'
  BY <1>12, <1>u DEF Record, PeerShutdown, FindSession, devVars, halVars
<1>13. ASSUME NEW s \in Sockets, SessionClosed(s) PROVE HearingInv'
  BY <1>13, QuietPosts, HearingPosted DEF SessionClosed, halVars
<1>14. ASSUME NEW k \in Kinds, DataShutdown(k) PROVE HearingInv'
  BY <1>14, <1>u DEF DataShutdown, devVars, halVars
<1>15. ASSUME NEW k \in Kinds, DataClosed(k) PROVE HearingInv'
  BY <1>15, QuietPosts, HearingPosted DEF DataClosed, halVars
<1>17. ASSUME NEW k \in Kinds, BindData(k) PROVE HearingInv'
  <2>1. CASE queue' = queue
    BY <1>17, <2>1, <1>u DEF BindData, halVars
  <2>2. CASE queue' = queue \o Disconnection
    BY <1>17, <2>2, QuietPosts, HearingPosted DEF BindData, halVars
  <2> QED
    BY <1>17, <2>1, <2>2 DEF BindData
<1>18. ASSUME NEW k \in Kinds, RecordData(k) PROVE HearingInv'
  BY <1>18, <1>u DEF RecordData, halVars
<1>19. CASE FinishConfig
  <2>1. state \in OpenStates /\ state' \in OpenStates /\ UNCHANGED <<queue, told, crossed>>
    BY <1>19 DEF FinishConfig, ConfiguredUnless, SessionInv, OpeningInv, halVars
  <2> QED
    BY <2>1 DEF HearingInv
<1>16. CASE UNCHANGED vars
  BY <1>16, <1>u DEF vars
<1> QED
  BY <1>1, <1>2, <1>3, <1>4, <1>5, <1>6, <1>7, <1>8, <1>9, <1>10, <1>11, <1>12, <1>13, <1>14, <1>15,
     <1>16, <1>17, <1>18, <1>19 DEF Next, DeviceThread, Callback

\* While no open crosses a close and the HAL can be told, it is never left
\* believing in a channel that is gone: of an open camera, or a DISCONNECTED is on
\* its way, however the two posts of a lost session fall among the requests.
THEOREM NoCloseIsSilent == Spec => []NoSilentClose
<1>1. Init => HearingInv
  BY DEF Init, HearingInv, HasOp, Early, Paired
<1>2. TypeOK /\ HearingInv => NoSilentClose
  <2>1. SUFFICES ASSUME TypeOK, HearingInv, told = "connected", ~crossed,
                        ~MayFail({"notify", "provider"}), state \notin OpenStates
                 PROVE  HasOp(queue, "DISCONNECTED")
    BY DEF NoSilentClose, Queued
  <2>2. queue \in Seq(Events) /\ queue # <<>> /\ Head(queue).op = "DISCONNECTED"
    BY <2>1 DEF HearingInv, TypeOK
  <2>3. 1 \in DOMAIN queue /\ Head(queue) = queue[1]
    BY <2>2
  <2> QED
    BY <2>2, <2>3 DEF HasOp
<1> QED
  BY <1>1, <1>2, HearingStep, TypeCorrect, SessionInvariant, PTL DEF Spec

----------------------------------------------------------------------------
(* Base64: each group of three bytes comes back from its four codes, the   *)
(* last one from as many as stand before the padding.                      *)
Byte == 0..255
Sextet == 0..63
Character == Sextet \union {Pad}

LEMMA Characters ==
  /\ Pad \notin Sextet /\ Pad \in Character /\ 0 \in Byte /\ Sextet \subseteq Character
  /\ Character \subseteq Nat /\ NotFound \in Nat
BY DEF Pad, NotFound, Byte, Sextet, Character

\* Four codes give back the three bytes they were made of; two or three of them
\* give back one or two.
Restores(code, x, y, z) ==
  /\ \A j \in 1..4 : code[j] \in Sextet
  /\ Bytes(code[1], code[2], code[3], code[4]) = <<x, y, z>>
  /\ y = 0 => \A p \in Nat, q \in Nat : Bytes(code[1], code[2], p, q)[1] = x
  /\ \A p \in Nat : Bytes(code[1], code[2], code[3], p)[1] = x /\ Bytes(code[1], code[2], code[3], p)[2] = y

LEMMA CodesRestore ==
  ASSUME NEW x \in Byte, NEW y \in Byte, NEW z \in Byte
  PROVE  Restores(Codes(x, y, z), x, y, z)
<1> USE DEF Byte, Sextet
<1>1. PICK a \in 0..63, b \in 0..3 : x = 4 * a + b
  <2>1. x \div 4 \in 0..63 /\ x % 4 \in 0..3 /\ x % 4 = x - 4 * (x \div 4)
    OBVIOUS
  <2> QED
    BY <2>1
<1>2. PICK c \in 0..15, d \in 0..15 : y = 16 * c + d
  <2>1. y \div 16 \in 0..15 /\ y % 16 \in 0..15 /\ y % 16 = y - 16 * (y \div 16)
    OBVIOUS
  <2> QED
    BY <2>1
<1>3. PICK e \in 0..3, f \in 0..63 : z = 64 * e + f
  <2>1. z \div 64 \in 0..3 /\ z % 64 \in 0..63 /\ z % 64 = z - 64 * (z \div 64)
    OBVIOUS
  <2> QED
    BY <2>1
<1>4. /\ x \div 4 = a /\ x % 4 = b /\ y \div 16 = c /\ y % 16 = d /\ z \div 64 = e /\ z % 64 = f
  BY <1>1, <1>2, <1>3
<1>5. Codes(x, y, z) = <<a, 16 * b + c, 4 * d + e, f>>
  BY <1>4 DEF Codes
<1>6. /\ (16 * b + c) \div 16 = b /\ (16 * b + c) % 16 = c /\ b % 4 = b
      /\ (4 * d + e) \div 4 = d /\ (4 * d + e) % 4 = e /\ d % 16 = d
      /\ 16 * b + c \in 0..63 /\ 4 * d + e \in 0..63
  OBVIOUS
<1>7. (a * 4 + b) % 256 = x /\ (c * 16 + d) % 256 = y /\ (e * 64 + f) % 256 = z
  BY <1>1, <1>2, <1>3
<1>8. /\ \A j \in 1..4 : Codes(x, y, z)[j] \in Sextet
      /\ Bytes(a, 16 * b + c, 4 * d + e, f) = <<x, y, z>>
  BY <1>5, <1>6, <1>7 DEF Bytes
<1>9. /\ \A p \in Nat, q \in Nat : Bytes(a, 16 * b + c, p, q)[1] = x
      /\ \A p \in Nat : Bytes(a, 16 * b + c, 4 * d + e, p)[1] = x /\ Bytes(a, 16 * b + c, 4 * d + e, p)[2] = y
  BY <1>6, <1>7 DEF Bytes
<1> QED
  BY <1>5, <1>8, <1>9 DEF Restores

LEMMA OneOf ==
  ASSUME NEW T, NEW s \in Seq(T), NEW d \in T, NEW i
  PROVE  OrElse(s, i, d) \in T
<1>1. DOMAIN s = 1..Len(s) /\ \A k \in 1..Len(s) : s[k] \in T
  OBVIOUS
<1> QED
  BY <1>1 DEF OrElse

\* A number is a multiple of three, or of four, and a rest.
LEMMA Rest ==
  ASSUME NEW n \in Nat
  PROVE  /\ \E q \in Nat, r \in 0..2 : n = 3 * q + r
         /\ \E q \in Nat, r \in 0..3 : n = 4 * q + r
<1>1. \E q \in Nat, r \in 0..2 : n = 3 * q + r
  <2> DEFINE q == n \div 3
             r == n % 3
  <2>1. q \in Nat /\ r \in 0..2 /\ r = n - 3 * q
    OBVIOUS
  <2> HIDE DEF q, r
  <2>2. n = 3 * q + r
    BY <2>1
  <2> QED
    BY <2>1, <2>2
<1>2. \E q \in Nat, r \in 0..3 : n = 4 * q + r
  <2> DEFINE q == n \div 4
             r == n % 4
  <2>1. q \in Nat /\ r \in 0..3 /\ r = n - 4 * q
    OBVIOUS
  <2> HIDE DEF q, r
  <2>2. n = 4 * q + r
    BY <2>1
  <2> QED
    BY <2>1, <2>2
<1> QED
  BY <1>1, <1>2

LEMMA Thirds ==
  ASSUME NEW n \in Nat, NEW q \in Int, NEW r \in 0..2, n = 3 * q + r
  PROVE  n \div 3 = q /\ n % 3 = r
BY SMT

LEMMA Quarters ==
  ASSUME NEW n \in Nat, NEW q \in Int, NEW r \in 0..3, n = 4 * q + r
  PROVE  n \div 4 = q /\ n % 4 = r
BY SMT

\* The j-th of the k-th group, and every element is one.
LEMMA InThirds ==
  ASSUME NEW k \in Nat \ {0}, NEW j \in 1..3
  PROVE  Group(3 * (k - 1) + j, 3) = k /\ Place(3 * (k - 1) + j, 3) = j
<1>1. 3 * (k - 1) + j + 3 - 1 = 3 * k + (j - 1) /\ 3 * k + (j - 1) \in Nat /\ j - 1 \in 0..2
  OBVIOUS
<1>2. (3 * k + (j - 1)) \div 3 = k
  BY <1>1, Thirds
<1>3. (3 * k + (j - 1)) % 3 = j - 1
  BY <1>1, Thirds
<1>4. Group(3 * (k - 1) + j, 3) = k
  BY <1>1, <1>2 DEF Group
<1>5. Place(3 * (k - 1) + j, 3) = j - 1 + 1
  BY <1>1, <1>3 DEF Place
<1> QED
  BY <1>4, <1>5

LEMMA InQuarters ==
  ASSUME NEW k \in Nat \ {0}, NEW j \in 1..4
  PROVE  Group(4 * (k - 1) + j, 4) = k /\ Place(4 * (k - 1) + j, 4) = j
<1>1. 4 * (k - 1) + j + 4 - 1 = 4 * k + (j - 1) /\ 4 * k + (j - 1) \in Nat /\ j - 1 \in 0..3
  OBVIOUS
<1>2. (4 * k + (j - 1)) \div 4 = k
  BY <1>1, Quarters
<1>3. (4 * k + (j - 1)) % 4 = j - 1
  BY <1>1, Quarters
<1>4. Group(4 * (k - 1) + j, 4) = k
  BY <1>1, <1>2 DEF Group
<1>5. Place(4 * (k - 1) + j, 4) = j - 1 + 1
  BY <1>1, <1>3 DEF Place
<1> QED
  BY <1>4, <1>5

LEMMA HasPlace ==
  ASSUME NEW n \in Nat \ {0}
  PROVE  /\ \E k \in Nat \ {0}, j \in 1..3 : n = 3 * (k - 1) + j
         /\ \E k \in Nat \ {0}, j \in 1..4 : n = 4 * (k - 1) + j
<1>1. n - 1 \in Nat
  OBVIOUS
<1>2. \E k \in Nat \ {0}, j \in 1..3 : n = 3 * (k - 1) + j
  <2>1. PICK q \in Nat, r \in 0..2 : n - 1 = 3 * q + r
    BY <1>1, Rest
  <2>2. q + 1 \in Nat \ {0} /\ r + 1 \in 1..3
    BY <2>1
  <2> WITNESS q + 1 \in Nat \ {0}, r + 1 \in 1..3
  <2> QED
    BY <2>1
<1>3. \E k \in Nat \ {0}, j \in 1..4 : n = 4 * (k - 1) + j
  <2>1. PICK q \in Nat, r \in 0..3 : n - 1 = 4 * q + r
    BY <1>1, Rest
  <2>2. q + 1 \in Nat \ {0} /\ r + 1 \in 1..4
    BY <2>1
  <2> WITNESS q + 1 \in Nat \ {0}, r + 1 \in 1..4
  <2> QED
    BY <2>1
<1> QED
  BY <1>2, <1>3

\* The n of a list that come before the first in S.
LEMMA BeforeIs ==
  ASSUME NEW T, NEW list \in Seq(T), NEW S, NEW n \in 0..Len(list),
         \A i \in 1..n : list[i] \notin S, n < Len(list) => list[n + 1] \in S
  PROVE  /\ Before(list, S) \in Seq(T) /\ Len(Before(list, S)) = n
         /\ \A i \in 1..n : Before(list, S)[i] = list[i]
<1> DEFINE First(m) == (\A i \in 1..m : list[i] \notin S) /\ (m < Len(list) => list[m + 1] \in S)
<1>1. Len(list) \in Nat
  OBVIOUS
<1>2. ASSUME NEW m \in 0..Len(list), First(m) PROVE m = n
  <2>1. CASE m < n
    <3>1. m + 1 \in 1..n /\ m < Len(list)
      BY <1>1, <2>1
    <3> QED
      BY <1>2, <3>1
  <2>2. CASE m > n
    <3>1. n + 1 \in 1..m /\ n < Len(list)
      BY <1>1, <2>2
    <3> QED
      BY <1>2, <3>1
  <2> QED
    BY <1>1, <2>1, <2>2
<1>3. First(n)
  OBVIOUS
<1>4. (CHOOSE m \in 0..Len(list) : First(m)) = n
  BY <1>2, <1>3
<1>5. Before(list, S) = SubSeq(list, 1, n)
  BY <1>4 DEF Before
<1>6. \A i \in 1..n : list[i] \in T
  BY <1>1
<1> QED
  BY <1>1, <1>5, <1>6

\* The codes of the k-th group of an encoding, padded when the text ends.
CodesOf(b, k) == Codes(OrElse(b, 3 * k - 2, 0), OrElse(b, 3 * k - 1, 0), OrElse(b, 3 * k, 0))

\* The text of three bytes and their remainder: its length, its codes by their
\* groups, and where the padding begins.
Unpadded(n) == (4 * n + 2) \div 3

LEMMA EncodedIs ==
  ASSUME NEW b \in Seq(Byte)
  PROVE  /\ Base64Encode(b) \in Seq(Character) /\ Len(Base64Encode(b)) = EncodedLength(b)
         /\ \A k \in Nat \ {0}, j \in 1..4 :
              4 * (k - 1) + j <= EncodedLength(b) =>
                Base64Encode(b)[4 * (k - 1) + j] = IF j <= Len(b) - 3 * k + 4 THEN CodesOf(b, k)[j] ELSE Pad
<1> DEFINE E == Base64Encode(b)
<1>1. Len(b) \in Nat /\ EncodedLength(b) \in Nat
  <2>1. Len(b) \in Nat
    OBVIOUS
  <2>2. Group(Len(b), 3) \in Nat
    BY <2>1, SMT DEF Group
  <2> QED
    BY <2>1, <2>2 DEF EncodedLength
<1>2. \A i \in Nat : OrElse(b, i, 0) \in Byte
  BY Characters, OneOf
<1>3. ASSUME NEW k \in Nat \ {0} PROVE \A j \in 1..4 : CodesOf(b, k)[j] \in Sextet
  <2>1. 3 * k - 2 \in Nat /\ 3 * k - 1 \in Nat /\ 3 * k \in Nat
    OBVIOUS
  <2>2. OrElse(b, 3 * k - 2, 0) \in Byte /\ OrElse(b, 3 * k - 1, 0) \in Byte /\ OrElse(b, 3 * k, 0) \in Byte
    BY <1>2, <2>1
  <2> QED
    BY <2>2, CodesRestore DEF CodesOf, Restores
<1>4. ASSUME NEW k \in Nat \ {0}
      PROVE  EncodedGroup(b, k) = [j \in 1..4 |-> IF j <= Len(b) - 3 * k + 4 THEN CodesOf(b, k)[j] ELSE Pad]
  <2>1. 3 * k - 2 + 1 = 3 * k - 1 /\ 3 * k - 2 + 2 = 3 * k /\ Len(b) - (3 * k - 2) + 1 + 1 = Len(b) - 3 * k + 4
    BY <1>1
  <2> QED
    BY <2>1 DEF EncodedGroup, CodesOf
<1>5. ASSUME NEW n \in 1..EncodedLength(b)
      PROVE  Group(n, 4) \in Nat \ {0} /\ Place(n, 4) \in 1..4
  <2>1. n \in Nat \ {0}
    BY <1>1
  <2>2. PICK k \in Nat \ {0}, j \in 1..4 : n = 4 * (k - 1) + j
    BY <2>1, HasPlace
  <2> QED
    BY <2>2, InQuarters
<1>6. E = [n \in 1..EncodedLength(b) |-> EncodedGroup(b, Group(n, 4))[Place(n, 4)]]
  BY DEF Base64Encode
<1> HIDE DEF E
<1>7. ASSUME NEW n \in 1..EncodedLength(b) PROVE E[n] \in Character
  <2>1. \A k \in Nat \ {0}, j \in 1..4 : EncodedGroup(b, k)[j] \in Character
    <3> TAKE k \in Nat \ {0}, j \in 1..4
    <3>1. CodesOf(b, k)[j] \in Sextet
      BY <1>3
    <3>2. EncodedGroup(b, k)[j] = IF j <= Len(b) - 3 * k + 4 THEN CodesOf(b, k)[j] ELSE Pad
      BY <1>4
    <3> QED
      BY <3>1, <3>2, Characters
  <2>2. E[n] = EncodedGroup(b, Group(n, 4))[Place(n, 4)]
    BY <1>6
  <2> QED
    BY <1>5, <2>1, <2>2
<1>8. E \in Seq(Character) /\ Len(E) = EncodedLength(b)
  <2> DEFINE M == EncodedLength(b)
  <2>1. E = [n \in 1..M |-> E[n]]
    BY <1>6
  <2>2. \A n \in 1..M : E[n] \in Character
    BY <1>7
  <2>3. M \in Nat
    BY <1>1
  <2> HIDE DEF M
  <2>4. E \in Seq(Character) /\ Len(E) = M
    BY <2>1, <2>2, <2>3
  <2> QED
    BY <2>4 DEF M
<1>9. ASSUME NEW k \in Nat \ {0}, NEW j \in 1..4, 4 * (k - 1) + j <= EncodedLength(b)
      PROVE  E[4 * (k - 1) + j] = IF j <= Len(b) - 3 * k + 4 THEN CodesOf(b, k)[j] ELSE Pad
  <2> DEFINE n == 4 * (k - 1) + j
  <2>1. n \in 1..EncodedLength(b)
    BY <1>1, <1>9
  <2>2. Group(n, 4) = k /\ Place(n, 4) = j
    BY InQuarters
  <2>3. E[n] = EncodedGroup(b, k)[j]
    BY <1>6, <2>1, <2>2
  <2> QED
    BY <1>4, <2>3
<1> QED
  BY <1>8, <1>9 DEF E

\* Where the padding begins, and what is decoded of what comes before.
LEMMA UnpaddedIs ==
  ASSUME NEW q \in Nat, NEW r \in 0..2
  PROVE  /\ Unpadded(3 * q + r) = 4 * q + (IF r = 0 THEN 0 ELSE r + 1)
         /\ (3 * Unpadded(3 * q + r)) \div 4 = 3 * q + r
<1>1. CASE r = 0
  <2>1. 4 * (3 * q + r) + 2 = 3 * (4 * q) + 2 /\ 3 * (4 * q) + 2 \in Nat /\ 4 * q \in Int
    BY <1>1
  <2>2. (3 * (4 * q) + 2) \div 3 = 4 * q
    BY <2>1, Thirds
  <2>3. Unpadded(3 * q + r) = 4 * q
    BY <2>1, <2>2 DEF Unpadded
  <2>4. 3 * (4 * q) = 4 * (3 * q) + 0 /\ 3 * (4 * q) \in Nat /\ 3 * q \in Int
    OBVIOUS
  <2>5. (3 * (4 * q)) \div 4 = 3 * q
    BY <2>4, Quarters
  <2> QED
    BY <1>1, <2>3, <2>5
<1>2. CASE r = 1
  <2>1. 4 * (3 * q + r) + 2 = 3 * (4 * q + 2) + 0 /\ 3 * (4 * q + 2) + 0 \in Nat /\ 4 * q + 2 \in Int
    BY <1>2
  <2>2. (3 * (4 * q + 2) + 0) \div 3 = 4 * q + 2
    BY <2>1, Thirds
  <2>3. Unpadded(3 * q + r) = 4 * q + 2
    BY <2>1, <2>2 DEF Unpadded
  <2>4. 3 * (4 * q + 2) = 4 * (3 * q + 1) + 2 /\ 3 * (4 * q + 2) \in Nat /\ 3 * q + 1 \in Int
    OBVIOUS
  <2>5. (3 * (4 * q + 2)) \div 4 = 3 * q + 1
    BY <2>4, Quarters
  <2> QED
    BY <1>2, <2>3, <2>5
<1>3. CASE r = 2
  <2>1. 4 * (3 * q + r) + 2 = 3 * (4 * q + 3) + 1 /\ 3 * (4 * q + 3) + 1 \in Nat /\ 4 * q + 3 \in Int
    BY <1>3
  <2>2. (3 * (4 * q + 3) + 1) \div 3 = 4 * q + 3
    BY <2>1, Thirds
  <2>3. Unpadded(3 * q + r) = 4 * q + 3
    BY <2>1, <2>2 DEF Unpadded
  <2>4. 3 * (4 * q + 3) = 4 * (3 * q + 2) + 1 /\ 3 * (4 * q + 3) \in Nat /\ 3 * q + 2 \in Int
    OBVIOUS
  <2>5. (3 * (4 * q + 3)) \div 4 = 3 * q + 2
    BY <2>4, Quarters
  <2> QED
    BY <1>3, <2>3, <2>5
<1> QED
  BY <1>1, <1>2, <1>3

\* The decoder stops where the padding begins.
LEMMA PaddingIsCut ==
  ASSUME NEW b \in Seq(Byte)
  PROVE  LET t == Before(Base64Encode(b), {Pad})
         IN /\ t \in Seq(Character) /\ Len(t) = Unpadded(Len(b))
            /\ \A k \in Nat \ {0}, j \in 1..4 : 4 * (k - 1) + j <= Len(t) => t[4 * (k - 1) + j] = CodesOf(b, k)[j]
<1> DEFINE E == Base64Encode(b)
           N == Unpadded(Len(b))
<1>1. PICK q \in Nat, r \in 0..2 : Len(b) = 3 * q + r
  <2>1. Len(b) \in Nat
    OBVIOUS
  <2> QED
    BY <2>1, Rest
<1>3. N = 4 * q + (IF r = 0 THEN 0 ELSE r + 1)
  BY <1>1, UnpaddedIs
<1>4. EncodedLength(b) = IF r = 0 THEN 4 * q ELSE 4 * q + 4
  <2>1. CASE r = 0
    <3>1. 3 * q + 0 + 3 - 1 = 3 * q + 2 /\ 3 * q + 2 \in Nat
      OBVIOUS
    <3>2. (3 * q + 2) \div 3 = q
      BY <3>1, Thirds
    <3>3. Group(Len(b), 3) = q
      BY <1>1, <2>1, <3>1, <3>2 DEF Group
    <3> QED
      BY <2>1, <3>3 DEF EncodedLength
  <2>2. CASE r # 0
    <3>1. 3 * q + r + 3 - 1 = 3 * (q + 1) + (r - 1) /\ 3 * (q + 1) + (r - 1) \in Nat /\ r - 1 \in 0..2 /\ q + 1 \in Int
      BY <2>2
    <3>2. (3 * (q + 1) + (r - 1)) \div 3 = q + 1
      BY <3>1, Thirds
    <3>3. Group(Len(b), 3) = q + 1
      BY <1>1, <2>2, <3>1, <3>2 DEF Group
    <3> QED
      BY <2>2, <3>3 DEF EncodedLength
  <2> QED
    BY <2>1, <2>2
<1>5. N \in Nat /\ N <= EncodedLength(b)
  BY <1>3, <1>4
<1>6. ASSUME NEW k \in Nat \ {0}, NEW j \in 1..4, 4 * (k - 1) + j <= EncodedLength(b)
      PROVE  4 * (k - 1) + j <= N <=> j <= Len(b) - 3 * k + 4
  BY <1>1, <1>3, <1>4, <1>6
<1>7. ASSUME NEW n \in 1..EncodedLength(b)
      PROVE  \E k \in Nat \ {0}, j \in 1..4 : n = 4 * (k - 1) + j
  <2>1. n \in Nat \ {0}
    BY <1>4
  <2> QED
    BY <2>1, HasPlace
<1>8. ASSUME NEW k \in Nat \ {0} PROVE \A j \in 1..4 : CodesOf(b, k)[j] \in Sextet
  <2>1. 3 * k - 2 \in Nat /\ 3 * k - 1 \in Nat /\ 3 * k \in Nat
    OBVIOUS
  <2>2. \A i \in Nat : OrElse(b, i, 0) \in Byte
    BY Characters, OneOf
  <2>3. OrElse(b, 3 * k - 2, 0) \in Byte /\ OrElse(b, 3 * k - 1, 0) \in Byte /\ OrElse(b, 3 * k, 0) \in Byte
    BY <2>1, <2>2
  <2> QED
    BY <2>3, CodesRestore DEF CodesOf, Restores
<1>9. E \in Seq(Character) /\ Len(E) = EncodedLength(b)
  BY EncodedIs
<1>10. ASSUME NEW n \in 1..N PROVE E[n] \notin {Pad}
  <2>1. n \in 1..EncodedLength(b)
    BY <1>4, <1>5
  <2>2. PICK k \in Nat \ {0}, j \in 1..4 : n = 4 * (k - 1) + j
    BY <1>7, <2>1
  <2>3. 4 * (k - 1) + j <= EncodedLength(b) /\ 4 * (k - 1) + j <= N
    BY <1>4, <1>5, <2>2
  <2>4. j <= Len(b) - 3 * k + 4
    BY <1>6, <2>3
  <2>5. E[4 * (k - 1) + j] = CodesOf(b, k)[j]
    BY <2>3, <2>4, EncodedIs
  <2>6. CodesOf(b, k)[j] \in Sextet
    BY <1>8
  <2>7. E[n] = CodesOf(b, k)[j]
    BY <2>2, <2>5
  <2> HIDE DEF E
  <2> QED
    BY <2>6, <2>7, Characters
<1>11. N < Len(E) => E[N + 1] \in {Pad}
  <2> SUFFICES ASSUME N < Len(E) PROVE E[N + 1] = Pad
    OBVIOUS
  <2>1. N + 1 \in 1..EncodedLength(b)
    BY <1>5, <1>9
  <2>2. PICK k \in Nat \ {0}, j \in 1..4 : N + 1 = 4 * (k - 1) + j
    BY <1>7, <2>1
  <2>3. ~(4 * (k - 1) + j <= N)
    BY <1>5, <2>2
  <2>4. 4 * (k - 1) + j <= EncodedLength(b)
    BY <1>4, <2>1, <2>2
  <2>5. ~(j <= Len(b) - 3 * k + 4)
    BY <1>6, <2>3, <2>4
  <2>6. E[4 * (k - 1) + j] = Pad
    BY <2>4, <2>5, EncodedIs
  <2> QED
    BY <2>2, <2>6
<1>12. N \in 0..Len(E)
  BY <1>5, <1>9
<1> DEFINE t == Before(E, {Pad})
<1> HIDE DEF E, N
<1>13. t \in Seq(Character) /\ Len(t) = N /\ \A i \in 1..N : t[i] = E[i]
  <2> DEFINE S == {Pad}
             T == Character
  <2>1. E \in Seq(T) /\ \A i \in 1..N : E[i] \notin S
    BY <1>9, <1>10
  <2>2. N \in 0..Len(E) /\ (N < Len(E) => E[N + 1] \in S)
    BY <1>11, <1>12
  <2> HIDE DEF S, T
  <2>3. /\ Before(E, S) \in Seq(T) /\ Len(Before(E, S)) = N
        /\ \A i \in 1..N : Before(E, S)[i] = E[i]
    BY <2>1, <2>2, BeforeIs
  <2> QED
    BY <2>3 DEF S, T
<1>14. ASSUME NEW k \in Nat \ {0}, NEW j \in 1..4, 4 * (k - 1) + j <= N
       PROVE  t[4 * (k - 1) + j] = CodesOf(b, k)[j]
  <2>1. 4 * (k - 1) + j \in 1..N /\ 4 * (k - 1) + j <= EncodedLength(b)
    BY <1>4, <1>5, <1>14
  <2> QED
    <3>1. j <= Len(b) - 3 * k + 4
      BY <1>6, <1>14, <2>1
    <3>2. E[4 * (k - 1) + j] = CodesOf(b, k)[j]
      BY <2>1, <3>1, EncodedIs DEF E
    <3> QED
      BY <1>13, <2>1, <3>2
<1> QED
  BY <1>13, <1>14 DEF E, N

\* Metadata of any length comes out of its text as it went in (Base64Encode,
\* Base64Decode).
THEOREM MetadataSurvivesText == \A b \in Seq(Byte) : Base64Decode(Base64Encode(b)) = b
<1> SUFFICES ASSUME NEW b \in Seq(Byte) PROVE Base64Decode(Base64Encode(b)) = b
  OBVIOUS
<1> DEFINE t == Before(Base64Encode(b), {Pad})
           L == Len(b)
<1>1. t \in Seq(Character) /\ Len(t) = Unpadded(L)
  BY PaddingIsCut
<1>2. \A k \in Nat \ {0}, j \in 1..4 : 4 * (k - 1) + j <= Len(t) => t[4 * (k - 1) + j] = CodesOf(b, k)[j]
  BY PaddingIsCut
<1> HIDE DEF t
<1>3. PICK q \in Nat, r \in 0..2 : L = 3 * q + r
  <2>1. L \in Nat
    OBVIOUS
  <2> QED
    BY <2>1, Rest
<1>5. Len(t) = 4 * q + (IF r = 0 THEN 0 ELSE r + 1)
  BY <1>1, <1>3, UnpaddedIs
<1>6. DecodedLength(t) = L
  BY <1>1, <1>3, UnpaddedIs DEF DecodedLength
<1>7. ASSUME NEW n \in 1..L
      PROVE  DecodedGroup(t, Group(n, 3))[Place(n, 3)] = b[n]
  <2> DEFINE k == Group(n, 3)
             j == Place(n, 3)
             i == 4 * k - 3
             x == OrElse(b, 3 * k - 2, 0)
             y == OrElse(b, 3 * k - 1, 0)
             z == OrElse(b, 3 * k, 0)
             c == Codes(x, y, z)
  <2>1. L \in Nat
    OBVIOUS
  <2>2. k \in Nat \ {0} /\ j \in 1..3 /\ n = 3 * (k - 1) + j
    <3>1. n \in Nat \ {0}
      BY <2>1
    <3>2. PICK m \in Nat \ {0}, l \in 1..3 : n = 3 * (m - 1) + l
      BY <3>1, HasPlace
    <3> QED
      BY <3>2, InThirds
  <2> HIDE DEF k, j
  <2>3. x \in Byte /\ y \in Byte /\ z \in Byte
    BY Characters, OneOf
  <2>4. CodesOf(b, k) = c
    BY DEF CodesOf
  <2>5. 4 * (k - 1) + 1 = i /\ 4 * (k - 1) + 2 = i + 1 /\ 4 * (k - 1) + 3 = i + 2 /\ 4 * (k - 1) + 4 = i + 3 /\ i \in Nat \ {0}
    BY <2>2
  <2>6. DOMAIN t = 1..Len(t) /\ Len(t) \in Nat
    BY <1>1
  <2>7. \A p \in 0..3 : i + p <= Len(t) => t[i + p] = c[p + 1] /\ OrElse(t, i + p, NotFound) = c[p + 1]
    <3> TAKE p \in 0..3
    <3> HAVE i + p <= Len(t)
    <3>1. i + p = 4 * (k - 1) + (p + 1) /\ p + 1 \in 1..4 /\ i + p \in 1..Len(t)
      BY <2>5, <2>6, <2>2
    <3>2. t[i + p] = c[p + 1]
      BY <1>2, <2>2, <2>4, <3>1
    <3> QED
      BY <2>6, <3>1, <3>2 DEF OrElse
  <2>8. OrElse(t, i + 2, NotFound) \in Nat /\ OrElse(t, i + 3, NotFound) \in Nat
    <3>1. \A p \in 1..Len(t) : t[p] \in Nat
      BY <1>1, <2>6, Characters, ElementOfSeq
    <3> QED
      BY <3>1, <2>6, Characters DEF OrElse
  <2>9. DecodedGroup(t, k) = Bytes(t[i], OrElse(t, i + 1, NotFound), OrElse(t, i + 2, NotFound), OrElse(t, i + 3, NotFound))
    BY DEF DecodedGroup
  <2> HIDE DEF i, x, y, z
  <2>11. /\ Bytes(c[1], c[2], c[3], c[4]) = <<x, y, z>>
         /\ y = 0 => \A p \in Nat, m \in Nat : Bytes(c[1], c[2], p, m)[1] = x
         /\ \A p \in Nat : Bytes(c[1], c[2], c[3], p)[1] = x /\ Bytes(c[1], c[2], c[3], p)[2] = y
    <3>1. Restores(c, x, y, z)
      BY <2>3, CodesRestore
    <3> HIDE DEF c
    <3> QED
      BY <3>1 DEF Restores
  <2> HIDE DEF c
  <2>10. i = 4 * k - 3
    BY DEF i
  <2>12. CASE 3 * k <= L
    <3>1. i + 3 <= Len(t) /\ i + 2 <= Len(t) /\ i + 1 <= Len(t) /\ i + 0 <= Len(t) /\ i + 0 = i
      BY <1>3, <1>5, <2>2, <2>10, <2>12
    <3>2. DecodedGroup(t, k) = <<x, y, z>>
      BY <2>7, <2>9, <2>11, <3>1
    <3>3. x = b[3 * k - 2] /\ y = b[3 * k - 1] /\ z = b[3 * k]
      BY <2>1, <2>2, <2>12 DEF x, y, z, OrElse
    <3>4. j = 1 => n = 3 * k - 2
      BY <2>2
    <3>5. j = 2 => n = 3 * k - 1
      BY <2>2
    <3>6. j = 3 => n = 3 * k
      BY <2>2
    <3> QED
      BY <2>2, <3>2, <3>3, <3>4, <3>5, <3>6 DEF k, j
  <2>13. CASE 3 * k = L + 1
    <3>1. i + 2 <= Len(t) /\ i + 1 <= Len(t) /\ i + 0 <= Len(t) /\ i + 0 = i
      BY <1>3, <1>5, <2>2, <2>10, <2>13
    <3>2. DecodedGroup(t, k)[1] = x /\ DecodedGroup(t, k)[2] = y
      BY <2>7, <2>8, <2>9, <2>11, <3>1
    <3>3. x = b[3 * k - 2] /\ y = b[3 * k - 1]
      BY <2>1, <2>2, <2>13 DEF x, y, OrElse
    <3>4. j = 1 => n = 3 * k - 2
      BY <2>2
    <3>5. j = 2 => n = 3 * k - 1
      BY <2>2
    <3>6. j # 3
      BY <2>1, <2>2, <2>13
    <3> QED
      BY <2>2, <3>2, <3>3, <3>4, <3>5, <3>6 DEF k, j
  <2>14. CASE 3 * k = L + 2
    <3>1. i + 1 <= Len(t) /\ i + 0 <= Len(t) /\ i + 0 = i
      BY <1>3, <1>5, <2>2, <2>10, <2>14
    <3>2. y = 0
      BY <2>1, <2>2, <2>14 DEF y, OrElse
    <3>3. DecodedGroup(t, k)[1] = x
      BY <2>7, <2>8, <2>9, <2>11, <3>1, <3>2
    <3>4. x = b[3 * k - 2]
      BY <2>1, <2>2, <2>14 DEF x, OrElse
    <3>5. j = 1 /\ n = 3 * k - 2
      BY <2>1, <2>2, <2>14
    <3> QED
      BY <3>3, <3>4, <3>5 DEF k, j
  <2>15. 3 * k <= L + 2
    BY <2>1, <2>2
  <2> QED
    BY <2>1, <2>2, <2>12, <2>13, <2>14, <2>15
<1>8. DecodedGroups(t) = [n \in 1..L |-> b[n]]
  BY <1>6, <1>7 DEF DecodedGroups
<1>9. b = [n \in 1..L |-> b[n]]
  OBVIOUS
<1> QED
  BY <1>8, <1>9 DEF Base64Decode, t


----------------------------------------------------------------------------
(* Messages: what a peer of another version sends is thin, and what can be *)
(* read in a thin message is what was written.                             *)
\* A part of a message that has lost fields on its way, or whose fields have
\* become of no type: an object without arrays, one with an array of those, and
\* the whole.
Thin(a, b) == DOMAIN a \subseteq DOMAIN b /\ \A f \in DOMAIN a : a[f] = b[f] \/ a[f].t = "null"
ThinList(a, b) == DOMAIN a = DOMAIN b /\ \A i \in DOMAIN a : Thin(a[i], b[i])
ArrayFields == {"Detail", "CaptureSettings"}
Thinner(a, b) ==
  /\ DOMAIN a \subseteq DOMAIN b
  /\ \A f \in DOMAIN a :
       \/ a[f] = b[f] \/ a[f].t = "null"
       \/ f \in ArrayFields /\ a[f].t = b[f].t /\ ThinList(a[f].v, b[f].v)
ThinnerList(a, b) ==
  DOMAIN a = DOMAIN b /\ a = [i \in DOMAIN a |-> a[i]] /\ \A i \in DOMAIN a : Thinner(a[i], b[i])
ThinMessage(m, n) ==
  /\ DOMAIN m \subseteq DOMAIN n
  /\ \A f \in DOMAIN m :
       \/ m[f] = n[f] \/ m[f].t = "null"
       \/ /\ f = "Value" /\ m[f].t = n[f].t
          /\ IF n[f].t = "object" THEN Thinner(m[f].v, n[f].v) ELSE ThinnerList(m[f].v, n[f].v)

LEMMA WithIs ==
  ASSUME NEW o, NEW name, NEW v
  PROVE  /\ DOMAIN With(o, name, v) = DOMAIN o \union {name}
         /\ With(o, name, v)[name] = v
         /\ \A f \in DOMAIN o : f # name => With(o, name, v)[f] = o[f]
BY DEF With

LEMMA JsonIs ==
  ASSUME NEW t, NEW v
  PROVE  Json(t, v).t = t /\ Json(t, v).v = v
BY DEF Json

LEMMA SpoiledIsThin ==
  ASSUME NEW o, NEW p \in Spoiled(o)
  PROVE  Thin(p, o)
<1>1. CASE \E f \in DOMAIN o : p = [g \in DOMAIN o \ {f} |-> o[g]]
  BY <1>1 DEF Thin
<1>2. CASE \E f \in DOMAIN o : p = With(o, f, Json("null", 0))
  <2>1. PICK f \in DOMAIN o : p = With(o, f, Json("null", 0))
    BY <1>2
  <2>2. DOMAIN p = DOMAIN o /\ p[f] = Json("null", 0) /\ \A g \in DOMAIN o : g # f => p[g] = o[g]
    BY <2>1 DEF With
  <2> QED
    BY <2>2, JsonIs DEF Thin
<1> QED
  BY <1>1, <1>2 DEF Spoiled

LEMMA SpoiledListIsThin ==
  ASSUME NEW a, NEW p \in SpoiledList(a)
  PROVE  ThinList(p, a)
<1>0. PICK i \in DOMAIN a : p \in {[a EXCEPT ![i] = o] : o \in Spoiled(a[i])}
  BY DEF SpoiledList
<1>1. PICK o \in Spoiled(a[i]) : p = [a EXCEPT ![i] = o]
  BY <1>0
<1>2. Thin(o, a[i])
  BY SpoiledIsThin
<1>3. \A j \in DOMAIN a : Thin(a[j], a[j])
  BY DEF Thin
<1> QED
  BY <1>1, <1>2, <1>3 DEF ThinList

LEMMA ThinIsThinner ==
  ASSUME NEW a, NEW b, Thin(a, b)
  PROVE  Thinner(a, b)
BY DEF Thin, Thinner

LEMMA SpoiledInsideIsThinner ==
  ASSUME NEW o, NEW p \in SpoiledInside(o)
  PROVE  Thinner(p, o)
<1>1. CASE p \in Spoiled(o)
  BY <1>1, SpoiledIsThin, ThinIsThinner
<1>2. CASE p \notin Spoiled(o)
  <2>0. PICK f \in Inner(o) : p \in {With(o, f, Json(o[f].t, a)) : a \in SpoiledList(o[f].v)}
    BY <1>2 DEF SpoiledInside
  <2>1. PICK a \in SpoiledList(o[f].v) : p = With(o, f, Json(o[f].t, a))
    BY <2>0
  <2>2. ThinList(a, o[f].v)
    BY SpoiledListIsThin
  <2>3. f \in DOMAIN o /\ f \in ArrayFields
    BY DEF Inner, ArrayFields
  <2>4. DOMAIN p = DOMAIN o /\ p[f] = Json(o[f].t, a) /\ \A g \in DOMAIN o : g # f => p[g] = o[g]
    BY <2>1, <2>3 DEF With
  <2> QED
    BY <2>2, <2>3, <2>4, JsonIs DEF Thinner
<1> QED
  BY <1>1, <1>2

LEMMA SpoiledInfosAreThinner ==
  ASSUME NEW a, NEW p \in SpoiledInfos(a)
  PROVE  ThinnerList(p, a)
<1>0. PICK i \in DOMAIN a : p \in {[a EXCEPT ![i] = o] : o \in SpoiledInside(a[i])}
  BY DEF SpoiledInfos
<1>1. PICK o \in SpoiledInside(a[i]) : p = [a EXCEPT ![i] = o]
  BY <1>0
<1>2. Thinner(o, a[i])
  BY SpoiledInsideIsThinner
<1>3. \A j \in DOMAIN a : Thinner(a[j], a[j])
  BY DEF Thinner
<1>4. DOMAIN p = DOMAIN a /\ p = [j \in DOMAIN p |-> p[j]]
  BY <1>1
<1>5. \A j \in DOMAIN a : p[j] = IF j = i THEN o ELSE a[j]
  BY <1>1
<1> QED
  BY <1>2, <1>3, <1>4, <1>5 DEF ThinnerList

LEMMA SpoiledMessageIsThin ==
  ASSUME NEW n, NEW m \in SpoiledMessages(n), "Value" \in DOMAIN n => n.Value.t \in {"object", "array"}
  PROVE  ThinMessage(m, n)
<1>1. CASE m \in Spoiled(n)
  BY <1>1, SpoiledIsThin DEF Thin, ThinMessage
<1>2. CASE m \notin Spoiled(n)
  <2>1. "Value" \in DOMAIN n
    BY <1>2 DEF SpoiledMessages
  <2>2. CASE n.Value.t = "object"
    <3>1. PICK o \in SpoiledInside(n.Value.v) : m = With(n, "Value", Json("object", o))
      BY <1>2, <2>1, <2>2 DEF SpoiledMessages
    <3>2. Thinner(o, n.Value.v)
      BY SpoiledInsideIsThinner
    <3>3. /\ DOMAIN m = DOMAIN n /\ m["Value"] = Json("object", o)
          /\ \A g \in DOMAIN n : g # "Value" => m[g] = n[g]
      BY <2>1, <3>1 DEF With
    <3> QED
      BY <2>1, <2>2, <3>2, <3>3, JsonIs DEF ThinMessage
  <2>3. CASE n.Value.t = "array"
    <3>1. PICK a \in SpoiledInfos(n.Value.v) : m = With(n, "Value", Json("array", a))
      BY <1>2, <2>1, <2>3 DEF SpoiledMessages
    <3>2. ThinnerList(a, n.Value.v)
      BY SpoiledInfosAreThinner
    <3>3. /\ DOMAIN m = DOMAIN n /\ m["Value"] = Json("array", a)
          /\ \A g \in DOMAIN n : g # "Value" => m[g] = n[g]
      BY <2>1, <3>1 DEF With
    <3> QED
      BY <2>1, <2>3, <3>2, <3>3, JsonIs DEF ThinMessage
  <2> QED
    BY <2>1, <2>2, <2>3
<1> QED
  BY <1>1, <1>2

\* A message is a thin one of itself.
LEMMA ThinOfItself ==
  ASSUME NEW n
  PROVE  ThinMessage(n, n) /\ Thinner(n, n) /\ Thin(n, n)
BY DEF ThinMessage, Thinner, Thin

----------------------------------------------------------------------------
\* What has been read is what was written, and each class reads what it writes.
Plain(fields) == \A f \in DOMAIN fields : fields[f] \in {"number", "string", "bool"}
Kept(fields, a, b) == \A f \in DOMAIN fields : f \in DOMAIN a /\ f \in DOMAIN b /\ a[f] = b[f]

LEMMA ThinKeeps ==
  ASSUME NEW fields, NEW a, NEW b, Plain(fields), Reads(fields, a), Thin(a, b)
  PROVE  Kept(fields, a, b)
BY DEF Plain, Reads, Has, Thin, Kept

LEMMA ThinnerKeeps ==
  ASSUME NEW fields, NEW a, NEW b, Plain(fields), Reads(fields, a), Thinner(a, b), DOMAIN fields \intersect ArrayFields = {}
  PROVE  Kept(fields, a, b)
BY DEF Plain, Reads, Has, Thinner, Kept

LEMMA MessageKeeps ==
  ASSUME NEW fields, NEW m, NEW n, Plain(fields), Reads(fields, m), ThinMessage(m, n), "Value" \notin DOMAIN fields
  PROVE  Kept(fields, m, n)
BY DEF Plain, Reads, Has, ThinMessage, Kept

LEMMA KeptIsRead ==
  ASSUME NEW fields, NEW a, NEW b, Kept(fields, a, b)
  PROVE  Read(fields, a) = Read(fields, b)
BY DEF Kept, Read

\* The fields of an object with their values, as they were written.
Holds(o, fields, values) == \A f \in DOMAIN fields : f \in DOMAIN o /\ o[f] = Json(fields[f], values[f])

LEMMA WrittenHolds ==
  ASSUME NEW fields, NEW values
  PROVE  /\ Holds(Write(fields, values), fields, values) /\ DOMAIN Write(fields, values) = DOMAIN fields
         /\ \A name, v : name \notin DOMAIN fields => Holds(With(Write(fields, values), name, v), fields, values)
<1>1. \A f \in DOMAIN fields : Write(fields, values)[f] = Json(fields[f], values[f])
  BY DEF Write
<1>2. DOMAIN Write(fields, values) = DOMAIN fields
  BY DEF Write
<1>3. ASSUME NEW name, NEW v, name \notin DOMAIN fields
      PROVE  Holds(With(Write(fields, values), name, v), fields, values)
  <2>1. \A f \in DOMAIN fields : f \in DOMAIN With(Write(fields, values), name, v)
                               /\ With(Write(fields, values), name, v)[f] = Write(fields, values)[f]
    BY <1>2, <1>3 DEF With
  <2> QED
    BY <2>1, <1>1 DEF Holds
<1> QED
  BY <1>1, <1>2, <1>3 DEF Holds

LEMMA HeldIsRead ==
  ASSUME NEW o, NEW fields, NEW values, Holds(o, fields, values)
  PROVE  /\ Reads(fields, o)
         /\ DOMAIN Read(fields, o) = DOMAIN fields
         /\ \A f \in DOMAIN fields :
              ~(fields[f] = "number" /\ values[f] > IntMax) => Read(fields, o)[f] = values[f]
BY JsonIs DEF Holds, Reads, Has, Read, valueint

LEMMA FilledIsRead ==
  ASSUME NEW o, NEW fields, Holds(o, fields, Filled(fields))
  PROVE  Reads(fields, o) /\ Read(fields, o) = Filled(fields)
<1>1. \A f \in DOMAIN fields : Filled(fields)[f] = Sample(fields[f])
  BY DEF Filled
<1>2. \A f \in DOMAIN fields : fields[f] = "number" => Filled(fields)[f] = 1
  BY <1>1 DEF Sample
<1>3. \A f \in DOMAIN fields : Read(fields, o)[f] = Filled(fields)[f]
  BY <1>2, HeldIsRead, CommandsAssumption
<1> QED
  BY <1>3, HeldIsRead DEF Read, Filled

LEMMA FieldsAre ==
  /\ DOMAIN Header = {"Type", "dhId", "Command"} /\ Header["Command"] = "string" /\ Plain(Header)
  /\ DOMAIN CaptureInfo = {"Width", "Height", "Format", "DataSpace", "IsCapture", "EncodeType", "StreamType"} /\ Plain(CaptureInfo)
  /\ DOMAIN CaptureTail = {"mode", "userId", "tokenId", "accountId"} /\ Plain(CaptureTail)
  /\ DOMAIN Setting = {"SettingType", "SettingValue"} /\ Setting["SettingValue"] = "string" /\ Plain(Setting)
  /\ DOMAIN ChannelDetail = {"DataSessionFlag", "StreamType"} /\ Plain(ChannelDetail)
  /\ DOMAIN SourceDevId = {"SourceDevId"} /\ Plain(SourceDevId)
  /\ DOMAIN Event = {"EventType", "EventResult", "EventContent"} /\ Plain(Event)
  /\ DOMAIN CameraState = {"State"} /\ Plain(CameraState)
  /\ DOMAIN FrameInfo = {"type", "index", "pts", "startEncodeT", "finishEncodeT", "sendT", "ver"} /\ Plain(FrameInfo)
<1>1. DOMAIN Header = {"Type", "dhId", "Command"} /\ Header["Command"] = "string" /\ Plain(Header)
  BY DEF Header, Plain
<1>2. DOMAIN CaptureInfo = {"Width", "Height", "Format", "DataSpace", "IsCapture", "EncodeType", "StreamType"} /\ Plain(CaptureInfo)
  BY DEF CaptureInfo, Plain
<1>3. DOMAIN CaptureTail = {"mode", "userId", "tokenId", "accountId"} /\ Plain(CaptureTail)
  BY DEF CaptureTail, Plain
<1>4. DOMAIN Setting = {"SettingType", "SettingValue"} /\ Setting["SettingValue"] = "string" /\ Plain(Setting)
  BY DEF Setting, Plain
<1>5. DOMAIN ChannelDetail = {"DataSessionFlag", "StreamType"} /\ Plain(ChannelDetail)
  BY DEF ChannelDetail, Plain
<1>6. DOMAIN SourceDevId = {"SourceDevId"} /\ Plain(SourceDevId)
  BY DEF SourceDevId, Plain
<1>7. DOMAIN Event = {"EventType", "EventResult", "EventContent"} /\ Plain(Event)
  BY DEF Event, Plain
<1>8. DOMAIN CameraState = {"State"} /\ Plain(CameraState)
  BY DEF CameraState, Plain
<1>9. DOMAIN FrameInfo = {"type", "index", "pts", "startEncodeT", "finishEncodeT", "sendT", "ver"} /\ Plain(FrameInfo)
  BY DEF FrameInfo, Plain
<1> QED
  BY <1>1, <1>2, <1>3, <1>4, <1>5, <1>6, <1>7, <1>8, <1>9


\* What the receiver makes of a command's message, whole or thin.
Says(r, c, whole) ==
  r # NoCommand =>
    /\ r.kind = c.kind
    /\ IF c.kind = "frame"
       THEN \/ ~whole /\ r.value = NoInfo
            \/ /\ SameFields(r.value, c.value, {})
               /\ r.value.rawTime \in {c.value.pts} \union (IF whole THEN {} ELSE {0})
       ELSE r.value = c.value
    /\ c.kind = "capture" => SameFields(r.tail, c.tail, IF whole THEN {} ELSE DOMAIN CaptureTail)
Taken(r, c) ==
  \/ r # NoCommand
  \/ c.kind \in {"metadata", "result"} /\ c.value = <<>>
  \/ c.kind = "channel" /\ c.value.details = <<>>
Arrives(r, c, whole) == Says(r, c, whole) /\ (whole => Taken(r, c))

LEMMA HeaderIs ==
  ASSUME NEW c, NEW value, NEW n, n = WithHeader(c, value)
  PROVE  /\ DOMAIN n = {"Type", "dhId", "Command", "Value"} /\ n["Value"] = value
         /\ n["Command"] = Json("string", c.kind) /\ HasHeader(n)
<1> DEFINE values == With(Filled(Header), "Command", c.kind)
           w == Write(Header, values)
<1>1. DOMAIN w = {"Type", "dhId", "Command"} /\ \A f \in DOMAIN Header : w[f] = Json(Header[f], values[f])
  BY FieldsAre DEF Write
<1>2. values["Command"] = c.kind
  BY DEF With
<1>3. w["Command"] = Json("string", c.kind)
  BY <1>1, <1>2, FieldsAre
<1> HIDE DEF w, values
<1>4. n = With(w, "Value", value)
  BY DEF WithHeader, w, values
<1>5. /\ DOMAIN n = {"Type", "dhId", "Command", "Value"} /\ n["Value"] = value
      /\ \A f \in {"Type", "dhId", "Command"} : n[f] = w[f]
  BY <1>1, <1>4 DEF With
<1>6. \A f \in DOMAIN Header : f \in DOMAIN n /\ n[f].t = Header[f]
  BY <1>1, <1>5, FieldsAre, JsonIs
<1> QED
  BY <1>3, <1>5, <1>6 DEF HasHeader, Reads, Has

\* A message keeps its command and the type of its value.
LEMMA CommandKept ==
  ASSUME NEW c, NEW n, "Command" \in DOMAIN n, n["Command"] = Json("string", c.kind), NEW m, ThinMessage(m, n)
  PROVE  /\ HasHeader(m) => m.Command.v = c.kind
         /\ CommandOf(m) \in {c.kind, "none"}
         /\ m = n => CommandOf(m) = c.kind
<1>1. "Command" \in DOMAIN m /\ m["Command"].t = "string" => m["Command"] = Json("string", c.kind)
  BY DEF ThinMessage
<1>2. HasHeader(m) => "Command" \in DOMAIN m /\ m["Command"].t = "string"
  BY FieldsAre DEF HasHeader, Reads, Has
<1>3. "Command" \in DOMAIN n /\ n["Command"].t = "string" /\ n["Command"].v = c.kind
  BY JsonIs
<1> QED
  BY <1>1, <1>2, <1>3, JsonIs DEF CommandOf, Has

LEMMA ObjectKept ==
  ASSUME NEW m, NEW n, ThinMessage(m, n), "Value" \in DOMAIN n, n["Value"].t = "object",
         Has(m, "Value", "object")
  PROVE  Thinner(m["Value"].v, n["Value"].v)
BY ThinOfItself DEF ThinMessage, Has

LEMMA ArrayKept ==
  ASSUME NEW m, NEW n, ThinMessage(m, n), "Value" \in DOMAIN n, n["Value"].t = "array",
         n["Value"].v = [i \in DOMAIN n["Value"].v |-> n["Value"].v[i]],
         Has(m, "Value", "array")
  PROVE  ThinnerList(m["Value"].v, n["Value"].v)
<1>1. ThinnerList(n["Value"].v, n["Value"].v)
  BY ThinOfItself DEF ThinnerList
<1> QED
  BY <1>1 DEF ThinMessage, Has

----------------------------------------------------------------------------
\* Commands that hold one object.
ObjectArrives(kind, fields, c, n, m) ==
  LET r == UnmarshalObject(kind, fields, m)
  IN /\ r \in {NoCommand, [kind |-> kind, value |-> c.value]}
     /\ m = n => r = [kind |-> kind, value |-> c.value]

LEMMA ObjectsArrive ==
  ASSUME NEW c, NEW kind, NEW fields, NEW n, NEW m, c.kind = kind, c.value = Filled(fields), Plain(fields),
         DOMAIN fields \intersect ArrayFields = {},
         n = WithHeader(c, Json("object", Write(fields, c.value))), ThinMessage(m, n)
  PROVE  ObjectArrives(kind, fields, c, n, m)
<1> DEFINE o == Write(fields, c.value)
<1>1. "Value" \in DOMAIN n /\ n["Value"].t = "object" /\ n["Value"].v = o /\ HasHeader(n)
  BY HeaderIs, JsonIs
<1>2. Reads(fields, o) /\ Read(fields, o) = Filled(fields)
  BY WrittenHolds, FilledIsRead
<1> HIDE DEF o
<1>3. ASSUME Has(m, "Value", "object"), Reads(fields, m["Value"].v)
      PROVE  Read(fields, m["Value"].v) = Filled(fields)
  <2>1. Thinner(m["Value"].v, o)
    BY <1>1, <1>3, ObjectKept
  <2>2. Kept(fields, m["Value"].v, o)
    BY <1>3, <2>1, ThinnerKeeps
  <2> QED
    BY <1>2, <2>2, KeptIsRead
<1>4. m = n => HasHeader(m) /\ Has(m, "Value", "object") /\ Reads(fields, m["Value"].v)
  BY <1>1, <1>2 DEF Has
<1> QED
  BY <1>3, <1>4 DEF UnmarshalObject, If, ObjectArrives

LEMMA KindsDiffer ==
  ASSUME NEW k \in {"capture", "metadata", "result", "channel", "event", "info", "open", "frame"}, NEW v
  PROVE  [kind |-> k, value |-> v] # NoCommand
BY DEF NoCommand

LEMMA EventArrives ==
  ASSUME NEW c \in EventCommands, NEW m, NEW whole \in BOOLEAN, ThinMessage(m, Marshal(c)), whole => m = Marshal(c)
  PROVE  Arrives(Received(c.kind, m), c, whole)
<1>1. c.kind = "event" /\ c.value = Filled(Event)
  BY DEF EventCommands, Of
<1>2. Marshal(c) = WithHeader(c, Json("object", Write(Event, c.value)))
  BY <1>1 DEF Marshal, MarshalEvent
<1>3. DOMAIN Event \intersect ArrayFields = {} /\ Plain(Event)
  BY FieldsAre DEF ArrayFields
<1>4. /\ UnmarshalEvent(m) \in {NoCommand, [kind |-> "event", value |-> c.value]}
      /\ m = Marshal(c) => UnmarshalEvent(m) = [kind |-> "event", value |-> c.value]
  <2>1. ObjectArrives("event", Event, c, Marshal(c), m)
    BY <1>1, <1>2, <1>3, ObjectsArrive
  <2> QED
    BY <2>1 DEF UnmarshalEvent, ObjectArrives
<1>5. CommandOf(m) \in {"event", "none"} /\ (m = Marshal(c) => CommandOf(m) = "event")
  <2>1. "Command" \in DOMAIN Marshal(c) /\ Marshal(c)["Command"] = Json("string", c.kind)
    BY <1>2, HeaderIs
  <2> QED
    BY <1>1, <2>1, CommandKept
<1>6. Received(c.kind, m) = IF CommandOf(m) = "event" THEN UnmarshalEvent(m) ELSE NoCommand
  BY <1>1, <1>5 DEF Received, ReceivedBySource
<1>7. /\ Received(c.kind, m) \in {NoCommand, [kind |-> "event", value |-> c.value]}
      /\ whole => Received(c.kind, m) = [kind |-> "event", value |-> c.value]
  BY <1>4, <1>5, <1>6
<1> QED
  BY <1>1, <1>7, KindsDiffer DEF Arrives, Says, Taken

LEMMA InfoArrives ==
  ASSUME NEW c \in InfoCommands, NEW m, NEW whole \in BOOLEAN, ThinMessage(m, Marshal(c)), whole => m = Marshal(c)
  PROVE  Arrives(Received(c.kind, m), c, whole)
<1>1. c.kind = "info" /\ c.value = Filled(CameraState)
  BY DEF InfoCommands, Of
<1>2. Marshal(c) = WithHeader(c, Json("object", Write(CameraState, c.value)))
  BY <1>1 DEF Marshal, MarshalInfo
<1>3. DOMAIN CameraState \intersect ArrayFields = {} /\ Plain(CameraState)
  BY FieldsAre DEF ArrayFields
<1>4. Received(c.kind, m) = UnmarshalObject("info", CameraState, m)
  BY <1>1 DEF Received, UnmarshalInfo
<1>5. /\ Received(c.kind, m) \in {NoCommand, [kind |-> "info", value |-> c.value]}
      /\ whole => Received(c.kind, m) = [kind |-> "info", value |-> c.value]
  <2>1. ObjectArrives("info", CameraState, c, Marshal(c), m)
    BY <1>1, <1>2, <1>3, ObjectsArrive
  <2> QED
    BY <1>4, <2>1 DEF ObjectArrives
<1> QED
  BY <1>1, <1>5, KindsDiffer DEF Arrives, Says, Taken

LEMMA OpenArrives ==
  ASSUME NEW c \in OpenCommands, NEW m, NEW whole \in BOOLEAN, ThinMessage(m, Marshal(c)), whole => m = Marshal(c)
  PROVE  Arrives(Received(c.kind, m), c, whole)
<1>1. c.kind = "open" /\ c.value = Filled(SourceDevId)
  BY DEF OpenCommands, Of
<1>2. Marshal(c) = WithHeader(c, Json("object", Write(SourceDevId, c.value)))
  BY <1>1 DEF Marshal, MarshalOpenInfo
<1>3. DOMAIN SourceDevId \intersect ArrayFields = {} /\ Plain(SourceDevId)
  BY FieldsAre DEF ArrayFields
<1>4. Received(c.kind, m) = UnmarshalObject("open", SourceDevId, m)
  BY <1>1 DEF Received, UnmarshalOpenInfo
<1>5. /\ Received(c.kind, m) \in {NoCommand, [kind |-> "open", value |-> c.value]}
      /\ whole => Received(c.kind, m) = [kind |-> "open", value |-> c.value]
  <2>1. ObjectArrives("open", SourceDevId, c, Marshal(c), m)
    BY <1>1, <1>2, <1>3, ObjectsArrive
  <2> QED
    BY <1>4, <2>1 DEF ObjectArrives
<1> QED
  BY <1>1, <1>5, KindsDiffer DEF Arrives, Says, Taken


LEMMA FrameArrives ==
  ASSUME NEW c \in FrameInfos, NEW m, NEW whole \in BOOLEAN, ThinMessage(m, Marshal(c)), whole => m = Marshal(c)
  PROVE  Arrives(Received(c.kind, m), c, whole)
<1> DEFINE w == Write(FrameInfo, c.value)
           n == With(w, "rawTime", Json("string", c.value.pts))
           Kind == [kind |-> "frame", value |-> Read(FrameInfo, m)]
           rawTime == IF "rawTime" \in DOMAIN m THEN m["rawTime"].v ELSE 0
<1>1. /\ c.kind = "frame" /\ DOMAIN c.value = DOMAIN FrameInfo
      /\ \A f \in DOMAIN FrameInfo : f \in Wide \/ c.value[f] = Sample(FrameInfo[f])
  BY DEF FrameInfos, Of, Widened
<1>2. Marshal(c) = n
  BY <1>1 DEF Marshal, MarshalFrameInfo
<1>3. "rawTime" \notin DOMAIN FrameInfo /\ "Value" \notin DOMAIN FrameInfo /\ "pts" \in DOMAIN FrameInfo
      /\ "kind" \notin DOMAIN FrameInfo
  BY FieldsAre
<1>4. Holds(n, FrameInfo, c.value) /\ "rawTime" \in DOMAIN n /\ n["rawTime"] = Json("string", c.value.pts)
      /\ DOMAIN n = DOMAIN FrameInfo \union {"rawTime"}
  <2>1. Holds(w, FrameInfo, c.value) /\ DOMAIN w = DOMAIN FrameInfo
    BY WrittenHolds
  <2> HIDE DEF w
  <2>2. /\ DOMAIN n = DOMAIN w \union {"rawTime"} /\ n["rawTime"] = Json("string", c.value.pts)
        /\ \A f \in DOMAIN w : f # "rawTime" => n[f] = w[f]
    BY DEF With
  <2> HIDE DEF n
  <2> QED
    BY <1>3, <2>1, <2>2 DEF Holds
<1> HIDE DEF n
<1>5. /\ Reads(FrameInfo, n) /\ DOMAIN Read(FrameInfo, n) = DOMAIN FrameInfo
      /\ \A f \in DOMAIN FrameInfo :
           ~(FrameInfo[f] = "number" /\ c.value[f] > IntMax) => Read(FrameInfo, n)[f] = c.value[f]
  BY <1>4, HeldIsRead
<1>6. \A f \in DOMAIN FrameInfo : Read(FrameInfo, n)[f] = c.value[f] \/ (f \in Wide /\ c.value[f] > IntMax)
  <2>1. \A f \in DOMAIN FrameInfo : f \in Wide \/ ~(FrameInfo[f] = "number" /\ c.value[f] > IntMax)
    <3>1. \A f \in DOMAIN FrameInfo : FrameInfo[f] = "number" => Sample(FrameInfo[f]) = 1
      BY DEF Sample
    <3> QED
      BY <1>1, <3>1, CommandsAssumption
  <2>2. ASSUME NEW f \in DOMAIN FrameInfo, f \in Wide, ~(c.value[f] > IntMax), FrameInfo[f] = "number"
        PROVE  Read(FrameInfo, n)[f] = c.value[f]
    BY <1>5, <2>2
  <2> QED
    BY <1>5, <2>1
<1>7. Reads(FrameInfo, m) => Read(FrameInfo, m) = Read(FrameInfo, n)
  BY <1>2, <1>3, FieldsAre, MessageKeeps, KeptIsRead
<1>8. "rawTime" \in DOMAIN m /\ m["rawTime"].t = "string" => m["rawTime"] = n["rawTime"]
  BY <1>2 DEF ThinMessage
<1>9. Received(c.kind, m) =
        IF Reads(FrameInfo, m) /\ ("rawTime" \in DOMAIN m => m["rawTime"].t = "string")
        THEN [kind |-> "frame", value |-> With(Read(FrameInfo, m), "rawTime", rawTime)]
        ELSE [kind |-> "frame", value |-> NoInfo]
  <2>1. Received(c.kind, m) = SourceOnStream(m)
    BY <1>1 DEF Received
  <2>2. Kind # NoCommand /\ Kind.value = Read(FrameInfo, m)
    BY KindsDiffer
  <2> QED
    BY <2>1, <2>2, KindsDiffer DEF SourceOnStream, HandleSourceStreamExt, UnmarshalFrameInfo, If
<1>10. ASSUME Reads(FrameInfo, m), "rawTime" \in DOMAIN m => m["rawTime"].t = "string"
       PROVE  Says(Received(c.kind, m), c, whole)
  <2> DEFINE v == With(Read(FrameInfo, m), "rawTime", rawTime)
  <2>1. Received(c.kind, m) = [kind |-> "frame", value |-> v]
    BY <1>9, <1>10
  <2>2. v["rawTime"] = rawTime /\ \A f \in DOMAIN FrameInfo : v[f] = Read(FrameInfo, n)[f]
    <3> DEFINE r == Read(FrameInfo, m)
    <3>1. r = Read(FrameInfo, n) /\ DOMAIN r = DOMAIN FrameInfo
      BY <1>5, <1>7, <1>10
    <3> HIDE DEF r, rawTime
    <3>2. v = With(r, "rawTime", rawTime)
      BY DEF r
    <3> HIDE DEF v
    <3>3. v["rawTime"] = rawTime /\ \A f \in DOMAIN r : f # "rawTime" => v[f] = r[f]
      BY <3>2 DEF With
    <3> QED
      BY <1>3, <3>1, <3>3
  <2>3. SameFields(v, c.value, {})
    BY <1>1, <1>6, <2>2 DEF SameFields
  <2>4. rawTime \in {c.value.pts} \union (IF whole THEN {} ELSE {0})
    BY <1>2, <1>4, <1>8, <1>10, JsonIs
  <2> HIDE DEF v, rawTime
  <2> QED
    BY <1>1, <2>1, <2>2, <2>3, <2>4 DEF Says
<1>11. whole => Received(c.kind, m) # NoCommand
  <2>1. whole => Reads(FrameInfo, m) /\ ("rawTime" \in DOMAIN m => m["rawTime"].t = "string")
    BY <1>2, <1>4, <1>5, JsonIs
  <2> QED
    BY <1>9, <2>1, KindsDiffer
<1>12. ASSUME ~(Reads(FrameInfo, m) /\ ("rawTime" \in DOMAIN m => m["rawTime"].t = "string"))
       PROVE  Says(Received(c.kind, m), c, whole)
  <2>1. Received(c.kind, m) = [kind |-> "frame", value |-> NoInfo]
    BY <1>9, <1>12
  <2>2. ~whole
    BY <1>2, <1>4, <1>5, <1>12, JsonIs
  <2> QED
    BY <1>1, <2>1, <2>2 DEF Says
<1> QED
  BY <1>10, <1>11, <1>12 DEF Arrives, Taken

\* Lists of objects that are read as they were written.
LEMMA ListsAre ==
  ASSUME NEW S, NEW s \in Lists(S)
  PROVE  /\ s \in Seq(S) /\ s = [i \in DOMAIN s |-> s[i]] /\ \A i \in DOMAIN s : s[i] \in S
         /\ \E n \in Nat : DOMAIN s = 1..n
<1>1. PICK n \in 0..MaxItems : s \in [1..n -> S]
  BY DEF Lists
<1>2. n \in Nat
  BY CommandsAssumption
<1> QED
  BY <1>1, <1>2

LEMMA FilledListIsRead ==
  ASSUME NEW fields, Plain(fields), DOMAIN fields \intersect ArrayFields = {},
         NEW d, d = [i \in DOMAIN d |-> Filled(fields)],
         NEW a, DOMAIN a = DOMAIN d, \A i \in DOMAIN d : Thinner(a[i], Write(fields, d[i])),
         ReadsAll(fields, a)
  PROVE  ReadAll(fields, a) = d
<1>1. ASSUME NEW i \in DOMAIN d
      PROVE  Read(fields, a[i]) = d[i]
  <2>1. d[i] = Filled(fields) /\ Reads(fields, a[i]) /\ Thinner(a[i], Write(fields, d[i]))
    BY DEF ReadsAll
  <2>2. Kept(fields, a[i], Write(fields, d[i]))
    BY <2>1, ThinnerKeeps
  <2>3. Read(fields, Write(fields, d[i])) = d[i]
    BY <2>1, WrittenHolds, FilledIsRead
  <2> QED
    BY <2>2, <2>3, KeptIsRead
<1> QED
  BY <1>1 DEF ReadAll


\* An array inside an object, and its elements.
LEMMA ListKept ==
  ASSUME NEW f \in ArrayFields, NEW a, NEW b, Thinner(a, b), Has(a, f, "array"), f \in DOMAIN b
  PROVE  ThinList(a[f].v, b[f].v)
<1>1. ThinList(b[f].v, b[f].v)
  BY ThinOfItself DEF ThinList
<1> QED
  BY <1>1 DEF Thinner, Has

LEMMA ChannelArrives ==
  ASSUME NEW c \in ChannelCommands, NEW m, NEW whole \in BOOLEAN, ThinMessage(m, Marshal(c)), whole => m = Marshal(c)
  PROVE  Arrives(Received(c.kind, m), c, whole)
<1> DEFINE Command == [kind |-> "channel", value |-> c.value]
<1>1. PICK d \in Lists({Filled(ChannelDetail)}) :
        c.kind = "channel" /\ c.value = With(Filled(SourceDevId), "details", d)
  BY DEF ChannelCommands, Of
<1>2. d \in Seq({Filled(ChannelDetail)}) /\ d = [i \in DOMAIN d |-> Filled(ChannelDetail)]
  BY ListsAre
<1>3. c.value["details"] = d /\ "SourceDevId" \in DOMAIN c.value /\ c.value["SourceDevId"] = Filled(SourceDevId)["SourceDevId"]
  BY <1>1, FieldsAre DEF With, Filled
<1> DEFINE o == With(Write(SourceDevId, c.value), "Detail", MarshalDetails(d))
           n == Marshal(c)
<1>4. n = WithHeader(c, Json("object", o))
  BY <1>1, <1>3 DEF Marshal, MarshalChannel
<1>5. /\ Holds(o, SourceDevId, Filled(SourceDevId)) /\ "Detail" \in DOMAIN o /\ o["Detail"] = MarshalDetails(d)
  <2> DEFINE w == Write(SourceDevId, c.value)
  <2>1. DOMAIN w = {"SourceDevId"} /\ w["SourceDevId"] = Json(SourceDevId["SourceDevId"], Filled(SourceDevId)["SourceDevId"])
    BY <1>3, FieldsAre DEF Write
  <2> HIDE DEF w
  <2>2. o = With(w, "Detail", MarshalDetails(d))
    BY DEF w
  <2> HIDE DEF o
  <2>3. "Detail" \in DOMAIN o /\ o["Detail"] = MarshalDetails(d) /\ "SourceDevId" \in DOMAIN o /\ o["SourceDevId"] = w["SourceDevId"]
    BY <2>1, <2>2 DEF With
  <2> QED
    BY <2>1, <2>3, FieldsAre DEF Holds
<1> HIDE DEF o
<1>6. "Value" \in DOMAIN n /\ n["Value"].t = "object" /\ n["Value"].v = o /\ HasHeader(n)
  BY <1>4, HeaderIs, JsonIs
<1>7. o["Detail"].t = "array" /\ o["Detail"].v = [i \in DOMAIN d |-> Write(ChannelDetail, d[i])]
  BY <1>5, JsonIs DEF MarshalDetails
<1> DEFINE Good == /\ Has(m, "Value", "object") /\ Reads(SourceDevId, m["Value"].v)
                   /\ UnmarshalDetails(m["Value"].v)
<1>8. ASSUME Good
      PROVE  /\ Read(SourceDevId, m["Value"].v) = Filled(SourceDevId)
             /\ ReadAll(ChannelDetail, m["Value"].v["Detail"].v) = d
  <2> DEFINE p == m["Value"].v
  <2>1. Thinner(p, o)
    BY <1>6, <1>8, ObjectKept
  <2>2. Reads(SourceDevId, p) /\ Has(p, "Detail", "array") /\ ReadsAll(ChannelDetail, p["Detail"].v)
    BY <1>8 DEF UnmarshalDetails
  <2> HIDE DEF p
  <2>3. Plain(SourceDevId) /\ DOMAIN SourceDevId \intersect ArrayFields = {}
        /\ Plain(ChannelDetail) /\ DOMAIN ChannelDetail \intersect ArrayFields = {} /\ "Detail" \in ArrayFields
    BY FieldsAre DEF ArrayFields
  <2>4. Read(SourceDevId, p) = Filled(SourceDevId)
    BY <1>5, <2>1, <2>2, <2>3, ThinnerKeeps, KeptIsRead, FilledIsRead
  <2>5. ThinList(p["Detail"].v, o["Detail"].v)
    BY <1>5, <2>1, <2>2, <2>3, ListKept
  <2> DEFINE a == p["Detail"].v
  <2> HIDE DEF a
  <2>6. DOMAIN a = DOMAIN d /\ \A i \in DOMAIN d : Thinner(a[i], Write(ChannelDetail, d[i]))
    <3>1. ThinList(a, [i \in DOMAIN d |-> Write(ChannelDetail, d[i])])
      BY <1>7, <2>5 DEF a
    <3> QED
      BY <3>1, ThinIsThinner DEF ThinList
  <2>7. ReadsAll(ChannelDetail, a)
    BY <2>2 DEF a
  <2>8. ReadAll(ChannelDetail, a) = d
    BY <1>2, <2>3, <2>6, <2>7, FilledListIsRead
  <2> QED
    BY <2>4, <2>8 DEF a, p
<1>9. ASSUME m = n, d # <<>>
      PROVE  HasHeader(m) /\ Good
  <2>1. Reads(SourceDevId, o)
    BY <1>5, HeldIsRead
  <2> DEFINE w == o["Detail"].v
  <2>2. Has(o, "Detail", "array") /\ w = [i \in DOMAIN d |-> Write(ChannelDetail, d[i])]
    BY <1>5, <1>7 DEF Has
  <2> HIDE DEF w
  <2>3. w # <<>>
    <3>1. DOMAIN d # {}
      BY <1>2, <1>9
    <3> QED
      BY <2>2, <3>1
  <2>4. ReadsAll(ChannelDetail, w)
    <3>1. ASSUME NEW i \in DOMAIN w PROVE Reads(ChannelDetail, w[i])
      BY <2>2, WrittenHolds, HeldIsRead
    <3> QED
      BY <3>1 DEF ReadsAll
  <2>5. UnmarshalDetails(o)
    BY <2>2, <2>3, <2>4 DEF UnmarshalDetails, w
  <2> QED
    BY <1>6, <1>9, <2>1, <2>5 DEF Has
<1>10. Received(c.kind, m) =
         IF HasHeader(m) /\ Good
         THEN [kind |-> "channel", value |-> With(Read(SourceDevId, m["Value"].v), "details",
                                                  ReadAll(ChannelDetail, m["Value"].v["Detail"].v))]
         ELSE NoCommand
  BY <1>1 DEF Received, UnmarshalChannel, If
<1> HIDE DEF Good
<1>11. Received(c.kind, m) = IF HasHeader(m) /\ Good THEN Command ELSE NoCommand
  <2>1. CASE Good
    BY <1>1, <1>8, <1>10, <2>1
  <2>2. CASE ~Good
    BY <1>10, <2>2
  <2> QED
    BY <2>1, <2>2
<1>12. whole => Received(c.kind, m) = Command \/ c.value["details"] = <<>>
  BY <1>3, <1>9, <1>11
<1> QED
  BY <1>1, <1>11, <1>12, KindsDiffer DEF Arrives, Says, Taken

\* A setting is read as it was sent, the metadata in it too.
LEMMA SettingIs ==
  ASSUME NEW b \in Seq(Byte), NEW s, s = SettingOf(b), NEW w, w = Write(Setting, Encoded(s))
  PROVE  Reads(Setting, w) /\ Decoded(Read(Setting, w)) = s
<1> DEFINE text == Base64Encode(b)
<1>1. /\ DOMAIN s = {"SettingType", "SettingValue"} /\ s["SettingValue"] = b /\ s["SettingType"] = 1
      /\ s = [f \in {"SettingType", "SettingValue"} |-> s[f]]
  <2>1. DOMAIN Filled(Setting) = {"SettingType", "SettingValue"} /\ Filled(Setting)["SettingType"] = 1
    BY DEF Filled, Sample, Setting
  <2> QED
    BY <2>1 DEF SettingOf, With
<1> DEFINE e == Encoded(s)
<1>2. /\ DOMAIN e = {"SettingType", "SettingValue"} /\ e["SettingValue"] = text /\ e["SettingType"] = 1
  BY <1>1 DEF Encoded, With
<1> HIDE DEF e, text
<1>3. Holds(w, Setting, e)
  BY WrittenHolds DEF e
<1> DEFINE r == Read(Setting, w)
<1>4. DOMAIN r = {"SettingType", "SettingValue"} /\ r["SettingValue"] = text /\ r["SettingType"] = 1
  <2>1. Setting["SettingType"] = "number" /\ Setting["SettingValue"] = "string"
    BY DEF Setting
  <2>2. ~(e["SettingType"] > IntMax)
    BY <1>2, CommandsAssumption
  <2>3. "SettingType" \in DOMAIN Setting /\ "SettingValue" \in DOMAIN Setting
    BY FieldsAre
  <2>4. r["SettingType"] = e["SettingType"] /\ r["SettingValue"] = e["SettingValue"] /\ DOMAIN r = DOMAIN Setting
    BY <1>3, <2>1, <2>2, <2>3, HeldIsRead
  <2> QED
    BY <1>2, <2>4, FieldsAre
<1> HIDE DEF r
<1>5. Base64Decode(text) = b
  BY MetadataSurvivesText DEF text
<1>6. Decoded(r) = s
  <2>1. Decoded(r) = [f \in {"SettingType", "SettingValue"} |-> IF f = "SettingValue" THEN b ELSE r[f]]
    BY <1>4, <1>5 DEF Decoded, With
  <2> QED
    BY <1>1, <1>4, <2>1
<1> QED
  BY <1>3, <1>6, HeldIsRead DEF r

\* Settings that a program sends.
IsSettings(s) ==
  s = [i \in DOMAIN s |-> s[i]] /\ \A i \in DOMAIN s : \E b \in Seq(Byte) : s[i] = SettingOf(b)

LEMMA SettingsAre ==
  ASSUME NEW s, IsSettings(s), NEW w, w = MarshalSettings(s).v
  PROVE  /\ w = [i \in DOMAIN s |-> w[i]] /\ MarshalSettings(s).t = "array" /\ ReadsAll(Setting, w)
         /\ \A a : DOMAIN a = DOMAIN s /\ (\A i \in DOMAIN s : Thinner(a[i], w[i])) /\ ReadsAll(Setting, a)
                     => ReadSettings(a) = s
<1>1. w = [i \in DOMAIN s |-> Write(Setting, Encoded(s[i]))] /\ MarshalSettings(s).t = "array"
  BY JsonIs DEF MarshalSettings
<1>2. ASSUME NEW i \in DOMAIN s
      PROVE  Reads(Setting, w[i]) /\ Decoded(Read(Setting, w[i])) = s[i]
  <2>1. PICK b \in Seq(Byte) : s[i] = SettingOf(b)
    BY DEF IsSettings
  <2>2. w[i] = Write(Setting, Encoded(s[i]))
    BY <1>1
  <2> QED
    BY <2>1, <2>2, SettingIs
<1>3. ASSUME NEW a, DOMAIN a = DOMAIN s, \A i \in DOMAIN s : Thinner(a[i], w[i]), ReadsAll(Setting, a)
      PROVE  ReadSettings(a) = s
  <2>1. ASSUME NEW i \in DOMAIN s PROVE Decoded(Read(Setting, a[i])) = s[i]
    <3>1. Plain(Setting) /\ DOMAIN Setting \intersect ArrayFields = {} /\ Reads(Setting, a[i])
      BY <1>3, FieldsAre DEF ReadsAll, ArrayFields
    <3>2. Read(Setting, a[i]) = Read(Setting, w[i])
      BY <1>3, <3>1, ThinnerKeeps, KeptIsRead
    <3> QED
      BY <1>2, <3>2
  <2> QED
    BY <1>3, <2>1 DEF ReadSettings, IsSettings
<1> QED
  BY <1>1, <1>2, <1>3 DEF ReadsAll


LEMMA SentSettings ==
  /\ \A s \in Lists({ASetting}) : IsSettings(s)
  /\ \A s \in Settings : IsSettings(s) /\ \E n \in Nat : DOMAIN s = 1..n
<1>1. ASSUME NEW s \in Lists({ASetting})
      PROVE  IsSettings(s) /\ \E n \in Nat : DOMAIN s = 1..n
  <2>1. <<83>> \in Seq(Byte) /\ ASetting = SettingOf(<<83>>)
    BY DEF ASetting, Byte
  <2>2. s = [i \in DOMAIN s |-> s[i]] /\ (\A i \in DOMAIN s : s[i] = ASetting) /\ \E n \in Nat : DOMAIN s = 1..n
    BY ListsAre
  <2> QED
    BY <2>1, <2>2 DEF IsSettings
<1>2. ASSUME NEW b \in Metadata
      PROVE  IsSettings(<<SettingOf(b)>>) /\ \E n \in Nat : DOMAIN <<SettingOf(b)>> = 1..n
  <2>1. b \in Seq(Byte)
    BY CommandsAssumption DEF Byte
  <2> DEFINE x == SettingOf(b)
  <2> HIDE DEF x
  <2>2. DOMAIN <<x>> = 1..1 /\ <<x>> = [i \in 1..1 |-> <<x>>[i]] /\ <<x>>[1] = x
    OBVIOUS
  <2> QED
    BY <2>1, <2>2 DEF IsSettings, x
<1> QED
  BY <1>1, <1>2 DEF Settings

LEMMA MetadataArrives ==
  ASSUME NEW c \in MetadataCommands \union ResultCommands, NEW m, NEW whole \in BOOLEAN,
         ThinMessage(m, Marshal(c)), whole => m = Marshal(c)
  PROVE  Arrives(Received(c.kind, m), c, whole)
<1> DEFINE s == c.value
           n == Marshal(c)
           w == MarshalSettings(s).v
           Command == [kind |-> c.kind, value |-> s]
           Good == Has(m, "Value", "array") /\ m["Value"].v # <<>> /\ ReadsAll(Setting, m["Value"].v)
<1>1. c.kind \in {"metadata", "result"} /\ s \in Settings
  BY DEF MetadataCommands, ResultCommands, Of
<1>2. IsSettings(s) /\ \E k \in Nat : DOMAIN s = 1..k
  BY <1>1, SentSettings
<1>3. n = WithHeader(c, MarshalSettings(s))
  BY <1>1 DEF Marshal, MarshalMetadata
<1>4. /\ w = [i \in DOMAIN s |-> w[i]] /\ MarshalSettings(s).t = "array" /\ ReadsAll(Setting, w)
      /\ \A a : DOMAIN a = DOMAIN s /\ (\A i \in DOMAIN s : Thinner(a[i], w[i])) /\ ReadsAll(Setting, a)
                  => ReadSettings(a) = s
  BY <1>2, SettingsAre
<1>5. "Value" \in DOMAIN n /\ n["Value"] = MarshalSettings(s) /\ HasHeader(n)
  BY <1>3, HeaderIs
<1> HIDE DEF s, w, n
<1>6. n["Value"].t = "array" /\ n["Value"].v = w /\ w = [i \in DOMAIN w |-> w[i]] /\ DOMAIN w = DOMAIN s
  BY <1>4, <1>5 DEF w
<1>7. Good => ReadSettings(m["Value"].v) = s
  <2> SUFFICES ASSUME Good PROVE ReadSettings(m["Value"].v) = s
    OBVIOUS
  <2>1. ThinnerList(m["Value"].v, n["Value"].v)
    BY <1>5, <1>6, ArrayKept DEF n
  <2> DEFINE a == m["Value"].v
  <2>2. ReadsAll(Setting, a)
    OBVIOUS
  <2> HIDE DEF a
  <2>3. ThinnerList(a, w)
    BY <1>6, <2>1 DEF a
  <2>4. DOMAIN a = DOMAIN s /\ \A i \in DOMAIN s : Thinner(a[i], w[i])
    BY <1>6, <2>3 DEF ThinnerList
  <2>5. ReadSettings(a) = s
    BY <1>4, <2>2, <2>4
  <2> QED
    BY <2>5 DEF a
<1>8. m = n /\ s # <<>> => HasHeader(m) /\ Good
  <2>1. s # <<>> => w # <<>>
    <3>1. s # <<>> => DOMAIN s # {}
      BY <1>2 DEF IsSettings
    <3> QED
      BY <1>6, <3>1
  <2> QED
    BY <1>4, <1>5, <1>6, <2>1 DEF Has
<1>9. CommandOf(m) \in {c.kind, "none"} /\ (m = n => CommandOf(m) = c.kind) /\ (HasHeader(m) => m["Command"].v = c.kind)
  <2>1. "Command" \in DOMAIN n /\ n["Command"] = Json("string", c.kind)
    BY <1>3, HeaderIs
  <2> QED
    BY <2>1, CommandKept DEF n
<1>10. UnmarshalMetadata(m) = IF HasHeader(m) /\ Good THEN Command ELSE NoCommand
  BY <1>7, <1>9 DEF UnmarshalMetadata, If
<1> HIDE DEF Good, Command
<1>11. Received(c.kind, m) = IF CommandOf(m) = c.kind THEN UnmarshalMetadata(m) ELSE NoCommand
  BY <1>1, <1>9 DEF Received, ReceivedBySource, ReceivedBySink
<1>12. Received(c.kind, m) \in {NoCommand, Command}
  BY <1>10, <1>11
<1>13. whole => Received(c.kind, m) = Command \/ s = <<>>
  BY <1>8, <1>9, <1>10, <1>11 DEF n
<1>14. Command # NoCommand /\ Command.kind = c.kind /\ Command.value = s
  BY <1>1, KindsDiffer DEF Command
<1> QED
  BY <1>1, <1>12, <1>13, <1>14 DEF Arrives, Says, Taken, s

----------------------------------------------------------------------------
\* An info of a capture, and all of them.
IsInfo(info) == \E s : IsSettings(s) /\ info = With(Filled(CaptureInfo), "settings", s)
MarshalledInfo(info) == With(Write(CaptureInfo, info), "CaptureSettings", MarshalSettings(info.settings))

LEMMA InfoIs ==
  ASSUME NEW info, IsInfo(info)
  PROVE  /\ CanRead(MarshalledInfo(info))
         /\ \A a : Thinner(a, MarshalledInfo(info)) /\ CanRead(a) => ReadInfo(a) = info
<1> DEFINE o == MarshalledInfo(info)
<1>1. PICK s : IsSettings(s) /\ info = With(Filled(CaptureInfo), "settings", s)
  BY DEF IsInfo
<1> DEFINE w == MarshalSettings(s)
<1>2. info["settings"] = s
  BY <1>1 DEF With
<1>3. \A f \in DOMAIN CaptureInfo : info[f] = Filled(CaptureInfo)[f]
  <2>1. DOMAIN Filled(CaptureInfo) = DOMAIN CaptureInfo /\ "settings" \notin DOMAIN CaptureInfo
    BY FieldsAre DEF Filled
  <2> DEFINE F == Filled(CaptureInfo)
  <2> HIDE DEF F
  <2>2. \A f \in DOMAIN F : f # "settings" => info[f] = F[f]
    BY <1>1 DEF F, With
  <2> QED
    BY <2>1, <2>2 DEF F
<1>4. Holds(o, CaptureInfo, Filled(CaptureInfo)) /\ "CaptureSettings" \in DOMAIN o /\ o["CaptureSettings"] = w
  <2> DEFINE p == Write(CaptureInfo, info)
  <2>1. DOMAIN p = DOMAIN CaptureInfo /\ \A f \in DOMAIN CaptureInfo : p[f] = Json(CaptureInfo[f], Filled(CaptureInfo)[f])
    BY <1>3 DEF Write
  <2> HIDE DEF p
  <2>2. o = With(p, "CaptureSettings", w)
    BY <1>2 DEF MarshalledInfo, p
  <2> HIDE DEF o, w
  <2>3. /\ "CaptureSettings" \in DOMAIN o /\ o["CaptureSettings"] = w
        /\ \A f \in DOMAIN p : f # "CaptureSettings" => f \in DOMAIN o /\ o[f] = p[f]
    BY <2>2 DEF With
  <2>4. "CaptureSettings" \notin DOMAIN CaptureInfo
    BY FieldsAre
  <2> QED
    BY <2>1, <2>3, <2>4 DEF Holds
<1>5. /\ w.v = [i \in DOMAIN s |-> w.v[i]] /\ w.t = "array" /\ ReadsAll(Setting, w.v)
      /\ \A a : DOMAIN a = DOMAIN s /\ (\A i \in DOMAIN s : Thinner(a[i], w.v[i])) /\ ReadsAll(Setting, a)
                  => ReadSettings(a) = s
  BY <1>1, SettingsAre
<1> HIDE DEF o, w
<1>6. CanRead(o)
  BY <1>4, <1>5, FilledIsRead DEF CanRead, UmarshalSettings, Has
<1>7. ASSUME NEW a, Thinner(a, o), CanRead(a)
      PROVE  ReadInfo(a) = info
  <2>1. Reads(CaptureInfo, a) /\ Has(a, "CaptureSettings", "array") /\ ReadsAll(Setting, a["CaptureSettings"].v)
    BY <1>7 DEF CanRead, UmarshalSettings
  <2>2. Plain(CaptureInfo) /\ DOMAIN CaptureInfo \intersect ArrayFields = {} /\ "CaptureSettings" \in ArrayFields
    BY FieldsAre DEF ArrayFields
  <2>3. Read(CaptureInfo, a) = Filled(CaptureInfo)
    BY <1>4, <1>7, <2>1, <2>2, ThinnerKeeps, KeptIsRead, FilledIsRead
  <2> DEFINE t == a["CaptureSettings"].v
  <2>4. ThinList(t, w.v)
    BY <1>4, <1>7, <2>1, <2>2, ListKept
  <2>5. ReadsAll(Setting, t)
    BY <2>1
  <2> HIDE DEF t
  <2>6. DOMAIN t = DOMAIN s /\ \A i \in DOMAIN s : Thinner(t[i], w.v[i])
    BY <1>5, <2>4, ThinIsThinner DEF ThinList
  <2>7. ReadSettings(t) = s
    BY <1>5, <2>5, <2>6
  <2> QED
    BY <1>1, <2>3, <2>7 DEF ReadInfo, t
<1> QED
  BY <1>6, <1>7 DEF o

LEMMA InfosAre ==
  ASSUME NEW v, NEW k \in Nat, v = [i \in 1..k |-> v[i]], \A i \in 1..k : IsInfo(v[i]),
         NEW w, w = MarshalInfos(v).v
  PROVE  /\ MarshalInfos(v).t = "array" /\ w = [i \in DOMAIN w |-> w[i]]
         /\ \A i \in DOMAIN w : CanRead(w[i])
         /\ \A a : ThinnerList(a, w) /\ (\A i \in DOMAIN a : CanRead(a[i])) => ReadInfos(a) = v
<1>1. w = [i \in 1..k |-> MarshalledInfo(v[i])] /\ MarshalInfos(v).t = "array"
  <2>1. DOMAIN v = 1..k
    OBVIOUS
  <2> QED
    BY <2>1, JsonIs DEF MarshalInfos, MarshalledInfo
<1>2. \A i \in 1..k : w[i] = MarshalledInfo(v[i])
  BY <1>1
<1>3. ASSUME NEW a, ThinnerList(a, w), \A i \in DOMAIN a : CanRead(a[i])
      PROVE  ReadInfos(a) = v
  <2>1. DOMAIN a = 1..k /\ a = [i \in 1..k |-> a[i]]
    BY <1>1, <1>3 DEF ThinnerList
  <2> DEFINE T == {a[i] : i \in 1..k}
             S == {a[i] : i \in {j \in DOMAIN a : ~CanRead(a[j])}}
             ahead == Before(a, S)
  <2>2. a \in [1..k -> T]
    BY <2>1
  <2> HIDE DEF T
  <2>3. a \in Seq(T) /\ Len(a) = k
    BY <2>2
  <2>4. S = {}
    BY <1>3
  <2>5. ahead \in Seq(T) /\ Len(ahead) = k /\ \A i \in 1..k : ahead[i] = a[i]
    <3>1. k \in 0..Len(a) /\ (\A i \in 1..k : a[i] \notin S) /\ (k < Len(a) => a[k + 1] \in S)
      BY <2>3, <2>4
    <3> HIDE DEF S
    <3>2. /\ Before(a, S) \in Seq(T) /\ Len(Before(a, S)) = k
          /\ \A i \in 1..k : Before(a, S)[i] = a[i]
      BY ONLY <2>3, <3>1, BeforeIs
    <3> QED
      BY <3>2
  <2>6. ReadInfos(a) = [i \in DOMAIN ahead |-> ReadInfo(ahead[i])]
    BY DEF ReadInfos
  <2> HIDE DEF ahead
  <2>7. DOMAIN ahead = 1..k
    BY <2>5
  <2>8. \A i \in 1..k : ReadInfo(ahead[i]) = v[i]
    <3>1. ASSUME NEW i \in 1..k PROVE ReadInfo(ahead[i]) = v[i]
      <4>1. ahead[i] = a[i] /\ CanRead(a[i]) /\ Thinner(a[i], w[i]) /\ w[i] = MarshalledInfo(v[i]) /\ IsInfo(v[i])
        BY <1>2, <1>3, <2>1, <2>5 DEF ThinnerList
      <4> QED
        BY <4>1, InfoIs
    <3> QED
      BY <3>1
  <2> QED
    BY <2>6, <2>7, <2>8
<1> QED
  BY <1>1, <1>2, <1>3, InfoIs


LEMMA CaptureArrives ==
  ASSUME NEW c \in CaptureCommands, NEW m, NEW whole \in BOOLEAN, ThinMessage(m, Marshal(c)), whole => m = Marshal(c)
  PROVE  Arrives(Received(c.kind, m), c, whole)
<1> DEFINE v == c.value
           n == Marshal(c)
           h == WithHeader(c, MarshalInfos(v))
           w == MarshalInfos(v).v
           tail == [f \in DOMAIN CaptureTail |-> OrDefault(m, f)]
           Command == [kind |-> "capture", value |-> v, tail |-> tail]
           FirstFour == {"Type", "dhId", "Command", "Value"}
<1>1. /\ c.kind = "capture" /\ c.tail \in Widened(CaptureTail)
      /\ v \in Lists({With(Filled(CaptureInfo), "settings", s) : s \in Lists({ASetting})})
  BY DEF CaptureCommands
<1>2. \E k \in Nat : v = [i \in 1..k |-> v[i]] /\ \A i \in 1..k : IsInfo(v[i])
  <2>1. PICK k \in Nat : DOMAIN v = 1..k
    BY <1>1, ListsAre
  <2> DEFINE Infos == {With(Filled(CaptureInfo), "settings", s) : s \in Lists({ASetting})}
  <2> HIDE DEF v, Infos
  <2>2. v = [i \in DOMAIN v |-> v[i]] /\ \A i \in DOMAIN v : v[i] \in Infos
    <3>1. v \in Lists(Infos)
      BY <1>1 DEF Infos
    <3> QED
      BY <3>1, ListsAre
  <2>3. \A i \in DOMAIN v : IsInfo(v[i])
    BY <2>2, SentSettings DEF IsInfo, Infos
  <2> QED
    BY <2>1, <2>2, <2>3
<1>3. /\ MarshalInfos(v).t = "array" /\ w = [i \in DOMAIN w |-> w[i]] /\ \A i \in DOMAIN w : CanRead(w[i])
      /\ \A a : ThinnerList(a, w) /\ (\A i \in DOMAIN a : CanRead(a[i])) => ReadInfos(a) = v
  BY <1>2, InfosAre
<1>4. n = Joined(h, Write(CaptureTail, c.tail))
  BY <1>1 DEF Marshal, MarshalCapture
<1>5. DOMAIN h = FirstFour /\ h["Value"] = MarshalInfos(v) /\ h["Command"] = Json("string", "capture") /\ HasHeader(h)
  BY <1>1, HeaderIs
<1> HIDE DEF v, h, w, n
<1>6. /\ FirstFour \subseteq DOMAIN n /\ \A f \in FirstFour : n[f] = h[f]
      /\ \A f \in DOMAIN CaptureTail : f \in DOMAIN n /\ n[f] = Json(CaptureTail[f], c.tail[f])
  <2> DEFINE t == Write(CaptureTail, c.tail)
  <2>1. DOMAIN t = DOMAIN CaptureTail /\ \A f \in DOMAIN CaptureTail : t[f] = Json(CaptureTail[f], c.tail[f])
    BY DEF Write
  <2>2. DOMAIN CaptureTail \intersect FirstFour = {}
    BY FieldsAre
  <2> HIDE DEF t, FirstFour
  <2>3. DOMAIN n = DOMAIN h \union DOMAIN t /\ \A f \in DOMAIN n : n[f] = IF f \in DOMAIN h THEN h[f] ELSE t[f]
    BY <1>4 DEF Joined, t
  <2> QED
    BY <1>5, <2>1, <2>2, <2>3
<1>7. /\ "Value" \in DOMAIN n /\ n["Value"].t = "array" /\ n["Value"].v = w
      /\ "Command" \in DOMAIN n /\ n["Command"] = Json("string", c.kind) /\ HasHeader(n)
  <2>1. "Value" \in DOMAIN n /\ n["Value"] = MarshalInfos(v) /\ "Command" \in DOMAIN n /\ n["Command"] = h["Command"]
    BY <1>5, <1>6
  <2>2. HasHeader(n)
    BY <1>5, <1>6, FieldsAre DEF HasHeader, Reads, Has
  <2> QED
    BY <1>1, <1>3, <1>5, <2>1, <2>2 DEF w
<1>8. UmarshalValue(m) => ReadInfos(m["Value"].v) = v
  <2> SUFFICES ASSUME UmarshalValue(m) PROVE ReadInfos(m["Value"].v) = v
    OBVIOUS
  <2>1. Has(m, "Value", "array") /\ \A i \in DOMAIN m["Value"].v : CanRead(m["Value"].v[i])
    BY DEF UmarshalValue
  <2>2. ThinnerList(m["Value"].v, n["Value"].v)
    BY <1>3, <1>7, <2>1, ArrayKept DEF n
  <2> QED
    BY <1>3, <1>7, <2>1, <2>2
<1>9. UmarshalValue(n)
  BY <1>3, <1>7 DEF UmarshalValue, Has
<1>10. CommandOf(m) \in {"capture", "none"} /\ (m = n => CommandOf(m) = "capture")
  BY <1>1, <1>7, CommandKept DEF n
<1>11. UnmarshalCapture(m) = IF HasHeader(m) /\ UmarshalValue(m) THEN Command ELSE NoCommand
  BY <1>8 DEF UnmarshalCapture, If
<1>12. m = n => SameFields(tail, c.tail, {})
  <2> SUFFICES ASSUME m = n PROVE SameFields(tail, c.tail, {})
    OBVIOUS
  <2>1. DOMAIN c.tail = DOMAIN CaptureTail
        /\ \A f \in DOMAIN CaptureTail : f \in Wide \/ c.tail[f] = Sample(CaptureTail[f])
    BY <1>1 DEF Widened
  <2>2. ASSUME NEW f \in DOMAIN CaptureTail
        PROVE  tail[f] = c.tail[f] \/ (f \in Wide /\ c.tail[f] > IntMax)
    <3> DEFINE x == Json(CaptureTail[f], c.tail[f])
    <3>1. n[f] = x /\ f \in DOMAIN n /\ x.t = CaptureTail[f] /\ x.v = c.tail[f]
      BY <1>6, JsonIs
    <3> HIDE DEF x
    <3>2. tail[f] = valueint(x)
      BY <3>1 DEF OrDefault, Has
    <3>3. CaptureTail[f] = "number" => Sample(CaptureTail[f]) = 1
      BY DEF Sample
    <3>4. ~(x.t = "number" /\ x.v > IntMax) => tail[f] = c.tail[f]
      BY <3>1, <3>2 DEF valueint
    <3>5. f \in Wide \/ ~(x.t = "number" /\ x.v > IntMax)
      BY <2>1, <3>1, <3>3, CommandsAssumption
    <3> QED
      BY <3>1, <3>4, <3>5
  <2> QED
    BY <2>1, <2>2 DEF SameFields
<1>13. Received(c.kind, m) = IF CommandOf(m) = "capture" THEN UnmarshalCapture(m) ELSE NoCommand
  BY <1>1, <1>10 DEF Received, ReceivedBySink
<1>14. Command # NoCommand /\ Command.kind = "capture" /\ Command.value = v /\ Command.tail = tail
  BY DEF NoCommand
<1>15. SameFields(tail, c.tail, DOMAIN CaptureTail)
  BY <1>1 DEF Widened, SameFields
<1> HIDE DEF Command, tail
<1>16. Received(c.kind, m) \in {NoCommand, Command}
  BY <1>11, <1>13
<1>17. whole => Received(c.kind, m) = Command
  BY <1>7, <1>9, <1>10, <1>11, <1>13 DEF n
<1>18. SameFields(tail, c.tail, IF whole THEN {} ELSE DOMAIN CaptureTail)
  BY <1>12, <1>15 DEF n
<1> QED
  BY <1>1, <1>14, <1>16, <1>17, <1>18 DEF Arrives, Says, Taken, v

----------------------------------------------------------------------------

LEMMA EveryCommandArrives ==
  ASSUME NEW c \in Commands, NEW m, NEW whole \in BOOLEAN, ThinMessage(m, Marshal(c)), whole => m = Marshal(c)
  PROVE  Arrives(Received(c.kind, m), c, whole)
<1>1. \/ c \in CaptureCommands \/ c \in MetadataCommands \union ResultCommands \/ c \in ChannelCommands
      \/ c \in EventCommands \/ c \in InfoCommands \/ c \in OpenCommands \/ c \in FrameInfos
  BY DEF Commands
<1>2. CASE c \in CaptureCommands
  BY <1>2, CaptureArrives
<1>3. CASE c \in MetadataCommands \union ResultCommands
  BY <1>3, MetadataArrives
<1>4. CASE c \in ChannelCommands
  BY <1>4, ChannelArrives
<1>5. CASE c \in EventCommands
  BY <1>5, EventArrives
<1>6. CASE c \in InfoCommands
  BY <1>6, InfoArrives
<1>7. CASE c \in OpenCommands
  BY <1>7, OpenArrives
<1>8. CASE c \in FrameInfos
  BY <1>8, FrameArrives
<1> QED
  BY <1>1, <1>2, <1>3, <1>4, <1>5, <1>6, <1>7, <1>8

\* What Marshal writes: an object, with a value that is one or an array.
LEMMA MarshalIs ==
  ASSUME NEW c \in Commands
  PROVE  /\ c # NoCommand /\ DOMAIN Marshal(c) # {}
         /\ "Value" \in DOMAIN Marshal(c) => Marshal(c)["Value"].t \in {"object", "array"}
<1> DEFINE Right(n) == DOMAIN n # {} /\ ("Value" \in DOMAIN n => n["Value"].t \in {"object", "array"})
<1>1. ASSUME NEW value, value.t \in {"object", "array"}
      PROVE  Right(WithHeader(c, value))
  BY <1>1, HeaderIs
<1>2. CASE c \in CaptureCommands
  <2> DEFINE h == WithHeader(c, MarshalInfos(c.value))
             t == Write(CaptureTail, c.tail)
  <2>1. c.kind = "capture" /\ c # NoCommand
    <3> DEFINE V == Lists({With(Filled(CaptureInfo), "settings", s) : s \in Lists({ASetting})})
               T == Widened(CaptureTail)
    <3>0. c \in {[kind |-> "capture", value |-> v, tail |-> x] : v \in V, x \in T}
      BY <1>2 DEF CaptureCommands
    <3> HIDE DEF V, T
    <3>1. c.kind = "capture"
      BY <3>0
    <3> QED
      BY <3>1 DEF NoCommand
  <2>2. Marshal(c) = Joined(h, t)
    BY <2>1 DEF Marshal, MarshalCapture
  <2>3. "Value" \in DOMAIN h /\ h["Value"].t = "array"
    BY HeaderIs, JsonIs DEF MarshalInfos
  <2> HIDE DEF h, t
  <2>4. "Value" \in DOMAIN Marshal(c) /\ Marshal(c)["Value"] = h["Value"]
    BY <2>2, <2>3 DEF Joined
  <2> QED
    BY <2>1, <2>3, <2>4
<1>3. CASE c \in MetadataCommands \union ResultCommands
  <2>1. c.kind \in {"metadata", "result"} /\ c # NoCommand
    BY <1>3 DEF MetadataCommands, ResultCommands, Of, NoCommand
  <2>2. Marshal(c) = WithHeader(c, MarshalSettings(c.value)) /\ MarshalSettings(c.value).t = "array"
    BY <2>1, JsonIs DEF Marshal, MarshalMetadata, MarshalSettings
  <2> QED
    BY <1>1, <2>1, <2>2
<1>4. CASE c \in ChannelCommands
  <2>1. c.kind = "channel" /\ c # NoCommand
    BY <1>4 DEF ChannelCommands, Of, NoCommand
  <2> DEFINE o == With(Write(SourceDevId, c.value), "Detail", MarshalDetails(c.value.details))
  <2>2. Marshal(c) = WithHeader(c, Json("object", o)) /\ Json("object", o).t = "object"
    BY <2>1, JsonIs DEF Marshal, MarshalChannel
  <2> HIDE DEF o
  <2> QED
    BY <1>1, <2>1, <2>2
<1>5. CASE c \in EventCommands \union InfoCommands \union OpenCommands
  <2>1. c.kind \in {"event", "info", "open"} /\ c # NoCommand
    BY <1>5 DEF EventCommands, InfoCommands, OpenCommands, Of, NoCommand
  <2>2. \E o : Marshal(c) = WithHeader(c, Json("object", o)) /\ Json("object", o).t = "object"
    BY <2>1, JsonIs DEF Marshal, MarshalEvent, MarshalInfo, MarshalOpenInfo
  <2> QED
    BY <1>1, <2>1, <2>2
<1>6. CASE c \in FrameInfos
  <2>1. c.kind = "frame" /\ c # NoCommand
    BY <1>6 DEF FrameInfos, Of, NoCommand
  <2> DEFINE w == Write(FrameInfo, c.value)
             raw == Json("string", c.value.pts)
  <2>2. Marshal(c) = With(w, "rawTime", raw)
    BY <2>1 DEF Marshal, MarshalFrameInfo
  <2>3. "Value" \notin DOMAIN w
    BY FieldsAre DEF Write
  <2> HIDE DEF w, raw
  <2>4. "Value" \notin DOMAIN Marshal(c) /\ "rawTime" \in DOMAIN Marshal(c)
    BY <2>2, <2>3 DEF With
  <2> QED
    BY <2>1, <2>4
<1> QED
  BY <1>2, <1>3, <1>4, <1>5, <1>6 DEF Commands

(* A message is what its sender wrote, less what was spoiled on its way,   *)
(* until its receiver has made of it what was meant.                       *)
CommandInv ==
  /\ intact \in BOOLEAN
  /\ \/ sent = NoCommand /\ wire = <<>> /\ intact /\ received = NoCommand
     \/ /\ sent \in Commands /\ received = NoCommand /\ ThinMessage(wire, Marshal(sent))
        /\ intact => wire = Marshal(sent)
     \/ sent \in Commands /\ wire = <<>> /\ Arrives(received, sent, intact)

\* The commands of the protocol arrive as they were meant, or not at all, whatever
\* metadata they hold and whichever of their fields the peer does not know.
THEOREM CommandsAlwaysArrive == CommandSpec => []CommandsArrive
<1>1. CommandInit => CommandInv
  BY DEF CommandInit, CommandInv
<1>2. CommandInv /\ [CommandNext]_commandVars => CommandInv'
  <2> SUFFICES ASSUME CommandInv, [CommandNext]_commandVars PROVE CommandInv'
    OBVIOUS
  <2>1. CASE Send
    <3>1. PICK c \in Commands : sent' = c /\ wire' = Marshal(c) /\ intact' = intact /\ received' = received
      BY <2>1 DEF Send
    <3>2. sent = NoCommand
      BY <2>1 DEF Send
    <3>3. received = NoCommand /\ intact \in BOOLEAN
      BY <3>2, MarshalIs DEF CommandInv
    <3>4. ThinMessage(wire', Marshal(sent'))
      BY <3>1, ThinOfItself
    <3> QED
      BY <3>1, <3>3, <3>4 DEF CommandInv
  <2>2. CASE Spoil
    <3>1. /\ sent # NoCommand /\ wire # <<>> /\ intact /\ wire' \in SpoiledMessages(wire) /\ intact' = FALSE
          /\ sent' = sent /\ received' = received
      BY <2>2 DEF Spoil
    <3>2. sent \in Commands /\ received = NoCommand /\ wire = Marshal(sent)
      BY <3>1 DEF CommandInv
    <3>3. ThinMessage(wire', Marshal(sent))
      BY <3>1, <3>2, MarshalIs, SpoiledMessageIsThin
    <3> QED
      BY <3>1, <3>2, <3>3 DEF CommandInv
  <2>3. CASE Receive
    <3>1. /\ sent # NoCommand /\ wire # <<>> /\ received' = Received(sent.kind, wire) /\ wire' = <<>>
          /\ sent' = sent /\ intact' = intact
      BY <2>3 DEF Receive
    <3>2. sent \in Commands /\ ThinMessage(wire, Marshal(sent)) /\ (intact => wire = Marshal(sent)) /\ intact \in BOOLEAN
      BY <3>1 DEF CommandInv
    <3>3. Arrives(received', sent', intact')
      BY <3>1, <3>2, EveryCommandArrives
    <3> QED
      BY <3>1, <3>2, <3>3 DEF CommandInv
  <2>4. CASE UNCHANGED commandVars
    BY <2>4 DEF CommandInv, commandVars
  <2> QED
    BY <2>1, <2>2, <2>3, <2>4 DEF CommandNext
<1>3. CommandInv => CommandsArrive
  <2> SUFFICES ASSUME CommandInv PROVE CommandsArrive
    OBVIOUS
  <2>1. CASE sent = NoCommand /\ received = NoCommand
    BY <2>1 DEF CommandsArrive, AcceptedSaysWhatWasSent, OwnCommandsAreAccepted
  <2>2. CASE /\ sent \in Commands /\ received = NoCommand /\ ThinMessage(wire, Marshal(sent))
             /\ intact => wire = Marshal(sent)
    <3>1. ~(wire = <<>> /\ intact)
      BY <2>2, MarshalIs
    <3> QED
      BY <2>2, <3>1 DEF CommandsArrive, AcceptedSaysWhatWasSent, OwnCommandsAreAccepted
  <2>3. CASE sent \in Commands /\ Arrives(received, sent, intact)
    BY <2>3 DEF CommandsArrive, AcceptedSaysWhatWasSent, OwnCommandsAreAccepted, Arrives, Says, Taken
  <2> QED
    BY <2>1, <2>2, <2>3 DEF CommandInv
<1> QED
  BY <1>1, <1>2, <1>3, PTL DEF CommandSpec
=============================================================================
