------------------------- MODULE SinkChannelProofs -------------------------
(***************************************************************************)
(* What the sink keeps for any number of sources, sockets, requests and    *)
(* initializations.  The types come first, with who decides a request.     *)
(* Then what each step does, and on it three invariants: which sockets are *)
(* accepted, whose capture is prepared, and how trust, sessions, map,      *)
(* cleanups and controller agree.                                          *)
(***************************************************************************)
EXTENDS SinkChannel, TLAPS

\* A request that has been made has a peer, an entry to take only once, and
\* at most one of timer and answer that took it.
TakenOnce(q) ==
  /\ q.timer = "off" => q.answer = "off" /\ ~q.pending /\ q.outcome = "none"
  /\ q.timer # "off" => q.peer \in Peers
  /\ q.pending => /\ q.timer \in {"set", "cancelled", "fired"}
                  /\ q.answer \in {"none", "arrived"} /\ q.outcome = "none"
  /\ ~(q.timer = "taken" /\ q.answer = "taken")
  /\ q.outcome # "none" => q.timer # "taken" /\ q.answer # "taken"

ReqInv == \A r \in Requests : TakenOnce(req[r])

\* A socket in use has a source for its peer, and what the trust and the
\* sessions name is in use.
PeerInv ==
  /\ \A s \in Sockets : sock[s].phase # "free" => sock[s].peer \in Peers
  /\ \A k \in Kinds, s \in Sockets :
       trust[k] = s \/ session[k].id = s => sock[s].phase # "free"

\* A step that moves one socket to another phase.
LEMMA PhaseStep ==
  ASSUME sock \in [Sockets -> SocketState], NEW s \in Sockets, NEW p \in Phases, Phase(s, p)
  PROVE  /\ sock' \in [Sockets -> SocketState]
         /\ \A t \in Sockets : /\ sock'[t].kind = sock[t].kind
                               /\ sock'[t].peer = sock[t].peer /\ sock'[t].live = sock[t].live
                               /\ sock'[t].phase = IF t = s THEN p ELSE sock[t].phase
<1>1. ASSUME NEW t \in Sockets
      PROVE /\ sock'[t] \in SocketState
            /\ sock'[t].kind = sock[t].kind
            /\ sock'[t].peer = sock[t].peer /\ sock'[t].live = sock[t].live
            /\ sock'[t].phase = IF t = s THEN p ELSE sock[t].phase
  BY SMTT(30) DEF Phase, SocketState
<1>2. sock' = [t \in Sockets |-> sock'[t]]
  BY DEF Phase
<1> QED
  BY <1>1, <1>2

\* The parts of a session, a socket and a kind.
LEMMA Parts ==
  ASSUME TypeOK
  PROVE  /\ \A s \in Sockets : /\ sock[s].kind \in Kinds /\ sock[s].peer \in Peers \cup {NoPeer}
                               /\ sock[s].live \in BOOLEAN /\ sock[s].phase \in Phases
                               /\ s \in 0 .. MaxSockets /\ s # 0
         /\ \A k \in Kinds : /\ session[k].id \in 0 .. MaxSockets /\ session[k].open \in BOOLEAN
                             /\ session[k].conflict \in BOOLEAN
                             /\ trust[k] \in 0 .. MaxSockets
                             /\ session[k].id # 0 => session[k].id \in Sockets
                             /\ trust[k] # 0 => trust[k] \in Sockets
         /\ "control" \in Kinds
BY BoundsAssumption DEF TypeOK, SocketState, SessionState, Sockets, Kinds

\* Every step that gives one session another number, state or conflict mark.
LEMMA SessionStep ==
  ASSUME TypeOK, NEW k \in Kinds, NEW x \in SessionState, session' = [session EXCEPT ![k] = x]
  PROVE  session' \in [Kinds -> SessionState]
BY DEF TypeOK

\* A session record put together from its parts.
LEMMA SessionOf ==
  ASSUME TypeOK, NEW k \in Kinds, NEW i \in 0 .. MaxSockets, NEW o \in BOOLEAN, NEW c \in BOOLEAN
  PROVE  /\ [id |-> i, open |-> o, conflict |-> c] \in SessionState
         /\ [session[k] EXCEPT !.conflict = c] \in SessionState
         /\ [session[k] EXCEPT !.id = i] \in SessionState
         /\ [session[k] EXCEPT !.id = i, !.open = o] \in SessionState
<1>1. session[k] \in SessionState
  BY DEF TypeOK
<1> QED
  BY <1>1 DEF SessionState

\* A session that gets a number and a state.
LEMMA NumberStep ==
  ASSUME TypeOK, NEW k \in Kinds, NEW i \in 0 .. MaxSockets, NEW o \in BOOLEAN,
         session' = [session EXCEPT ![k].id = i, ![k].open = o]
  PROVE  /\ session' \in [Kinds -> SessionState]
         /\ session'[k].id = i /\ session'[k].open = o
         /\ session'[k].conflict = session[k].conflict
         /\ \A j \in Kinds \ {k} : session'[j] = session[j]
<1>0. session \in [Kinds -> SessionState]
  BY DEF TypeOK
<1>1. session[k] \in SessionState
  BY <1>0
<1>2. session' = [session EXCEPT ![k] = [session[k] EXCEPT !.id = i, !.open = o]]
  BY <1>0
<1>3. /\ [session[k] EXCEPT !.id = i, !.open = o] \in SessionState
      /\ [session[k] EXCEPT !.id = i, !.open = o].id = i
      /\ [session[k] EXCEPT !.id = i, !.open = o].open = o
      /\ [session[k] EXCEPT !.id = i, !.open = o].conflict = session[k].conflict
  <2> DEFINE y == session[k]
  <2> HIDE DEF y
  <2>1. y \in SessionState
    BY <1>1 DEF y
  <2>2. [y EXCEPT !.id = i, !.open = o] \in SessionState
    BY <2>1 DEF SessionState
  <2>3. [y EXCEPT !.id = i, !.open = o].id = i
    BY <2>1 DEF SessionState
  <2>4. [y EXCEPT !.id = i, !.open = o].open = o
    BY <2>1 DEF SessionState
  <2>5. [y EXCEPT !.id = i, !.open = o].conflict = y.conflict
    BY <2>1 DEF SessionState
  <2> QED
    BY <2>2, <2>3, <2>4, <2>5 DEF y
<1>4. /\ session'[k] = [session[k] EXCEPT !.id = i, !.open = o]
      /\ \A j \in Kinds \ {k} : session'[j] = session[j]
      /\ session' \in [Kinds -> SessionState]
  BY <1>0, <1>2, <1>3
<1> QED
  BY <1>3, <1>4

\* A session that is no longer marked in conflict.
LEMMA ConflictStep ==
  ASSUME TypeOK, NEW k \in Kinds, session' = [session EXCEPT ![k].conflict = FALSE]
  PROVE  /\ session' \in [Kinds -> SessionState]
         /\ session'[k].id = session[k].id /\ session'[k].open = session[k].open
         /\ session'[k].conflict = FALSE
         /\ \A j \in Kinds \ {k} : session'[j] = session[j]
<1>0. session \in [Kinds -> SessionState]
  BY DEF TypeOK
<1>1. session[k] \in SessionState /\ 0 \in 0 .. MaxSockets
  BY <1>0, BoundsAssumption
<1>2. session' = [session EXCEPT ![k] = [session[k] EXCEPT !.conflict = FALSE]]
  BY <1>0
<1>3. /\ [session[k] EXCEPT !.conflict = FALSE] \in SessionState
      /\ [session[k] EXCEPT !.conflict = FALSE].id = session[k].id
      /\ [session[k] EXCEPT !.conflict = FALSE].open = session[k].open
      /\ [session[k] EXCEPT !.conflict = FALSE].conflict = FALSE
  BY <1>1 DEF SessionState
<1>4. /\ session'[k] = [session[k] EXCEPT !.conflict = FALSE]
      /\ \A j \in Kinds \ {k} : session'[j] = session[j]
      /\ session' \in [Kinds -> SessionState]
  BY <1>0, <1>2, <1>3
<1> QED
  BY <1>3, <1>4

\* Every variable has its type at the start.
LEMMA TypeInit == Init => TypeOK /\ ReqInv /\ PeerInv
<1> SUFFICES ASSUME Init PROVE TypeOK /\ ReqInv /\ PeerInv
  OBVIOUS
<1>1. 0 \in 0 .. MaxSockets /\ 1 \in 1 .. MaxInits /\ "control" \in Kinds
  BY BoundsAssumption DEF Kinds
<1>2. sock \in [Sockets -> SocketState] /\ session \in [Kinds -> SessionState]
  BY <1>1 DEF Init, SocketState, SessionState, Phases, Fresh
<1>3. capture \in CaptureState /\ access \in AccessState /\ req \in [Requests -> RequestState]
  BY DEF Init, Idle, CaptureState, AccessState, RequestState
<1>4. ReqInv /\ PeerInv
  BY DEF Init, ReqInv, TakenOnce, PeerInv, Fresh, Sockets
<1>5. /\ cleanups \in [queued : SUBSET Sockets, sent : SUBSET Sockets]
      /\ ctl \in [up : BOOLEAN, src : Peers \cup {NoPeer}]
      /\ closeTasks \in [submitted : Nat, stopping : {0, 1}]
  BY DEF Init
<1> QED
  BY <1>1, <1>2, <1>3, <1>4, <1>5 DEF Init, TypeOK

\* The steps of a bind.
LEMMA BindType ==
  ASSUME TypeOK, NEW s \in Sockets, NEW k \in Kinds, NEW p \in Peers, Bind(s, k, p)
  PROVE  TypeOK'
<1>1. sock' \in [Sockets -> SocketState]
  <2>1. [kind |-> k, peer |-> p, live |-> TRUE, phase |-> IF exists THEN "found" ELSE "refused"]
          \in SocketState
    BY DEF SocketState, Phases
  <2> QED
    BY <2>1 DEF Bind, TypeOK
<1> QED
  BY <1>1 DEF TypeOK, Bind, auth

\* The steps of a bind keep the types: the test for a conflict,
LEMMA ConflictType ==
  ASSUME TypeOK, NEW s \in Sockets, ConflictTest(s)
  PROVE  TypeOK'
<1>1. sock' \in [Sockets -> SocketState]
  BY PhaseStep DEF ConflictTest, Phases, TypeOK
<1>2. session' \in [Kinds -> SessionState]
  BY Parts, SessionOf, SessionStep DEF ConflictTest, TypeOK
<1>3. cleanups' \in [queued : SUBSET Sockets, sent : SUBSET Sockets]
  BY DEF ConflictTest, TypeOK
<1>4. causes' \subseteq Causes /\ map' \subseteq Sockets
  BY DEF ConflictTest, TypeOK, Causes
<1> QED
  BY <1>1, <1>2, <1>3, <1>4 DEF TypeOK, ConflictTest, auth

\* What becomes of the access state when a peer is the current one, or decided.
LEMMA AccessOf ==
  ASSUME TypeOK, NEW p \in Peers, NEW d \in {"granted", "denied"}
  PROVE  /\ [access EXCEPT !.current = p] \in AccessState
         /\ [access EXCEPT !.current = p, !.decision[p] = d] \in AccessState
         /\ [access EXCEPT !.decision[p] = d] \in AccessState
<1>1. access \in AccessState
  BY DEF TypeOK
<1> QED
  BY <1>1 DEF AccessState

\* the acceptance,
LEMMA AcceptType ==
  ASSUME TypeOK, PeerInv, NEW s \in Sockets, Accept(s)
  PROVE  TypeOK'
<1> DEFINE p == sock[s].peer
           k == sock[s].kind
<1>0. p \in Peers /\ k \in Kinds /\ s \in 0 .. MaxSockets
  BY Parts DEF PeerInv, Accept
<1>1. sock' \in [Sockets -> SocketState]
  BY PhaseStep DEF Accept, Phases, TypeOK
<1>2. session' \in [Kinds -> SessionState]
  BY Parts, SessionOf, SessionStep DEF Accept, TypeOK
<1>3. access' \in AccessState /\ allowed' \subseteq Peers
  <2>1. allowed \subseteq Peers
    BY DEF TypeOK
  <2>2. CASE k = "control" /\ ~access.listener
    BY <1>0, <2>1, <2>2, AccessOf DEF Accept, RequestAndWaitForAuthorization
  <2>3. CASE ~(k = "control" /\ ~access.listener)
    BY <1>0, <2>1, <2>3, AccessOf DEF Accept, RequestAndWaitForAuthorization
  <2> QED
    BY <2>2, <2>3
<1>4. req' \in [Requests -> RequestState]
  <2>1. [peer |-> p, pending |-> TRUE, timer |-> "set",
         answer |-> "none", grant |-> FALSE, outcome |-> "none"] \in RequestState
    BY <1>0 DEF RequestState
  <2> QED
    BY <2>1 DEF Accept, RequestAndWaitForAuthorization, TypeOK
<1>5. causes' \subseteq Causes /\ trust' \in [Kinds -> 0 .. MaxSockets]
  BY <1>0 DEF Accept, TypeOK, Causes
<1> QED
  BY <1>1, <1>2, <1>3, <1>4, <1>5 DEF TypeOK, Accept

\* the end of the bind,
LEMMA BindEndsType ==
  ASSUME TypeOK, PeerInv, NEW s \in Sockets, BindEnds(s)
  PROVE  TypeOK'
<1>0. sock[s].peer \in Peers /\ sock[s].kind \in Kinds /\ s \in 0 .. MaxSockets
  BY Parts DEF PeerInv, BindEnds
<1>1. sock' \in [Sockets -> SocketState]
  BY PhaseStep DEF BindEnds, Phases, TypeOK
<1>2. session' \in [Kinds -> SessionState]
  BY <1>0, NumberStep DEF BindEnds, OnSessionOpened
<1>3. ctl' \in [up : BOOLEAN, src : Peers \cup {NoPeer}]
  BY <1>0 DEF BindEnds, OnSessionOpened, TypeOK
<1>4. netSocket' \in [Peers -> 0 .. MaxSockets]
  BY <1>0 DEF BindEnds, SetSinkNetWorkId, TypeOK
<1>5. causes' \subseteq Causes
  BY DEF BindEnds, TypeOK, Causes
<1> QED
  BY <1>1, <1>2, <1>3, <1>4, <1>5 DEF TypeOK, BindEnds, auth

\* and the two steps of a cleanup.
LEMMA CleanupType ==
  ASSUME TypeOK, NEW s \in Sockets, CleanupNotifies(s) \/ CleanupRestores(s)
  PROVE  TypeOK'
<1>1. CASE CleanupNotifies(s)
  <2>1. cleanups' \in [queued : SUBSET Sockets, sent : SUBSET Sockets]
    BY <1>1 DEF CleanupNotifies, TypeOK
  <2>2. misled' \subseteq {"busy", "result"}
    BY <1>1 DEF CleanupNotifies, TypeOK
  <2> QED
    BY <1>1, <2>1, <2>2 DEF TypeOK, CleanupNotifies, auth
<1>2. CASE CleanupRestores(s)
  <2>1. cleanups' \in [queued : SUBSET Sockets, sent : SUBSET Sockets]
    BY <1>2 DEF CleanupRestores, TypeOK
  <2>2. session' \in [Kinds -> SessionState]
    BY <1>2, Parts, SessionOf, SessionStep DEF CleanupRestores
  <2> QED
    BY <1>2, <2>1, <2>2 DEF TypeOK, CleanupRestores, auth
<1> QED
  BY <1>1, <1>2

\* The steps of a shutdown.
LEMMA PeerClosesType ==
  ASSUME TypeOK, NEW s \in Sockets, PeerCloses(s)
  PROVE  TypeOK'
<1>0. sock[s] \in SocketState
  BY DEF TypeOK
<1>1. [sock[s] EXCEPT !.live = FALSE] \in SocketState
  BY <1>0 DEF SocketState
<1>2. sock' \in [Sockets -> SocketState]
  BY <1>1 DEF PeerCloses, TypeOK
<1> QED
  BY <1>2 DEF TypeOK, PeerCloses, auth

\* A shutdown keeps the types,
LEMMA ShutDownType ==
  ASSUME TypeOK, NEW s \in Sockets, SinkOnShutDown(s)
  PROVE  TypeOK'
<1>1. sock' \in [Sockets -> SocketState]
  BY PhaseStep DEF SinkOnShutDown, Phases, TypeOK
<1>2. session' \in [Kinds -> SessionState]
  BY Parts, ConflictStep DEF SinkOnShutDown, TypeOK
<1>3. causes' \subseteq Causes /\ trust' \in [Kinds -> 0 .. MaxSockets]
  BY Parts, BoundsAssumption DEF SinkOnShutDown, TypeOK, Causes
<1> QED
  BY <1>1, <1>2, <1>3 DEF TypeOK, SinkOnShutDown, auth

\* What a report of a closed session leaves in the controller and its tasks.
LEMMA ReportType ==
  ASSUME TypeOK, NEW b \in BOOLEAN, ReportClosed(b)
  PROVE  /\ ctl' \in [up : BOOLEAN, src : Peers \cup {NoPeer}]
         /\ closeTasks' \in [submitted : Nat, stopping : {0, 1}]
<1>1. /\ ctl \in [up : BOOLEAN, src : Peers \cup {NoPeer}]
      /\ closeTasks \in [submitted : Nat, stopping : {0, 1}]
  BY DEF TypeOK
<1>2. [ctl EXCEPT !.up = FALSE] \in [up : BOOLEAN, src : Peers \cup {NoPeer}]
  BY <1>1
<1>3. [closeTasks EXCEPT !.submitted = @ + 1] \in [submitted : Nat, stopping : {0, 1}]
  BY <1>1
<1> QED
  BY <1>1, <1>2, <1>3 DEF ReportClosed

\* so does its report to the controller,
LEMMA ShutDownEndsType ==
  ASSUME TypeOK, NEW s \in Sockets, ShutDownEnds(s)
  PROVE  TypeOK'
<1>0. (sock[s].kind # "control" \/ session[sock[s].kind].conflict) \in BOOLEAN
  BY Parts
<1>1. sock' \in [Sockets -> SocketState]
  BY PhaseStep DEF ShutDownEnds, Phases, TypeOK
<1>2. session' \in [Kinds -> SessionState]
  <2>1. 0 \in 0 .. MaxSockets
    BY BoundsAssumption
  <2> QED
    BY <2>1, Parts, NumberStep DEF ShutDownEnds
<1>3. /\ ctl' \in [up : BOOLEAN, src : Peers \cup {NoPeer}]
      /\ closeTasks' \in [submitted : Nat, stopping : {0, 1}]
  BY <1>0, ReportType DEF ShutDownEnds
<1>4. netSocket' \in [Peers -> 0 .. MaxSockets]
  BY Parts, BoundsAssumption DEF ShutDownEnds, RemoveSinkNetworkId, TypeOK
<1> QED
  BY <1>1, <1>2, <1>3, <1>4 DEF TypeOK, ShutDownEnds, auth

\* and a stop by the all-connect manager.
LEMMA StopType ==
  ASSUME TypeOK, NEW p \in Peers, OnStop(p)
  PROVE  TypeOK'
<1>0. /\ netSocket[p] \in Sockets
      /\ session["control"].conflict \in BOOLEAN
  BY Parts DEF OnStop, TypeOK, Sockets
<1>1. sock' \in [Sockets -> SocketState]
  <2>1. ASSUME NEW s \in Sockets PROVE sock'[s] \in SocketState
    <3>1. sock[s] \in SocketState
      BY DEF TypeOK
    <3> QED
      BY <1>0, <3>1 DEF OnStop, TypeOK, SocketState, Phases
  <2>2. sock' = [s \in Sockets |-> sock'[s]]
    BY DEF OnStop, TypeOK
  <2> QED
    BY <2>1, <2>2
<1>2. session' \in [Kinds -> SessionState]
  <2>1. 0 \in 0 .. MaxSockets
    BY BoundsAssumption
  <2> QED
    BY <2>1, Parts, NumberStep DEF OnStop
<1>3. /\ ctl' \in [up : BOOLEAN, src : Peers \cup {NoPeer}]
      /\ closeTasks' \in [submitted : Nat, stopping : {0, 1}]
  BY <1>0, ReportType DEF OnStop
<1>4. causes' \subseteq Causes
  BY DEF OnStop, TypeOK, Causes
<1> QED
  BY <1>1, <1>2, <1>3, <1>4 DEF TypeOK, OnStop, auth

\* The steps of the controller.
LEMMA CloseChannelType ==
  ASSUME TypeOK, CloseChannel \/ StopCapture
  PROVE  TypeOK'
<1>1. CASE CloseChannel
  <2>1. closeTasks' \in [submitted : Nat, stopping : {0, 1}]
    BY <1>1 DEF CloseChannel, TypeOK
  <2>2. ctl' \in [up : BOOLEAN, src : Peers \cup {NoPeer}] /\ causes' \subseteq Causes
    BY <1>1 DEF CloseChannel, TypeOK, Causes
  <2> QED
    BY <1>1, <2>1, <2>2 DEF TypeOK, CloseChannel, auth
<1>2. CASE StopCapture
  <2>1. closeTasks' \in [submitted : Nat, stopping : {0, 1}]
    BY <1>2 DEF StopCapture, TypeOK
  <2>2. capture' \in CaptureState
    BY <1>2 DEF StopCapture, TypeOK, Idle, CaptureState
  <2> QED
    BY <1>2, <2>1, <2>2 DEF TypeOK, StopCapture, auth
<1> QED
  BY <1>1, <1>2

\* UnInit and a second Init keep the types.
LEMMA InitsType ==
  ASSUME TypeOK, UnInit \/ InitAgain
  PROVE  TypeOK'
<1>1. CASE UnInit
  <2>1. sock' \in [Sockets -> SocketState]
    <3>1. \A s \in Sockets : [sock[s] EXCEPT !.phase = "gone", !.live = FALSE] \in SocketState
      <4>1. \A s \in Sockets : sock[s] \in SocketState
        BY DEF TypeOK
      <4> QED
        BY <4>1 DEF SocketState, Phases
    <3> QED
      BY <1>1, <3>1 DEF UnInit, TypeOK
  <2>2. capture' \in CaptureState
    BY <1>1 DEF UnInit, TypeOK, Idle, CaptureState
  <2>3. ctl' \in [up : BOOLEAN, src : Peers \cup {NoPeer}] /\ causes' \subseteq Causes
    BY <1>1 DEF UnInit, TypeOK, Causes
  <2> QED
    BY <1>1, <2>1, <2>2, <2>3 DEF TypeOK, UnInit, auth
<1>2. CASE InitAgain
  <2>1. session' \in [Kinds -> SessionState]
    BY <1>2, BoundsAssumption DEF InitAgain, CreateSessions, Fresh, SessionState
  <2>2. inits' \in 1 .. MaxInits
    BY <1>2, BoundsAssumption DEF InitAgain, TypeOK
  <2> QED
    BY <1>2, <2>1, <2>2 DEF TypeOK, InitAgain, auth
<1> QED
  BY <1>1, <1>2

\* A capture command, and the verdict on it, keep the types.
LEMMA CommandType ==
  ASSUME TypeOK, NEW s \in Sockets, CaptureCommand(s)
  PROVE  TypeOK'
<1>1. capture' \in CaptureState /\ causes' \subseteq Causes
  BY Parts DEF CaptureCommand, TypeOK, CaptureState, Causes
<1> QED
  BY <1>1 DEF TypeOK, CaptureCommand, link, auth

\* The verdict on a capture: waiting, committing or refusing.
LEMMA VerdictType ==
  ASSUME TypeOK, WaitForAuthorization \/ Commit \/ Refuse
  PROVE  TypeOK'
<1>0. /\ capture.by \in Peers \cup {NoPeer} /\ access.current \in Peers \cup {NoPeer}
      /\ capture \in CaptureState
  BY DEF TypeOK, CaptureState, AccessState
<1>1. capture' \in CaptureState
  <2>1. /\ [capture EXCEPT !.state = "waiting", !.net = access.current] \in CaptureState
        /\ [capture EXCEPT !.state = "running"] \in CaptureState
        /\ Idle \in CaptureState
    BY <1>0 DEF Idle, CaptureState
  <2> QED
    BY <2>1 DEF WaitForAuthorization, Commit, Refuse
<1>2. misled' \subseteq {"busy", "result"}
  BY DEF WaitForAuthorization, Commit, Refuse, ReplyTo, TypeOK
<1>3. UNCHANGED <<scene, link, auth, causes>>
  BY DEF WaitForAuthorization, Commit, Refuse
<1> QED
  BY <1>1, <1>2, <1>3 DEF TypeOK, link, auth

\* The steps of a request.
LEMMA RequestType ==
  ASSUME TypeOK, ReqInv, NEW r \in Requests,
         TimerOrAnswer(r) \/ \E g \in BOOLEAN : AnswerArrives(r, g)
  PROVE  TypeOK'
<1>0. req[r] \in RequestState
  BY DEF TypeOK
<1>1. req' \in [Requests -> RequestState]
  <2>1. \A x \in RequestState : req' = [req EXCEPT ![r] = x] => req' \in [Requests -> RequestState]
    BY DEF TypeOK
  <2>2. CASE TimerWakes(r)
    <3>1. [req[r] EXCEPT !.timer = "fired"] \in RequestState
      BY <1>0 DEF RequestState
    <3> QED
      BY <2>1, <2>2, <3>1 DEF TimerWakes
  <2>3. CASE TimeoutTakes(r)
    <3>1. [req[r] EXCEPT !.timer = IF req[r].pending THEN "taken" ELSE "done", !.pending = FALSE]
            \in RequestState
      BY <1>0 DEF RequestState
    <3> QED
      BY <2>1, <2>3, <3>1 DEF TimeoutTakes
  <2>4. CASE TimeoutDecides(r)
    <3>1. [req[r] EXCEPT !.timer = "done", !.outcome = "timeout"] \in RequestState
      BY <1>0 DEF RequestState
    <3> QED
      BY <2>1, <2>4, <3>1 DEF TimeoutDecides
  <2>5. CASE AnswerTakes(r)
    <3>1. [req[r] EXCEPT !.answer = IF req[r].pending THEN "taken" ELSE "done", !.pending = FALSE]
            \in RequestState
      BY <1>0 DEF RequestState
    <3> QED
      BY <2>1, <2>5, <3>1 DEF AnswerTakes
  <2>6. CASE AnswerDecides(r)
    <3>1. [req[r] EXCEPT !.answer = "done", !.outcome = "answer"] \in RequestState
      BY <1>0 DEF RequestState
    <3> QED
      BY <2>1, <2>6, <3>1 DEF AnswerDecides
  <2>7. ASSUME NEW g \in BOOLEAN, AnswerArrives(r, g) PROVE req' \in [Requests -> RequestState]
    <3>1. [req[r] EXCEPT !.answer = "arrived", !.grant = g,
                         !.timer = IF @ = "set" THEN "cancelled" ELSE @] \in RequestState
      BY <1>0 DEF RequestState
    <3>2. req' = [req EXCEPT ![r] = [req[r] EXCEPT !.answer = "arrived", !.grant = g,
                                       !.timer = IF @ = "set" THEN "cancelled" ELSE @]]
      BY <2>7 DEF AnswerArrives, TypeOK
    <3> QED
      BY <2>1, <3>1, <3>2
  <2> QED
    BY <2>2, <2>3, <2>4, <2>5, <2>6, <2>7 DEF TimerOrAnswer
<1>2. access' \in AccessState /\ allowed' \subseteq Peers
  <2>1. CASE TimeoutDecides(r) \/ AnswerDecides(r)
    <3>1. req[r].peer \in Peers
      BY <2>1 DEF ReqInv, TakenOnce, TimeoutDecides, AnswerDecides
    <3>2. PICK g \in BOOLEAN : SetAuthorizationGranted(req[r].peer, g)
      BY <1>0, <2>1 DEF TimeoutDecides, AnswerDecides, RequestState
    <3> QED
      BY <3>1, <3>2, AccessOf DEF SetAuthorizationGranted, TypeOK
  <2>2. CASE ~(TimeoutDecides(r) \/ AnswerDecides(r))
    BY <2>2 DEF TypeOK, TimerOrAnswer, TimerWakes, TimeoutTakes, AnswerTakes, AnswerArrives
  <2> QED
    BY <2>1, <2>2
<1>3. UNCHANGED <<scene, link, capture, misled, causes>>
  BY DEF TimerOrAnswer, TimerWakes, TimeoutTakes, TimeoutDecides, AnswerTakes, AnswerDecides,
         AnswerArrives
<1> QED
  BY <1>1, <1>2, <1>3 DEF TypeOK, link

\* Setting and removing the access listener keep the types.
LEMMA ListenerType ==
  ASSUME TypeOK, SetAccessListener \/ RemoveAccessListener
  PROVE  TypeOK'
<1>1. access' \in AccessState
  <2>1. [access EXCEPT !.listener = TRUE] \in AccessState
    <3>1. access \in AccessState
      BY DEF TypeOK
    <3> QED
      BY <3>1 DEF AccessState
  <2>2. [listener |-> FALSE, current |-> NoPeer, decision |-> [p \in Peers |-> "none"]] \in AccessState
    BY DEF AccessState
  <2> QED
    BY <2>1, <2>2 DEF SetAccessListener, RemoveAccessListener
<1>2. causes' \subseteq Causes
  BY DEF SetAccessListener, RemoveAccessListener, TypeOK, Causes
<1> QED
  BY <1>1, <1>2 DEF TypeOK, SetAccessListener, RemoveAccessListener, link

\* A step of a request changes that request's record only.
LEMMA TakenStep ==
  ASSUME TypeOK, ReqInv, NEW r \in Requests, NEW x, TakenOnce(x), req' = [req EXCEPT ![r] = x]
  PROVE  ReqInv'
<1>1. req \in [Requests -> RequestState]
  BY DEF TypeOK
<1> QED
  BY <1>1 DEF ReqInv, TakenOnce

\* A request is still taken only once after each step of its own.
LEMMA RequestTaken ==
  ASSUME TypeOK, ReqInv, NEW r \in Requests,
         TimerOrAnswer(r) \/ \E g \in BOOLEAN : AnswerArrives(r, g)
  PROVE  ReqInv' /\ (req[r].outcome # "none" => req'[r].outcome = req[r].outcome)
                 /\ \A q \in Requests \ {r} : req'[q] = req[q]
<1>0. req[r] \in RequestState /\ TakenOnce(req[r]) /\ req \in [Requests -> RequestState]
  BY DEF TypeOK, ReqInv
<1>1. ASSUME NEW x, req' = [req EXCEPT ![r] = x], TakenOnce(x),
             req[r].outcome # "none" => x.outcome = req[r].outcome
      PROVE  ReqInv' /\ (req[r].outcome # "none" => req'[r].outcome = req[r].outcome)
                     /\ \A q \in Requests \ {r} : req'[q] = req[q]
  BY <1>0, <1>1, TakenStep
<1>2. CASE TimerWakes(r)
  <2> DEFINE x == [req[r] EXCEPT !.timer = "fired"]
  <2>1. TakenOnce(x) /\ (req[r].outcome # "none" => x.outcome = req[r].outcome)
    BY <1>0, <1>2 DEF TimerWakes, TakenOnce, RequestState
  <2>2. req' = [req EXCEPT ![r] = x]
    BY <1>0, <1>2 DEF TimerWakes
  <2> QED
    BY <1>1, <2>1, <2>2
<1>3. CASE TimeoutTakes(r)
  <2> DEFINE x == [req[r] EXCEPT !.timer = IF req[r].pending THEN "taken" ELSE "done", !.pending = FALSE]
  <2>1. TakenOnce(x) /\ (req[r].outcome # "none" => x.outcome = req[r].outcome)
    BY <1>0, <1>3 DEF TimeoutTakes, TakenOnce, RequestState
  <2>2. req' = [req EXCEPT ![r] = x]
    BY <1>0, <1>3 DEF TimeoutTakes
  <2> QED
    BY <1>1, <2>1, <2>2
<1>4. CASE TimeoutDecides(r)
  <2> DEFINE x == [req[r] EXCEPT !.timer = "done", !.outcome = "timeout"]
  <2>1. TakenOnce(x) /\ (req[r].outcome # "none" => x.outcome = req[r].outcome)
    BY <1>0, <1>4 DEF TimeoutDecides, TakenOnce, RequestState
  <2>2. req' = [req EXCEPT ![r] = x]
    BY <1>0, <1>4 DEF TimeoutDecides
  <2> QED
    BY <1>1, <2>1, <2>2
<1>5. CASE AnswerTakes(r)
  <2> DEFINE x == [req[r] EXCEPT !.answer = IF req[r].pending THEN "taken" ELSE "done", !.pending = FALSE]
  <2>1. TakenOnce(x) /\ (req[r].outcome # "none" => x.outcome = req[r].outcome)
    BY <1>0, <1>5 DEF AnswerTakes, TakenOnce, RequestState
  <2>2. req' = [req EXCEPT ![r] = x]
    BY <1>0, <1>5 DEF AnswerTakes
  <2> QED
    BY <1>1, <2>1, <2>2
<1>6. CASE AnswerDecides(r)
  <2> DEFINE x == [req[r] EXCEPT !.answer = "done", !.outcome = "answer"]
  <2>1. TakenOnce(x) /\ (req[r].outcome # "none" => x.outcome = req[r].outcome)
    BY <1>0, <1>6 DEF AnswerDecides, TakenOnce, RequestState
  <2>2. req' = [req EXCEPT ![r] = x]
    BY <1>0, <1>6 DEF AnswerDecides
  <2> QED
    BY <1>1, <2>1, <2>2
<1>7. ASSUME NEW g \in BOOLEAN, AnswerArrives(r, g)
      PROVE  ReqInv' /\ (req[r].outcome # "none" => req'[r].outcome = req[r].outcome)
                     /\ \A q \in Requests \ {r} : req'[q] = req[q]
  <2> DEFINE x == [req[r] EXCEPT !.answer = "arrived", !.grant = g,
                                 !.timer = IF @ = "set" THEN "cancelled" ELSE @]
  <2>1. TakenOnce(x) /\ (req[r].outcome # "none" => x.outcome = req[r].outcome)
    BY <1>0, <1>7 DEF AnswerArrives, TakenOnce, RequestState
  <2>2. req' = [req EXCEPT ![r] = x]
    BY <1>0, <1>7 DEF AnswerArrives
  <2> QED
    BY <1>1, <2>1, <2>2
<1> QED
  BY <1>2, <1>3, <1>4, <1>5, <1>6, <1>7 DEF TimerOrAnswer

\* The steps that end a socket without a shutdown.
LEMMA EndStep ==
  ASSUME TypeOK, (\E p \in Peers : OnStop(p)) \/ UnInit
  PROVE  \A t \in Sockets : /\ sock'[t].kind = sock[t].kind /\ sock'[t].peer = sock[t].peer
                            /\ sock'[t].phase \in {sock[t].phase, "gone"}
                            /\ sock'[t].live => sock[t].live /\ sock'[t].phase = sock[t].phase
<1> SUFFICES ASSUME NEW t \in Sockets
             PROVE  /\ sock'[t].kind = sock[t].kind /\ sock'[t].peer = sock[t].peer
                    /\ sock'[t].phase \in {sock[t].phase, "gone"}
                    /\ sock'[t].live => sock[t].live /\ sock'[t].phase = sock[t].phase
  OBVIOUS
<1>1. sock[t] \in SocketState /\ sock \in [Sockets -> SocketState]
  BY DEF TypeOK
<1>2. /\ [sock[t] EXCEPT !.phase = "gone", !.live = FALSE].kind = sock[t].kind
      /\ [sock[t] EXCEPT !.phase = "gone", !.live = FALSE].peer = sock[t].peer
      /\ [sock[t] EXCEPT !.phase = "gone", !.live = FALSE].phase = "gone"
      /\ [sock[t] EXCEPT !.phase = "gone", !.live = FALSE].live = FALSE
  BY <1>1 DEF SocketState
<1>3. sock'[t] = sock[t] \/ sock'[t] = [sock[t] EXCEPT !.phase = "gone", !.live = FALSE]
  <2>1. CASE UnInit
    BY <1>1, <2>1 DEF UnInit
  <2>2. ASSUME NEW p \in Peers, OnStop(p)
        PROVE  sock'[t] = sock[t] \/ sock'[t] = [sock[t] EXCEPT !.phase = "gone", !.live = FALSE]
    <3>1. CASE t = netSocket[p]
      BY <1>1, <2>2, <3>1 DEF OnStop
    <3>2. CASE t # netSocket[p]
      BY <1>1, <2>2, <3>2 DEF OnStop
    <3> QED
      BY <3>1, <3>2
  <2> QED
    BY <2>1, <2>2
<1> QED
  BY <1>2, <1>3

\* A close by the peer leaves everything but the socket's end alone.
LEMMA PeerClosesStep ==
  ASSUME TypeOK, NEW s \in Sockets, PeerCloses(s)
  PROVE  /\ sock[s].phase \in {"up", "rival", "refused"}
         /\ \A t \in Sockets : /\ sock'[t].kind = sock[t].kind /\ sock'[t].peer = sock[t].peer
                               /\ sock'[t].phase = sock[t].phase
                               /\ sock'[t].live => sock[t].live
<1>1. sock \in [Sockets -> SocketState]
  BY DEF TypeOK
<1>2. ASSUME NEW t \in Sockets
      PROVE  /\ sock'[t].kind = sock[t].kind /\ sock'[t].peer = sock[t].peer
             /\ sock'[t].phase = sock[t].phase
             /\ sock'[t].live => sock[t].live
  BY <1>1 DEF PeerCloses, SocketState
<1> QED
  BY <1>2 DEF PeerCloses

\* A new socket, and the others as they were.
LEMMA BindStep ==
  ASSUME TypeOK, NEW s \in Sockets, NEW k \in Kinds, NEW p \in Peers, Bind(s, k, p)
  PROVE  /\ sock[s].phase = "free"
         /\ sock'[s].kind = k /\ sock'[s].peer = p
         /\ sock'[s].phase = IF exists THEN "found" ELSE "refused"
         /\ \A t \in Sockets \ {s} : sock'[t] = sock[t]
<1>1. sock \in [Sockets -> SocketState]
  BY DEF TypeOK
<1> QED
  BY <1>1 DEF Bind

\* The steps that leave every socket as it is.
Elsewhere == \/ \E s \in Sockets : CleanupNotifies(s) \/ CleanupRestores(s) \/ CaptureCommand(s)
             \/ CloseChannel \/ StopCapture \/ InitAgain
             \/ WaitForAuthorization \/ Commit \/ Refuse
             \/ SetAccessListener \/ RemoveAccessListener
             \/ \E r \in Requests : TimerOrAnswer(r) \/ (\E g \in BOOLEAN : AnswerArrives(r, g))
             \/ UNCHANGED vars

\* The steps of the controller and of the requests leave the sockets alone.
LEMMA ElsewhereKeeps == Elsewhere => UNCHANGED sock
BY DEF Elsewhere, CleanupNotifies, CleanupRestores, CaptureCommand, CloseChannel, StopCapture,
       InitAgain, WaitForAuthorization, Commit, Refuse, SetAccessListener, RemoveAccessListener,
       TimerOrAnswer, TimerWakes, TimeoutTakes, TimeoutDecides, AnswerTakes, AnswerDecides,
       AnswerArrives, link, vars

\* The steps, by what they do to the sockets.
LEMMA NextCases ==
  ASSUME [Next]_vars
  PROVE  \/ \E s \in Sockets, k \in Kinds, p \in Peers : Bind(s, k, p)
         \/ \E s \in Sockets : \/ ConflictTest(s) \/ Accept(s) \/ BindEnds(s)
                               \/ PeerCloses(s) \/ SinkOnShutDown(s) \/ ShutDownEnds(s)
         \/ (\E p \in Peers : OnStop(p)) \/ UnInit
         \/ Elsewhere
BY DEF Next, Step, Elsewhere

\* A socket that is free stays free, unless it is bound.
LEMMA FreeStep ==
  ASSUME TypeOK, PeerInv, [Next]_vars, NEW t \in Sockets
  PROVE  /\ sock[t].phase # "free" => sock'[t].phase # "free" /\ sock'[t].peer = sock[t].peer
         /\ sock'[t].phase # "free" => sock[t].phase # "free" \/ sock'[t].peer \in Peers
<1>1. ASSUME NEW s \in Sockets, NEW k \in Kinds, NEW p \in Peers, Bind(s, k, p)
      PROVE  /\ sock[t].phase # "free" => sock'[t].phase # "free" /\ sock'[t].peer = sock[t].peer
             /\ sock'[t].phase # "free" => sock[t].phase # "free" \/ sock'[t].peer \in Peers
  BY <1>1, BindStep
<1>2. ASSUME NEW s \in Sockets,
             ConflictTest(s) \/ Accept(s) \/ BindEnds(s)
               \/ SinkOnShutDown(s) \/ ShutDownEnds(s)
      PROVE  /\ sock[t].phase # "free" => sock'[t].phase # "free" /\ sock'[t].peer = sock[t].peer
             /\ sock'[t].phase # "free" => sock[t].phase # "free"
  <2>1. sock[s].phase # "free" /\ \E f \in Phases \ {"free"} : Phase(s, f)
    BY <1>2 DEF ConflictTest, Accept, BindEnds, SinkOnShutDown, ShutDownEnds, Phases
  <2> QED
    BY <2>1, PhaseStep DEF TypeOK
<1>3. ASSUME NEW s \in Sockets, PeerCloses(s)
      PROVE  /\ sock[t].phase # "free" => sock'[t].phase # "free" /\ sock'[t].peer = sock[t].peer
             /\ sock'[t].phase # "free" => sock[t].phase # "free"
  BY <1>3, PeerClosesStep
<1>4. CASE (\E p \in Peers : OnStop(p)) \/ UnInit
  <2>1. sock[t].phase # "free" => sock'[t].phase # "free" /\ sock'[t].peer = sock[t].peer
    BY <1>4, EndStep
  <2>2. ASSUME sock[t].phase = "free"
        PROVE  sock'[t].phase = "free"
    <3>1. ~Released(t)
      BY <2>2 DEF PeerInv, Released
    <3>2. CASE UnInit
      BY <2>2, <3>1, <3>2 DEF UnInit
    <3>3. CASE \E p \in Peers : OnStop(p)
      BY <2>2, <3>3 DEF OnStop, TypeOK
    <3> QED
      BY <1>4, <3>2, <3>3
  <2> QED
    BY <2>1, <2>2
<1>5. CASE Elsewhere
  BY <1>5, ElsewhereKeeps
<1> QED
  BY <1>1, <1>2, <1>3, <1>4, <1>5, NextCases

\* What the trust and the sessions name after a step they named before, or
\* it is the socket of the step.
LEMMA NamedStep ==
  ASSUME TypeOK, PeerInv, [Next]_vars, NEW k \in Kinds, NEW t \in Sockets,
         trust'[k] = t \/ session'[k].id = t
  PROVE  sock[t].phase # "free"
<1>1. ASSUME NEW s \in Sockets, ConflictTest(s) \/ Accept(s) \/ BindEnds(s)
      PROVE  sock[t].phase # "free"
  <2>1. sock[s].phase # "free"
    BY <1>1 DEF ConflictTest, Accept, BindEnds
  <2>2. t = s \/ trust[k] = t \/ session[k].id = t
    <3>1. CASE ConflictTest(s)
      BY <3>1, Parts DEF ConflictTest, TypeOK
    <3>2. CASE Accept(s)
      BY <3>2, Parts, ConflictStep DEF Accept, TypeOK
    <3>3. CASE BindEnds(s)
      <4>1. sock[s].kind \in Kinds /\ s \in 0 .. MaxSockets
        BY Parts
      <4>2. /\ session'[sock[s].kind].id = s
            /\ \A j \in Kinds \ {sock[s].kind} : session'[j] = session[j]
        BY <3>3, <4>1, NumberStep DEF BindEnds, OnSessionOpened
      <4> QED
        BY <3>3, <4>2 DEF BindEnds
    <3> QED
      BY <1>1, <3>1, <3>2, <3>3
  <2> QED
    BY <2>1, <2>2 DEF PeerInv
<1>2. ASSUME NEW s \in Sockets, SinkOnShutDown(s)
      PROVE  trust[k] = t \/ session[k].id = t
  <2>1. sock[s].kind \in Kinds /\ t # 0 /\ trust \in [Kinds -> 0 .. MaxSockets]
    BY Parts DEF TypeOK
  <2>2. session'[k].id = session[k].id
    BY <1>2, <2>1, ConflictStep DEF SinkOnShutDown
  <2>3. trust'[k] \in {trust[k], 0}
    BY <1>2, <2>1 DEF SinkOnShutDown
  <2> QED
    BY <2>1, <2>2, <2>3
<1>3. ASSUME NEW s \in Sockets, ShutDownEnds(s)
      PROVE  trust[k] = t \/ session[k].id = t
  <2>1. 0 \in 0 .. MaxSockets /\ t # 0
    BY BoundsAssumption DEF Sockets
  <2> QED
    <3>1. sock[s].kind \in Kinds
      BY Parts
    <3>2. /\ session'[sock[s].kind].id = 0
          /\ \A j \in Kinds \ {sock[s].kind} : session'[j] = session[j]
      BY <1>3, <2>1, <3>1, NumberStep DEF ShutDownEnds
    <3> QED
      BY <1>3, <2>1, <3>2 DEF ShutDownEnds
<1>4. ASSUME NEW p \in Peers, OnStop(p)
      PROVE  trust[k] = t \/ session[k].id = t
  <2>1. 0 \in 0 .. MaxSockets /\ t # 0
    BY BoundsAssumption DEF Sockets
  <2> QED
    BY <1>4, <2>1, Parts, NumberStep DEF OnStop
<1>5. ASSUME NEW s \in Sockets, CleanupRestores(s)
      PROVE  trust[k] = t \/ trust["control"] = t \/ session[k].id = t
  <2>1. session' = [session EXCEPT !["control"].id = trust["control"]] /\ trust' = trust
    BY <1>5 DEF CleanupRestores
  <2>2. session \in [Kinds -> SessionState] /\ session[k] \in SessionState
    BY DEF TypeOK
  <2>3. CASE k = "control"
    BY <2>1, <2>2, <2>3 DEF SessionState
  <2>4. CASE k # "control"
    BY <2>1, <2>2, <2>4
  <2> QED
    BY <2>3, <2>4
<1>6. CASE InitAgain
  BY <1>6 DEF InitAgain, CreateSessions, Fresh, Sockets, PeerInv
<1>7. CASE UNCHANGED <<trust, session>>
  BY <1>7 DEF PeerInv
<1>8. \/ \E s \in Sockets : ConflictTest(s) \/ Accept(s) \/ BindEnds(s) \/ SinkOnShutDown(s)
                              \/ ShutDownEnds(s) \/ CleanupRestores(s)
      \/ (\E p \in Peers : OnStop(p)) \/ InitAgain
      \/ UNCHANGED <<trust, session>>
  BY DEF Next, Step, Bind, PeerCloses, CaptureCommand, CleanupNotifies,
         CloseChannel, StopCapture, UnInit, WaitForAuthorization, Commit, Refuse,
         SetAccessListener, RemoveAccessListener, TimerOrAnswer, TimerWakes, TimeoutTakes,
         TimeoutDecides, AnswerTakes, AnswerDecides, AnswerArrives, vars, link
<1> QED
  BY <1>1, <1>2, <1>3, <1>4, <1>5, <1>6, <1>7, <1>8, Parts DEF PeerInv

\* A socket that is named or in use keeps its source.
LEMMA PeerStep ==
  ASSUME TypeOK, PeerInv, [Next]_vars
  PROVE  PeerInv'
<1>1. ASSUME NEW t \in Sockets, sock'[t].phase # "free" PROVE sock'[t].peer \in Peers
  BY <1>1, FreeStep DEF PeerInv
<1>2. ASSUME NEW k \in Kinds, NEW t \in Sockets, trust'[k] = t \/ session'[k].id = t
      PROVE  sock'[t].phase # "free"
  BY <1>2, FreeStep, NamedStep
<1> QED
  BY <1>1, <1>2 DEF PeerInv

\* No step takes a request twice, or changes what was decided.
LEMMA ReqStep ==
  ASSUME TypeOK, ReqInv, PeerInv, [Next]_vars
  PROVE  ReqInv' /\ \A r \in Requests : req[r].outcome # "none" => req'[r].outcome = req[r].outcome
<1>1. ASSUME NEW s \in Sockets, Accept(s)
      PROVE  ReqInv' /\ \A r \in Requests : req[r].outcome # "none" => req'[r].outcome = req[r].outcome
  <2>1. sock[s].peer \in Peers /\ req \in [Requests -> RequestState]
    BY <1>1 DEF PeerInv, Accept, TypeOK
  <2>2. CASE UNCHANGED req
    BY <2>2 DEF ReqInv
  <2>3. ASSUME NEW r \in Requests, NewRequestId(r),
               req' = [req EXCEPT ![r] = [peer |-> sock[s].peer, pending |-> TRUE, timer |-> "set",
                         answer |-> "none", grant |-> FALSE, outcome |-> "none"]]
        PROVE  ReqInv' /\ \A q \in Requests : req[q].outcome # "none" => req'[q].outcome = req[q].outcome
    <3>1. TakenOnce([peer |-> sock[s].peer, pending |-> TRUE, timer |-> "set",
                     answer |-> "none", grant |-> FALSE, outcome |-> "none"])
      BY <2>1 DEF TakenOnce
    <3>2. ReqInv'
      BY <2>3, <3>1, TakenStep
    <3>3. req[r].outcome = "none"
      BY <2>3 DEF NewRequestId, ReqInv, TakenOnce
    <3>4. \A q \in Requests \ {r} : req'[q] = req[q]
      BY <2>1, <2>3
    <3> QED
      BY <3>2, <3>3, <3>4
  <2> QED
    BY <1>1, <2>2, <2>3 DEF Accept, RequestAndWaitForAuthorization
<1>2. ASSUME NEW r \in Requests, TimerOrAnswer(r) \/ \E g \in BOOLEAN : AnswerArrives(r, g)
      PROVE  ReqInv' /\ \A q \in Requests : req[q].outcome # "none" => req'[q].outcome = req[q].outcome
  BY <1>2, RequestTaken
<1>3. CASE UNCHANGED req
  BY <1>3 DEF ReqInv
<1>4. \/ \E s \in Sockets : Accept(s)
      \/ \E r \in Requests : TimerOrAnswer(r) \/ \E g \in BOOLEAN : AnswerArrives(r, g)
      \/ UNCHANGED req
  BY DEF Next, Step, Bind, PeerCloses, CaptureCommand, ConflictTest, BindEnds,
         SinkOnShutDown, ShutDownEnds, CleanupNotifies, CleanupRestores, OnStop, CloseChannel,
         StopCapture, UnInit, InitAgain, WaitForAuthorization, Commit, Refuse, SetAccessListener,
         RemoveAccessListener, vars, auth
<1> QED
  BY <1>1, <1>2, <1>3, <1>4

\* Every step keeps the types.
LEMMA TypeStep ==
  ASSUME TypeOK, ReqInv, PeerInv, [Next]_vars
  PROVE  TypeOK'
<1>1. CASE UNCHANGED vars
  BY <1>1 DEF TypeOK, vars, link, auth
<1>2. CASE Next
  BY <1>2, BindType, ConflictType, AcceptType, BindEndsType, CleanupType,
     PeerClosesType, ShutDownType, ShutDownEndsType, StopType, CloseChannelType, InitsType,
     CommandType, VerdictType, RequestType, ListenerType
     DEF Next, Step
<1> QED
  BY <1>1, <1>2

\* Every variable keeps its type, every socket in use has a source, and a
\* request is taken once.
THEOREM TypeCorrect == Spec => [](TypeOK /\ ReqInv /\ PeerInv)
<1>1. (TypeOK /\ ReqInv /\ PeerInv) /\ [Next]_vars => (TypeOK /\ ReqInv /\ PeerInv)'
  BY TypeStep, ReqStep, PeerStep
<1> QED
  BY <1>1, TypeInit, PTL DEF Spec

\* The first of timer and answer decides a request, and no later one.
THEOREM RequestsAreDecidedOnce == Spec => OutcomeStands
<1>1. TypeOK /\ ReqInv /\ PeerInv /\ [Next]_vars
        => [\A r \in Requests : req[r].outcome # "none" => req'[r].outcome = req[r].outcome]_vars
  BY ReqStep
<1> QED
  BY <1>1, TypeCorrect, PTL DEF Spec, OutcomeStands

----------------------------------------------------------------------------
\* What each step does to the sockets and the sessions, element by element.

Moved(s, f) ==
  \A t \in Sockets : /\ sock'[t].kind = sock[t].kind /\ sock'[t].peer = sock[t].peer
                     /\ sock'[t].live = sock[t].live
                     /\ t # s => sock'[t].phase = sock[t].phase
                     /\ t = s => sock'[t].phase = f

\* A step that sets the phase of one socket moves that socket.
LEMMA MovedStep ==
  ASSUME TypeOK, NEW s \in Sockets, NEW f \in Phases, Phase(s, f)
  PROVE  Moved(s, f)
BY PhaseStep DEF TypeOK, Moved

\* A history only grows.
LEMMA CausesGrow ==
  ASSUME [Next]_vars
  PROVE  causes \subseteq causes'
BY DEF Next, Step, Bind, PeerCloses, CaptureCommand, ConflictTest, Accept, BindEnds,
       SinkOnShutDown, ShutDownEnds, CleanupNotifies, CleanupRestores, OnStop, CloseChannel,
       StopCapture, UnInit, InitAgain, WaitForAuthorization, Commit, Refuse, SetAccessListener,
       RemoveAccessListener, TimerOrAnswer, TimerWakes, TimeoutTakes, TimeoutDecides,
       AnswerTakes, AnswerDecides, AnswerArrives, vars

\* What the test for a conflict does: it passes, or it queues a cleanup.
LEMMA ConflictEffect ==
  ASSUME TypeOK, NEW s \in Sockets, ConflictTest(s)
  PROVE  /\ sock[s].phase = "found" /\ trust' = trust
         /\ \/ /\ sock[s].kind = "control" /\ trust["control"] # 0 /\ Moved(s, "rival")
               /\ session'["control"].id = s /\ session'["control"].open
               /\ \A j \in Kinds \ {"control"} : session'[j] = session[j]
               /\ map' = map
               /\ cleanups'.queued = cleanups.queued \cup {s} /\ cleanups'.sent = cleanups.sent
               /\ cleanups.queued \cup cleanups.sent # {} => "overlap" \in causes'
            \/ /\ trust[sock[s].kind] # 0 /\ Moved(s, "refused")
               /\ session' = session /\ map' = map \ {s} /\ cleanups' = cleanups
            \/ /\ trust[sock[s].kind] = 0 /\ Moved(s, "passed")
               /\ session' = session /\ map' = map /\ cleanups' = cleanups
               /\ (\E t \in Sharing(s) : sock[t].phase \in {"passed", "reset"}) => "race" \in causes'
<1>1. cleanups \in [queued : SUBSET Sockets, sent : SUBSET Sockets] /\ session \in [Kinds -> SessionState]
  BY DEF TypeOK
<1>2. CASE sock[s].kind = "control" /\ trust["control"] # 0
  <2>1. /\ session' = [session EXCEPT !["control"] = [id |-> s, open |-> TRUE, conflict |-> TRUE]]
        /\ cleanups' = [cleanups EXCEPT !.queued = @ \cup {s}]
        /\ Phase(s, "rival") /\ map' = map /\ trust' = trust /\ sock[s].phase = "found"
        /\ cleanups.queued \cup cleanups.sent # {} => "overlap" \in causes'
    BY <1>2 DEF ConflictTest
  <2>2. Moved(s, "rival")
    BY <2>1, MovedStep DEF Phases
  <2>3. /\ session'["control"].id = s /\ session'["control"].open
        /\ \A j \in Kinds \ {"control"} : session'[j] = session[j]
    BY <1>1, <2>1 DEF Kinds
  <2>4. cleanups'.queued = cleanups.queued \cup {s} /\ cleanups'.sent = cleanups.sent
    BY <1>1, <2>1
  <2> QED
    BY <1>2, <2>1, <2>2, <2>3, <2>4
<1>3. CASE sock[s].kind # "control" /\ trust[sock[s].kind] # 0
  <2>1. Moved(s, "refused")
    BY <1>3, MovedStep DEF ConflictTest, Phases
  <2> QED
    BY <1>3, <2>1 DEF ConflictTest
<1>4. CASE trust[sock[s].kind] = 0
  <2>1. Moved(s, "passed")
    BY <1>4, MovedStep DEF ConflictTest, Phases
  <2> QED
    BY <1>4, <2>1 DEF ConflictTest
<1> QED
  BY <1>2, <1>3, <1>4

\* Acceptance makes the socket the trusted one of its kind.
LEMMA AcceptEffect ==
  ASSUME TypeOK, NEW s \in Sockets, Accept(s)
  PROVE  /\ sock[s].phase = "passed" /\ Moved(s, "accepted")
         /\ trust'[sock[s].kind] = s
         /\ \A j \in Kinds \ {sock[s].kind} : trust'[j] = trust[j]
         /\ \A j \in Kinds : session'[j].id = session[j].id /\ session'[j].open = session[j].open
         /\ sock[s].kind = "control" => ~session'["control"].conflict
         /\ sock[s].kind # "control" => session' = session
         /\ map' = map /\ cleanups' = cleanups /\ ctl' = ctl
<1>1. /\ sock[s].kind \in Kinds /\ "control" \in Kinds /\ trust \in [Kinds -> 0 .. MaxSockets]
      /\ session \in [Kinds -> SessionState]
  BY Parts DEF TypeOK
<1>2. Moved(s, "accepted")
  BY MovedStep DEF Accept, Phases
<1>3. CASE sock[s].kind = "control"
  <2>1. session' = [session EXCEPT !["control"].conflict = FALSE]
    BY <1>3 DEF Accept
  <2>2. /\ \A j \in Kinds : session'[j].id = session[j].id /\ session'[j].open = session[j].open
        /\ ~session'["control"].conflict
    BY <1>1, <2>1, ConflictStep
  <2> QED
    BY <1>1, <1>2, <1>3, <2>2 DEF Accept
<1>4. CASE sock[s].kind # "control"
  BY <1>1, <1>2, <1>4 DEF Accept
<1> QED
  BY <1>3, <1>4

\* The end of a bind gives the session its socket, if it gives one.
LEMMA BindEndsEffect ==
  ASSUME TypeOK, NEW s \in Sockets, BindEnds(s)
  PROVE  /\ sock[s].phase = "accepted" /\ Moved(s, "up")
         /\ session'[sock[s].kind].id = s /\ session'[sock[s].kind].open
         /\ session'[sock[s].kind].conflict = session[sock[s].kind].conflict
         /\ \A j \in Kinds \ {sock[s].kind} : session'[j] = session[j]
         /\ trust' = trust /\ map' = map /\ cleanups' = cleanups
         /\ sock[s].kind # "control" => ctl' = ctl
         /\ sock[s].kind = "control" /\ ~session["control"].conflict
              => ctl'.up /\ ctl'.src = sock[s].peer
         /\ sock[s].kind = "control" /\ session["control"].conflict => "race" \in causes'
         /\ sock[s].kind = "control" /\ cleanups.queued # {} => "overlap" \in causes'
<1>1. sock[s].kind \in Kinds /\ s \in 0 .. MaxSockets
  BY Parts
<1>2. Moved(s, "up")
  BY MovedStep DEF BindEnds, Phases
<1>3. session' = [session EXCEPT ![sock[s].kind].id = s, ![sock[s].kind].open = TRUE]
  BY DEF BindEnds, OnSessionOpened
<1>4. /\ session'[sock[s].kind].id = s /\ session'[sock[s].kind].open = TRUE
      /\ session'[sock[s].kind].conflict = session[sock[s].kind].conflict
      /\ \A j \in Kinds \ {sock[s].kind} : session'[j] = session[j]
  BY <1>1, <1>3, NumberStep
<1> QED
  BY <1>2, <1>4 DEF BindEnds, OnSessionOpened

\* A shutdown lets go of the trust and leaves the map, and finds its session or not.
LEMMA ShutDownEffect ==
  ASSUME TypeOK, NEW s \in Sockets, SinkOnShutDown(s)
  PROVE  /\ sock[s].phase \in {"up", "rival", "refused"} /\ ~sock[s].live
         /\ map' = map /\ cleanups' = cleanups /\ ctl' = ctl
         /\ \A j \in Kinds : session'[j].id = session[j].id /\ session'[j].open = session[j].open
         /\ \/ /\ ~SinkGetSession(s) /\ Moved(s, "gone")
               /\ trust' = trust /\ session' = session
            \/ /\ SinkGetSession(s) /\ Moved(s, "reset")
               /\ \A j \in Kinds \ {sock[s].kind} : trust'[j] = trust[j] /\ session'[j] = session[j]
               /\ trust[sock[s].kind] = s => /\ trust'[sock[s].kind] = 0
                                             /\ ~session'[sock[s].kind].conflict
               /\ trust[sock[s].kind] # s => trust' = trust /\ session' = session
               /\ sock[s].phase = "rival" /\ trust[sock[s].kind] # 0 => "rivalLeft" \in causes'
<1>1. /\ sock[s].kind \in Kinds /\ trust \in [Kinds -> 0 .. MaxSockets]
  BY Parts DEF TypeOK
<1>2. CASE ~SinkGetSession(s)
  <2>1. Moved(s, "gone")
    BY <1>2, MovedStep DEF SinkOnShutDown, Phases
  <2> QED
    BY <1>2, <2>1 DEF SinkOnShutDown
<1>3. CASE SinkGetSession(s) /\ trust[sock[s].kind] # s
  <2>1. Moved(s, "reset")
    BY <1>3, MovedStep DEF SinkOnShutDown, Phases
  <2> QED
    BY <1>3, <2>1 DEF SinkOnShutDown
<1>4. CASE SinkGetSession(s) /\ trust[sock[s].kind] = s
  <2>1. Moved(s, "reset")
    BY <1>4, MovedStep DEF SinkOnShutDown, Phases
  <2>2. session' = [session EXCEPT ![sock[s].kind].conflict = FALSE]
    BY <1>4 DEF SinkOnShutDown
  <2>3. /\ session'[sock[s].kind].id = session[sock[s].kind].id
        /\ session'[sock[s].kind].open = session[sock[s].kind].open
        /\ session'[sock[s].kind].conflict = FALSE
        /\ \A j \in Kinds \ {sock[s].kind} : session'[j] = session[j]
    BY <1>1, <2>2, ConflictStep
  <2>4. trust' = [trust EXCEPT ![sock[s].kind] = 0]
    BY <1>4 DEF SinkOnShutDown
  <2>5. /\ trust'[sock[s].kind] = 0
        /\ \A j \in Kinds \ {sock[s].kind} : trust'[j] = trust[j]
    BY <1>1, <2>4
  <2> QED
    BY <1>4, <2>1, <2>3, <2>5 DEF SinkOnShutDown
<1> QED
  BY <1>2, <1>3, <1>4

\* The report of a shutdown clears the session and disconnects the controller.
LEMMA ShutDownEndsEffect ==
  ASSUME TypeOK, NEW s \in Sockets, ShutDownEnds(s)
  PROVE  /\ sock[s].phase = "reset" /\ Moved(s, "gone")
         /\ session'[sock[s].kind].id = 0
         /\ session'[sock[s].kind].conflict = session[sock[s].kind].conflict
         /\ \A j \in Kinds \ {sock[s].kind} : session'[j] = session[j]
         /\ trust' = trust /\ map' = map \ {s} /\ cleanups' = cleanups
         /\ sock[s].kind # "control" => ctl' = ctl
         /\ sock[s].kind = "control" /\ ~session["control"].conflict => ~ctl'.up
<1>1. sock[s].kind \in Kinds /\ 0 \in 0 .. MaxSockets
  BY Parts, BoundsAssumption
<1>2. Moved(s, "gone")
  BY MovedStep DEF ShutDownEnds, Phases
<1>3. session' = [session EXCEPT ![sock[s].kind].id = 0, ![sock[s].kind].open = FALSE]
  BY DEF ShutDownEnds
<1>4. /\ session'[sock[s].kind].id = 0
      /\ session'[sock[s].kind].conflict = session[sock[s].kind].conflict
      /\ \A j \in Kinds \ {sock[s].kind} : session'[j] = session[j]
  BY <1>1, <1>3, NumberStep
<1>5. sock[s].kind = "control" /\ ~session["control"].conflict => ~ctl'.up
  BY DEF ShutDownEnds, ReportClosed, TypeOK
<1> QED
  BY <1>2, <1>4, <1>5 DEF ShutDownEnds, ReportClosed

\* A stop by the all-connect manager ends the socket it knows.
LEMMA OnStopEffect ==
  ASSUME TypeOK, NEW p \in Peers, OnStop(p)
  PROVE  /\ \E s \in Sockets : /\ sock[s].phase = "up" /\ sock[s].kind \in Kinds /\ netSocket[p] = s
                               /\ sock'[s].phase = "gone"
                               /\ \A t \in Sockets \ {s} : sock'[t] = sock[t]
         /\ session'["control"].id = 0 /\ \A j \in Kinds \ {"control"} : session'[j] = session[j]
         /\ session'["control"].conflict = session["control"].conflict
         /\ trust' = trust /\ map' = map /\ cleanups' = cleanups /\ "stopped" \in causes'
<1>1. /\ netSocket[p] \in Sockets /\ 0 \in 0 .. MaxSockets /\ sock \in [Sockets -> SocketState]
      /\ sock[netSocket[p]] \in SocketState
  BY BoundsAssumption DEF OnStop, TypeOK, Sockets
<1>2. /\ session'["control"].id = 0 /\ \A j \in Kinds \ {"control"} : session'[j] = session[j]
      /\ session'["control"].conflict = session["control"].conflict
  BY <1>1, Parts, NumberStep DEF OnStop
<1>3. /\ sock'[netSocket[p]].phase = "gone"
      /\ \A t \in Sockets \ {netSocket[p]} : sock'[t] = sock[t]
  BY <1>1 DEF OnStop, SocketState
<1> QED
  BY <1>1, <1>2, <1>3, Parts DEF OnStop

\* The last step of a cleanup names the trusted socket in the session again.
LEMMA RestoreEffect ==
  ASSUME TypeOK, NEW s \in Sockets, CleanupRestores(s)
  PROVE  /\ s \in cleanups.sent /\ sock' = sock /\ trust' = trust /\ map' = map \ {s}
         /\ cleanups'.queued = cleanups.queued /\ cleanups'.sent = cleanups.sent \ {s}
         /\ session'["control"].id = trust["control"]
         /\ session'["control"].open = session["control"].open
         /\ session'["control"].conflict = session["control"].conflict
         /\ \A j \in Kinds \ {"control"} : session'[j] = session[j]
<1>1. /\ session \in [Kinds -> SessionState] /\ session["control"] \in SessionState
      /\ cleanups \in [queued : SUBSET Sockets, sent : SUBSET Sockets] /\ "control" \in Kinds
  BY Parts DEF TypeOK
<1>2. session' = [session EXCEPT !["control"] = [session["control"] EXCEPT !.id = trust["control"]]]
  BY <1>1 DEF CleanupRestores
<1>3. /\ [session["control"] EXCEPT !.id = trust["control"]].id = trust["control"]
      /\ [session["control"] EXCEPT !.id = trust["control"]].open = session["control"].open
      /\ [session["control"] EXCEPT !.id = trust["control"]].conflict = session["control"].conflict
  BY <1>1 DEF SessionState
<1>4. /\ session'["control"] = [session["control"] EXCEPT !.id = trust["control"]]
      /\ \A j \in Kinds \ {"control"} : session'[j] = session[j]
  BY <1>1, <1>2
<1>5. cleanups'.queued = cleanups.queued /\ cleanups'.sent = cleanups.sent \ {s}
  BY <1>1 DEF CleanupRestores
<1> QED
  BY <1>3, <1>4, <1>5 DEF CleanupRestores

----------------------------------------------------------------------------
\* One trusted socket.  Without the race an accepted socket is the trusted one
\* of its kind, and a socket that has passed the test passed it alone.
TrustInv ==
  "race" \notin causes =>
    \A s \in Sockets :
      /\ sock[s].phase \in {"accepted", "up"} => trust[sock[s].kind] = s
      /\ sock[s].phase = "passed" => /\ trust[sock[s].kind] = 0
                                     /\ \A t \in Sharing(s) : sock[t].phase # "passed"

\* Nothing is trusted at the start.
LEMMA TrustInit == Init => TrustInv
BY DEF Init, TrustInv

\* The steps of the controller and of the requests leave the trust alone.
LEMMA ElsewhereTrust == Elsewhere => UNCHANGED trust
BY DEF Elsewhere, CleanupNotifies, CleanupRestores, CaptureCommand, CloseChannel, StopCapture,
       InitAgain, WaitForAuthorization, Commit, Refuse, SetAccessListener, RemoveAccessListener,
       TimerOrAnswer, TimerWakes, TimeoutTakes, TimeoutDecides, AnswerTakes, AnswerDecides,
       AnswerArrives, link, vars

\* Every step keeps the trust with the accepted socket.
LEMMA TrustStep ==
  ASSUME TypeOK, TypeOK', TrustInv, [Next]_vars
  PROVE  TrustInv'
<1> SUFFICES ASSUME "race" \notin causes' PROVE TrustInv'
  BY DEF TrustInv
<1>0. "race" \notin causes
  BY CausesGrow
<1>1. ASSUME NEW s \in Sockets, NEW k \in Kinds, NEW p \in Peers, Bind(s, k, p)
      PROVE  TrustInv'
  <2>1. /\ sock'[s].phase \in {"found", "refused"} /\ trust' = trust
        /\ \A t \in Sockets \ {s} : sock'[t] = sock[t]
    BY <1>1, BindStep DEF Bind
  <2> QED
    BY <1>0, <2>1 DEF TrustInv, Sharing
<1>2. ASSUME NEW s \in Sockets, ConflictTest(s)
      PROVE  TrustInv'
  BY <1>0, <1>2, ConflictEffect DEF TrustInv, Sharing, Moved
<1>3. ASSUME NEW s \in Sockets, Accept(s)
      PROVE  TrustInv'
  <2>1. /\ sock[s].phase = "passed" /\ Moved(s, "accepted") /\ trust'[sock[s].kind] = s
        /\ \A j \in Kinds \ {sock[s].kind} : trust'[j] = trust[j]
    BY <1>3, AcceptEffect
  <2>2. trust[sock[s].kind] = 0 /\ \A t \in Sharing(s) : sock[t].phase \notin {"passed", "accepted", "up"}
    BY <1>0, <2>1, Parts DEF TrustInv, Sharing
  <2> QED
    BY <1>0, <2>1, <2>2, Parts DEF TrustInv, Sharing, Moved
<1>4. ASSUME NEW s \in Sockets, BindEnds(s)
      PROVE  TrustInv'
  BY <1>0, <1>4, BindEndsEffect DEF TrustInv, Sharing, Moved
<1>5. ASSUME NEW s \in Sockets, SinkOnShutDown(s)
      PROVE  TrustInv'
  <2>1. /\ Moved(s, "gone") \/ Moved(s, "reset")
        /\ \A k \in Kinds : trust'[k] = trust[k] \/ (trust[k] = s /\ trust'[k] = 0)
    BY <1>5, ShutDownEffect, Parts
  <2> QED
    BY <1>0, <2>1, Parts DEF TrustInv, Sharing, Moved
<1>6. ASSUME NEW s \in Sockets, ShutDownEnds(s)
      PROVE  TrustInv'
  BY <1>0, <1>6, ShutDownEndsEffect DEF TrustInv, Sharing, Moved
<1>7. ASSUME NEW s \in Sockets, PeerCloses(s)
      PROVE  TrustInv'
  <2>1. trust' = trust
    BY <1>7 DEF PeerCloses
  <2> QED
    BY <1>0, <1>7, <2>1, PeerClosesStep DEF TrustInv, Sharing
<1>8. CASE (\E p \in Peers : OnStop(p)) \/ UnInit
  <2>1. trust' = trust
    BY <1>8 DEF OnStop, UnInit
  <2> QED
    BY <1>0, <1>8, <2>1, EndStep DEF TrustInv, Sharing
<1>9. CASE Elsewhere
  BY <1>0, <1>9, ElsewhereKeeps, ElsewhereTrust DEF TrustInv, Sharing
<1> QED
  BY <1>1, <1>2, <1>3, <1>4, <1>5, <1>6, <1>7, <1>8, <1>9, NextCases

\* Two sockets of a kind are never both accepted, unless both passed the
\* unlocked test.
THEOREM OneSourceAtATime == Spec => []OneTrustedSocket
<1>1. TypeOK /\ TypeOK' /\ TrustInv /\ [Next]_vars => TrustInv'
  BY TrustStep
<1>2. TypeOK /\ TrustInv => OneTrustedSocket
  BY DEF TrustInv, OneTrustedSocket, Accepted, Unless
<1> QED
  BY <1>1, <1>2, TrustInit, TypeCorrect, PTL DEF Spec

----------------------------------------------------------------------------
\* Whose capture is started.  Whoever was granted access is recorded; the
\* current network id is the one of the control socket, hence of the source
\* whose command is being prepared, hence of the one that is waited for.
Excused == Unless({"otherPeer", "cleared", "rivalCommand"})

GrantInv == \A p \in Peers : access.decision[p] = "granted" => p \in allowed

CurrentInv ==
  Excused \/ \A s \in Sockets :
               sock[s].kind = "control" /\ sock[s].phase \in {"accepted", "up"}
                 => access.current = sock[s].peer

CaptureInv ==
  Excused \/ /\ capture.state = "starting" => capture.by \in Peers /\ access.current = capture.by
             /\ capture.state = "waiting"  => capture.by \in Peers /\ capture.net = capture.by
             /\ capture.state = "running"  => capture.by \in allowed

AllowInv == GrantInv /\ CurrentInv /\ CaptureInv

\* Nothing is granted, current or captured at the start.
LEMMA AllowInit == Init => AllowInv
BY DEF Init, AllowInv, GrantInv, CurrentInv, CaptureInv, Idle

\* An excuse stays one, for the history only grows.
LEMMA ExcusedStays == [Next]_vars /\ Excused => Excused'
BY CausesGrow DEF Excused, Unless

\* The record of the access listener after each step that writes it.
LEMMA AccessEffect ==
  ASSUME TypeOK, ReqInv, PeerInv
  PROVE  /\ \A s \in Sockets : Accept(s) =>
              /\ access'.current = sock[s].peer /\ allowed \subseteq allowed'
              /\ \A p \in Peers : access'.decision[p] = access.decision[p] \/ p \in allowed'
              /\ access.current \notin {NoPeer, sock[s].peer} => "otherPeer" \in causes'
         /\ \A r \in Requests : TimeoutDecides(r) \/ AnswerDecides(r) =>
              /\ access'.current = access.current /\ allowed \subseteq allowed'
              /\ \A p \in Peers : \/ access'.decision[p] = access.decision[p]
                                  \/ access'.decision[p] = "denied" \/ p \in allowed'
         /\ SetAccessListener => /\ access'.current = access.current
                                 /\ access'.decision = access.decision
         /\ RemoveAccessListener => /\ "cleared" \in causes'
                                    /\ \A p \in Peers : access'.decision[p] = "none"
<1>0. access \in AccessState
  BY DEF TypeOK
<1>1. ASSUME NEW q \in Peers, NEW d \in {"granted", "denied"}
      PROVE  /\ [access EXCEPT !.current = q].current = q
             /\ [access EXCEPT !.current = q].decision = access.decision
             /\ [access EXCEPT !.current = q, !.decision[q] = d].current = q
             /\ \A p \in Peers : [access EXCEPT !.current = q, !.decision[q] = d].decision[p]
                                   = IF p = q THEN d ELSE access.decision[p]
             /\ [access EXCEPT !.decision[q] = d].current = access.current
             /\ \A p \in Peers : [access EXCEPT !.decision[q] = d].decision[p]
                                   = IF p = q THEN d ELSE access.decision[p]
  BY <1>0 DEF AccessState
<1>2. ASSUME NEW s \in Sockets, Accept(s)
      PROVE  /\ access'.current = sock[s].peer /\ allowed \subseteq allowed'
             /\ \A p \in Peers : access'.decision[p] = access.decision[p] \/ p \in allowed'
             /\ access.current \notin {NoPeer, sock[s].peer} => "otherPeer" \in causes'
  <2>1. sock[s].peer \in Peers
    BY <1>2 DEF PeerInv, Accept
  <2>2. access.current \notin {NoPeer, sock[s].peer} => "otherPeer" \in causes'
    BY <1>2 DEF Accept
  <2>3. CASE sock[s].kind = "control" /\ ~access.listener
    <3>1. /\ access' = [access EXCEPT !.current = sock[s].peer, !.decision[sock[s].peer] = "granted"]
          /\ allowed' = allowed \cup {sock[s].peer}
      BY <1>2, <2>3 DEF Accept, RequestAndWaitForAuthorization
    <3> QED
      BY <1>1, <2>1, <2>2, <3>1
  <2>4. CASE ~(sock[s].kind = "control" /\ ~access.listener)
    <3>1. access' = [access EXCEPT !.current = sock[s].peer] /\ allowed' = allowed
      BY <1>2, <2>4 DEF Accept, RequestAndWaitForAuthorization
    <3> QED
      BY <1>1, <2>1, <2>2, <3>1
  <2> QED
    BY <2>3, <2>4
<1>3. ASSUME NEW r \in Requests, TimeoutDecides(r) \/ AnswerDecides(r)
      PROVE  /\ access'.current = access.current /\ allowed \subseteq allowed'
             /\ \A p \in Peers : \/ access'.decision[p] = access.decision[p]
                                 \/ access'.decision[p] = "denied" \/ p \in allowed'
  <2>1. req[r].peer \in Peers /\ req[r].grant \in BOOLEAN
    BY <1>3 DEF ReqInv, TakenOnce, TimeoutDecides, AnswerDecides, TypeOK, RequestState
  <2>2. PICK g \in BOOLEAN : SetAuthorizationGranted(req[r].peer, g)
    BY <1>3, <2>1 DEF TimeoutDecides, AnswerDecides
  <2>3. CASE g
    <3>1. /\ access' = [access EXCEPT !.decision[req[r].peer] = "granted"]
          /\ allowed' = allowed \cup {req[r].peer}
      BY <2>2, <2>3 DEF SetAuthorizationGranted
    <3> QED
      BY <1>1, <2>1, <3>1
  <2>4. CASE ~g
    <3>1. /\ access' = [access EXCEPT !.decision[req[r].peer] = "denied"]
          /\ allowed' = allowed
      BY <2>2, <2>4 DEF SetAuthorizationGranted
    <3> QED
      BY <1>1, <2>1, <3>1
  <2> QED
    BY <2>3, <2>4
<1>4. SetAccessListener => /\ access'.current = access.current
                           /\ access'.decision = access.decision
  BY <1>0 DEF SetAccessListener, AccessState
<1>5. RemoveAccessListener => /\ "cleared" \in causes'
                              /\ \A p \in Peers : access'.decision[p] = "none"
  BY DEF RemoveAccessListener
<1> QED
  BY <1>2, <1>3, <1>4, <1>5

\* The record of the capture after each step that writes it.
LEMMA CaptureEffect ==
  ASSUME TypeOK
  PROVE  /\ \A s \in Sockets : CaptureCommand(s) =>
              /\ capture'.state = "starting" /\ capture'.by = sock[s].peer
              /\ sock[s].kind = "control" /\ sock[s].phase \in {"up", "rival"}
              /\ sock[s].phase = "rival" => "rivalCommand" \in causes'
         /\ WaitForAuthorization =>
              /\ capture.state = "starting" /\ capture'.state = "waiting"
              /\ capture'.by = capture.by /\ capture'.net = access.current
         /\ Commit => /\ capture.state = "waiting" /\ Authorized(capture.net)
                      /\ capture'.state = "running" /\ capture'.by = capture.by
         /\ Refuse \/ StopCapture \/ UnInit => capture' = capture \/ capture'.state = "idle"
<1>0. capture \in CaptureState
  BY DEF TypeOK
<1>1. ASSUME NEW s \in Sockets, CaptureCommand(s)
      PROVE  /\ capture'.state = "starting" /\ capture'.by = sock[s].peer
             /\ sock[s].kind = "control" /\ sock[s].phase \in {"up", "rival"}
             /\ sock[s].phase = "rival" => "rivalCommand" \in causes'
  BY <1>1 DEF CaptureCommand
<1>2. ASSUME WaitForAuthorization
      PROVE  /\ capture.state = "starting" /\ capture'.state = "waiting"
             /\ capture'.by = capture.by /\ capture'.net = access.current
  BY <1>0, <1>2 DEF WaitForAuthorization, CaptureState
<1>3. ASSUME Commit
      PROVE  /\ capture.state = "waiting" /\ Authorized(capture.net)
             /\ capture'.state = "running" /\ capture'.by = capture.by
  BY <1>0, <1>3 DEF Commit, CaptureState
<1>4. ASSUME Refuse \/ StopCapture \/ UnInit
      PROVE  capture' = capture \/ capture'.state = "idle"
  <2>1. Idle.state = "idle"
    BY DEF Idle
  <2>2. capture' \in {capture, Idle}
    BY <1>4 DEF Refuse, StopCapture, UnInit
  <2> QED
    BY <2>1, <2>2
<1> QED
  BY <1>1, <1>2, <1>3, <1>4

\* The steps that leave the access state, or the capture, as it is.
LEMMA AccessKept ==
  ASSUME [Next]_vars
  PROVE  \/ \E s \in Sockets : Accept(s)
         \/ \E r \in Requests : TimeoutDecides(r) \/ AnswerDecides(r)
         \/ SetAccessListener \/ RemoveAccessListener
         \/ access' = access /\ allowed' = allowed
BY DEF Next, Step, Bind, PeerCloses, CaptureCommand, ConflictTest, BindEnds,
       SinkOnShutDown, ShutDownEnds, CleanupNotifies, CleanupRestores, OnStop, CloseChannel,
       StopCapture, UnInit, InitAgain, WaitForAuthorization, Commit, Refuse, TimerOrAnswer,
       TimerWakes, TimeoutTakes, AnswerTakes, AnswerArrives, vars, auth

\* The steps that leave the capture as it is.
LEMMA CaptureKept ==
  ASSUME [Next]_vars
  PROVE  \/ \E s \in Sockets : CaptureCommand(s)
         \/ WaitForAuthorization \/ Commit \/ Refuse \/ StopCapture \/ UnInit
         \/ capture' = capture
BY DEF Next, Step, Bind, PeerCloses, ConflictTest, Accept, BindEnds,
       SinkOnShutDown, ShutDownEnds, CleanupNotifies, CleanupRestores, OnStop, CloseChannel,
       InitAgain, SetAccessListener, RemoveAccessListener, TimerOrAnswer,
       TimerWakes, TimeoutTakes, TimeoutDecides, AnswerTakes, AnswerDecides, AnswerArrives, vars

\* A control socket is accepted by Accept, and by nothing else.
LEMMA AcceptedBefore ==
  ASSUME TypeOK, [Next]_vars, NEW t \in Sockets, sock'[t].phase \in {"accepted", "up"}
  PROVE  \/ Accept(t)
         \/ /\ sock[t].phase \in {"accepted", "up"} /\ sock'[t].kind = sock[t].kind
            /\ sock'[t].peer = sock[t].peer
<1>1. ASSUME NEW s \in Sockets, NEW k \in Kinds, NEW p \in Peers, Bind(s, k, p)
      PROVE  sock'[t] = sock[t]
  BY <1>1, BindStep
<1>2. ASSUME NEW s \in Sockets,
             ConflictTest(s) \/ Accept(s) \/ BindEnds(s)
               \/ SinkOnShutDown(s) \/ ShutDownEnds(s)
      PROVE  \/ Accept(t)
             \/ /\ sock[t].phase \in {"accepted", "up"} /\ sock'[t].kind = sock[t].kind
                /\ sock'[t].peer = sock[t].peer
  BY <1>2, ConflictEffect, AcceptEffect, BindEndsEffect, ShutDownEffect,
     ShutDownEndsEffect DEF Moved
<1>3. ASSUME NEW s \in Sockets, PeerCloses(s)
      PROVE  /\ sock[t].phase = sock'[t].phase /\ sock'[t].kind = sock[t].kind
             /\ sock'[t].peer = sock[t].peer
  BY <1>3, PeerClosesStep
<1> QED
  BY <1>1, <1>2, <1>3, EndStep, ElsewhereKeeps, NextCases

\* A decision that grants is recorded, and a record is never taken back.
LEMMA GrantStep ==
  ASSUME TypeOK, ReqInv, PeerInv, GrantInv, [Next]_vars
  PROVE  GrantInv' /\ allowed \subseteq allowed'
<1>1. allowed \subseteq allowed'
  BY AccessKept, AccessEffect DEF SetAccessListener, RemoveAccessListener
<1> QED
  BY <1>1, AccessKept, AccessEffect DEF GrantInv

\* The current network id stays that of the accepted control socket.
LEMMA CurrentStep ==
  ASSUME TypeOK, ReqInv, PeerInv, CurrentInv, [Next]_vars
  PROVE  CurrentInv'
<1> SUFFICES ASSUME ~Excused', NEW t \in Sockets, (sock[t].kind = "control")',
                    sock'[t].phase \in {"accepted", "up"}
             PROVE  access'.current = sock'[t].peer
  BY DEF CurrentInv
<1>0. ~Excused /\ "otherPeer" \notin causes' /\ "cleared" \notin causes'
  BY ExcusedStays DEF Excused, Unless
<1>1. CASE Accept(t)
  BY <1>1, AccessEffect, AcceptEffect DEF Moved
<1>2. CASE ~Accept(t)
  <2>1. access.current = sock'[t].peer /\ sock'[t].peer = sock[t].peer /\ sock[t].peer \in Peers
    BY <1>0, <1>2, AcceptedBefore DEF CurrentInv, PeerInv
  <2>2. ASSUME NEW s \in Sockets, Accept(s) PROVE access'.current = sock'[t].peer
    BY <1>0, <2>1, <2>2, AccessEffect, PeersAssumption
  <2>3. access'.current = access.current \/ \E s \in Sockets : Accept(s)
    BY <1>0, AccessKept, AccessEffect
  <2> QED
    BY <2>1, <2>2, <2>3
<1> QED
  BY <1>1, <1>2

\* The capture that is prepared stays that of the current network id.
LEMMA CaptureStep ==
  ASSUME TypeOK, ReqInv, PeerInv, GrantInv, CurrentInv, CaptureInv, [Next]_vars
  PROVE  CaptureInv'
<1> SUFFICES ASSUME ~Excused' PROVE CaptureInv'
  BY DEF CaptureInv
<1>0. ~Excused /\ causes' \cap {"otherPeer", "cleared", "rivalCommand"} = {}
  BY ExcusedStays DEF Excused, Unless
<1>1. allowed \subseteq allowed'
  BY GrantStep
<1>2. ASSUME NEW s \in Sockets, CaptureCommand(s) PROVE CaptureInv'
  <2>1. /\ capture'.state = "starting" /\ capture'.by = sock[s].peer
        /\ sock[s].kind = "control" /\ sock[s].phase = "up"
    BY <1>0, <1>2, CaptureEffect
  <2>2. access' = access
    BY <1>2 DEF CaptureCommand, auth
  <2>3. access.current = sock[s].peer /\ sock[s].peer \in Peers
    BY <1>0, <2>1 DEF CurrentInv, PeerInv
  <2> QED
    BY <2>1, <2>2, <2>3 DEF CaptureInv
<1>3. CASE WaitForAuthorization
  BY <1>0, <1>3, CaptureEffect DEF CaptureInv
<1>4. CASE Commit
  BY <1>0, <1>1, <1>4, CaptureEffect, PeersAssumption DEF CaptureInv, GrantInv, Authorized
<1>5. CASE capture' = capture \/ capture'.state = "idle"
  <2>1. CASE access'.current = access.current
    BY <1>0, <1>1, <1>5, <2>1 DEF CaptureInv
  <2>2. ASSUME NEW s \in Sockets, Accept(s) PROVE CaptureInv'
    BY <1>0, <1>1, <1>5, <2>2, AccessEffect, PeersAssumption DEF CaptureInv
  <2>3. access'.current = access.current \/ \E s \in Sockets : Accept(s)
    BY <1>0, AccessKept, AccessEffect
  <2> QED
    BY <2>1, <2>2, <2>3
<1> QED
  BY <1>2, <1>3, <1>4, <1>5, CaptureKept, CaptureEffect

\* A capture runs for a source that was granted access, up to the three
\* exceptions.
THEOREM CapturesAreAllowed == Spec => []StartedIsAllowed
<1>1. TypeOK /\ ReqInv /\ PeerInv /\ AllowInv /\ [Next]_vars => AllowInv'
  BY GrantStep, CurrentStep, CaptureStep DEF AllowInv
<1>2. AllowInv => StartedIsAllowed
  BY DEF AllowInv, CaptureInv, StartedIsAllowed, Excused
<1> QED
  BY <1>1, <1>2, AllowInit, TypeCorrect, PTL DEF Spec

----------------------------------------------------------------------------
\* The shared session, the map and the cleanups.

\* The steps by what they do to the sockets, the sessions and the cleanups.
LEMMA LinkCases ==
  ASSUME [Next]_vars
  PROVE  \/ \E s \in Sockets, k \in Kinds, p \in Peers : Bind(s, k, p)
         \/ \E s \in Sockets : \/ ConflictTest(s) \/ Accept(s) \/ BindEnds(s)
                               \/ PeerCloses(s) \/ SinkOnShutDown(s) \/ ShutDownEnds(s)
                               \/ CleanupNotifies(s) \/ CleanupRestores(s)
         \/ (\E p \in Peers : OnStop(p)) \/ UnInit \/ InitAgain \/ CloseChannel
         \/ /\ UNCHANGED <<sock, trust, map, session, cleanups, netSocket, ctl>>
            /\ "busy" \in misled' => "busy" \in misled
<1>1. ASSUME StopCapture
      PROVE  UNCHANGED <<sock, trust, map, session, cleanups, netSocket, ctl, misled>>
  BY <1>1 DEF StopCapture
<1>2. ASSUME Commit \/ Refuse
      PROVE  /\ UNCHANGED <<sock, trust, map, session, cleanups, netSocket, ctl>>
             /\ "busy" \in misled' => "busy" \in misled
  BY <1>2 DEF Commit, Refuse, ReplyTo, link
<1>3. ASSUME \/ \E s \in Sockets : CaptureCommand(s)
             \/ WaitForAuthorization \/ SetAccessListener \/ RemoveAccessListener
             \/ UNCHANGED vars
             \/ \E r \in Requests : TimerOrAnswer(r) \/ (\E g \in BOOLEAN : AnswerArrives(r, g))
      PROVE  UNCHANGED <<sock, trust, map, session, cleanups, netSocket, ctl, misled>>
  BY <1>3 DEF CaptureCommand, WaitForAuthorization, SetAccessListener, RemoveAccessListener,
              TimerOrAnswer, TimerWakes, TimeoutTakes, TimeoutDecides, AnswerTakes, AnswerDecides,
              AnswerArrives, vars, link
<1> QED
  BY <1>1, <1>2, <1>3 DEF Next, Step

\* A busy error of a cleanup reaches a wrong socket only where the session names one.
LEMMA NotifyEffect ==
  ASSUME TypeOK, NEW s \in Sockets, CleanupNotifies(s)
  PROVE  /\ s \in cleanups.queued
         /\ cleanups'.queued = cleanups.queued \ {s} /\ cleanups'.sent = cleanups.sent \cup {s}
         /\ sock' = sock /\ trust' = trust /\ map' = map /\ session' = session /\ ctl' = ctl
         /\ netSocket' = netSocket
         /\ "busy" \in misled' => \/ "busy" \in misled
                                  \/ /\ session["control"].id # 0
                                     /\ sock[session["control"].id].live
                                     /\ sock[session["control"].id].phase # "rival"
BY DEF CleanupNotifies

\* An UnInit that is no cause of its own finds nothing connected.
LEMMA UnInitEffect ==
  ASSUME TypeOK, UnInit, "released" \notin causes'
  PROVE  /\ sock' = sock /\ trust' = trust /\ map' = map /\ session' = session
         /\ cleanups' = cleanups /\ ~ctl'.up
         /\ \A k \in Kinds : trust[k] = 0 /\ session[k].id = 0
<1>1. \A k \in Kinds : trust[k] = 0 /\ session[k].id = 0
  BY DEF UnInit
<1>2. \A s \in Sockets : ~Released(s)
  BY <1>1, Parts DEF Released
<1>3. sock' = sock
  <2>1. sock \in [Sockets -> SocketState]
    BY DEF TypeOK
  <2>2. sock' = [s \in Sockets |-> sock[s]]
    BY <1>2 DEF UnInit
  <2> QED
    BY <2>1, <2>2
<1>4. map' = map
  <2>1. map \subseteq Sockets
    BY DEF TypeOK
  <2> QED
    BY <1>2, <2>1 DEF UnInit
<1> QED
  BY <1>1, <1>3, <1>4 DEF UnInit

\* A second Init meets no socket in use and no cleanup.
LEMMA InitAgainEffect ==
  ASSUME TypeOK, InitAgain
  PROVE  /\ sock' = sock /\ trust' = trust /\ map' = map /\ cleanups' = cleanups /\ ctl' = ctl
         /\ netSocket' = netSocket
         /\ \A k \in Kinds : /\ session'[k].id = 0 /\ ~session'[k].conflict
         /\ cleanups.queued \cup cleanups.sent = {}
         /\ \A s \in Sockets : sock[s].phase \in {"free", "gone", "refused"}
BY DEF InitAgain, CreateSessions, Fresh

\* What the all-connect manager knows is a control socket.
NetInv == \A p \in Peers, s \in Sockets :
            netSocket[p] = s => sock[s].phase # "free" /\ sock[s].kind = "control"

\* The all-connect manager still knows control sockets only.
LEMMA NetStep ==
  ASSUME TypeOK, PeerInv, NetInv, [Next]_vars
  PROVE  NetInv'
<1> SUFFICES ASSUME NEW p \in Peers, NEW t \in Sockets, netSocket'[p] = t
             PROVE  sock'[t].phase # "free" /\ sock'[t].kind = "control"
  BY DEF NetInv
<1>0. netSocket \in [Peers -> 0 .. MaxSockets] /\ t # 0
  BY Parts DEF TypeOK
<1>1. ASSUME NEW s \in Sockets, BindEnds(s) PROVE sock'[t].phase # "free" /\ sock'[t].kind = "control"
  <2>1. netSocket[p] = t \/ (t = s /\ sock[s].kind = "control")
    BY <1>0, <1>1 DEF BindEnds, SetSinkNetWorkId
  <2> QED
    BY <1>1, <2>1, BindEndsEffect DEF NetInv, Moved
<1>2. ASSUME NEW s \in Sockets, ShutDownEnds(s) PROVE sock'[t].phase # "free" /\ sock'[t].kind = "control"
  <2>1. netSocket[p] = t
    BY <1>0, <1>2 DEF ShutDownEnds, RemoveSinkNetworkId
  <2> QED
    BY <1>2, <2>1, ShutDownEndsEffect DEF NetInv, Moved
<1>3. CASE netSocket' = netSocket
  <2>1. sock[t].phase # "free" /\ sock[t].kind = "control"
    BY <1>3 DEF NetInv
  <2>2. sock'[t].phase # "free"
    BY <2>1, FreeStep
  <2>3. sock'[t].kind = sock[t].kind
    BY <2>1, NextCases, BindStep, ConflictEffect, AcceptEffect, BindEndsEffect,
       PeerClosesStep, ShutDownEffect, ShutDownEndsEffect, EndStep, ElsewhereKeeps DEF Moved
  <2> QED
    BY <2>1, <2>2, <2>3
<1>4. netSocket' = netSocket \/ \E s \in Sockets : BindEnds(s) \/ ShutDownEnds(s)
  BY DEF Next, Step, Bind, PeerCloses, CaptureCommand, ConflictTest, Accept,
         SinkOnShutDown, CleanupNotifies, CleanupRestores, OnStop, CloseChannel, StopCapture,
         UnInit, InitAgain, WaitForAuthorization, Commit, Refuse, SetAccessListener,
         RemoveAccessListener, TimerOrAnswer, TimerWakes, TimeoutTakes, TimeoutDecides,
         AnswerTakes, AnswerDecides, AnswerArrives, vars, link
<1> QED
  BY <1>1, <1>2, <1>3, <1>4

\* A socket that awaits its cleanup is a refused one, or closed; without an
\* overlap it awaits it alone, and the session names it until the error is sent.
Cleaned == cleanups.queued \cup cleanups.sent

CleanupInv ==
  /\ \A s \in Cleaned : \/ sock[s].phase = "rival"
                        \/ sock[s].phase \in {"reset", "gone"} /\ ~sock[s].live
  /\ "overlap" \notin causes =>
       /\ \A s, t \in Cleaned : s = t
       /\ cleanups.queued \cap cleanups.sent = {}
       /\ \A s \in cleanups.queued : session["control"].id \in {0, s}
       /\ "busy" \notin misled

\* Only sockets are cleaned up.
LEMMA CleanedTyped == TypeOK => Cleaned \subseteq Sockets
BY DEF TypeOK, Cleaned

\* Without overlap there is one cleanup at a time, of the socket in the session.
LEMMA CleanupStep ==
  ASSUME TypeOK, CleanupInv, [Next]_vars
  PROVE  CleanupInv'
<1>0. "overlap" \notin causes' => "overlap" \notin causes
  BY CausesGrow
<1>1. ASSUME NEW s \in Sockets, NEW k \in Kinds, NEW p \in Peers, Bind(s, k, p)
      PROVE  CleanupInv'
  <2>1. /\ sock[s].phase = "free" /\ \A t \in Sockets \ {s} : sock'[t] = sock[t]
        /\ cleanups' = cleanups /\ session' = session /\ misled' = misled /\ causes' = causes
    BY <1>1, BindStep DEF Bind
  <2> QED
    BY <2>1, CleanedTyped DEF CleanupInv, Cleaned
<1>2. ASSUME NEW s \in Sockets, ConflictTest(s)
      PROVE  CleanupInv'
  <2>1. misled' = misled
    BY <1>2 DEF ConflictTest
  <2> QED
    BY <1>0, <1>2, <2>1, ConflictEffect, CleanedTyped DEF CleanupInv, Cleaned, Moved
<1>3. ASSUME NEW s \in Sockets, Accept(s)
      PROVE  CleanupInv'
  <2>1. misled' = misled
    BY <1>3 DEF Accept
  <2> QED
    BY <1>0, <1>3, <2>1, AcceptEffect, CleanedTyped, Parts DEF CleanupInv, Cleaned, Moved
<1>4. ASSUME NEW s \in Sockets, BindEnds(s)
      PROVE  CleanupInv'
  <2>1. misled' = misled
    BY <1>4 DEF BindEnds
  <2> QED
    BY <1>0, <1>4, <2>1, BindEndsEffect, CleanedTyped, Parts DEF CleanupInv, Cleaned, Moved
<1>5. ASSUME NEW s \in Sockets, SinkOnShutDown(s)
      PROVE  CleanupInv'
  <2>1. misled' = misled
    BY <1>5 DEF SinkOnShutDown
  <2> QED
    BY <1>0, <1>5, <2>1, ShutDownEffect, CleanedTyped, Parts DEF CleanupInv, Cleaned, Moved
<1>6. ASSUME NEW s \in Sockets, ShutDownEnds(s)
      PROVE  CleanupInv'
  <2>1. misled' = misled
    BY <1>6 DEF ShutDownEnds
  <2> QED
    BY <1>0, <1>6, <2>1, ShutDownEndsEffect, CleanedTyped, Parts
       DEF CleanupInv, Cleaned, Moved
<1>7. ASSUME NEW s \in Sockets, PeerCloses(s)
      PROVE  CleanupInv'
  <2>1. misled' = misled /\ cleanups' = cleanups /\ session' = session
    BY <1>7 DEF PeerCloses
  <2> QED
    BY <1>0, <1>7, <2>1, PeerClosesStep, CleanedTyped, Parts DEF CleanupInv, Cleaned
<1>8. ASSUME NEW s \in Sockets, CleanupNotifies(s)
      PROVE  CleanupInv'
  BY <1>0, <1>8, NotifyEffect, CleanedTyped DEF CleanupInv, Cleaned
<1>9. ASSUME NEW s \in Sockets, CleanupRestores(s)
      PROVE  CleanupInv'
  <2>1. misled' = misled
    BY <1>9 DEF CleanupRestores
  <2> QED
    BY <1>0, <1>9, <2>1, RestoreEffect, CleanedTyped DEF CleanupInv, Cleaned
<1>10. ASSUME NEW p \in Peers, OnStop(p)
       PROVE  CleanupInv'
  <2>1. misled' = misled
    BY <1>10 DEF OnStop
  <2> QED
    BY <1>0, <1>10, <2>1, OnStopEffect, CleanedTyped DEF CleanupInv, Cleaned
<1>11. CASE UnInit
  <2>1. misled' = misled /\ cleanups' = cleanups /\ session' = session
    BY <1>11 DEF UnInit
  <2> QED
    BY <1>0, <1>11, <2>1, EndStep, CleanedTyped, Parts DEF CleanupInv, Cleaned
<1>12. CASE InitAgain
  <2>1. misled' = misled
    BY <1>12 DEF InitAgain
  <2> QED
    BY <1>0, <1>12, <2>1, InitAgainEffect DEF CleanupInv, Cleaned
<1>13. CASE CloseChannel
  <2>1. misled' = misled /\ cleanups' = cleanups /\ session' = session /\ sock' = sock
    BY <1>13 DEF CloseChannel
  <2> QED
    BY <1>0, <2>1 DEF CleanupInv, Cleaned
<1>14. CASE /\ UNCHANGED <<sock, trust, map, session, cleanups, netSocket, ctl>>
            /\ "busy" \in misled' => "busy" \in misled
  BY <1>0, <1>14 DEF CleanupInv, Cleaned
<1> QED
  BY <1>1, <1>2, <1>3, <1>4, <1>5, <1>6, <1>7, <1>8, <1>9, <1>10, <1>11, <1>12, <1>13, <1>14, LinkCases

\* The shared session of a kind and its sockets.  A session names a socket
\* only while one is trusted or being shut down, so a shutdown that finds no
\* session is never that of the trusted socket.
Crossed == Unless({"race", "rivalLeft", "released"})

InMap == \A s \in Sockets :
           /\ sock[s].phase \in {"free", "refused"} => s \notin map
           /\ sock[s].phase \in {"found", "passed", "accepted", "up"} => s \in map
UpNamed == \A s \in Sockets : sock[s].phase = "up" => session[sock[s].kind].id # 0
NamedWhile == \A k \in Kinds :
                session[k].id # 0 => \/ trust[k] # 0
                                     \/ \E t \in Sockets : sock[t].kind = k /\ sock[t].phase = "reset"
ResetAlone == \A s \in Sockets :
                sock[s].phase = "reset" => /\ trust[sock[s].kind] = 0
                                           /\ \A t \in Sharing(s) : sock[t].phase # "passed"

SharedInv == Crossed \/ (InMap /\ UpNamed /\ NamedWhile /\ ResetAlone)

\* What is assumed of a step that keeps the four, and of the state before it.
LEMMA NotCrossed ==
  ASSUME [Next]_vars, ~Crossed'
  PROVE  /\ ~Crossed
         /\ causes' \cap {"race", "rivalLeft", "released"} = {}
BY CausesGrow DEF Crossed, Unless

\* A shutdown of a socket that its session does not know, or that leaves no
\* other socket of its kind in the test.
LEMMA ShutDownFinds ==
  ASSUME TypeOK, TrustInv, SharedInv, [Next]_vars, ~Crossed', NEW s \in Sockets, SinkOnShutDown(s)
  PROVE  /\ SinkGetSession(s) => /\ trust'[sock[s].kind] = 0
                                 /\ \A t \in Sharing(s) : sock[t].phase # "passed"
         /\ ~SinkGetSession(s) => sock[s].phase # "up" /\ trust' = trust
<1>0. /\ "race" \notin causes /\ "race" \notin causes' /\ "rivalLeft" \notin causes'
      /\ InMap /\ UpNamed /\ NamedWhile /\ ResetAlone
  BY NotCrossed, CausesGrow DEF SharedInv
<1>1. sock[s].kind \in Kinds /\ sock[s].phase \in {"up", "rival", "refused"}
  BY Parts, ShutDownEffect
<1>2. ASSUME ~SinkGetSession(s) PROVE sock[s].phase # "up" /\ trust' = trust
  BY <1>0, <1>2, ShutDownEffect DEF SinkGetSession, InMap, UpNamed
<1>3. ASSUME SinkGetSession(s)
      PROVE  /\ trust'[sock[s].kind] = 0
             /\ \A t \in Sharing(s) : sock[t].phase # "passed"
  <2>1. CASE sock[s].phase = "up"
    <3>1. trust[sock[s].kind] = s /\ s # 0
      BY <1>0, <2>1, Parts DEF TrustInv
    <3>2. trust'[sock[s].kind] = 0
      BY <1>3, <3>1, ShutDownEffect
    <3>3. \A t \in Sharing(s) : sock[t].phase # "passed"
      BY <1>0, <3>1 DEF TrustInv, Sharing
    <3> QED
      BY <3>2, <3>3
  <2>2. CASE sock[s].phase = "rival"
    <3>1. trust[sock[s].kind] = 0
      BY <1>0, <1>3, <2>2, ShutDownEffect
    <3>2. trust'[sock[s].kind] = 0
      BY <1>1, <1>3, <3>1, ShutDownEffect, Parts
    <3>3. PICK u \in Sockets : sock[u].kind = sock[s].kind /\ sock[u].phase = "reset"
      BY <1>0, <1>1, <1>3, <3>1 DEF SinkGetSession, NamedWhile
    <3>4. \A t \in Sharing(s) : sock[t].phase # "passed"
      BY <1>0, <3>3 DEF ResetAlone, Sharing
    <3> QED
      BY <3>2, <3>4
  <2>3. sock[s].phase # "refused"
    BY <1>0, <1>3 DEF InMap, SinkGetSession
  <2> QED
    BY <1>1, <2>1, <2>2, <2>3
<1> QED
  BY <1>2, <1>3

\* Sessions, map and cleanups agree at the start.
LEMMA SharedInit == Init => SharedInv /\ NetInv /\ CleanupInv
<1> SUFFICES ASSUME Init PROVE SharedInv /\ NetInv /\ CleanupInv
  OBVIOUS
<1>1. \A s \in Sockets : s # 0
  BY DEF Sockets
<1> QED
  BY <1>1 DEF Init, SharedInv, InMap, UpNamed, NamedWhile, ResetAlone, Fresh, NetInv, CleanupInv, Cleaned

\* Every step without a cause keeps the four facts on the shared session.
LEMMA SharedStep ==
  ASSUME TypeOK, PeerInv, TrustInv, CleanupInv, NetInv, SharedInv, [Next]_vars
  PROVE  SharedInv'
<1> SUFFICES ASSUME ~Crossed' PROVE InMap' /\ UpNamed' /\ NamedWhile' /\ ResetAlone'
  BY DEF SharedInv
<1>0. /\ "race" \notin causes /\ causes' \cap {"race", "rivalLeft", "released"} = {}
      /\ InMap /\ UpNamed /\ NamedWhile /\ ResetAlone
  BY NotCrossed, CausesGrow DEF SharedInv
<1>1. ASSUME NEW s \in Sockets, NEW k \in Kinds, NEW p \in Peers, Bind(s, k, p)
      PROVE  InMap' /\ UpNamed' /\ NamedWhile' /\ ResetAlone'
  <2>1. /\ sock[s].phase = "free" /\ sock'[s].phase = IF exists THEN "found" ELSE "refused"
        /\ map' = (IF exists THEN map \cup {s} ELSE map)
        /\ \A t \in Sockets \ {s} : sock'[t] = sock[t]
        /\ trust' = trust /\ session' = session
    BY <1>1, BindStep DEF Bind
  <2> QED
    BY <1>0, <2>1 DEF InMap, UpNamed, NamedWhile, ResetAlone, Sharing
<1>2. ASSUME NEW s \in Sockets, ConflictTest(s)
      PROVE  InMap' /\ UpNamed' /\ NamedWhile' /\ ResetAlone'
  <2>1. s # 0 /\ sock[s].kind \in Kinds /\ sock[s].phase = "found"
    BY <1>2, Parts, ConflictEffect
  <2>2. InMap'
    BY <1>0, <1>2, ConflictEffect DEF InMap, Moved
  <2>3. UpNamed' /\ NamedWhile'
    BY <1>0, <1>2, <2>1, Parts, ConflictEffect DEF UpNamed, NamedWhile, Moved
  <2>4. ResetAlone'
    BY <1>0, <1>2, <2>1, ConflictEffect DEF ResetAlone, Sharing, Moved
  <2> QED
    BY <2>2, <2>3, <2>4
<1>3. ASSUME NEW s \in Sockets, Accept(s)
      PROVE  InMap' /\ UpNamed' /\ NamedWhile' /\ ResetAlone'
  <2>1. s # 0 /\ sock[s].kind \in Kinds /\ sock[s].phase = "passed"
    BY <1>3, Parts, AcceptEffect
  <2>2. \A t \in Sockets : sock[t].phase = "reset" => sock[t].kind # sock[s].kind
    BY <1>0, <2>1 DEF ResetAlone, Sharing
  <2>3. InMap' /\ UpNamed' /\ NamedWhile'
    BY <1>0, <1>3, <2>1, Parts, AcceptEffect DEF InMap, UpNamed, NamedWhile, Moved
  <2>4. ResetAlone'
    BY <1>0, <1>3, <2>1, <2>2, Parts, AcceptEffect DEF ResetAlone, Sharing, Moved
  <2> QED
    BY <2>3, <2>4
<1>4. ASSUME NEW s \in Sockets, BindEnds(s)
      PROVE  InMap' /\ UpNamed' /\ NamedWhile' /\ ResetAlone'
  <2>1. s # 0 /\ sock[s].kind \in Kinds /\ sock[s].phase = "accepted" /\ trust[sock[s].kind] # 0
    BY <1>0, <1>4, Parts, BindEndsEffect DEF TrustInv
  <2> QED
    BY <1>0, <1>4, <2>1, Parts, BindEndsEffect
       DEF InMap, UpNamed, NamedWhile, ResetAlone, Sharing, Moved
<1>5. ASSUME NEW s \in Sockets, SinkOnShutDown(s)
      PROVE  InMap' /\ UpNamed' /\ NamedWhile' /\ ResetAlone'
  <2>1. sock[s].kind \in Kinds
    BY Parts
  <2>2. CASE ~SinkGetSession(s)
    <3>1. /\ Moved(s, "gone") /\ trust' = trust /\ session' = session /\ map' = map
          /\ sock[s].phase \in {"up", "rival", "refused"}
      BY <1>5, <2>2, ShutDownEffect
    <3> QED
      BY <1>0, <2>1, <3>1 DEF InMap, UpNamed, NamedWhile, ResetAlone, Sharing, Moved
  <2>3. CASE SinkGetSession(s)
    <3>1. /\ Moved(s, "reset") /\ map' = map /\ sock[s].phase \in {"up", "rival", "refused"}
          /\ \A j \in Kinds : session'[j].id = session[j].id
          /\ \A j \in Kinds \ {sock[s].kind} : trust'[j] = trust[j]
      BY <1>5, <2>3, ShutDownEffect
    <3>2. /\ trust'[sock[s].kind] = 0
          /\ \A t \in Sharing(s) : sock[t].phase # "passed"
      BY <1>5, <2>3, ShutDownFinds
    <3>3. InMap' /\ UpNamed'
      BY <1>0, <3>1, Parts DEF InMap, UpNamed, Moved
    <3>4. NamedWhile'
      BY <1>0, <2>1, <3>1 DEF NamedWhile, Moved
    <3>5. ResetAlone'
      BY <1>0, <2>1, <3>1, <3>2, Parts DEF ResetAlone, Sharing, Moved
    <3> QED
      BY <3>3, <3>4, <3>5
  <2> QED
    BY <2>2, <2>3
<1>6. ASSUME NEW s \in Sockets, ShutDownEnds(s)
      PROVE  InMap' /\ UpNamed' /\ NamedWhile' /\ ResetAlone'
  <2>1. sock[s].kind \in Kinds /\ sock[s].phase = "reset"
    BY <1>6, Parts, ShutDownEndsEffect
  <2>2. \A t \in Sockets : sock[t].phase = "up" => sock[t].kind # sock[s].kind
    BY <1>0, <2>1, Parts DEF ResetAlone, TrustInv
  <2>3. InMap' /\ UpNamed'
    BY <1>0, <1>6, <2>1, <2>2, Parts, ShutDownEndsEffect DEF InMap, UpNamed, Moved
  <2>4. NamedWhile'
    BY <1>0, <1>6, <2>1, ShutDownEndsEffect DEF NamedWhile, Moved
  <2>5. ResetAlone'
    BY <1>0, <1>6, <2>1, ShutDownEndsEffect DEF ResetAlone, Sharing, Moved
  <2> QED
    BY <2>3, <2>4, <2>5
<1>7. ASSUME NEW s \in Sockets, PeerCloses(s)
      PROVE  InMap' /\ UpNamed' /\ NamedWhile' /\ ResetAlone'
  <2>1. trust' = trust /\ session' = session /\ map' = map
    BY <1>7 DEF PeerCloses
  <2> QED
    BY <1>0, <1>7, <2>1, PeerClosesStep DEF InMap, UpNamed, NamedWhile, ResetAlone, Sharing
<1>8. ASSUME NEW s \in Sockets, CleanupRestores(s)
      PROVE  InMap' /\ UpNamed' /\ NamedWhile' /\ ResetAlone'
  <2>1. sock[s].phase \in {"rival", "reset", "gone"}
    BY <1>8, RestoreEffect DEF CleanupInv, Cleaned
  <2>2. \A t \in Sockets : sock[t].phase = "up" => trust[sock[t].kind] # 0
    BY <1>0, Parts DEF TrustInv
  <2>3. InMap'
    BY <1>0, <1>8, <2>1, RestoreEffect DEF InMap
  <2>4. UpNamed'
    BY <1>0, <1>8, <2>2, Parts, RestoreEffect DEF UpNamed
  <2>5. NamedWhile' /\ ResetAlone'
    BY <1>0, <1>8, RestoreEffect DEF NamedWhile, ResetAlone, Sharing
  <2> QED
    BY <2>3, <2>4, <2>5
<1>9. ASSUME NEW p \in Peers, OnStop(p)
      PROVE  InMap' /\ UpNamed' /\ NamedWhile' /\ ResetAlone'
  <2>1. PICK s \in Sockets : /\ sock[s].phase = "up" /\ netSocket[p] = s /\ sock'[s].phase = "gone"
                             /\ \A t \in Sockets \ {s} : sock'[t] = sock[t]
    BY <1>9, OnStopEffect
  <2>2. sock[s].kind = "control"
    BY <2>1 DEF NetInv
  <2>3. \A t \in Sockets \ {s} : sock[t].phase = "up" => sock[t].kind # "control"
    BY <1>0, <2>1, <2>2 DEF TrustInv
  <2>4. InMap' /\ UpNamed'
    BY <1>0, <1>9, <2>1, <2>3, Parts, OnStopEffect DEF InMap, UpNamed
  <2>5. NamedWhile' /\ ResetAlone'
    BY <1>0, <1>9, <2>1, OnStopEffect DEF NamedWhile, ResetAlone, Sharing
  <2> QED
    BY <2>4, <2>5
<1>10. CASE InitAgain
  BY <1>0, <1>10, Parts, InitAgainEffect DEF InMap, UpNamed, NamedWhile, ResetAlone, Sharing
<1>11. CASE UNCHANGED <<sock, trust, map, session>>
  BY <1>0, <1>11 DEF InMap, UpNamed, NamedWhile, ResetAlone, Sharing
<1>12. ASSUME (\E s \in Sockets : CleanupNotifies(s)) \/ UnInit \/ CloseChannel
       PROVE  UNCHANGED <<sock, trust, map, session>>
  BY <1>0, <1>12, NotifyEffect, UnInitEffect DEF CloseChannel
<1> QED
  BY <1>1, <1>2, <1>3, <1>4, <1>5, <1>6, <1>7, <1>8, <1>9, <1>10, <1>11, <1>12, LinkCases

----------------------------------------------------------------------------
\* The trusted socket, the session that names it, and the controller.

\* The trust of a kind is a socket of that kind.
KindInv == \A k \in Kinds : trust[k] # 0 => sock[trust[k]].kind = k

\* The trusted socket of a kind is of that kind.
LEMMA KindStep ==
  ASSUME TypeOK, PeerInv, KindInv, [Next]_vars
  PROVE  KindInv'
<1> SUFFICES ASSUME NEW k \in Kinds, trust'[k] # 0 PROVE sock'[trust'[k]].kind = k
  BY DEF KindInv
<1>1. ASSUME NEW s \in Sockets, Accept(s) PROVE sock'[trust'[k]].kind = k
  BY <1>1, AcceptEffect, Parts DEF KindInv, Moved
<1>2. CASE trust'[k] = trust[k]
  <2>1. trust[k] \in Sockets /\ sock[trust[k]].phase # "free" /\ sock[trust[k]].kind = k
    BY <1>2, Parts DEF PeerInv, KindInv
  <2>2. sock'[trust[k]].kind = sock[trust[k]].kind
    BY <2>1, NextCases, BindStep, ConflictEffect, AcceptEffect, BindEndsEffect,
       PeerClosesStep, ShutDownEffect, ShutDownEndsEffect, EndStep, ElsewhereKeeps DEF Moved
  <2> QED
    BY <1>2, <2>1, <2>2
<1>3. ASSUME NEW s \in Sockets, SinkOnShutDown(s) PROVE trust'[k] = trust[k]
  BY <1>3, ShutDownEffect, Parts
<1>4. \/ \E s \in Sockets : Accept(s) \/ SinkOnShutDown(s)
      \/ trust'[k] = trust[k]
  BY DEF Next, Step, Bind, PeerCloses, CaptureCommand, ConflictTest, BindEnds,
         ShutDownEnds, CleanupNotifies, CleanupRestores, OnStop, CloseChannel, StopCapture,
         UnInit, InitAgain, WaitForAuthorization, Commit, Refuse, SetAccessListener,
         RemoveAccessListener, TimerOrAnswer, TimerWakes, TimeoutTakes, TimeoutDecides,
         AnswerTakes, AnswerDecides, AnswerArrives, vars, link
<1> QED
  BY <1>1, <1>2, <1>3, <1>4

\* A trusted socket is open, unless something derailed the session.
HeldInv == Unless(Derailed) \/ \A k \in Kinds : trust[k] # 0 => sock[trust[k]].phase \in {"accepted", "up"}

\* What is assumed of a step that derails nothing, and of the state before it.
LEMMA NotDerailed ==
  ASSUME [Next]_vars, ~Unless(Derailed)'
  PROVE  ~Unless(Derailed) /\ ~Crossed /\ ~Crossed' /\ causes' \cap Derailed = {}
BY CausesGrow DEF Crossed, Unless, Derailed

\* The trusted socket stays in use.
LEMMA HeldStep ==
  ASSUME TypeOK, PeerInv, TrustInv, SharedInv, KindInv, HeldInv, [Next]_vars
  PROVE  HeldInv'
<1> SUFFICES ASSUME ~Unless(Derailed)', NEW k \in Kinds, trust'[k] # 0
             PROVE  sock'[trust'[k]].phase \in {"accepted", "up"}
  BY DEF HeldInv
<1>0. /\ trust[k] # 0 => sock[trust[k]].phase \in {"accepted", "up"}
      /\ causes' \cap Derailed = {} /\ "race" \notin causes
  BY NotDerailed, CausesGrow DEF HeldInv, Derailed
<1>1. ASSUME NEW s \in Sockets, NEW l \in Kinds, NEW p \in Peers, Bind(s, l, p)
      PROVE  sock'[trust'[k]].phase \in {"accepted", "up"}
  <2>1. trust' = trust
    BY <1>1 DEF Bind
  <2> QED
    BY <1>0, <1>1, <2>1, BindStep, Parts
<1>2. ASSUME NEW s \in Sockets, ConflictTest(s) \/ BindEnds(s) \/ ShutDownEnds(s)
      PROVE  sock'[trust'[k]].phase \in {"accepted", "up"}
  BY <1>0, <1>2, ConflictEffect, BindEndsEffect, ShutDownEndsEffect, Parts DEF Moved
<1>3. ASSUME NEW s \in Sockets, Accept(s)
      PROVE  sock'[trust'[k]].phase \in {"accepted", "up"}
  BY <1>0, <1>3, AcceptEffect, Parts DEF Moved
<1>4. ASSUME NEW s \in Sockets, SinkOnShutDown(s)
      PROVE  sock'[trust'[k]].phase \in {"accepted", "up"}
  <2>1. sock[s].kind \in Kinds
    BY Parts
  <2>2. CASE ~SinkGetSession(s)
    <3>1. Moved(s, "gone") /\ sock[s].phase \notin {"accepted", "up"} /\ trust' = trust
      BY <1>4, <2>2, ShutDownEffect, ShutDownFinds, NotDerailed
    <3> QED
      BY <1>0, <3>1, Parts DEF Moved
  <2>3. CASE SinkGetSession(s)
    <3>1. trust'[sock[s].kind] = 0 /\ Moved(s, "reset")
      BY <1>4, <2>3, ShutDownEffect, ShutDownFinds, NotDerailed
    <3>2. k # sock[s].kind /\ trust'[k] = trust[k]
      BY <1>4, <2>3, <3>1, ShutDownEffect
    <3>3. trust[k] # s /\ trust[k] \in Sockets
      BY <3>2, Parts DEF KindInv
    <3> QED
      BY <1>0, <3>1, <3>2, <3>3 DEF Moved
  <2> QED
    BY <2>2, <2>3
<1>5. ASSUME NEW s \in Sockets, PeerCloses(s)
      PROVE  sock'[trust'[k]].phase \in {"accepted", "up"}
  <2>1. trust' = trust
    BY <1>5 DEF PeerCloses
  <2> QED
    BY <1>0, <1>5, <2>1, PeerClosesStep, Parts
<1>6. CASE UnInit
  BY <1>0, <1>6, UnInitEffect DEF Derailed
<1>7. ASSUME NEW p \in Peers, OnStop(p) PROVE FALSE
  BY <1>0, <1>7, OnStopEffect DEF Derailed
<1>8. CASE Elsewhere
  BY <1>0, <1>8, ElsewhereKeeps, ElsewhereTrust
<1> QED
  BY <1>1, <1>2, <1>3, <1>4, <1>5, <1>6, <1>7, <1>8, NextCases

\* The control session names the socket that is up, unless a cleanup will
\* give it back.
ReplyInv == Crossed \/ \A s \in Sockets :
              sock[s].kind = "control" /\ sock[s].phase = "up"
                => /\ session["control"].open
                   /\ session["control"].id = s \/ Cleaned # {}

\* The session of an accepted control socket stays open and names it, but for a cleanup.
LEMMA ReplyStep ==
  ASSUME TypeOK, PeerInv, TrustInv, NetInv, SharedInv, ReplyInv, [Next]_vars
  PROVE  ReplyInv'
<1> SUFFICES ASSUME ~Crossed', NEW t \in Sockets, sock'[t].kind = "control", sock'[t].phase = "up"
             PROVE  /\ session'["control"].open
                    /\ session'["control"].id = t \/ Cleaned' # {}
  BY DEF ReplyInv
<1> DEFINE Named == session'["control"].open /\ (session'["control"].id = t \/ Cleaned' # {})
<1>0. /\ sock[t].kind = "control" /\ sock[t].phase = "up"
           => session["control"].open /\ (session["control"].id = t \/ Cleaned # {})
      /\ sock[t].kind = "control" /\ sock[t].phase = "up" => trust["control"] = t
      /\ t # 0 /\ "released" \notin causes' /\ "race" \notin causes
      /\ ResetAlone /\ "control" \in Kinds
  BY NotCrossed, CausesGrow, Parts DEF ReplyInv, TrustInv, SharedInv
<1>1. ASSUME NEW s \in Sockets, NEW k \in Kinds, NEW p \in Peers, Bind(s, k, p)
      PROVE  Named
  <2>1. session' = session /\ cleanups' = cleanups
    BY <1>1 DEF Bind
  <2> QED
    BY <1>0, <1>1, <2>1, BindStep DEF Cleaned
<1>2. ASSUME NEW s \in Sockets, ConflictTest(s)
      PROVE  Named
  BY <1>0, <1>2, ConflictEffect DEF Moved, Cleaned
<1>3. ASSUME NEW s \in Sockets, Accept(s)
      PROVE  Named
  BY <1>0, <1>3, AcceptEffect DEF Moved, Cleaned
<1>4. ASSUME NEW s \in Sockets, BindEnds(s)
      PROVE  Named
  <2>1. sock[s].phase = "accepted" /\ trust[sock[s].kind] = s
    BY <1>0, <1>4, BindEndsEffect DEF TrustInv
  <2> QED
    BY <1>0, <1>4, <2>1, BindEndsEffect DEF Moved, Cleaned
<1>5. ASSUME NEW s \in Sockets, SinkOnShutDown(s)
      PROVE  Named
  BY <1>0, <1>5, ShutDownEffect DEF Moved, Cleaned
<1>6. ASSUME NEW s \in Sockets, ShutDownEnds(s)
      PROVE  Named
  <2>1. sock[t].kind = "control" /\ sock[t].phase = "up" /\ sock[s].phase = "reset"
    BY <1>6, ShutDownEndsEffect DEF Moved
  <2>2. sock[s].kind # "control"
    BY <1>0, <2>1 DEF ResetAlone
  <2> QED
    BY <1>0, <1>6, <2>1, <2>2, ShutDownEndsEffect DEF Cleaned
<1>7. ASSUME NEW s \in Sockets, PeerCloses(s)
      PROVE  Named
  <2>1. session' = session /\ cleanups' = cleanups
    BY <1>7 DEF PeerCloses
  <2> QED
    BY <1>0, <1>7, <2>1, PeerClosesStep DEF Cleaned
<1>8. ASSUME NEW s \in Sockets, CleanupNotifies(s) \/ CleanupRestores(s)
      PROVE  Named
  BY <1>0, <1>8, NotifyEffect, RestoreEffect DEF Cleaned
<1>9. ASSUME NEW p \in Peers, OnStop(p)
      PROVE  Named
  <2>1. PICK s \in Sockets : /\ sock[s].phase = "up" /\ netSocket[p] = s /\ sock'[s].phase = "gone"
                             /\ \A u \in Sockets \ {s} : sock'[u] = sock[u]
    BY <1>9, OnStopEffect
  <2>2. sock[s].kind = "control" /\ s # t
    BY <2>1 DEF NetInv
  <2> QED
    BY <1>0, <2>1, <2>2 DEF TrustInv
<1>10. CASE UnInit
  BY <1>0, <1>10, UnInitEffect DEF Cleaned
<1>11. CASE InitAgain
  BY <1>11, InitAgainEffect
<1>12. CASE UNCHANGED <<sock, session, cleanups>>
  BY <1>0, <1>12 DEF Cleaned
<1>13. CloseChannel => UNCHANGED <<sock, session, cleanups>>
  BY DEF CloseChannel
<1> QED
  BY <1>1, <1>2, <1>3, <1>4, <1>5, <1>6, <1>7, <1>8, <1>9, <1>10, <1>11, <1>12, <1>13, LinkCases

\* The controller is connected while a control socket is up, to its source,
\* and stays so no longer than the shutdown of that socket lasts.
ConflictHeld == trust["control"] = 0 => ~session["control"].conflict

Controlled ==
  /\ \A s \in Sockets : sock[s].kind = "control" /\ sock[s].phase = "up"
                          => ctl.up /\ ctl.src = sock[s].peer
  /\ ctl.up => \E s \in Sockets : sock[s].kind = "control" /\ sock[s].phase \in {"up", "reset"}

CtlInv == ConflictHeld /\ (Unless(Derailed \cup {"lateClose"}) \/ Controlled)

\* Only a trusted socket can be in conflict.
LEMMA ConflictHeldStep ==
  ASSUME TypeOK, ConflictHeld, [Next]_vars
  PROVE  ConflictHeld'
<1>1. "control" \in Kinds /\ \A s \in Sockets : s # 0
  BY Parts
<1>2. ASSUME NEW s \in Sockets, ConflictTest(s) \/ Accept(s) \/ BindEnds(s)
      PROVE  ConflictHeld'
  BY <1>1, <1>2, ConflictEffect, AcceptEffect, BindEndsEffect DEF ConflictHeld
<1>3. ASSUME NEW s \in Sockets, SinkOnShutDown(s) \/ ShutDownEnds(s) \/ CleanupRestores(s)
      PROVE  ConflictHeld'
  BY <1>1, <1>3, ShutDownEffect, ShutDownEndsEffect, RestoreEffect DEF ConflictHeld
<1>4. ASSUME (\E p \in Peers : OnStop(p)) \/ InitAgain PROVE ConflictHeld'
  BY <1>1, <1>4, OnStopEffect, InitAgainEffect DEF ConflictHeld
<1>5. CASE UNCHANGED <<trust, session>>
  BY <1>5 DEF ConflictHeld
<1>6. \/ \E s \in Sockets : ConflictTest(s) \/ Accept(s) \/ BindEnds(s) \/ SinkOnShutDown(s)
                              \/ ShutDownEnds(s) \/ CleanupRestores(s)
      \/ (\E p \in Peers : OnStop(p)) \/ InitAgain
      \/ UNCHANGED <<trust, session>>
  BY LinkCases DEF Bind, PeerCloses, CleanupNotifies, UnInit, CloseChannel
<1> QED
  BY <1>2, <1>3, <1>4, <1>5, <1>6

\* The controller follows the control socket in use.
LEMMA ControlledStep ==
  ASSUME TypeOK, PeerInv, TrustInv, SharedInv, ConflictHeld, Controlled, [Next]_vars,
         causes' \cap (Derailed \cup {"lateClose"}) = {}
  PROVE  Controlled'
<1>0. /\ ~Crossed' /\ ~Crossed /\ causes' \cap Derailed = {} /\ "race" \notin causes
      /\ ResetAlone /\ "control" \in Kinds
  BY CausesGrow, Parts DEF Crossed, Unless, Derailed, SharedInv
<1>1. ASSUME NEW s \in Sockets, NEW k \in Kinds, NEW p \in Peers, Bind(s, k, p)
      PROVE  Controlled'
  <2>1. ctl' = ctl
    BY <1>1 DEF Bind
  <2> QED
    BY <1>1, <2>1, BindStep DEF Controlled
<1>2. ASSUME NEW s \in Sockets, ConflictTest(s) \/ Accept(s)
      PROVE  Controlled'
  <2>1. ctl' = ctl
    BY <1>2 DEF ConflictTest, Accept
  <2> QED
    BY <1>2, <2>1, ConflictEffect, AcceptEffect DEF Controlled, Moved
<1>3. ASSUME NEW s \in Sockets, BindEnds(s)
      PROVE  Controlled'
  <2>1. CASE sock[s].kind = "control"
    <3>1. ctl'.up /\ ctl'.src = sock[s].peer
      BY <1>0, <1>3, <2>1, BindEndsEffect DEF Derailed
    <3>2. \A t \in Sockets \ {s} : sock[t].kind = "control" => sock[t].phase # "up"
      BY <1>0, <1>3, <2>1, BindEndsEffect DEF TrustInv
    <3> QED
      BY <1>3, <2>1, <3>1, <3>2, BindEndsEffect DEF Controlled, Moved
  <2>2. CASE sock[s].kind # "control"
    BY <1>3, <2>2, BindEndsEffect DEF Controlled, Moved
  <2> QED
    BY <2>1, <2>2
<1>4. ASSUME NEW s \in Sockets, SinkOnShutDown(s)
      PROVE  Controlled'
  <2>1. \/ Moved(s, "reset")
        \/ Moved(s, "gone") /\ sock[s].phase \notin {"up", "reset"}
    BY <1>0, <1>4, ShutDownEffect, ShutDownFinds
  <2> QED
    BY <1>4, <2>1, ShutDownEffect DEF Controlled, Moved
<1>5. ASSUME NEW s \in Sockets, ShutDownEnds(s)
      PROVE  Controlled'
  <2>1. CASE sock[s].kind = "control"
    <3>1. trust["control"] = 0 /\ ~session["control"].conflict
      BY <1>0, <1>5, <2>1, ShutDownEndsEffect DEF ResetAlone, ConflictHeld
    <3>2. ~ctl'.up
      BY <1>5, <2>1, <3>1, ShutDownEndsEffect
    <3>3. \A t \in Sockets : sock[t].kind = "control" => sock[t].phase # "up"
      BY <1>0, <3>1, Parts DEF TrustInv
    <3> QED
      BY <1>5, <3>2, <3>3, ShutDownEndsEffect DEF Controlled, Moved
  <2>2. CASE sock[s].kind # "control"
    BY <1>5, <2>2, ShutDownEndsEffect DEF Controlled, Moved
  <2> QED
    BY <2>1, <2>2
<1>6. ASSUME NEW s \in Sockets, PeerCloses(s)
      PROVE  Controlled'
  <2>1. ctl' = ctl
    BY <1>6 DEF PeerCloses
  <2> QED
    BY <1>6, <2>1, PeerClosesStep DEF Controlled
<1>7. CASE UnInit
  <2>1. /\ sock' = sock /\ ~ctl'.up /\ trust["control"] = 0
    BY <1>0, <1>7, UnInitEffect DEF Derailed
  <2>2. \A t \in Sockets : sock[t].kind = "control" => sock[t].phase # "up"
    BY <1>0, <2>1, Parts DEF TrustInv
  <2> QED
    BY <2>1, <2>2 DEF Controlled
<1>8. CASE CloseChannel
  <2>1. sock' = sock /\ ~ctl'.up /\ ~ctl.up
    BY <1>8 DEF CloseChannel
  <2> QED
    BY <2>1 DEF Controlled
<1>9. ASSUME \E p \in Peers : OnStop(p) PROVE FALSE
  BY <1>0, <1>9, OnStopEffect DEF Derailed
<1>10. ASSUME InitAgain \/ \E s \in Sockets : CleanupNotifies(s) \/ CleanupRestores(s)
       PROVE  UNCHANGED <<sock, ctl>>
  BY <1>10 DEF InitAgain, CleanupNotifies, CleanupRestores
<1>11. CASE UNCHANGED <<sock, ctl>>
  BY <1>11 DEF Controlled
<1> QED
  BY <1>1, <1>2, <1>3, <1>4, <1>5, <1>6, <1>7, <1>8, <1>9, <1>10, <1>11, LinkCases

\* Both together, whatever the causes.
LEMMA CtlStep ==
  ASSUME TypeOK, PeerInv, TrustInv, SharedInv, CtlInv, [Next]_vars
  PROVE  CtlInv'
<1>1. ConflictHeld'
  BY ConflictHeldStep DEF CtlInv
<1>2. CASE causes' \cap (Derailed \cup {"lateClose"}) # {}
  BY <1>1, <1>2 DEF CtlInv, Unless
<1>3. CASE causes' \cap (Derailed \cup {"lateClose"}) = {}
  <2>1. Controlled /\ ConflictHeld
    BY <1>3, CausesGrow DEF CtlInv, Unless
  <2> QED
    BY <1>1, <1>3, <2>1, ControlledStep DEF CtlInv
<1> QED
  BY <1>2, <1>3

LinkInv == TrustInv /\ NetInv /\ CleanupInv /\ SharedInv /\ KindInv /\ HeldInv /\ ReplyInv /\ CtlInv

\* Everything agrees at the start.
LEMMA LinkInit == Init => LinkInv
<1> SUFFICES ASSUME Init PROVE LinkInv
  OBVIOUS
<1>1. KindInv /\ HeldInv /\ ReplyInv /\ CtlInv
  BY DEF Init, KindInv, HeldInv, ReplyInv, CtlInv, ConflictHeld, Controlled, Fresh, Kinds
<1> QED
  BY <1>1, TrustInit, SharedInit DEF LinkInv

\* The link of the sink with its sources: trust, sessions, map, cleanups and
\* controller agree, as far as the recorded causes allow.
THEOREM LinkAgrees == Spec => []LinkInv
<1>1. /\ TypeOK /\ TypeOK' /\ ReqInv /\ PeerInv /\ LinkInv /\ [Next]_vars => LinkInv'
  BY TrustStep, NetStep, CleanupStep, SharedStep, KindStep, HeldStep, ReplyStep, CtlStep DEF LinkInv
<1> QED
  BY <1>1, LinkInit, TypeCorrect, PTL DEF Spec

\* A trusted socket that has gone does not stay trusted, but for the events
\* that derail the shared session.
THEOREM TrustIsLetGo == Spec => []TrustEndsWithSocket
<1>1. TypeOK /\ LinkInv => TrustEndsWithSocket
  BY DEF LinkInv, HeldInv, TrustEndsWithSocket
<1> QED
  BY <1>1, LinkAgrees, TypeCorrect, PTL

\* After every conflict the shared session names the trusted socket again,
\* and the busy error of a conflict goes to the refused source.
THEOREM RepliesFindTheHolder == Spec => []RepliesReachTrusted
<1>1. ASSUME TypeOK, LinkInv PROVE RepliesReachTrusted
  <2>1. "busy" \in misled => Unless({"overlap"})
    BY <1>1 DEF LinkInv, CleanupInv, Unless
  <2>2. ASSUME ControlQuiet, trust["control"] # 0, Accepted(trust["control"]),
               ~Unless({"race", "rivalLeft", "released"})
        PROVE  session["control"].id = trust["control"] /\ session["control"].open
    <3>1. trust["control"] \in Sockets /\ sock[trust["control"]].kind = "control"
      BY <1>1, <2>2, Parts DEF LinkInv, KindInv
    <3>2. sock[trust["control"]].phase = "up" /\ Cleaned = {}
      BY <2>2, <3>1 DEF ControlQuiet, Accepted, Cleaned
    <3> QED
      BY <1>1, <2>2, <3>1, <3>2 DEF LinkInv, ReplyInv, Crossed
  <2> QED
    BY <2>1, <2>2 DEF RepliesReachTrusted
<1> QED
  BY <1>1, LinkAgrees, TypeCorrect, PTL

\* The controller is connected exactly while a control socket is trusted, and
\* to the source of that socket.
THEOREM ControllerKnowsTheHolder == Spec => []ControllerFollowsTrust
<1>1. ASSUME TypeOK, LinkInv PROVE ControllerFollowsTrust
  <2> SUFFICES ASSUME ControlQuiet, ~Unless(Derailed \cup {"lateClose"})
               PROVE  /\ ctl.up <=> trust["control"] # 0
                      /\ ctl.up => ctl.src = sock[trust["control"]].peer
    BY DEF ControllerFollowsTrust
  <2>1. Controlled /\ "race" \notin causes /\ ~Unless(Derailed)
    BY <1>1 DEF LinkInv, CtlInv, Unless, Derailed
  <2>2. ASSUME trust["control"] # 0
        PROVE  ctl.up /\ ctl.src = sock[trust["control"]].peer
    <3>1. /\ trust["control"] \in Sockets /\ sock[trust["control"]].kind = "control"
          /\ sock[trust["control"]].phase \in {"accepted", "up"}
      BY <1>1, <2>1, <2>2, Parts DEF LinkInv, KindInv, HeldInv
    <3>2. sock[trust["control"]].phase = "up"
      BY <3>1 DEF ControlQuiet
    <3> QED
      BY <2>1, <3>1, <3>2 DEF Controlled
  <2>3. ASSUME ctl.up PROVE trust["control"] # 0
    <3>1. PICK s \in Sockets : sock[s].kind = "control" /\ sock[s].phase \in {"up", "reset"}
      BY <2>1, <2>3 DEF Controlled
    <3>2. sock[s].phase = "up" /\ s # 0
      BY <1>1, <3>1, Parts DEF ControlQuiet
    <3> QED
      BY <1>1, <2>1, <3>1, <3>2 DEF LinkInv, TrustInv
  <2> QED
    BY <2>2, <2>3
<1> QED
  BY <1>1, LinkAgrees, TypeCorrect, PTL

============================================================================
