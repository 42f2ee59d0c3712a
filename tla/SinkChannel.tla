---------------------------- MODULE SinkChannel ----------------------------
(***************************************************************************)
(* The sink's side of the softbus: sockets that sources bind, the trusted  *)
(* socket of each kind, the one session object per kind that all of its    *)
(* sockets share, the cleanup of a refused control socket, the controller  *)
(* that is told of connections, and the authorization of a source by the   *)
(* access listener (DCameraSoftbusAdapter, DCameraSoftbusSession,          *)
(* DCameraAllConnectManager, DCameraAccessConfigManager,                   *)
(* DCameraSinkController).                                                 *)
(*                                                                         *)
(* Callbacks of different sockets, ffrt tasks, timers and binder calls     *)
(* interleave; a step ends where a lock is released or another thread's    *)
(* test can come in between.                                               *)
(***************************************************************************)
EXTENDS Naturals, FiniteSets

CONSTANTS Peers,        \* network ids of source devices
          NoPeer,       \* the empty network id
          MaxSockets,   \* bound: sockets bound in one behaviour
          MaxRequests,  \* bound: authorization requests in one behaviour
          MaxInits      \* bound: how often the sink is initialized

ASSUME PeersAssumption == NoPeer \notin Peers
ASSUME BoundsAssumption ==
  MaxSockets \in Nat \ {0} /\ MaxRequests \in Nat /\ MaxInits \in Nat \ {0}

VARIABLES
  scene,     \* which hazards this behaviour explores; never changes
  sock,      \* per socket: its kind, its peer, the phase of its bind, whether the peer holds it
  trust,     \* trustSessionId_: the accepted socket of each kind, 0 for -1
  map,       \* the keys of sinkSocketSessionMap_
  session,   \* per kind: sessionId_ (0 for -1), state_ and isConflict_ of the session object
  exists,    \* sinkSessions_ has the sessions: the sink is initialized
  inits,     \* how often it has been
  cleanups,  \* conflict cleanup tasks: those not yet begun, those that sent the error
  netSocket, \* netwkIdSinkSessionIdMap_
  ctl,       \* the controller's sessionState_ and srcDevId_
  closeTasks,\* tasks of OnSessionState(DISCONNECTED): submitted, and inside StopCapture
  capture,   \* captureState_, whose CAPTURE command it is, which network id is waited for
  access,    \* listener_ is set; currentNetworkId_; authorizationResults_
  req,       \* per authorization request: its peer, pendingAuthRequests_, timer and answer
  misled,    \* history: a busy error or a result went to a source it was not meant for
  allowed,   \* peers that have been granted access at some time
  causes     \* history: the irregular events there have been

link  == <<sock, trust, map, session, exists, inits, cleanups, netSocket, ctl, closeTasks>>
auth  == <<access, req, allowed>>
vars  == <<scene, link, capture, auth, misled, causes>>

Kinds    == {"control", "continue", "snapshot"}
Sockets  == 1 .. MaxSockets
Requests == 1 .. MaxRequests
Scenes   == {"rivals", "data", "stops", "commands", "access"}
KindsOf(s) == CASE scene = "data" -> {"continue", "snapshot"}
                [] scene = "access" /\ s > 2 -> {"continue"}
                [] OTHER -> {"control"}

Idle  == [state |-> "idle", by |-> NoPeer, net |-> NoPeer]
Fresh == [id |-> 0, open |-> FALSE, conflict |-> FALSE]

Init == /\ scene \in Scenes
        /\ sock = [s \in Sockets |->
                     [kind |-> "control", peer |-> NoPeer, phase |-> "free", live |-> FALSE]]
        /\ trust = [k \in Kinds |-> 0]
        /\ map = {}
        /\ session = [k \in Kinds |-> Fresh]
        /\ exists = TRUE
        /\ inits = 1
        /\ cleanups = [queued |-> {}, sent |-> {}]
        /\ netSocket = [p \in Peers |-> 0]
        /\ ctl = [up |-> FALSE, src |-> NoPeer]
        /\ closeTasks = [submitted |-> 0, stopping |-> 0]
        /\ capture = Idle
        /\ access = [listener |-> FALSE, current |-> NoPeer,
                     decision |-> [p \in Peers |-> "none"]]
        /\ req = [r \in Requests |->
                    [peer |-> NoPeer, pending |-> FALSE, timer |-> "off",
                     answer |-> "off", grant |-> FALSE, outcome |-> "none"]]
        /\ misled = {}
        /\ allowed = {}
        /\ causes = {}

----------------------------------------------------------------------------
(* Binding a socket: SinkOnBind                                             *)

Phase(s, p) == sock' = [sock EXCEPT ![s].phase = p]

(* DCameraSoftBusGetSessionByPeerSocket: the socket enters the map at once,  *)
(* before it is known whether it will be accepted.  CheckOsType follows and  *)
(* refuses no one: SinkOnBind returns if it fails and finds an invalid type, *)
(* and it finds one only when it does not fail.                              *)
Bind(s, k, p) ==
  /\ sock[s].phase = "free"
  /\ \A t \in Sockets : t < s => sock[t].phase # "free"
  /\ k \in KindsOf(s)
  /\ scene \in {"stops", "commands"} => s <= 2
  /\ scene = "access" /\ s = 2 => sock[1].phase = "gone" /\ closeTasks.submitted = 0
  /\ sock' = [sock EXCEPT ![s] = [kind |-> k, peer |-> p, live |-> TRUE,
                                  phase |-> IF exists THEN "found" ELSE "refused"]]
  /\ map' = IF exists THEN map \cup {s} ELSE map
  /\ UNCHANGED <<scene, trust, session, exists, inits, cleanups, netSocket, ctl, closeTasks,
                 capture, auth, misled, causes>>

Sharing(s) == {t \in Sockets \ {s} : sock[t].kind = sock[s].kind}

(* Slip: the session is not marked in conflict, so the controller hears of the rival. *)
ConflictTestLoud(s) ==
  LET k == sock[s].kind IN
  /\ sock[s].phase = "found"
  /\ \/ /\ k = "control" /\ trust[k] # 0
        /\ session' = [session EXCEPT ![k] = [id |-> s, open |-> TRUE, conflict |-> FALSE]]
        /\ ctl' = [up |-> TRUE, src |-> sock[s].peer]
        /\ cleanups' = [cleanups EXCEPT !.queued = @ \cup {s}]
        /\ Phase(s, "rival")
        /\ causes' = IF cleanups.queued \cup cleanups.sent # {}
                       THEN causes \cup {"overlap"} ELSE causes
        /\ UNCHANGED map
     \/ /\ k # "control" /\ trust[k] # 0
        /\ map' = map \ {s}
        /\ Phase(s, "refused")
        /\ UNCHANGED <<session, cleanups, causes, ctl>>
     \/ /\ trust[k] = 0
        /\ Phase(s, "passed")
        /\ causes' = IF \E t \in Sharing(s) : sock[t].phase \in {"passed", "reset"}
                       THEN causes \cup {"race"} ELSE causes
        /\ UNCHANGED <<map, session, cleanups, ctl>>
  /\ UNCHANGED <<scene, trust, exists, inits, netSocket, closeTasks, capture, auth, misled>>

(* The test of HandleConflictSession reads trustSessionId_ without its lock.  *)
(* A refused control socket takes over the shared session until its cleanup.  *)
ConflictTest(s) ==
  LET k == sock[s].kind IN
  /\ sock[s].phase = "found"
  /\ \/ /\ k = "control" /\ trust[k] # 0
        /\ session' = [session EXCEPT ![k] = [id |-> s, open |-> TRUE, conflict |-> TRUE]]
        /\ cleanups' = [cleanups EXCEPT !.queued = @ \cup {s}]
        /\ Phase(s, "rival")
        /\ causes' = IF cleanups.queued \cup cleanups.sent # {}
                       THEN causes \cup {"overlap"} ELSE causes
        /\ UNCHANGED map
     \/ /\ k # "control" /\ trust[k] # 0
        /\ map' = map \ {s}
        /\ Phase(s, "refused")
        /\ UNCHANGED <<session, cleanups, causes>>
     \/ /\ trust[k] = 0
        /\ Phase(s, "passed")
        /\ causes' = IF \E t \in Sharing(s) : sock[t].phase \in {"passed", "reset"}
                       THEN causes \cup {"race"} ELSE causes
        /\ UNCHANGED <<map, session, cleanups>>
  /\ UNCHANGED <<scene, trust, exists, inits, netSocket, ctl, closeTasks, capture, auth, misled>>

SetAuthorizationGranted(p, g) ==
  /\ access' = [access EXCEPT !.decision[p] = IF g THEN "granted" ELSE "denied"]
  /\ allowed' = IF g THEN allowed \cup {p} ELSE allowed

NewRequestId(r) == req[r].timer = "off" /\ \A q \in Requests : q < r => req[q].timer # "off"

(* RequestAndWaitForAuthorization does not wait: it grants at once when nobody *)
(* listens, or registers a request and starts its timer.                       *)
RequestAndWaitForAuthorization(p) ==
  \/ /\ ~access.listener
     /\ access' = [access EXCEPT !.current = p, !.decision[p] = "granted"]
     /\ allowed' = allowed \cup {p}
     /\ UNCHANGED req
  \/ /\ access.listener
     /\ access' = [access EXCEPT !.current = p]
     /\ \E r \in Requests :
          /\ NewRequestId(r)
          /\ req' = [req EXCEPT ![r] = [peer |-> p, pending |-> TRUE, timer |-> "set",
                        answer |-> "none", grant |-> FALSE, outcome |-> "none"]]
     /\ UNCHANGED allowed

(* The rest of HandleConflictSession and the authorization of a control socket; *)
(* every accepted socket, data sockets too, sets the current network id.        *)
Accept(s) ==
  LET k == sock[s].kind  p == sock[s].peer IN
  /\ sock[s].phase = "passed"
  /\ trust' = [trust EXCEPT ![k] = s]
  /\ session' = IF k = "control" THEN [session EXCEPT ![k].conflict = FALSE] ELSE session
  /\ Phase(s, "accepted")
  /\ IF k = "control"
       THEN RequestAndWaitForAuthorization(p)
       ELSE access' = [access EXCEPT !.current = p] /\ UNCHANGED <<req, allowed>>
  /\ causes' = IF access.current \notin {NoPeer, p} THEN causes \cup {"otherPeer"} ELSE causes
  /\ UNCHANGED <<scene, map, exists, inits, cleanups, netSocket, ctl, closeTasks, capture, misled>>

(* OnSessionOpened of the session object: silent about the connection while a rival *)
(* has put it in conflict.                                                          *)
OnSessionOpened(s) ==
  LET k == sock[s].kind IN
  /\ session' = [session EXCEPT ![k].id = s, ![k].open = TRUE]
  /\ ctl' = IF k = "control" /\ ~session[k].conflict
              THEN [up |-> TRUE, src |-> sock[s].peer] ELSE ctl

SetSinkNetWorkId(s) ==
  IF sock[s].kind = "control" THEN [netSocket EXCEPT ![sock[s].peer] = s] ELSE netSocket

(* The end of SinkOnBind: the session is opened, the all-connect manager told. *)
BindEnds(s) ==
  LET c == sock[s].kind = "control" IN
  /\ sock[s].phase = "accepted"
  /\ Phase(s, "up")
  /\ OnSessionOpened(s)
  /\ netSocket' = SetSinkNetWorkId(s)
  /\ causes' = causes \cup (IF c /\ session["control"].conflict THEN {"race"} ELSE {})
                     \cup (IF c /\ cleanups.queued # {} THEN {"overlap"} ELSE {})
  /\ UNCHANGED <<scene, trust, map, exists, inits, cleanups, closeTasks, capture, auth, misled>>

----------------------------------------------------------------------------
(* The cleanup of a refused control socket: ExecuteConflictCleanupAsync      *)

(* NotifyError sends to whatever socket the shared session names now. *)
CleanupNotifies(s) ==
  LET c == session["control"] IN
  /\ s \in cleanups.queued
  /\ cleanups' = [queued |-> cleanups.queued \ {s}, sent |-> cleanups.sent \cup {s}]
  /\ misled' = IF c.open /\ c.id # 0 /\ sock[c.id].live /\ sock[c.id].phase # "rival"
                 THEN misled \cup {"busy"} ELSE misled
  /\ UNCHANGED <<scene, sock, trust, map, session, exists, inits, netSocket, ctl, closeTasks,
                 capture, auth, causes>>

(* Slip: the session keeps the refused socket's number. *)
CleanupForgets(s) ==
  /\ s \in cleanups.sent
  /\ cleanups' = [cleanups EXCEPT !.sent = @ \ {s}]
  /\ map' = map \ {s}
  /\ UNCHANGED <<scene, sock, trust, session, exists, inits, netSocket, ctl, closeTasks, capture, auth,
                 misled, causes>>

(* The socket leaves the map and the session is given the trusted socket's number. *)
CleanupRestores(s) ==
  /\ s \in cleanups.sent
  /\ cleanups' = [cleanups EXCEPT !.sent = @ \ {s}]
  /\ map' = map \ {s}
  /\ session' = [session EXCEPT !["control"].id = trust["control"]]
  /\ UNCHANGED <<scene, sock, trust, exists, inits, netSocket, ctl, closeTasks, capture, auth,
                 misled, causes>>

----------------------------------------------------------------------------
(* Closing                                                                  *)

(* The listener's part of OnSessionClose: told only while there is no conflict. *)
ReportClosed(silent) ==
  IF silent THEN UNCHANGED <<ctl, closeTasks>>
            ELSE ctl' = [ctl EXCEPT !.up = FALSE] /\ closeTasks' = [closeTasks EXCEPT !.submitted = @ + 1]

(* External: the source closes its end; SinkOnShutDown will be called. *)
PeerCloses(s) ==
  /\ sock[s].phase \in {"up", "rival", "refused"} /\ sock[s].live
  /\ sock' = [sock EXCEPT ![s].live = FALSE]
  /\ UNCHANGED <<scene, trust, map, session, exists, inits, cleanups, netSocket, ctl,
                 closeTasks, capture, auth, misled, causes>>

SinkGetSession(s) == s \in map /\ session[sock[s].kind].id # 0

(* Slip: the trust is reset whichever socket shuts down. *)
ShutDownOfAny(s) ==
  LET k == sock[s].kind IN
  /\ sock[s].phase \in {"up", "rival", "refused"} /\ ~sock[s].live
  /\ \/ /\ ~SinkGetSession(s)
        /\ Phase(s, "gone")
        /\ UNCHANGED <<trust, session, causes>>
     \/ /\ SinkGetSession(s)
        /\ Phase(s, "reset")
        /\ IF trust[k] # 0
             THEN /\ trust' = [trust EXCEPT ![k] = 0]
                  /\ session' = [session EXCEPT ![k].conflict = FALSE]
             ELSE UNCHANGED <<trust, session>>
        /\ causes' = IF sock[s].phase = "rival" /\ trust[k] # 0
                       THEN causes \cup {"rivalLeft"} ELSE causes
  /\ UNCHANGED <<scene, map, exists, inits, cleanups, netSocket, ctl, closeTasks, capture,
                 auth, misled>>

(* Slip: only the trust of a control socket is reset. *)
ShutDownOfControl(s) ==
  LET k == sock[s].kind IN
  /\ sock[s].phase \in {"up", "rival", "refused"} /\ ~sock[s].live
  /\ \/ /\ ~SinkGetSession(s)
        /\ Phase(s, "gone")
        /\ UNCHANGED <<trust, session, causes>>
     \/ /\ SinkGetSession(s)
        /\ Phase(s, "reset")
        /\ IF trust[k] = s /\ k = "control"
             THEN /\ trust' = [trust EXCEPT ![k] = 0]
                  /\ session' = [session EXCEPT ![k].conflict = FALSE]
             ELSE UNCHANGED <<trust, session>>
        /\ causes' = IF sock[s].phase = "rival" /\ trust[k] # 0
                       THEN causes \cup {"rivalLeft"} ELSE causes
  /\ UNCHANGED <<scene, map, exists, inits, cleanups, netSocket, ctl, closeTasks, capture,
                 auth, misled>>

(* SinkOnShutDown, to the release of trustSessionIdLock_: nothing at all is done *)
(* while the shared session has no socket.                                       *)
SinkOnShutDown(s) ==
  LET k == sock[s].kind IN
  /\ sock[s].phase \in {"up", "rival", "refused"} /\ ~sock[s].live
  /\ \/ /\ ~SinkGetSession(s)
        /\ Phase(s, "gone")
        /\ UNCHANGED <<trust, session, causes>>
     \/ /\ SinkGetSession(s)
        /\ Phase(s, "reset")
        /\ IF trust[k] = s
             THEN /\ trust' = [trust EXCEPT ![k] = 0]
                  /\ session' = [session EXCEPT ![k].conflict = FALSE]
             ELSE UNCHANGED <<trust, session>>
        /\ causes' = IF sock[s].phase = "rival" /\ trust[k] # 0
                       THEN causes \cup {"rivalLeft"} ELSE causes
  /\ UNCHANGED <<scene, map, exists, inits, cleanups, netSocket, ctl, closeTasks, capture,
                 auth, misled>>

RemoveSinkNetworkId(s) == [p \in Peers |-> IF netSocket[p] = s THEN 0 ELSE netSocket[p]]

(* The rest of it: OnSessionClose, the all-connect manager, the map. *)
ShutDownEnds(s) ==
  LET k == sock[s].kind IN
  /\ sock[s].phase = "reset"
  /\ Phase(s, "gone")
  /\ session' = [session EXCEPT ![k].id = 0, ![k].open = FALSE]
  /\ ReportClosed(k # "control" \/ session[k].conflict)
  /\ netSocket' = RemoveSinkNetworkId(s)
  /\ map' = map \ {s}
  /\ UNCHANGED <<scene, trust, exists, inits, cleanups, capture, auth, misled, causes>>

(* The task of OnSessionState(DISCONNECTED), under autoLock_: CloseChannel forgets   *)
(* the source, whichever it is by now...                                             *)
CloseChannel ==
  /\ closeTasks.submitted > 0 /\ closeTasks.stopping = 0
  /\ closeTasks' = [submitted |-> closeTasks.submitted - 1, stopping |-> 1]
  /\ ctl' = [up |-> FALSE, src |-> NoPeer]
  /\ causes' = IF ctl.up THEN causes \cup {"lateClose"} ELSE causes
  /\ UNCHANGED <<scene, sock, trust, map, session, exists, inits, cleanups, netSocket,
                 capture, auth, misled>>

(* ... and StopCapture waits for the event thread, and gives up on a capture that is *)
(* still being prepared.                                                             *)
StopCapture ==
  /\ closeTasks.stopping > 0
  /\ capture.state # "waiting"
  /\ closeTasks' = [closeTasks EXCEPT !.stopping = 0]
  /\ capture' = IF capture.state = "running" THEN Idle ELSE capture
  /\ UNCHANGED <<scene, sock, trust, map, session, exists, inits, cleanups, netSocket, ctl,
                 auth, misled, causes>>

(* OnStop of the all-connect manager: CloseSessionWithNetWorkId closes the session *)
(* and the socket, and leaves trustSessionId_ and the map as they are.             *)
OnStop(p) ==
  LET s == netSocket[p] IN
  /\ scene = "stops"
  /\ s # 0 /\ SinkGetSession(s) /\ sock[s].phase = "up"
  /\ session' = [session EXCEPT !["control"].id = 0, !["control"].open = FALSE]
  /\ ReportClosed(session["control"].conflict)
  /\ sock' = [sock EXCEPT ![s].phase = "gone", ![s].live = FALSE]
  /\ causes' = causes \cup {"stopped"}
  /\ UNCHANGED <<scene, trust, map, exists, inits, cleanups, netSocket, capture, auth, misled>>

(* ReleaseSession of a channel closes the socket its session names. *)
Released(s) == \E k \in Kinds : session[k].id = s

(* UnInit of the controller: CloseChannel, then ReleaseSession of each channel,  *)
(* which closes the socket of the session and forgets the session object.        *)
UnInit ==
  /\ scene = "stops" /\ exists
  /\ closeTasks.stopping = 0 /\ capture.state # "waiting"
  /\ exists' = FALSE
  /\ sock' = [s \in Sockets |-> IF Released(s)
                THEN [sock[s] EXCEPT !.phase = "gone", !.live = FALSE] ELSE sock[s]]
  /\ map' = {s \in map : ~Released(s)}
  /\ ctl' = [up |-> FALSE, src |-> NoPeer]
  /\ capture' = IF capture.state = "running" THEN Idle ELSE capture
  /\ causes' = IF \E k \in Kinds : trust[k] # 0 \/ session[k].id # 0
                  THEN causes \cup {"released"} ELSE causes
  /\ UNCHANGED <<scene, trust, session, inits, cleanups, netSocket, closeTasks, auth, misled>>

(* CreateSession of each channel. *)
CreateSessions == session' = [k \in Kinds |-> Fresh]

(* Init of a new controller, once the tasks and callbacks of the old one are done *)
(* (a bound of the model): fresh session objects, the same adapter.               *)
InitAgain ==
  /\ ~exists /\ inits < MaxInits
  /\ closeTasks = [submitted |-> 0, stopping |-> 0] /\ cleanups.queued \cup cleanups.sent = {}
  /\ \A s \in Sockets : sock[s].phase \in {"free", "gone", "refused"}
  /\ exists' = TRUE
  /\ inits' = inits + 1
  /\ CreateSessions
  /\ UNCHANGED <<scene, sock, trust, map, cleanups, netSocket, ctl, closeTasks, capture, auth,
                 misled, causes>>

----------------------------------------------------------------------------
(* Commands of a source and the decision on them                            *)

(* A CAPTURE command on any control socket that is in the map, a refused one too. *)
CaptureCommand(s) ==
  /\ scene \in {"commands", "access"}
  /\ sock[s].kind = "control" /\ sock[s].phase \in {"up", "rival"} /\ sock[s].live
  /\ SinkGetSession(s)
  /\ capture.state = "idle" \/ (scene = "commands" /\ capture.state = "running")
  /\ capture' = [state |-> "starting", by |-> sock[s].peer, net |-> NoPeer]
  /\ causes' = IF sock[s].phase = "rival" THEN causes \cup {"rivalCommand"} ELSE causes
  /\ UNCHANGED <<scene, link, auth, misled>>

(* DCameraNotify: the reply goes to the socket of the shared session. *)
ReplyTo(p) ==
  LET c == session["control"] IN
  misled' = IF /\ ctl.src # NoPeer /\ exists
               /\ c.open /\ c.id # 0 /\ sock[c.id].live /\ sock[c.id].peer # p
              THEN misled \cup {"result"} ELSE misled

(* CheckAndCommitCapture once both parts are prepared: WaitForAuthorization asks for *)
(* the decision on the network id that is current now, under captureStateMutex_.     *)
WaitForAuthorization ==
  /\ capture.state = "starting"
  /\ capture' = [capture EXCEPT !.state = "waiting", !.net = access.current]
  /\ UNCHANGED <<scene, link, auth, misled, causes>>

(* Slip: any decision will do. *)
AuthorizedOnceDecided(n) == n = NoPeer \/ (n # NoPeer /\ access.decision[n] # "none")

Authorized(n) == n = NoPeer \/ (n # NoPeer /\ access.decision[n] = "granted")

Commit ==
  /\ capture.state = "waiting"
  /\ Authorized(capture.net)
  /\ capture' = [capture EXCEPT !.state = "running"]
  /\ ReplyTo(capture.by)
  /\ UNCHANGED <<scene, link, auth, causes>>

(* The decision is a refusal, or none came in time. *)
Refuse ==
  /\ capture.state = "waiting"
  /\ ~Authorized(capture.net)
  /\ capture' = Idle
  /\ ReplyTo(capture.by)
  /\ UNCHANGED <<scene, link, auth, causes>>

----------------------------------------------------------------------------
(* Answers and timers of authorization requests                             *)

(* The timer's thread wakes and finds its cancel flag unset, under authRequestMutex_; *)
(* the thread of a cancelled timer wakes and does nothing.                            *)
TimerWakes(r) ==
  /\ req[r].timer = "set"
  /\ req' = [req EXCEPT ![r].timer = "fired"]
  /\ UNCHANGED <<scene, link, capture, access, allowed, misled, causes>>

(* Slip: a request that was answered is decided again. *)
TimeoutTakesAll(r) ==
  /\ req[r].timer = "fired"
  /\ req' = [req EXCEPT ![r].timer = "taken",
                        ![r].pending = FALSE]
  /\ UNCHANGED <<scene, link, capture, access, allowed, misled, causes>>

(* HandleAuthorizationTimeout takes the pending entry, if it is still there... *)
TimeoutTakes(r) ==
  /\ req[r].timer = "fired"
  /\ req' = [req EXCEPT ![r].timer = IF req[r].pending THEN "taken" ELSE "done",
                        ![r].pending = FALSE]
  /\ UNCHANGED <<scene, link, capture, access, allowed, misled, causes>>

(* ... and denies the peer. *)
TimeoutDecides(r) ==
  /\ req[r].timer = "taken"
  /\ req' = [req EXCEPT ![r].timer = "done", ![r].outcome = "timeout"]
  /\ SetAuthorizationGranted(req[r].peer, FALSE)
  /\ UNCHANGED <<scene, link, capture, misled, causes>>

(* ProcessAuthorizationResult: cancel the timer, take the entry, decide. *)
AnswerArrives(r, g) ==
  /\ req[r].answer = "none"
  /\ req' = [req EXCEPT ![r].answer = "arrived", ![r].grant = g,
                        ![r].timer = IF @ = "set" THEN "cancelled" ELSE @]
  /\ UNCHANGED <<scene, link, capture, access, allowed, misled, causes>>

AnswerTakes(r) ==
  /\ req[r].answer = "arrived"
  /\ req' = [req EXCEPT ![r].answer = IF req[r].pending THEN "taken" ELSE "done",
                        ![r].pending = FALSE]
  /\ UNCHANGED <<scene, link, capture, access, allowed, misled, causes>>

AnswerDecides(r) ==
  /\ req[r].answer = "taken"
  /\ req' = [req EXCEPT ![r].answer = "done", ![r].outcome = "answer"]
  /\ SetAuthorizationGranted(req[r].peer, req[r].grant)
  /\ UNCHANGED <<scene, link, capture, misled, causes>>

(* SetAccessListener: SetAccessConfig. *)
SetAccessListener ==
  /\ scene = "access" /\ ~access.listener
  /\ "cleared" \notin causes
  /\ access' = [access EXCEPT !.listener = TRUE]
  /\ UNCHANGED <<scene, link, capture, req, allowed, misled, causes>>

(* RemoveAccessListener: ClearAccessConfigByPkgName forgets the listener, the current *)
(* network id and every decision; requests and timers live on in the adapter.         *)
RemoveAccessListener ==
  /\ access.listener
  /\ access' = [listener |-> FALSE, current |-> NoPeer, decision |-> [p \in Peers |-> "none"]]
  /\ causes' = causes \cup {"cleared"}
  /\ UNCHANGED <<scene, link, capture, req, allowed, misled>>

----------------------------------------------------------------------------
Step(s) == \/ ConflictTest(s) \/ Accept(s) \/ BindEnds(s)
           \/ SinkOnShutDown(s) \/ ShutDownEnds(s)
           \/ CleanupNotifies(s) \/ CleanupRestores(s)

TimerOrAnswer(r) == \/ TimerWakes(r) \/ TimeoutTakes(r) \/ TimeoutDecides(r)
                    \/ AnswerTakes(r) \/ AnswerDecides(r)

Next == \/ \E s \in Sockets : \/ \E k \in Kinds, p \in Peers : Bind(s, k, p)
                              \/ PeerCloses(s)
                              \/ CaptureCommand(s)
                              \/ Step(s)
        \/ \E p \in Peers : OnStop(p)
        \/ \E r \in Requests : TimerOrAnswer(r) \/ (\E g \in BOOLEAN : AnswerArrives(r, g))
        \/ CloseChannel \/ StopCapture \/ UnInit \/ InitAgain
        \/ WaitForAuthorization \/ Commit \/ Refuse
        \/ SetAccessListener \/ RemoveAccessListener

Spec == Init /\ [][Next]_vars

----------------------------------------------------------------------------
(* Properties                                                               *)

Phases == {"free", "found", "passed", "accepted", "up", "rival", "refused", "reset", "gone"}
SocketState == [kind : Kinds, peer : Peers \cup {NoPeer}, live : BOOLEAN, phase : Phases]
SessionState == [id : 0 .. MaxSockets, open : BOOLEAN, conflict : BOOLEAN]
AccessState == [listener : BOOLEAN, current : Peers \cup {NoPeer},
                decision : [Peers -> {"none", "granted", "denied"}]]
RequestState == [peer : Peers \cup {NoPeer}, pending : BOOLEAN, grant : BOOLEAN,
                 timer : {"off", "set", "cancelled", "fired", "taken", "done"},
                 answer : {"off", "none", "arrived", "taken", "done"},
                 outcome : {"none", "timeout", "answer"}]
CaptureState == [state : {"idle", "starting", "waiting", "running"},
                 by : Peers \cup {NoPeer}, net : Peers \cup {NoPeer}]
Causes == {"race", "overlap", "rivalLeft", "stopped", "released",
           "lateClose", "otherPeer", "cleared", "rivalCommand"}

TypeOK ==
  /\ scene \in Scenes
  /\ sock \in [Sockets -> SocketState]
  /\ trust \in [Kinds -> 0 .. MaxSockets]
  /\ map \subseteq Sockets
  /\ session \in [Kinds -> SessionState]
  /\ exists \in BOOLEAN /\ inits \in 1 .. MaxInits
  /\ cleanups \in [queued : SUBSET Sockets, sent : SUBSET Sockets]
  /\ netSocket \in [Peers -> 0 .. MaxSockets]
  /\ ctl \in [up : BOOLEAN, src : Peers \cup {NoPeer}]
  /\ closeTasks \in [submitted : Nat, stopping : {0, 1}]
  /\ capture \in CaptureState
  /\ access \in AccessState
  /\ req \in [Requests -> RequestState]
  /\ misled \subseteq {"busy", "result"}
  /\ allowed \subseteq Peers
  /\ causes \subseteq Causes

Unless(c) == causes \cap c # {}

(* What leaves the shared control session without its trusted socket. *)
Derailed == {"race", "rivalLeft", "stopped", "released"}

Accepted(s) == sock[s].phase \in {"accepted", "up"} /\ sock[s].live

(* One source at a time: two sockets of a kind are never both accepted, unless both *)
(* passed the unlocked conflict test before either was recorded as trusted (or one  *)
(* passed it inside the other's shutdown).                                          *)
OneTrustedSocket ==
  \A s, t \in Sockets :
    s # t /\ Accepted(s) /\ Accepted(t) /\ sock[s].kind = sock[t].kind => Unless({"race"})

(* The trust ends with the socket: a trusted socket that is gone would have every later *)
(* source refused for ever.  It happens only after the listed irregular events: the     *)
(* shutdown of a refused socket before its cleanup, a close by the all-connect manager, *)
(* an UnInit while connected or during a shutdown, or the race of the conflict test.    *)
TrustEndsWithSocket ==
  \A k \in Kinds : trust[k] # 0 /\ sock[trust[k]].phase = "gone" => Unless(Derailed)

(* No bind, cleanup or shutdown of a control socket is in progress. *)
ControlQuiet ==
  /\ cleanups.queued \cup cleanups.sent = {}
  /\ \A s \in Sockets : sock[s].kind = "control"
                          => sock[s].phase \notin {"found", "passed", "accepted", "reset"}

(* Once conflicts are cleaned up the shared session names the trusted socket again, so  *)
(* the sink's replies and results reach the source that holds the camera.  And the busy  *)
(* error of a conflict goes to a refused source, never to the one that holds the camera, *)
(* unless two binds overlap with one cleanup.  What may leave another socket named: the  *)
(* race of the conflict test, a refused socket that closes before its cleanup            *)
(* and an UnInit while connected or during a shutdown.                                   *)
RepliesReachTrusted ==
  /\ ControlQuiet /\ trust["control"] # 0 /\ Accepted(trust["control"])
       => \/ session["control"].id = trust["control"] /\ session["control"].open
          \/ Unless({"race", "rivalLeft", "released"})
  /\ "busy" \in misled => Unless({"overlap"})

(* The controller is connected exactly while a control socket is trusted, and its source *)
(* is that socket's peer: a refused source never becomes srcDevId_.  A late DISCONNECTED *)
(* task of the last source is the one further exception.                                 *)
ControllerFollowsTrust ==
  ControlQuiet
    => \/ Unless(Derailed \cup {"lateClose"})
       \/ LET s == trust["control"] IN
          /\ ctl.up <=> s # 0
          /\ ctl.up => ctl.src = sock[s].peer

(* A capture runs only for a source that was granted access, unless another source's    *)
(* socket has since become the current network id, the listener was removed (which      *)
(* empties it), or the command came on a refused socket before its cleanup.              *)
StartedIsAllowed ==
  capture.state = "running"
    => capture.by \in allowed \/ Unless({"otherPeer", "cleared", "rivalCommand"})

(* The timer and the answer of a request race, and exactly one of them decides.          *)
OutcomeStands ==
  [][\A r \in Requests : req[r].outcome # "none" => req'[r].outcome = req[r].outcome]_vars

============================================================================
