------------------------------ MODULE Services ------------------------------
(***************************************************************************)
(* The kits of the source and the sink, the services behind them and the   *)
(* calls between them: loading a service ability and initializing it,      *)
(* requests through a cached proxy, a service that dies, the callbacks of  *)
(* a registration, and the release.  The same calls carry what a source    *)
(* service asks of a remote sink and a sink of a remote source; "side"     *)
(* says which of the pairs a behaviour is about.  The loading of the HDF   *)
(* drivers by a source service has a side of its own, "drivers".           *)
(*                                                                         *)
(* A step is a call or a reply, or what is done under one lock.            *)
(***************************************************************************)
EXTENDS Ipc, ProxyCache, HdfDriver, FiniteSets

CONSTANTS Client,     \* the thread of the framework or of a controller
          Loads,      \* threads of load callbacks, one for each LoadSystemAbility
          Cameras,    \* dhIds of the sink's cameras
          MaxCalls    \* bound: requests of the client

ASSUME ThreadsAssumption ==
  Threads = {Client} \union Loads /\ Client \notin Loads /\ IsFiniteSet(Threads)
ASSUME CallsAssumption == MaxCalls \in Nat

VARIABLES
  side,      \* the pair of client and service; never changes
  call,      \* per thread: the request, where it is, its arguments, results
  calls,     \* how many requests the client has made
  started,   \* state_ of the handler is DCAMERA_SA_STATE_START
  waiting,   \* the load whose caller, in InitSource or InitSink, waits for producerCon_
  loads,     \* per load: where its callback is
  service,   \* of the running service: InitSource or InitSink has succeeded, camerasMap_, the
             \* registrations it has still to answer
  pushed,    \* regCallbacks_ and unregCallbacks_: requests (by number) that wait for a result
  causes     \* history: the irregular events there have been

kitVars == <<started, waiting, loads>>
vars == <<side, cacheVars, hdfVars, call, calls, kitVars, service, pushed, causes>>

Sides == {"sourceKit", "drivers", "sinkKit", "toSink", "toSource", "toKit"}
SourceKit == side \in {"sourceKit", "drivers"}
Kit == SourceKit \/ side = "sinkKit"
InitRequest == IF SourceKit THEN "INIT_SOURCE" ELSE "INIT_SINK"
ReleaseRequest == IF SourceKit THEN "RELEASE_SOURCE" ELSE "RELEASE_SINK"
Registrations == {"REGISTER_DISTRIBUTED_HARDWARE", "UNREGISTER_DISTRIBUTED_HARDWARE"}
ToSink == {"STOP_CAPTURE", "CHANNEL_NEG", "GET_CAMERA_INFO", "OPEN_CHANNEL", "CLOSE_CHANNEL"}
ClientRequests ==
  CASE side = "sourceKit" -> {"RELEASE_SOURCE", "UPDATE_WORKMODE"} \union Registrations
    [] side = "drivers" -> {"RELEASE_SOURCE"}
    [] side = "sinkKit" -> {"RELEASE_SINK", "SUBSCRIBE_LOCAL_HARDWARE", "UNSUBSCRIBE_LOCAL_HARDWARE",
         "PAUSE_DISTRIBUTED_HARDWARE", "RESUME_DISTRIBUTED_HARDWARE", "STOP_DISTRIBUTED_HARDWARE"}
         \union DOMAIN AccessService
    [] side = "toSink" -> ToSink
    [] side = "toSource" -> {"CAMERA_NOTIFY"}
    [] OTHER -> DOMAIN SourceCallbackProxy \union DOMAIN SinkCallbackProxy

NoCall == [at |-> "idle", req |-> "none", args |-> <<>>, life |-> 0, id |-> 0,
           served |-> "no", result |-> "none", lost |-> FALSE]
NoService == [ready |-> FALSE, cameras |-> {}, asks |-> {}]

Init ==
  /\ side \in Sides
  /\ CacheInit /\ HdfInit
  /\ call = [t \in Threads |-> NoCall] /\ calls = 0
  /\ started = FALSE /\ waiting = {} /\ loads = [l \in Loads |-> "idle"]
  /\ service = NoService /\ pushed = {} /\ causes = {}

At(t, place) == call' = [call EXCEPT ![t].at = place]
Began(t, place, req, id) ==
  [call EXCEPT ![t] = [NoCall EXCEPT !.at = place, !.req = req, !.id = id, !.life = life]]
Ended(t) == [call EXCEPT ![t] = NoCall]

----------------------------------------------------------------------------
(* InitSource and InitSink of the handlers: a kit that is not started has  *)
(* its ability loaded, and the caller waits.                               *)
InitKit ==
  /\ Kit /\ waiting = {} /\ ~started /\ call[Client].at = "idle"
  /\ \E l \in Loads : /\ loads[l] = "idle" /\ loads' = [loads EXCEPT ![l] = "asked"]
                     /\ waiting' = {l}
  /\ UNCHANGED <<side, cacheVars, hdfVars, call, calls, started, service, pushed, causes>>

(* The wait ends when state_ is START, or after a minute whatever it is.   *)
InitKitReturns ==
  /\ waiting # {}
  /\ waiting' = {}
  /\ UNCHANGED <<side, cacheVars, hdfVars, call, calls, started, loads, service, pushed, causes>>

(* The service manager starts the service unless it runs.                  *)
AbilityStarts ==
  /\ Kit => \E l \in Loads : loads[l] = "asked"
  /\ ServiceStarts
  /\ service' = NoService
  /\ UNCHANGED <<side, hdfVars, call, calls, kitVars, pushed, causes>>

(* OnLoadSystemAbilitySuccess runs FinishStartSA: the recipient is made,   *)
(* the proxy fetched, and the caller's parameters sent.                    *)
FinishStartSA(l) ==
  /\ loads[l] = "asked" /\ life # 0
  /\ loads' = [loads EXCEPT ![l] = "calling"]
  /\ RecipientMade
  /\ call' = Began(l, "lookup", InitRequest, 0)
  /\ UNCHANGED <<side, hdfVars, calls, started, waiting, service, pushed, causes>>

(* OnLoadSystemAbilityFail.                                                *)
FinishStartSAFailed(l) ==
  /\ loads[l] = "asked"
  /\ loads' = [loads EXCEPT ![l] = "idle"]
  /\ started' = FALSE
  /\ UNCHANGED <<side, cacheVars, hdfVars, call, calls, waiting, service, pushed, causes>>

----------------------------------------------------------------------------
(* A method of the client: the handler's own checks, then the proxy is     *)
(* looked for.  A callback is sent through a proxy the service was given.  *)
(* What a call passes on is drawn when it is sent.                         *)
Checked(req) == {args \in ArgsOf[req] : side = "sinkKit" => Passes(SinkHandler, req, args)}
Ask ==
  /\ call[Client].at = "idle" /\ waiting = {} /\ calls < MaxCalls
  /\ calls' = calls + 1
  /\ \E req \in ClientRequests :
       \/ call' = Began(Client, IF side = "toKit" THEN "send" ELSE "lookup", req, calls + 1)
       \/ side = "sinkKit" /\ req \in DOMAIN SinkHandler /\ UNCHANGED call
  /\ UNCHANGED <<side, cacheVars, hdfVars, kitVars, service, pushed, causes>>

(* OnStart and OnStop of the service that holds a cache of remote ones.    *)
HolderStarts ==
  /\ ~Kit /\ ~isInit
  /\ RecipientMade
  /\ UNCHANGED <<side, hdfVars, call, calls, kitVars, service, pushed, causes>>
HolderStops ==
  /\ ~Kit /\ isInit
  /\ CacheUnInit
  /\ UNCHANGED <<side, hdfVars, call, calls, kitVars, service, pushed, causes>>

(* The Get...CamSrv methods: the cached proxy, or the object of the        *)
(* service manager, watched and then stored in place of another one.       *)
GetCached(t) ==
  /\ call[t].at = "lookup" /\ proxy # 0
  /\ call' = [call EXCEPT ![t].at = "send", ![t].life = proxy]
  /\ UNCHANGED <<cacheVars, loads>>
GetObject(t) ==
  /\ call[t].at = "lookup"
  /\ Fetch(t)
  /\ call' = IF life = 0 THEN Ended(t) ELSE [call EXCEPT ![t].at = "watch", ![t].life = life]
  /\ loads' = IF life = 0 /\ t \in Loads THEN [loads EXCEPT ![t] = "idle"] ELSE loads
WatchObject(t) ==
  /\ call[t].at = "watch"
  /\ Watch(t)
  /\ At(t, "store") /\ UNCHANGED loads
StoreProxy(t) ==
  /\ call[t].at = "store"
  /\ Store(t)
  /\ At(t, "send") /\ UNCHANGED loads
Unheard(t) == \/ call[t].at = "watch" /\ ~Watches(t)
              \/ call[t].at = "store" /\ fetched[t] # life
GetCamSrv(t) ==
  /\ GetCached(t) \/ GetObject(t) \/ WatchObject(t) \/ StoreProxy(t)
  /\ causes' = IF Unheard(t) THEN causes \union {"unheard"} ELSE causes
  /\ UNCHANGED <<side, hdfVars, calls, started, waiting, service, pushed>>

----------------------------------------------------------------------------
(* The proxy's method: the callback of a registration is kept, the         *)
(* arguments are checked and written, the request is sent.                 *)
Registers(t) == SourceKit /\ call[t].req \in Registrations
Back(t, result, lost) ==
  [call EXCEPT ![t] = [@ EXCEPT !.at = "back", !.result = result, !.lost = lost, !.args = <<>>]]
(* Slip: every proxy reads its reply without looking at the result.        *)
UnansweredIsOk(t) == Back(t, "ok", TRUE)
(* SendRequest failed: a proxy that does not look at its result reads 0    *)
(* from the empty reply.                                                   *)
Unanswered(t) == Back(t, IF Proxy[call[t].req].heeds THEN "bad" ELSE "ok", TRUE)

(* The proxy sends, and waits for the reply if it does at all.             *)
Send(t) ==
  /\ call[t].at = "send"
  /\ \E args \in Checked(call[t].req) :
       call' = IF ~Fits(args, Proxy[call[t].req].args) THEN Back(t, "bad", FALSE)
               ELSE IF call[t].life # life \/ life = 0 THEN Unanswered(t)
               ELSE IF ~Proxy[call[t].req].waits THEN Back(t, "ok", FALSE)
               ELSE [call EXCEPT ![t].at = "sent", ![t].args = args]
  /\ pushed' = IF Registers(t) THEN pushed \union {call[t].id} ELSE pushed
  /\ UNCHANGED <<side, cacheVars, hdfVars, calls, kitVars, service, causes>>

Permissions == {"enable", "access"}
Serves(t, result) ==
  [call EXCEPT ![t] = [@ EXCEPT !.at = "served", !.served = result, !.args = <<>>]]
(* What the stub reads.                                                    *)
Got(t) == Read(call[t].req, Written(call[t].args))
Takes(t, req) ==
  /\ call[t].at = "sent" /\ call[t].life = life /\ call[t].req \in req
  /\ Accepted(call[t].req, Got(t), Permissions)
Quiet == UNCHANGED <<side, cacheVars, calls, kitVars, pushed, causes>>

(* The stub refuses the caller, whose permissions come and go, or what it  *)
(* reads.                                                                  *)
StubRefuses(t) ==
  /\ call[t].at = "sent" /\ call[t].life = life
  /\ \E granted \in SUBSET Permissions : ~Accepted(call[t].req, Got(t), granted)
  /\ call' = Serves(t, "bad")
  /\ Quiet /\ UNCHANGED <<hdfVars, service>>

(* InitSource of the service: the HDF devices are loaded first, which may  *)
(* fail.                                                                   *)
InitSource(t) ==
  /\ Takes(t, {"INIT_SOURCE"})
  /\ \/ side = "drivers" /\ LoadBegins /\ At(t, "loading") /\ UNCHANGED service
     \/ /\ side # "drivers" /\ UNCHANGED hdfVars
        /\ \E loaded \in BOOLEAN : /\ service' = [service EXCEPT !.ready = @ \/ loaded]
                                  /\ call' = Serves(t, IF loaded THEN "ok" ELSE "bad")
  /\ Quiet
SourceInited(t) ==
  /\ call[t].at = "loading" /\ call[t].life = life /\ hdf.at \in {"ok", "failed"}
  /\ hdf' = [hdf EXCEPT !.at = "idle"] /\ UNCHANGED stale
  /\ service' = [service EXCEPT !.ready = @ \/ hdf.at = "ok"]
  /\ call' = Serves(t, IF hdf.at = "ok" THEN "ok" ELSE "bad")
  /\ Quiet

(* InitSink: the first camera whose device cannot be made ends it; those   *)
(* before it stay.                                                         *)
InitSink(t) ==
  /\ Takes(t, {"INIT_SINK"})
  /\ \E made \in SUBSET Cameras :
       /\ service' = [service EXCEPT !.cameras = @ \union made, !.ready = @ \/ made = Cameras]
       /\ call' = Serves(t, IF made = Cameras THEN "ok" ELSE "bad")
  /\ Quiet /\ UNCHANGED hdfVars

(* ReleaseSource and ReleaseSink: the service manager may refuse to unload *)
(* the ability.                                                            *)
ReleaseSource(t) ==
  /\ Takes(t, {"RELEASE_SOURCE"})
  /\ UnLoadDcameraHDFImpl
  /\ \E unloads \in BOOLEAN : call' = Serves(t, IF unloads THEN "ok" ELSE "bad")
  /\ Quiet /\ UNCHANGED service
ReleaseSink(t) ==
  /\ Takes(t, {"RELEASE_SINK"})
  /\ service' = [service EXCEPT !.cameras = {}]
  /\ \E unloads \in BOOLEAN : call' = Serves(t, IF unloads THEN "ok" ELSE "bad")
  /\ Quiet /\ UNCHANGED hdfVars

(* RegisterDistributedHardware and UnregisterDistributedHardware of the    *)
(* source service (SourceRegistry): an accepted one will be answered.      *)
Register(t) ==
  /\ Takes(t, Registrations)
  /\ \E result \in {"ok", "bad"} :
       /\ call' = Serves(t, result)
       /\ service' = IF result = "ok" THEN [service EXCEPT !.asks = @ \union {call[t].id}] ELSE service
  /\ Quiet /\ UNCHANGED hdfVars

(* A request of the sink for one camera is passed to its device, if there  *)
(* is one.                                                                 *)
OfDevice(t) ==
  /\ Takes(t, {"SUBSCRIBE_LOCAL_HARDWARE", "UNSUBSCRIBE_LOCAL_HARDWARE"} \union ToSink)
  /\ \E result \in {"bad"} \union {"ok" : c \in service.cameras} : call' = Serves(t, result)
  /\ Quiet /\ UNCHANGED <<hdfVars, service>>

(* Pause, resume and stop of the sink go to the first device whose channel *)
(* is connected.                                                           *)
OfConnected(t) ==
  /\ Takes(t, {"PAUSE_DISTRIBUTED_HARDWARE", "RESUME_DISTRIBUTED_HARDWARE", "STOP_DISTRIBUTED_HARDWARE"})
  /\ \E result \in {"bad"} \union {"ok" : c \in service.cameras} : call' = Serves(t, result)
  /\ Quiet /\ UNCHANGED <<hdfVars, service>>

(* SetAccessListener, RemoveAccessListener and SetAuthorizationResult of   *)
(* the sink service (SinkChannel), after its own checks.                   *)
OfAccess(t) ==
  /\ Takes(t, DOMAIN AccessService)
  /\ call' = Serves(t, "ok")
  /\ Quiet /\ UNCHANGED <<hdfVars, service>>

(* DCameraNotify and UpdateDistributedHardwareWorkMode of the source: the  *)
(* camera may be gone.                                                     *)
OfSource(t) ==
  /\ Takes(t, {"CAMERA_NOTIFY", "UPDATE_WORKMODE"})
  /\ \E result \in {"ok", "bad"} : call' = Serves(t, result)
  /\ Quiet /\ UNCHANGED <<hdfVars, service>>

(* The callbacks in the kit; a listener may be missing.                    *)
OfCallback(t) ==
  /\ Takes(t, DOMAIN SourceCallbackProxy \union DOMAIN SinkCallbackProxy)
  /\ \E result \in {"ok", "bad"} : call' = Serves(t, result)
  /\ Quiet /\ UNCHANGED <<hdfVars, service>>

Serve(t) ==
  \/ StubRefuses(t) \/ InitSource(t) \/ SourceInited(t) \/ InitSink(t)
  \/ ReleaseSource(t) \/ ReleaseSink(t) \/ Register(t)
  \/ OfDevice(t) \/ OfConnected(t) \/ OfAccess(t) \/ OfSource(t) \/ OfCallback(t)

(* The reply arrives, or the service has gone before it could.             *)
Reply(t) ==
  /\ call[t].at \in {"sent", "loading", "served"}
  /\ call' = IF call[t].life # life THEN Unanswered(t) ELSE Back(t, call[t].served, FALSE)
  /\ call[t].life = life => call[t].at = "served"
  /\ UNCHANGED <<side, cacheVars, hdfVars, calls, kitVars, service, pushed, causes>>

(* FinishStartSA ends: whatever InitSource or InitSink returned, the       *)
(* handler is started.                                                     *)
StartEnds(l) ==
  /\ l \in Loads /\ call[l].at = "back"
  /\ call' = Ended(l)
  /\ started' = TRUE
  /\ loads' = [loads EXCEPT ![l] = "idle"]
  /\ causes' = IF call[l].served # "ok" \/ call[l].life # life \/ l \notin waiting
               THEN causes \union {"unready"} ELSE causes
  /\ UNCHANGED <<side, cacheVars, hdfVars, calls, waiting, service, pushed>>

(* ReleaseSource of the handler looks at no result; ReleaseSink returns    *)
(* before UnInit when the service refused.  state_ is written after UnInit *)
(* and under another lock.                                                 *)
Released == SourceKit \/ call[Client].result = "ok"
ReleaseReturns ==
  /\ call[Client].at = "back" /\ call[Client].req = ReleaseRequest /\ Kit
  /\ IF Released THEN CacheUnInit /\ At(Client, "uninit")
     ELSE call' = Ended(Client) /\ UNCHANGED cacheVars
  /\ UNCHANGED <<side, hdfVars, calls, kitVars, service, pushed, causes>>
ReleaseEnds ==
  /\ call[Client].at = "uninit"
  /\ call' = Ended(Client)
  /\ started' = FALSE
  /\ UNCHANGED <<side, cacheVars, hdfVars, calls, waiting, loads, service, pushed, causes>>

(* Slip: the callback of a registration that failed is kept.               *)
RegisterEndsKeeping ==
  /\ call[Client].at = "back" /\ Registers(Client)
  /\ call' = Ended(Client)
  /\ causes' = IF call[Client].lost THEN causes \union {"lost"} ELSE causes
  /\ UNCHANGED <<side, cacheVars, hdfVars, calls, kitVars, service, pushed>>
(* The callback of a registration that failed is dropped again.            *)
RegisterEnds ==
  /\ call[Client].at = "back" /\ Registers(Client)
  /\ call' = Ended(Client)
  /\ pushed' = IF call[Client].result = "ok" THEN pushed ELSE pushed \ {call[Client].id}
  /\ causes' = IF call[Client].lost THEN causes \union {"lost"} ELSE causes
  /\ UNCHANGED <<side, cacheVars, hdfVars, calls, kitVars, service>>

RequestEnds ==
  /\ call[Client].at = "back"
  /\ ~Registers(Client) /\ ~(Kit /\ call[Client].req = ReleaseRequest)
  /\ call' = Ended(Client)
  /\ UNCHANGED <<side, cacheVars, hdfVars, calls, kitVars, service, pushed, causes>>

(* OnNotifyRegResult and OnNotifyUnregResult: the callback is called and   *)
(* dropped.                                                                *)
Answer(r) ==
  /\ life # 0 /\ r \in service.asks
  /\ service' = [service EXCEPT !.asks = @ \ {r}]
  /\ pushed' = pushed \ {r}
  /\ UNCHANGED <<side, cacheVars, hdfVars, call, calls, kitVars, causes>>

(* The process of the service ends: unloaded, or crashed.                  *)
AbilityEnds ==
  /\ ServiceEnds
  /\ service' = NoService
  /\ causes' = IF service.asks # {} THEN causes \union {"died"} ELSE causes
  /\ UNCHANGED <<side, hdfVars, call, calls, kitVars, pushed>>

(* Slip: the handler is not told of the death.                             *)
OnCamSrvDiedUntold(k) ==
  /\ OnRemoteDied(k)
  /\ UNCHANGED <<side, hdfVars, call, calls, kitVars, service, pushed, causes>>
(* The recipient is told; in a kit SetSAState stops the handler too.       *)
OnCamSrvDied(k) ==
  /\ OnRemoteDied(k)
  /\ started' = (started /\ ~(Kit /\ proxy = k))
  /\ UNCHANGED <<side, hdfVars, call, calls, waiting, loads, service, pushed, causes>>

(* The devices' own steps; a load whose caller has gone ends unheard.      *)
HdfSteps ==
  \/ \E d \in Devices : DeviceStarts(d)
  \/ WaitLoadCameraService \/ WaitLoadProviderService \/ BindToProvider \/ HostDies
Driver ==
  /\ \/ HdfSteps
     \/ /\ hdf.at \in {"ok", "failed"}
        /\ \A t \in Threads : call[t].at = "loading" => call[t].life # life
        /\ hdf' = [hdf EXCEPT !.at = "idle"] /\ UNCHANGED stale
  /\ UNCHANGED <<side, cacheVars, call, calls, kitVars, service, pushed, causes>>

Next ==
  \/ InitKit \/ InitKitReturns \/ AbilityStarts \/ HolderStarts \/ HolderStops \/ Ask
  \/ \E l \in Loads : FinishStartSA(l) \/ FinishStartSAFailed(l) \/ StartEnds(l)
  \/ \E t \in Threads : GetCamSrv(t) \/ Send(t) \/ Serve(t) \/ Reply(t)
  \/ ReleaseReturns \/ ReleaseEnds \/ RegisterEnds \/ RequestEnds
  \/ \E r \in service.asks : Answer(r)
  \/ AbilityEnds
  \/ \E k \in notices : OnCamSrvDied(k)
  \/ Driver

Spec == Init /\ [][Next]_vars

----------------------------------------------------------------------------
(* Threads, calls, the handler, its loads and the service have the values  *)
(* of the code; the cameras of a service are those of its configuration.   *)
TypeOK ==
  /\ side \in Sides /\ CacheTypeOK /\ HdfTypeOK
  /\ \A t \in Threads :
       /\ call[t].at \in {"idle", "lookup", "watch", "store", "send", "sent", "loading", "served", "back", "uninit"}
       /\ call[t].result \in {"none", "ok", "bad"} /\ call[t].served \in {"no", "ok", "bad"}
  /\ calls \in 0 .. MaxCalls /\ started \in BOOLEAN /\ waiting \subseteq Loads
  /\ loads \in [Loads -> {"idle", "asked", "calling"}]
  /\ service.cameras \subseteq Cameras /\ pushed \subseteq 1 .. MaxCalls

(* What a proxy has checked reaches the stub as it was (the parcel is      *)
(* written and read in one order with one set of types), and neither the   *)
(* stub nor the object behind it refuses it, but for a null callback and   *)
(* for pause, resume and stop, whose proxies check nothing.  And a caller  *)
(* that reads success was served, however the service dies around the      *)
(* call; only a proxy that ignores the result of SendRequest, or does not  *)
(* wait for a reply, reports a success that nobody gave.                   *)
CallsAreSound ==
  \A t \in Threads :
    /\ call[t].at = "sent" =>
         /\ Got(t) = call[t].args
         /\ \/ Accepted(call[t].req, Got(t), Permissions)
            \/ "null" \in {call[t].args[i] : i \in DOMAIN call[t].args}
            \/ call[t].req \in {"PAUSE_DISTRIBUTED_HARDWARE", "RESUME_DISTRIBUTED_HARDWARE", "STOP_DISTRIBUTED_HARDWARE"}
    /\ call[t].at = "back" /\ call[t].result = "ok" =>
         \/ call[t].served = "ok"
         \/ ~Proxy[call[t].req].waits
         \/ call[t].lost /\ ~Proxy[call[t].req].heeds

(* No cache keeps the proxy of a dead service without a notice on its way  *)
(* that drops it, through any order of two threads that fetch, watch and   *)
(* store, of deaths, restarts and UnInit; the exception is an object that  *)
(* could not be watched or had died before it was stored.                  *)
DeadProxyIsDropped ==
  proxy # 0 => proxy = life \/ proxy \in notices \/ "unheard" \in causes

(* A started handler that has been told of every death caches the running  *)
(* service, and the service is initialized.  Its state says so without it  *)
(* after a load whose InitSource or InitSink failed, or whose own caller   *)
(* has given up: FinishStartSA looks at neither; and while a release has   *)
(* dropped the proxy and has yet to write the state.                       *)
StartedHasService ==
  started /\ notices = {} =>
    \/ life # 0 /\ proxy = life /\ service.ready
    \/ call[Client].at = "uninit"
    \/ causes \intersect {"unheard", "unready"} # {}

(* Every registration callback the kit keeps is one the service has still  *)
(* to answer, unless the service died or the call was lost: then it is     *)
(* kept for ever, for no death notice drops it.                            *)
CallbacksAreAnswered ==
  call[Client].at = "idle" =>
    pushed \subseteq service.asks \/ causes \intersect {"lost", "died"} # {}

(* InitSource reports loaded devices only when both run, unless a status   *)
(* kept from an earlier load said so of a device that had stopped, or a    *)
(* ReleaseSource on another thread unloaded them during the load.          *)
LoadedDriversRun == hdf.at = "ok" => hdf.up = Devices \/ stale
=============================================================================
