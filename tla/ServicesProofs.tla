--------------------------- MODULE ServicesProofs ---------------------------
(***************************************************************************)
(* Kits, services and their calls, for any number of threads, requests and *)
(* starts of a service: the types, the drivers a load reports, the proxy   *)
(* of a service that died, the service of a started handler, and the       *)
(* callbacks of registrations.                                             *)
(***************************************************************************)
EXTENDS Services, FiniteSetTheorems, TLAPS

\* What the behaviour's clients ask for, and with what.
CallRequests == {"none", InitRequest} \cup ClientRequests
ArgLists == {<<>>} \cup UNION {ArgsOf[req] : req \in CallRequests}

Places == {"idle", "lookup", "watch", "store", "send", "sent", "loading", "served", "back", "uninit"}
CallState ==
  [at : Places, req : CallRequests, args : ArgLists, life : Nat, id : 0 .. MaxCalls,
   served : {"no", "ok", "bad"}, result : {"none", "ok", "bad"}, lost : BOOLEAN]
ServiceState == [ready : BOOLEAN, cameras : SUBSET Cameras, asks : SUBSET (1 .. MaxCalls)]

\* Every variable has its type, a call that registers has a number, and one that was
\* served a result.
Sound(r) == (r.req \in Registrations => r.id # 0) /\ (r.at = "served" => r.served # "no")
Shape ==
  /\ TypeOK
  /\ call \in [Threads -> CallState] /\ \A t \in Threads : Sound(call[t])
  /\ service \in ServiceState

\* Only thread t's call changes, and it becomes r.
Becomes(t, r) == /\ call' = [call EXCEPT ![t] = r]
                 /\ call'[t] = r /\ \A u \in Threads \ {t} : call'[u] = call[u]

\* Threads that watch life k and have yet to store it.
Storing(k) == {t \in Threads : call[t].at = "store" /\ fetched[t] = k}

\* The recipient is registered once for each of them and once for the cache.
WatchInv ==
  \/ "unheard" \in causes
  \/ life # 0 => Cardinality(Storing(life)) + (IF proxy = life THEN 1 ELSE 0) <= watching[life]

CacheInv == WatchInv /\ DeadProxyIsDropped

\* During a load what the status says is true, and the devices that were
\* waited for run.
DriverInv ==
  \/ stale
  \/ hdf.at \in {"idle", "failed"}
  \/ /\ \A d \in Devices : hdf.status[d] => d \in hdf.up
     /\ hdf.at \in {"provider", "bind", "ok"} => "camera" \in hdf.up
     /\ hdf.at = "ok" => "provider" \in hdf.up

----------------------------------------------------------------------------
\* Calls.

\* A thread's call is replaced by another one.
LEMMA CallOf ==
  ASSUME call \in [Threads -> CallState], \A u \in Threads : Sound(call[u]),
         NEW t \in Threads, NEW r \in CallState, Sound(r), call' = [call EXCEPT ![t] = r]
  PROVE  /\ call' \in [Threads -> CallState] /\ \A u \in Threads : Sound(call'[u])
         /\ Becomes(t, r)
BY DEF Becomes

\* A thread that calls nothing has a typed call.
LEMMA NoCallOf == NoCall \in CallState /\ NoCall.at = "idle" /\ Sound(NoCall)
BY CallsAssumption DEF CallState, NoCall, ArgLists, Places, CallRequests, Sound, Registrations

----------------------------------------------------------------------------
\* A call after each step that writes it: typed, numbered if it registers,
\* and only a thread that watched comes to store.
CallGood ==
  /\ call' \in [Threads -> CallState] /\ \A u \in Threads : Sound(call'[u])
  /\ \A u \in Threads : call'[u].at = "store" 
       => call[u].at = "store" \/ (GetCamSrv(u) /\ WatchObject(u))

\* A call replaced by a typed one, which comes to store only by watching.
LEMMA GoodOf ==
  ASSUME Shape, NEW t \in Threads, NEW r \in CallState, Sound(r), call' = [call EXCEPT ![t] = r],
         r.at = "store" => GetCamSrv(t) /\ WatchObject(t)
  PROVE  CallGood
BY CallOf DEF Shape, CallGood, Becomes

\* What a thread's own record is.
LEMMA OwnCall ==
  ASSUME Shape, NEW t \in Threads
  PROVE  call[t] \in CallState /\ Sound(call[t])
BY DEF Shape

\* The call of a thread ends.
LEMMA EndedGood ==
  ASSUME Shape, NEW t \in Threads, call' = Ended(t)
  PROVE  CallGood
BY NoCallOf, GoodOf DEF Ended

\* A call moves on to another place.
LEMMA AtGood ==
  ASSUME Shape, NEW t \in Threads, NEW p \in Places, p # "served", At(t, p), p = "store" => GetCamSrv(t) /\ WatchObject(t)
  PROVE  CallGood
<1>r. PICK r \in CallState : r = call[t] /\ Sound(r)
  BY OwnCall
<1>a. PICK b : b = [r EXCEPT !.at = p]
  OBVIOUS
<1>b. b \in CallState /\ b.at = p /\ b.req = r.req /\ b.id = r.id
  BY <1>a DEF CallState, Places, ArgLists
<1>c. Sound(b)
  BY <1>b, <1>r DEF Sound
<1>d. call' = [call EXCEPT ![t] = b]
  BY <1>a, <1>r DEF At
<1> QED
  BY <1>b, <1>c, <1>d, GoodOf

\* A call comes back with a result.
LEMMA BackGood ==
  ASSUME Shape, NEW t \in Threads, NEW x \in {"ok", "bad", "no", "none"}, x # "no", NEW l \in BOOLEAN,
         call' = Back(t, x, l)
  PROVE  CallGood
<1>r. PICK r \in CallState : r = call[t] /\ Sound(r)
  BY OwnCall
<1>a. PICK b : b = [r EXCEPT !.at = "back", !.result = x, !.lost = l, !.args = <<>>]
  OBVIOUS
<1>b. b \in CallState /\ b.at = "back" /\ b.req = r.req /\ b.id = r.id
  BY <1>a DEF CallState, Places, ArgLists
<1>c. Sound(b)
  BY <1>b, <1>r DEF Sound
<1>d. call' = [call EXCEPT ![t] = b]
  BY <1>a, <1>r DEF Back
<1> QED
  BY <1>b, <1>c, <1>d, GoodOf

\* A call is served.
LEMMA ServedGood ==
  ASSUME Shape, NEW t \in Threads, NEW x \in {"ok", "bad"}, call' = Serves(t, x)
  PROVE  CallGood
<1>r. PICK r \in CallState : r = call[t] /\ Sound(r)
  BY OwnCall
<1>a. PICK b : b = [r EXCEPT !.at = "served", !.served = x, !.args = <<>>]
  OBVIOUS
<1>b. /\ b \in CallState /\ b.at = "served" /\ b.served = x
       /\ b.req = r.req /\ b.id = r.id
  BY <1>a DEF CallState, Places, ArgLists
<1>c. Sound(b)
  BY <1>b, <1>r DEF Sound
<1>d. call' = [call EXCEPT ![t] = b]
  BY <1>a, <1>r DEF Serves
<1> QED
  BY <1>b, <1>c, <1>d, GoodOf

\* A thread begins a call.
LEMMA BeganGood ==
  ASSUME Shape, NEW t \in Threads, NEW p \in Places \ {"store", "served"}, NEW req \in CallRequests,
         NEW i \in 0 .. MaxCalls, req \in Registrations => i # 0, call' = Began(t, p, req, i)
  PROVE  CallGood
<1>0. life \in Nat
  BY MaxLivesAssumption DEF Shape, TypeOK, CacheTypeOK
<1>a. PICK b : b = [NoCall EXCEPT !.at = p, !.req = req, !.id = i, !.life = life]
  OBVIOUS
<1>b. b \in CallState /\ b.at = p /\ b.req = req /\ b.id = i
  BY <1>a, <1>0 DEF CallState, Places, ArgLists, NoCall, CallRequests
<1>c. Sound(b)
  BY <1>b DEF Sound
<1>d. call' = [call EXCEPT ![t] = b]
  BY <1>a DEF Began
<1> QED
  BY <1>b, <1>c, <1>d, GoodOf

\* The steps by the way they change a call.
LEMMA AskGood ==
  ASSUME Shape, Ask
  PROVE  CallGood \/ UNCHANGED call
<1>1. PICK req \in ClientRequests :
        \/ call' = Began(Client, IF side = "toKit" THEN "send" ELSE "lookup", req, calls + 1)
        \/ UNCHANGED call
  BY DEF Ask
<1>2. calls + 1 \in 0 .. MaxCalls /\ calls + 1 # 0
  BY CallsAssumption DEF Ask, Shape, TypeOK
<1>3. req \in CallRequests /\ Client \in Threads
  BY ThreadsAssumption DEF CallRequests
<1> QED
  BY <1>1, <1>2, <1>3, BeganGood DEF Places

\* The proxy is looked for.
LEMMA GetGood ==
  ASSUME Shape, NEW t \in Threads, GetCamSrv(t)
  PROVE  CallGood
<1>0. proxy \in Nat /\ life \in Nat
  BY MaxLivesAssumption DEF Shape, TypeOK, CacheTypeOK
<1>1. CASE GetCached(t)
  <2>r. PICK r \in CallState : r = call[t] /\ Sound(r)
    BY OwnCall
  <2>a. PICK b : b = [r EXCEPT !.at = "send", !.life = proxy]
    OBVIOUS
  <2>b. b \in CallState /\ b.at = "send" /\ b.req = r.req /\ b.id = r.id
    BY <2>a, <1>0 DEF CallState, Places, ArgLists
  <2>c. Sound(b)
    BY <2>b, <2>r DEF Sound
  <2>d. call' = [call EXCEPT ![t] = b]
    BY <1>1, <2>a, <2>r DEF GetCached
  <2> QED
    BY <2>b, <2>c, <2>d, GoodOf
<1>2. CASE GetObject(t)
  <2>r. PICK r \in CallState : r = call[t] /\ Sound(r)
    BY OwnCall
  <2>a. PICK b : b = [r EXCEPT !.at = "watch", !.life = life]
    OBVIOUS
  <2>b. b \in CallState /\ b.at = "watch" /\ b.req = r.req /\ b.id = r.id
    BY <2>a, <1>0 DEF CallState, Places, ArgLists
  <2>c. Sound(b)
    BY <2>b, <2>r DEF Sound
  <2>d. call' = Ended(t) \/ call' = [call EXCEPT ![t] = b]
    BY <1>2, <2>a, <2>r DEF GetObject
  <2> QED
    BY <2>b, <2>c, <2>d, GoodOf, EndedGood
<1>3. CASE WatchObject(t)
  BY <1>3, AtGood DEF WatchObject, Places
<1>4. CASE StoreProxy(t)
  BY <1>4, AtGood DEF StoreProxy, Places
<1> QED
  BY <1>1, <1>2, <1>3, <1>4 DEF GetCamSrv

\* The request is sent, or comes back at once.
LEMMA SendGood ==
  ASSUME Shape, NEW t \in Threads, Send(t)
  PROVE  CallGood
<1>1. PICK args \in Checked(call[t].req) :
        \/ call' = Back(t, "bad", FALSE) \/ call' = Unanswered(t) \/ call' = Back(t, "ok", FALSE)
        \/ call' = [call EXCEPT ![t].at = "sent", ![t].args = args]
  BY DEF Send
<1>2. CASE call' = [call EXCEPT ![t].at = "sent", ![t].args = args]
  <2>1. call[t].req \in CallRequests
    BY OwnCall DEF CallState
  <2>2. args \in ArgLists
    BY <2>1 DEF Checked, ArgLists
  <2>r. PICK r \in CallState : r = call[t] /\ Sound(r)
    BY OwnCall
  <2>a. PICK b : b = [r EXCEPT !.at = "sent", !.args = args]
    OBVIOUS
  <2>b. b \in CallState /\ b.at = "sent" /\ b.req = r.req /\ b.id = r.id
    BY <2>a, <2>2 DEF CallState, Places, ArgLists
  <2>c. Sound(b)
    BY <2>b, <2>r DEF Sound
  <2>d. call' = [call EXCEPT ![t] = b]
    BY <1>2, <2>a, <2>r
  <2> QED
    BY <2>b, <2>c, <2>d, GoodOf
<1>3. CASE call' = Unanswered(t)
  BY <1>3, BackGood DEF Unanswered
<1> QED
  BY <1>1, <1>2, <1>3, BackGood

\* The stub and the object behind it serve a call.
LEMMA ServeGood ==
  ASSUME Shape, NEW t \in Threads, Serve(t)
  PROVE  CallGood
<1>1. \/ \E x \in {"ok", "bad"} : call' = Serves(t, x)
      \/ At(t, "loading")
  <2>1. CASE StubRefuses(t)
    BY <2>1 DEF StubRefuses
  <2>2. CASE InitSource(t)
    BY <2>2 DEF InitSource
  <2>3. CASE SourceInited(t)
    BY <2>3 DEF SourceInited
  <2>4. CASE InitSink(t)
    BY <2>4 DEF InitSink
  <2>5. CASE ReleaseSource(t) \/ ReleaseSink(t)
    BY <2>5 DEF ReleaseSource, ReleaseSink
  <2>6. CASE Register(t)
    BY <2>6 DEF Register
  <2>7. CASE OfDevice(t)
    BY <2>7 DEF OfDevice
  <2>8. CASE OfConnected(t)
    BY <2>8 DEF OfConnected
  <2>9. CASE OfAccess(t) \/ OfSource(t) \/ OfCallback(t)
    BY <2>9 DEF OfAccess, OfSource, OfCallback
  <2> QED
    BY <2>1, <2>2, <2>3, <2>4, <2>5, <2>6, <2>7, <2>8, <2>9 DEF Serve
<1> QED
  BY <1>1, ServedGood, AtGood DEF Places

\* The reply arrives, or the want of it is noticed.
LEMMA ReplyGood ==
  ASSUME Shape, NEW t \in Threads, Reply(t)
  PROVE  CallGood
<1>1. \/ call' = Unanswered(t)
      \/ call' = Back(t, call[t].served, FALSE) /\ call[t].at = "served"
  BY DEF Reply
<1>2. call[t].at = "served" => call[t].served \in {"ok", "bad"}
  BY OwnCall DEF CallState, Sound
<1>3. CASE call' = Unanswered(t)
  BY <1>3, BackGood DEF Unanswered
<1> QED
  BY <1>1, <1>2, <1>3, BackGood

\* Every step that writes a call, and those that do not.
LEMMA CallStep ==
  ASSUME Shape, Next
  PROVE  CallGood \/ UNCHANGED call
<1>1. CASE Ask
  BY <1>1, AskGood
<1>2. ASSUME NEW l \in Loads, FinishStartSA(l) PROVE CallGood
  <2>1. l \in Threads /\ "lookup" \in Places \ {"store", "served"} /\ InitRequest \in CallRequests
        /\ 0 \in 0 .. MaxCalls /\ InitRequest \notin Registrations
    BY ThreadsAssumption, CallsAssumption DEF Places, CallRequests, InitRequest, Registrations
  <2>2. call' = Began(l, "lookup", InitRequest, 0)
    BY <1>2 DEF FinishStartSA
  <2> QED
    BY <2>1, <2>2, BeganGood
<1>3. ASSUME NEW t \in Threads, GetCamSrv(t) \/ Send(t) \/ Serve(t) \/ Reply(t) PROVE CallGood
  BY <1>3, GetGood, SendGood, ServeGood, ReplyGood
<1>4. ASSUME NEW l \in Loads, StartEnds(l) PROVE CallGood
  BY <1>4, EndedGood, ThreadsAssumption DEF StartEnds
<1>5. CASE ReleaseReturns \/ ReleaseEnds \/ RegisterEnds \/ RequestEnds
  BY <1>5, EndedGood, AtGood, ThreadsAssumption DEF ReleaseReturns, ReleaseEnds, RegisterEnds, RequestEnds, Places
<1>6. CASE InitKit \/ InitKitReturns \/ AbilityStarts \/ HolderStarts \/ HolderStops \/ AbilityEnds \/ Driver
  BY <1>6 DEF InitKit, InitKitReturns, AbilityStarts, HolderStarts, HolderStops, AbilityEnds, Driver
<1>7. ASSUME NEW l \in Loads, FinishStartSAFailed(l) PROVE UNCHANGED call
  BY <1>7 DEF FinishStartSAFailed
<1>8. ASSUME NEW r \in service.asks, Answer(r) PROVE UNCHANGED call
  BY <1>8 DEF Answer
<1>9. ASSUME NEW k \in notices, OnCamSrvDied(k) PROVE UNCHANGED call
  BY <1>9 DEF OnCamSrvDied
<1> QED
  BY <1>1, <1>2, <1>3, <1>4, <1>5, <1>6, <1>7, <1>8, <1>9 DEF Next

----------------------------------------------------------------------------
\* The cache.

\* The steps that write the cache.
CacheStep ==
  \/ ServiceStarts \/ ServiceEnds \/ RecipientMade \/ CacheUnInit
  \/ \E t \in Threads : GetCamSrv(t) /\ (GetObject(t) \/ WatchObject(t) \/ StoreProxy(t))
  \/ \E k \in notices : OnRemoteDied(k)

\* Every step writes the cache in one of these ways or leaves it alone.
LEMMA CacheCases ==
  ASSUME Next
  PROVE  CacheStep \/ UNCHANGED cacheVars
<1>1. ASSUME NEW t \in Threads, Serve(t) PROVE UNCHANGED cacheVars
  <2> USE DEF Quiet
  <2>1. CASE StubRefuses(t) \/ InitSource(t) \/ SourceInited(t) \/ InitSink(t)
    BY <2>1 DEF StubRefuses, InitSource, SourceInited, InitSink
  <2>2. CASE ReleaseSource(t) \/ ReleaseSink(t) \/ Register(t) \/ OfDevice(t)
    BY <2>2 DEF ReleaseSource, ReleaseSink, Register, OfDevice
  <2>3. CASE OfConnected(t) \/ OfAccess(t) \/ OfSource(t) \/ OfCallback(t)
    BY <2>3 DEF OfConnected, OfAccess, OfSource, OfCallback
  <2> QED
    BY <1>1, <2>1, <2>2, <2>3 DEF Serve
<1>2. ASSUME NEW t \in Threads, GetCamSrv(t) PROVE CacheStep \/ UNCHANGED cacheVars
  BY <1>2 DEF GetCamSrv, GetCached, CacheStep
<1>3. ASSUME NEW t \in Threads, Send(t) \/ Reply(t) PROVE UNCHANGED cacheVars
  BY <1>3 DEF Send, Reply
<1>4. ASSUME NEW l \in Loads, FinishStartSA(l) \/ FinishStartSAFailed(l) \/ StartEnds(l)
      PROVE  CacheStep \/ UNCHANGED cacheVars
  BY <1>4 DEF FinishStartSA, FinishStartSAFailed, StartEnds, CacheStep
<1>5. CASE InitKit \/ InitKitReturns \/ AbilityStarts \/ HolderStarts \/ HolderStops \/ Ask \/ AbilityEnds
  BY <1>5 DEF InitKit, InitKitReturns, AbilityStarts, HolderStarts, HolderStops, Ask, AbilityEnds, CacheStep
<1>6. CASE ReleaseReturns \/ ReleaseEnds \/ RegisterEnds \/ RequestEnds \/ Driver
  <2>1. CASE ReleaseReturns
    BY <2>1 DEF ReleaseReturns, CacheStep, cacheVars
  <2> QED
    BY <1>6, <2>1 DEF ReleaseEnds, RegisterEnds, RequestEnds, Driver
<1>7. ASSUME NEW r \in service.asks, Answer(r) PROVE UNCHANGED cacheVars
  BY <1>7 DEF Answer
<1>8. ASSUME NEW k \in notices, OnCamSrvDied(k) PROVE CacheStep
  BY <1>8 DEF OnCamSrvDied, CacheStep
<1> QED
  BY <1>1, <1>2, <1>3, <1>4, <1>5, <1>6, <1>7, <1>8 DEF Next

\* Every step keeps the types of the cache.
LEMMA CacheType ==
  ASSUME CacheTypeOK, CacheStep \/ UNCHANGED cacheVars
  PROVE  CacheTypeOK'
<1> USE MaxLivesAssumption
<1>1. CASE ServiceStarts
  BY <1>1 DEF ServiceStarts, CacheTypeOK, Lives
<1>2. CASE ServiceEnds
  <2>1. life \in Lives
    BY <1>2 DEF ServiceEnds, CacheTypeOK, Lives
  <2>2. notices' \subseteq Lives
    BY <1>2, <2>1 DEF ServiceEnds, CacheTypeOK
  <2> QED
    BY <1>2, <2>2 DEF ServiceEnds, CacheTypeOK
<1>3. CASE RecipientMade
  BY <1>3 DEF RecipientMade, CacheTypeOK, Lives
<1>u. Unwatched \in [Lives -> Nat]
  <2>1. CASE proxy = 0
    BY <2>1 DEF CacheTypeOK, Unwatched
  <2>2. CASE proxy # 0
    <3>1. proxy \in Lives /\ watching[proxy] \in Nat
      BY <2>2 DEF CacheTypeOK, Lives
    <3> QED
      BY <2>2, <3>1 DEF CacheTypeOK, Unwatched
  <2> QED
    BY <2>1, <2>2
<1>4. CASE CacheUnInit
  <2>1. CASE isInit
    <3>1. /\ isInit' = FALSE /\ proxy' = 0 /\ watching' = Unwatched
          /\ notices' = {k \in notices : Unwatched[k] > 0}
          /\ UNCHANGED <<life, lives, fetched>>
      BY <1>4, <2>1 DEF CacheUnInit
    <3>2. notices' \subseteq Lives /\ proxy' \in 0 .. lives'
      BY <3>1 DEF CacheTypeOK
    <3> QED
      BY <3>1, <3>2, <1>u DEF CacheTypeOK
  <2>2. CASE ~isInit
    BY <1>4, <2>2 DEF CacheUnInit, CacheTypeOK, cacheVars
  <2> QED
    BY <2>1, <2>2
<1>5. ASSUME NEW t \in Threads, GetObject(t) PROVE CacheTypeOK'
  BY <1>5 DEF GetObject, Fetch, CacheTypeOK
<1>6. ASSUME NEW t \in Threads, WatchObject(t) PROVE CacheTypeOK'
  <2>1. watching' \in [Lives -> Nat]
    <3>1. CASE fetched[t] \in Lives
      <4>1. watching[fetched[t]] \in Nat
        BY <3>1 DEF CacheTypeOK
      <4> QED
        BY <1>6, <3>1, <4>1 DEF WatchObject, Watch, CacheTypeOK
    <3>2. CASE fetched[t] \notin Lives
      BY <1>6, <3>2 DEF WatchObject, Watch, CacheTypeOK
    <3> QED
      BY <3>1, <3>2
  <2> QED
    BY <1>6, <2>1 DEF WatchObject, Watch, CacheTypeOK
<1>7. ASSUME NEW t \in Threads, StoreProxy(t) PROVE CacheTypeOK'
  BY <1>7, <1>u DEF StoreProxy, Store, CacheTypeOK
<1>8. ASSUME NEW k \in notices, OnRemoteDied(k) PROVE CacheTypeOK'
  BY <1>8, <1>u DEF OnRemoteDied, CacheTypeOK
<1>9. CASE UNCHANGED cacheVars
  BY <1>9 DEF cacheVars, CacheTypeOK
<1> QED
  BY <1>1, <1>2, <1>3, <1>4, <1>5, <1>6, <1>7, <1>8, <1>9 DEF CacheStep

----------------------------------------------------------------------------
\* The drivers.

\* The steps that write the state of the drivers.
Unheeded == /\ hdf.at \in {"ok", "failed"}
            /\ hdf' = [hdf EXCEPT !.at = "idle"] /\ UNCHANGED stale
HdfStep == \/ LoadBegins \/ HdfSteps \/ Unheeded
           \/ UnLoadDcameraHDFImpl

\* Every step writes the drivers in one of these ways or leaves them alone.
LEMMA HdfCases ==
  ASSUME Next
  PROVE  HdfStep \/ UNCHANGED hdfVars
<1>1. ASSUME NEW t \in Threads, Serve(t) PROVE HdfStep \/ UNCHANGED hdfVars
  <2>1. CASE StubRefuses(t) \/ InitSink(t)
    BY <2>1 DEF StubRefuses, InitSink
  <2>2. CASE InitSource(t)
    BY <2>2 DEF InitSource, HdfStep
  <2>3. CASE SourceInited(t)
    BY <2>3 DEF SourceInited, HdfStep, Unheeded
  <2>4. CASE ReleaseSource(t)
    BY <2>4 DEF ReleaseSource, HdfStep
  <2>5. CASE ReleaseSink(t) \/ Register(t) \/ OfDevice(t)
    BY <2>5 DEF ReleaseSink, Register, OfDevice
  <2>6. CASE OfConnected(t) \/ OfAccess(t) \/ OfSource(t) \/ OfCallback(t)
    BY <2>6 DEF OfConnected, OfAccess, OfSource, OfCallback
  <2> QED
    BY <1>1, <2>1, <2>2, <2>3, <2>4, <2>5, <2>6 DEF Serve
<1>2. ASSUME NEW t \in Threads, GetCamSrv(t) \/ Send(t) \/ Reply(t) PROVE UNCHANGED hdfVars
  BY <1>2 DEF GetCamSrv, Send, Reply
<1>3. ASSUME NEW l \in Loads, FinishStartSA(l) \/ FinishStartSAFailed(l) \/ StartEnds(l)
      PROVE  UNCHANGED hdfVars
  BY <1>3 DEF FinishStartSA, FinishStartSAFailed, StartEnds
<1>4. CASE InitKit \/ InitKitReturns \/ AbilityStarts \/ HolderStarts \/ HolderStops \/ Ask \/ AbilityEnds
  BY <1>4 DEF InitKit, InitKitReturns, AbilityStarts, HolderStarts, HolderStops, Ask, AbilityEnds
<1>5. CASE ReleaseReturns \/ ReleaseEnds \/ RegisterEnds \/ RequestEnds
  BY <1>5 DEF ReleaseReturns, ReleaseEnds, RegisterEnds, RequestEnds
<1>6. CASE Driver
  BY <1>6 DEF Driver, HdfStep, Unheeded
<1>7. ASSUME NEW r \in service.asks, Answer(r) PROVE UNCHANGED hdfVars
  BY <1>7 DEF Answer
<1>8. ASSUME NEW k \in notices, OnCamSrvDied(k) PROVE UNCHANGED hdfVars
  BY <1>8 DEF OnCamSrvDied
<1> QED
  BY <1>1, <1>2, <1>3, <1>4, <1>5, <1>6, <1>7, <1>8 DEF Next

HdfState == [at : {"idle", "camera", "provider", "bind", "ok", "failed"}, up : SUBSET Devices,
             asked : SUBSET Devices, status : [Devices -> BOOLEAN]]

\* What each step makes of a state of the drivers.
LEMMA FailedOf ==
  ASSUME NEW h \in HdfState, NEW ds \in SUBSET Devices
  PROVE  /\ Failed(h) \in HdfState /\ Failed(h).at = "failed"
         /\ Failed(Unasked(h, ds)) \in HdfState /\ Failed(Unasked(h, ds)).at = "failed"
         /\ Failed(UnLoadDevice(h)) \in HdfState /\ Failed(UnLoadDevice(h)).at = "failed"
         /\ UnLoadDevice(h) \in HdfState /\ UnLoadDevice(h).at = h.at
BY DEF HdfState, Failed, Unasked, UnLoadDevice, NoStatus

\* A load moves on to another place.
LEMMA HdfAtOf ==
  ASSUME NEW h \in HdfState, NEW p \in {"idle", "bind", "ok"}, NEW g, g = [h EXCEPT !.at = p]
  PROVE  g \in HdfState /\ g.at = p /\ g.up = h.up /\ g.status = h.status
BY DEF HdfState

\* Every step keeps the types of the drivers, and what the status says true.
LEMMA DriverStep ==
  ASSUME HdfTypeOK, DriverInv, HdfStep \/ UNCHANGED hdfVars
  PROVE  HdfTypeOK' /\ DriverInv'
<1>0. hdf \in HdfState /\ stale \in BOOLEAN /\ "camera" \in Devices /\ "provider" \in Devices
  BY DEF HdfTypeOK, HdfState, Devices
<1>q. ASSUME hdf' \in HdfState, stale' \in BOOLEAN, hdf'.at \in {"idle", "failed"}
      PROVE  HdfTypeOK' /\ DriverInv'
  BY <1>q DEF HdfTypeOK, HdfState, DriverInv
<1>1. CASE LoadBegins
  <2>1. CASE hdf' = Asked([hdf EXCEPT !.at = "camera"], "camera")
    <3>1. /\ hdf' \in HdfState /\ hdf'.at = "camera" /\ hdf'.up = hdf.up
          /\ \A e \in Devices : hdf'.status[e] <=> (hdf.status[e] \/ (e = "camera" /\ "camera" \in hdf.up))
      BY <2>1, <1>0 DEF Asked, HdfState
    <3>2. stale' = (stale \/ Untrue(hdf)) /\ stale' \in BOOLEAN
      BY <1>1, <1>0 DEF LoadBegins
    <3> QED
      BY <3>1, <3>2 DEF HdfTypeOK, HdfState, DriverInv, Untrue
  <2>2. CASE hdf' = Failed(hdf)
    BY <1>1, <2>2, <1>0, <1>q, FailedOf DEF LoadBegins
  <2> QED
    BY <1>1, <2>1, <2>2 DEF LoadBegins
<1>2. ASSUME NEW d \in Devices, DeviceStarts(d) PROVE HdfTypeOK' /\ DriverInv'
  <2>1. /\ hdf' \in HdfState /\ hdf'.at = hdf.at /\ hdf'.up = hdf.up \cup {d}
        /\ \A e \in Devices :
             hdf'.status[e] <=> (hdf.status[e] \/ (e = d /\ hdf.at \in {"camera", "provider"}))
    BY <1>2, <1>0 DEF DeviceStarts, HdfState
  <2> QED
    BY <1>2, <2>1, <1>0 DEF DeviceStarts, HdfTypeOK, HdfState, DriverInv
<1>3. CASE WaitLoadCameraService
  <2>1. CASE hdf.status["camera"] /\ hdf' = Asked([hdf EXCEPT !.at = "provider"], "provider")
    <3>1. /\ hdf' \in HdfState /\ hdf'.at = "provider" /\ hdf'.up = hdf.up
          /\ \A e \in Devices :
               hdf'.status[e] <=> (hdf.status[e] \/ (e = "provider" /\ "provider" \in hdf.up))
      BY <2>1, <1>0 DEF Asked, HdfState
    <3> QED
      BY <1>3, <2>1, <3>1, <1>0 DEF WaitLoadCameraService, HdfTypeOK, HdfState, DriverInv
  <2>2. CASE hdf' = Failed(Unasked(hdf, {"camera"})) \/ hdf' = Failed(hdf)
    <3>1. {"camera"} \in SUBSET Devices
      BY <1>0
    <3> QED
      BY <1>3, <2>2, <3>1, <1>0, <1>q, FailedOf DEF WaitLoadCameraService
  <2> QED
    BY <1>3, <2>1, <2>2 DEF WaitLoadCameraService
<1>4. CASE WaitLoadProviderService
  <2>1. CASE hdf' = [hdf EXCEPT !.at = "bind"]
    <3>1. hdf' \in HdfState /\ hdf'.at = "bind" /\ hdf'.up = hdf.up /\ hdf'.status = hdf.status
      BY <2>1, <1>0, HdfAtOf
    <3> QED
      BY <1>4, <3>1, <1>0 DEF WaitLoadProviderService, HdfTypeOK, HdfState, DriverInv
  <2>2. CASE hdf' = Failed(Unasked(hdf, {"camera"}))
    <3>1. {"camera"} \in SUBSET Devices /\ stale' = stale
      BY <1>0, <1>4 DEF WaitLoadProviderService
    <3>2. hdf' \in HdfState /\ hdf'.at = "failed"
      BY <2>2, <3>1, <1>0, FailedOf
    <3> QED
      BY <3>1, <3>2, <1>0, <1>q
  <2> QED
    BY <1>4, <2>1, <2>2 DEF WaitLoadProviderService
<1>5. CASE BindToProvider
  <2>1. CASE "provider" \in hdf.up /\ hdf' = [hdf EXCEPT !.at = "ok"]
    <3>1. hdf' \in HdfState /\ hdf'.at = "ok" /\ hdf'.up = hdf.up /\ hdf'.status = hdf.status
      BY <2>1, <1>0, HdfAtOf
    <3> QED
      BY <1>5, <2>1, <3>1, <1>0 DEF BindToProvider, HdfTypeOK, HdfState, DriverInv
  <2>2. CASE hdf' = Failed(UnLoadDevice(hdf))
    BY <1>5, <2>2, <1>0, <1>q, FailedOf DEF BindToProvider
  <2> QED
    BY <1>5, <2>1, <2>2 DEF BindToProvider
<1>6. CASE HostDies
  <2>1. hdf' \in HdfState /\ stale' = TRUE
    BY <1>6, <1>0 DEF HostDies, HdfState
  <2> QED
    BY <2>1 DEF HdfTypeOK, HdfState, DriverInv
<1>7. CASE Unheeded
  BY <1>7, <1>0, <1>q, HdfAtOf DEF Unheeded
<1>8. CASE UnLoadDcameraHDFImpl
  <2>1. /\ hdf' = UnLoadDevice(hdf) /\ stale' \in BOOLEAN
        /\ hdf.at \notin {"idle", "failed"} => stale' = TRUE
    BY <1>8, <1>0 DEF UnLoadDcameraHDFImpl, HdfState
  <2>2. hdf' \in HdfState /\ hdf'.at = hdf.at
    BY <2>1, <1>0, FailedOf
  <2>3. CASE hdf.at \in {"idle", "failed"}
    BY <2>1, <2>2, <2>3, <1>q
  <2>4. CASE hdf.at \notin {"idle", "failed"}
    BY <2>1, <2>2, <2>4 DEF HdfTypeOK, HdfState, DriverInv
  <2> QED
    BY <2>3, <2>4
<1>9. CASE UNCHANGED hdfVars
  BY <1>9 DEF hdfVars, HdfTypeOK, DriverInv
<1> QED
  BY <1>1, <1>2, <1>3, <1>4, <1>5, <1>6, <1>7, <1>8, <1>9 DEF HdfStep, HdfSteps

----------------------------------------------------------------------------
\* The handler, its loads and the service.
RestOK ==
  /\ calls \in 0 .. MaxCalls /\ started \in BOOLEAN /\ waiting \subseteq Loads
  /\ loads \in [Loads -> {"idle", "asked", "calling"}]
  /\ service \in ServiceState /\ pushed \subseteq 1 .. MaxCalls
Rest == <<calls, started, waiting, loads, service, pushed>>

\* Every step of a call that is served keeps them.
LEMMA ServeRest ==
  ASSUME Shape, RestOK, NEW t \in Threads, Serve(t)
  PROVE  RestOK' /\ side' = side /\ causes' = causes
<1> USE DEF Quiet, kitVars
<1>0. service \in ServiceState
  BY DEF RestOK
<1>k. ASSUME service' \in ServiceState, UNCHANGED <<calls, kitVars, pushed>> PROVE RestOK'
  BY <1>k DEF RestOK
<1>1. CASE StubRefuses(t) \/ ReleaseSource(t) \/ OfDevice(t)
  BY <1>1, <1>0, <1>k DEF StubRefuses, ReleaseSource, OfDevice
<1>2. CASE OfConnected(t) \/ OfAccess(t) \/ OfSource(t) \/ OfCallback(t)
  BY <1>2, <1>0, <1>k DEF OfConnected, OfAccess, OfSource, OfCallback
<1>3. CASE InitSource(t)
  <2>1. \/ service' = service
        \/ \E b \in BOOLEAN : service' = [service EXCEPT !.ready = @ \/ b]
    BY <1>3 DEF InitSource
  <2>2. service' \in ServiceState
    BY <2>1, <1>0 DEF ServiceState
  <2> QED
    BY <1>3, <2>2, <1>k DEF InitSource
<1>4. CASE SourceInited(t)
  <2>1. service' \in ServiceState
    BY <1>4, <1>0 DEF SourceInited, ServiceState
  <2> QED
    BY <1>4, <2>1, <1>k DEF SourceInited
<1>5. CASE InitSink(t)
  <2>1. PICK made \in SUBSET Cameras :
          service' = [service EXCEPT !.cameras = @ \union made, !.ready = @ \/ made = Cameras]
    BY <1>5 DEF InitSink
  <2>2. service' \in ServiceState
    BY <2>1, <1>0 DEF ServiceState
  <2> QED
    BY <1>5, <2>2, <1>k DEF InitSink
<1>6. CASE ReleaseSink(t)
  <2>1. service' \in ServiceState
    BY <1>6, <1>0 DEF ReleaseSink, ServiceState
  <2> QED
    BY <1>6, <2>1, <1>k DEF ReleaseSink
<1>7. CASE Register(t)
  <2>1. call[t].id \in 1 .. MaxCalls
    <3>1. call[t].req \in Registrations
      BY <1>7 DEF Register, Takes
    <3>2. PICK r \in CallState : r = call[t] /\ Sound(r)
      BY OwnCall
    <3> QED
      BY <3>1, <3>2, CallsAssumption DEF CallState, Sound
  <2>2. service' = service \/ service' = [service EXCEPT !.asks = @ \union {call[t].id}]
    BY <1>7 DEF Register
  <2>3. service' \in ServiceState
    BY <2>1, <2>2, <1>0 DEF ServiceState
  <2> QED
    BY <1>7, <2>3, <1>k DEF Register
<1> QED
  BY <1>1, <1>2, <1>3, <1>4, <1>5, <1>6, <1>7 DEF Serve

\* Every step keeps them, and the history only grows.
LEMMA RestStep ==
  ASSUME Shape, RestOK, Next
  PROVE  RestOK' /\ side' = side /\ causes \subseteq causes'
<1> USE DEF kitVars
<1>0. service \in ServiceState /\ NoService \in ServiceState
  BY DEF RestOK, NoService, ServiceState
<1>1. CASE InitKit \/ InitKitReturns
  BY <1>1 DEF InitKit, InitKitReturns, RestOK
<1>2. CASE AbilityStarts \/ AbilityEnds
  BY <1>2, <1>0 DEF AbilityStarts, AbilityEnds, RestOK
<1>3. CASE HolderStarts \/ HolderStops \/ Driver \/ RequestEnds
  BY <1>3 DEF HolderStarts, HolderStops, Driver, RequestEnds, RestOK
<1>4. CASE Ask
  <2>1. calls + 1 \in 0 .. MaxCalls
    BY <1>4, CallsAssumption DEF Ask, RestOK
  <2> QED
    BY <1>4, <2>1 DEF Ask, RestOK
<1>5. ASSUME NEW l \in Loads, FinishStartSA(l) \/ FinishStartSAFailed(l) \/ StartEnds(l)
      PROVE  RestOK' /\ side' = side /\ causes \subseteq causes'
  BY <1>5 DEF FinishStartSA, FinishStartSAFailed, StartEnds, RestOK
<1>6. ASSUME NEW t \in Threads, GetCamSrv(t) PROVE RestOK' /\ side' = side /\ causes \subseteq causes'
  <2>1. loads' \in [Loads -> {"idle", "asked", "calling"}]
    BY <1>6 DEF GetCamSrv, GetCached, GetObject, WatchObject, StoreProxy, RestOK
  <2> QED
    BY <1>6, <2>1 DEF GetCamSrv, RestOK
<1>7. ASSUME NEW t \in Threads, Send(t) PROVE RestOK' /\ side' = side /\ causes \subseteq causes'
  <2>1. Registers(t) => call[t].id \in 1 .. MaxCalls
    <3>1. PICK r \in CallState : r = call[t] /\ Sound(r)
      BY OwnCall
    <3> QED
      BY <3>1, CallsAssumption DEF Registers, CallState, Sound
  <2>2. pushed' \subseteq 1 .. MaxCalls
    BY <1>7, <2>1 DEF Send, RestOK
  <2> QED
    BY <1>7, <2>2 DEF Send, RestOK
<1>8. ASSUME NEW t \in Threads, Serve(t) \/ Reply(t)
      PROVE  RestOK' /\ side' = side /\ causes \subseteq causes'
  <2>1. CASE Serve(t)
    BY <2>1, ServeRest
  <2>2. CASE Reply(t)
    BY <2>2 DEF Reply, RestOK
  <2> QED
    BY <1>8, <2>1, <2>2
<1>9. CASE ReleaseReturns \/ ReleaseEnds
  BY <1>9 DEF ReleaseReturns, ReleaseEnds, RestOK
<1>10. CASE RegisterEnds
  BY <1>10 DEF RegisterEnds, RestOK
<1>11. ASSUME NEW r \in service.asks, Answer(r)
       PROVE  RestOK' /\ side' = side /\ causes \subseteq causes'
  <2>1. service' \in ServiceState
    BY <1>11, <1>0 DEF Answer, ServiceState
  <2> QED
    BY <1>11, <2>1 DEF Answer, RestOK
<1>12. ASSUME NEW k \in notices, OnCamSrvDied(k)
       PROVE  RestOK' /\ side' = side /\ causes \subseteq causes'
  BY <1>12 DEF OnCamSrvDied, RestOK
<1> QED
  BY <1>1, <1>2, <1>3, <1>4, <1>5, <1>6, <1>7, <1>8, <1>9, <1>10, <1>11, <1>12 DEF Next

\* Every variable has its type at the start.
LEMMA ShapeInit == Init => Shape /\ DriverInv
<1> SUFFICES ASSUME Init PROVE Shape /\ DriverInv
  OBVIOUS
<1>1. CacheTypeOK
  <2>1. /\ life = 0 /\ lives = 0 /\ isInit = FALSE /\ proxy = 0
        /\ watching = [k \in Lives |-> 0] /\ notices = {} /\ fetched = [t \in Threads |-> 0]
    BY DEF Init, CacheInit
  <2>2. watching \in [Lives -> Nat] /\ fetched \in [Threads -> 0 .. lives]
    BY <2>1
  <2>3. isInit \in BOOLEAN
    BY <2>1, Zenon
  <2>4. life \in 0 .. lives /\ lives \in 0 .. MaxLives /\ proxy \in 0 .. lives /\ notices \subseteq Lives
    BY <2>1, MaxLivesAssumption
  <2> QED
    BY <2>2, <2>3, <2>4 DEF CacheTypeOK
<1>2. HdfTypeOK /\ DriverInv
  BY DEF Init, HdfInit, HdfTypeOK, DriverInv, NoStatus, Devices
<1>3. call \in [Threads -> CallState] /\ \A t \in Threads : Sound(call[t])
  BY NoCallOf DEF Init
<1>4. RestOK
  <2>1. NoService \in ServiceState
    BY DEF NoService, ServiceState
  <2> QED
    <3>1. loads \in [Loads -> {"idle", "asked", "calling"}] /\ service = NoService
      BY DEF Init
    <3>2. calls = 0 /\ started = FALSE /\ waiting = {} /\ pushed = {}
      BY DEF Init
    <3>3. started \in BOOLEAN /\ waiting \subseteq Loads
      BY <3>2, Zenon
    <3>4. calls \in 0 .. MaxCalls /\ pushed \subseteq 1 .. MaxCalls
      BY <3>2, CallsAssumption
    <3> QED
      BY <2>1, <3>1, <3>3, <3>4 DEF RestOK
<1>5. \A t \in Threads : call[t] = NoCall
  BY DEF Init
<1> QED
  BY <1>1, <1>2, <1>3, <1>4, <1>5 DEF Init, Shape, TypeOK, RestOK, ServiceState, NoCall, NoService

\* Every step keeps the types.
LEMMA ShapeStep == Shape /\ DriverInv /\ [Next]_vars => Shape' /\ DriverInv'
<1> SUFFICES ASSUME Shape, DriverInv, [Next]_vars PROVE Shape' /\ DriverInv'
  OBVIOUS
<1>r. RestOK /\ CacheTypeOK /\ HdfTypeOK
  BY DEF Shape, TypeOK, RestOK
<1>1. CASE Next
  <2>1. RestOK' /\ side' = side
    BY <1>1, <1>r, RestStep
  <2>2. CacheTypeOK'
    BY <1>1, <1>r, CacheCases, CacheType
  <2>3. HdfTypeOK' /\ DriverInv'
    BY <1>1, <1>r, HdfCases, DriverStep
  <2>4. call' \in [Threads -> CallState] /\ \A t \in Threads : Sound(call'[t])
    BY <1>1, CallStep DEF CallGood, Shape
  <2>5. CallState' = CallState
    BY <2>1 DEF CallState, CallRequests, ArgLists, ClientRequests, InitRequest, SourceKit
  <2>6. ASSUME NEW t \in Threads
        PROVE  /\ call'[t].at \in Places /\ call'[t].result \in {"none", "ok", "bad"}
               /\ call'[t].served \in {"no", "ok", "bad"}
    <3>1. PICK r \in CallState : r = call'[t]
      BY <2>4
    <3> QED
      BY <3>1 DEF CallState
  <2>7. service'.cameras \subseteq Cameras /\ side' \in Sides
    BY <2>1 DEF RestOK, ServiceState, Shape, TypeOK
  <2>8. TypeOK'
    BY <2>1, <2>2, <2>3, <2>6, <2>7 DEF TypeOK, RestOK, Places
  <2>9. service' \in ServiceState
    BY <2>1 DEF RestOK
  <2> QED
    BY <2>3, <2>4, <2>5, <2>8, <2>9 DEF Shape, Sound
<1>2. CASE UNCHANGED vars
  <2>1. CacheTypeOK' /\ HdfTypeOK' /\ DriverInv'
    BY <1>2, <1>r DEF vars, cacheVars, hdfVars, CacheTypeOK, HdfTypeOK, DriverInv
  <2> QED
    BY <1>2, <2>1 DEF vars, kitVars, Shape, TypeOK, CallState, CallRequests, ArgLists, ClientRequests,
       InitRequest, SourceKit, Sound
<1> QED
  BY <1>1, <1>2

\* Every variable of the kits, the services and their calls keeps its type.
THEOREM TypeCorrect == Spec => []TypeOK
<1>1. Shape => TypeOK
  BY DEF Shape
<1> QED
  BY <1>1, ShapeInit, ShapeStep, PTL DEF Spec

\* The drivers a load reports run, unless a status kept from an earlier load
\* was false.
THEOREM ReportedDriversRun == Spec => []LoadedDriversRun
<1>1. Shape /\ DriverInv => LoadedDriversRun
  BY DEF Shape, TypeOK, HdfTypeOK, DriverInv, LoadedDriversRun, Devices
<1> QED
  BY <1>1, ShapeInit, ShapeStep, PTL DEF Spec

----------------------------------------------------------------------------
\* The proxy of a service that has died.

\* Sets of threads are finite, and a smaller one has no more of them.
LEMMA ThreadSets ==
  ASSUME NEW A \in SUBSET Threads, NEW B \in SUBSET A
  PROVE  /\ IsFiniteSet(A) /\ Cardinality(A) \in Nat /\ Cardinality(B) \in Nat
         /\ Cardinality(B) <= Cardinality(A)
<1>1. IsFiniteSet(A) /\ IsFiniteSet(B)
  BY ThreadsAssumption, FS_Subset
<1> QED
  BY <1>1, FS_Subset, FS_CardinalityType

\* No proxy is cached at the start.
LEMMA CacheStart == Init => CacheInv
<1> SUFFICES ASSUME Init PROVE CacheInv
  OBVIOUS
<1> QED
  BY DEF Init, CacheInit, CacheInv, WatchInv, DeadProxyIsDropped

\* Only a thread that watches comes to store; no other step lets one more.
LEMMA StoringKept ==
  ASSUME Shape, Next, \A t \in Threads : ~(GetCamSrv(t) /\ WatchObject(t))
  PROVE  \A t \in Threads : call'[t].at = "store" => call[t].at = "store"
BY CallStep DEF CallGood

\* A step of the cache that is not the watching of an object.
LEMMA WatchKept ==
  ASSUME Shape, CacheInv, Next, "unheard" \notin causes',
         \A t \in Threads : ~(GetCamSrv(t) /\ WatchObject(t))
  PROVE  CacheInv'
<1>k. \A t \in Threads : call'[t].at = "store" => call[t].at = "store"
  BY StoringKept
<1>c. "unheard" \notin causes
  BY RestStep DEF Shape, TypeOK, RestOK
<1>i. /\ life # 0 => Cardinality(Storing(life)) + (IF proxy = life THEN 1 ELSE 0) <= watching[life]
      /\ proxy # 0 => proxy = life \/ proxy \in notices
  BY <1>c DEF CacheInv, WatchInv, DeadProxyIsDropped
<1>t. /\ life \in 0 .. lives /\ lives \in 0 .. MaxLives /\ proxy \in 0 .. lives
      /\ watching \in [Lives -> Nat] /\ notices \subseteq Lives
      /\ fetched \in [Threads -> 0 .. lives] /\ MaxLives \in Nat
  BY MaxLivesAssumption DEF Shape, TypeOK, CacheTypeOK
<1>f. ASSUME NEW k PROVE Storing(k) \in SUBSET Threads /\ Storing(k)' \in SUBSET Threads
  BY DEF Storing
<1>n. life # 0 => life \in Lives /\ watching[life] \in Nat
  BY <1>t DEF Lives
<1>s. ASSUME NEW k, \A t \in Threads : fetched'[t] = k => fetched[t] = k \/ call[t].at # "store"
      PROVE  Storing(k)' \subseteq Storing(k)
  BY <1>s, <1>k DEF Storing
<1>o. ASSUME life' = life, life # 0 => Storing(life)' \subseteq Storing(life),
             life # 0 => /\ watching'[life] \in Nat
                         /\ watching'[life] = watching[life]
                            \/ (proxy = life /\ proxy' # life /\ watching'[life] >= watching[life] - 1),
             proxy' # 0 => proxy' = proxy /\ (proxy \in notices => proxy \in notices')
      PROVE  CacheInv'
  <2>1. ASSUME life # 0
        PROVE  Cardinality(Storing(life)') + (IF proxy' = life THEN 1 ELSE 0) <= watching'[life]
    <3>1. /\ Cardinality(Storing(life)') <= Cardinality(Storing(life))
          /\ Cardinality(Storing(life)') \in Nat /\ Cardinality(Storing(life)) \in Nat
      BY <1>o, <1>f, <2>1, ThreadSets
    <3> QED
      BY <1>o, <1>i, <1>n, <2>1, <3>1
  <2> QED
    BY <2>1, <1>o, <1>i DEF CacheInv, WatchInv, DeadProxyIsDropped
<1>u. /\ life # 0 => /\ Unwatched[life] \in Nat
                     /\ Unwatched[life] = watching[life]
                        \/ (proxy = life /\ Unwatched[life] >= watching[life] - 1)
  <2>1. CASE proxy = 0 \/ life = 0
    BY <2>1, <1>n DEF Unwatched
  <2>2. CASE proxy # 0 /\ life # 0
    <3>1. proxy \in Lives /\ watching[proxy] \in Nat
      BY <2>2, <1>t DEF Lives
    <3> QED
      BY <2>2, <3>1, <1>n, <1>t DEF Unwatched
  <2> QED
    BY <2>1, <2>2
<1>1. CASE ServiceStarts
  <2>1. life = 0 /\ life' = lives + 1 /\ lives + 1 \in Lives
        /\ UNCHANGED <<proxy, watching, notices, fetched>>
    BY <1>1, <1>t DEF ServiceStarts, Lives
  <2>2. Storing(life)' = {}
    BY <2>1, <1>t DEF Storing
  <2>3. Cardinality(Storing(life)') = 0 /\ proxy' # life' /\ watching'[life'] \in Nat
    BY <2>1, <2>2, <1>t, FS_EmptySet
  <2> QED
    BY <2>1, <2>3, <1>i DEF CacheInv, WatchInv, DeadProxyIsDropped
<1>2. CASE ServiceEnds
  <2>1. /\ life # 0 /\ life' = 0 /\ proxy' = proxy
        /\ notices' = notices \union {k \in {life} : watching[k] > 0}
    BY <1>2 DEF ServiceEnds
  <2>2. proxy = life => watching[life] > 0
    BY <2>1, <1>i, <1>n, <1>f, ThreadSets
  <2> QED
    BY <2>1, <2>2, <1>i DEF CacheInv, WatchInv, DeadProxyIsDropped
<1>3. CASE RecipientMade \/ UNCHANGED cacheVars
  <2>1. UNCHANGED <<life, proxy, watching, notices, fetched>>
    BY <1>3 DEF RecipientMade, cacheVars
  <2> QED
    BY <2>1, <1>o, <1>s, <1>n
<1>4. CASE CacheUnInit /\ ~UNCHANGED cacheVars
  <2>1. /\ proxy' = 0 /\ watching' = Unwatched /\ UNCHANGED <<life, fetched>>
    BY <1>4 DEF CacheUnInit
  <2> QED
    BY <2>1, <1>o, <1>s, <1>u
<1>5. ASSUME NEW t \in Threads, GetObject(t) PROVE CacheInv'
  <2>1. /\ call[t].at = "lookup" /\ fetched' = [fetched EXCEPT ![t] = life]
        /\ UNCHANGED <<life, proxy, watching, notices>>
    BY <1>5 DEF GetObject, Fetch
  <2>2. \A u \in Threads : fetched'[u] = life => fetched[u] = life \/ call[u].at # "store"
    BY <2>1, <1>t
  <2> QED
    BY <2>1, <2>2, <1>o, <1>s, <1>n
<1>6. ASSUME NEW t \in Threads, GetCamSrv(t), StoreProxy(t) PROVE CacheInv'
  <2>1. /\ call[t].at = "store" /\ watching' = Unwatched /\ proxy' = fetched[t]
        /\ fetched' = [fetched EXCEPT ![t] = 0] /\ UNCHANGED <<life, notices>>
    BY <1>6 DEF StoreProxy, Store
  <2>2. fetched[t] = life
    BY <1>6, <2>1 DEF GetCamSrv, Unheard
  <2>3. ASSUME life # 0
        PROVE  Cardinality(Storing(life)') + 1 <= watching'[life]
    <3>1. t \in Storing(life)
      BY <2>1, <2>2 DEF Storing
    <3>2. Storing(life)' \subseteq Storing(life) \ {t}
      BY <2>1, <2>3, <1>k, <1>t DEF Storing
    <3>3. /\ Cardinality(Storing(life) \ {t}) = Cardinality(Storing(life)) - 1
          /\ Cardinality(Storing(life)) \in Nat
      BY <3>1, <1>f, ThreadSets, FS_RemoveElement
    <3>4. /\ Cardinality(Storing(life)') <= Cardinality(Storing(life) \ {t})
          /\ Cardinality(Storing(life)') \in Nat
      <4>1. Storing(life) \ {t} \in SUBSET Threads
        BY <1>f
      <4> QED
        BY <3>2, <4>1, ThreadSets
    <3> QED
      BY <3>3, <3>4, <2>1, <2>3, <1>u, <1>i, <1>n
  <2> QED
    BY <2>1, <2>2, <2>3 DEF CacheInv, WatchInv, DeadProxyIsDropped
<1>7. ASSUME NEW k \in notices, OnRemoteDied(k) PROVE CacheInv'
  <2>1. /\ notices' = notices \ {k} /\ UNCHANGED <<life, fetched>>
        /\ \/ proxy = k /\ proxy' = 0 /\ watching' = Unwatched
           \/ proxy # k /\ UNCHANGED <<proxy, watching>>
    BY <1>7 DEF OnRemoteDied
  <2> QED
    BY <2>1, <1>o, <1>s, <1>n, <1>u
<1> QED
  BY <1>1, <1>2, <1>3, <1>4, <1>5, <1>6, <1>7, CacheCases DEF CacheStep

\* A thread that watches the running service registers once for itself.
LEMMA WatchStep ==
  ASSUME Shape, CacheInv, "unheard" \notin causes, "unheard" \notin causes',
         NEW t \in Threads, GetCamSrv(t), WatchObject(t)
  PROVE  CacheInv'
<1>i. /\ life # 0 => Cardinality(Storing(life)) + (IF proxy = life THEN 1 ELSE 0) <= watching[life]
      /\ proxy # 0 => proxy = life \/ proxy \in notices
  BY DEF CacheInv, WatchInv, DeadProxyIsDropped
<1>1. /\ call' = [call EXCEPT ![t].at = "store"] /\ Watches(t)
      /\ UNCHANGED <<life, proxy, notices, fetched>>
      /\ watching' = [watching EXCEPT ![fetched[t]] = @ + 1]
  BY DEF GetCamSrv, Unheard, WatchObject, Watch, At
<1>2. ASSUME life # 0
      PROVE  Cardinality(Storing(life)') + (IF proxy' = life THEN 1 ELSE 0) <= watching'[life]
  <2>1. life \in Lives /\ watching[life] \in Nat /\ watching'[life] = watching[life] + 1
    <3>1. life \in Lives /\ watching \in [Lives -> Nat]
      BY <1>2, MaxLivesAssumption DEF Shape, TypeOK, CacheTypeOK, Lives
    <3> QED
      BY <3>1, <1>1 DEF Watches
  <2>2. Storing(life)' \subseteq Storing(life) \cup {t}
    <3>1. \A u \in Threads : u # t => call'[u] = call[u]
      BY <1>1 DEF Shape
    <3> QED
      BY <3>1, <1>1 DEF Storing
  <2>3. Storing(life) \in SUBSET Threads /\ Storing(life) \cup {t} \in SUBSET Threads
    BY DEF Storing
  <2>4. /\ Cardinality(Storing(life) \cup {t}) <= Cardinality(Storing(life)) + 1
        /\ Cardinality(Storing(life)) \in Nat
    BY <2>3, ThreadSets, FS_AddElement
  <2>5. /\ Cardinality(Storing(life)') <= Cardinality(Storing(life) \cup {t})
        /\ Cardinality(Storing(life)') \in Nat /\ Cardinality(Storing(life) \cup {t}) \in Nat
    BY <2>2, <2>3, ThreadSets
  <2> QED
    BY <2>1, <2>4, <2>5, <1>1, <1>i, <1>2
<1> QED
  BY <1>1, <1>2, <1>i DEF CacheInv, WatchInv, DeadProxyIsDropped

\* Every step keeps the registrations of the recipient with the cache.
LEMMA CacheInvStep == Shape /\ CacheInv /\ [Next]_vars => CacheInv'
<1> SUFFICES ASSUME Shape, CacheInv, [Next]_vars PROVE CacheInv'
  OBVIOUS
<1>1. CASE "unheard" \in causes'
  BY <1>1 DEF CacheInv, WatchInv, DeadProxyIsDropped
<1>2. CASE Next /\ "unheard" \notin causes'
  <2>1. "unheard" \notin causes
    BY <1>2, RestStep DEF Shape, TypeOK, RestOK
  <2> QED
    BY <1>2, <2>1, WatchStep, WatchKept
<1>3. CASE UNCHANGED vars
  BY <1>3 DEF vars, cacheVars, CacheInv, WatchInv, DeadProxyIsDropped, Storing
<1> QED
  BY <1>1, <1>2, <1>3

\* No cache keeps the proxy of a dead service without a notice on its way, for
\* any number of threads that fetch, watch and store beside each other.
THEOREM ProxiesAreDropped == Spec => []DeadProxyIsDropped
<1>1. CacheInv => DeadProxyIsDropped
  BY DEF CacheInv
<1> QED
  BY <1>1, CacheStart, CacheInvStep, ShapeInit, ShapeStep, PTL DEF Spec

----------------------------------------------------------------------------
\* What a step makes of a call, field by field.
Others(t) == \A u \in Threads \ {t} : call'[u] = call[u]
Same(t) == /\ call'[t].req = call[t].req /\ call'[t].id = call[t].id
           /\ call'[t].life = call[t].life

\* The call of a thread ends, and no other changes.
LEMMA EndedOf ==
  ASSUME Shape, NEW t \in Threads, call' = Ended(t)
  PROVE  Others(t) /\ call'[t].at = "idle"
BY DEF Ended, Others, NoCall, Shape

\* A thread begins a call with the service that runs.
LEMMA BeganOf ==
  ASSUME Shape, NEW t \in Threads, NEW p, NEW req, NEW i, call' = Began(t, p, req, i)
  PROVE  /\ Others(t) /\ call'[t].at = p /\ call'[t].req = req /\ call'[t].id = i
         /\ call'[t].served = "no" /\ call'[t].life = life
BY DEF Began, Others, NoCall, Shape

\* A call moves on, with all it had.
LEMMA AtOf ==
  ASSUME Shape, NEW t \in Threads, NEW p, At(t, p)
  PROVE  /\ Others(t) /\ Same(t) /\ call'[t].at = p /\ call'[t].served = call[t].served
         /\ call'[t].result = call[t].result /\ call'[t].lost = call[t].lost
<1>r. PICK r \in CallState : r = call[t]
  BY OwnCall
<1>a. PICK b : b = [r EXCEPT !.at = p]
  OBVIOUS
<1>b. /\ b.at = p /\ b.req = r.req /\ b.id = r.id /\ b.life = r.life /\ b.served = r.served
      /\ b.result = r.result /\ b.lost = r.lost
  BY <1>a DEF CallState
<1>c. call' = [call EXCEPT ![t] = b]
  BY <1>a, <1>r DEF At
<1> QED
  BY <1>b, <1>c, <1>r DEF Shape, Others, Same

\* A call comes back with a result, or with the want of one.
LEMMA BackOf ==
  ASSUME Shape, NEW t \in Threads, NEW x, NEW l, call' = Back(t, x, l)
  PROVE  /\ Others(t) /\ Same(t) /\ call'[t].at = "back" /\ call'[t].served = call[t].served
         /\ call'[t].result = x /\ call'[t].lost = l
<1>r. PICK r \in CallState : r = call[t]
  BY OwnCall
<1>a. PICK b : b = [r EXCEPT !.at = "back", !.result = x, !.lost = l, !.args = <<>>]
  OBVIOUS
<1>b. /\ b.at = "back" /\ b.req = r.req /\ b.id = r.id /\ b.life = r.life /\ b.served = r.served
      /\ b.result = x /\ b.lost = l
  BY <1>a DEF CallState
<1>c. call' = [call EXCEPT ![t] = b]
  BY <1>a, <1>r DEF Back
<1> QED
  BY <1>b, <1>c, <1>r DEF Shape, Others, Same

\* A call is served with a result.
LEMMA ServesOf ==
  ASSUME Shape, NEW t \in Threads, NEW x, call' = Serves(t, x)
  PROVE  Others(t) /\ Same(t) /\ call'[t].at = "served" /\ call'[t].served = x
<1>r. PICK r \in CallState : r = call[t]
  BY OwnCall
<1>a. PICK b : b = [r EXCEPT !.at = "served", !.served = x, !.args = <<>>]
  OBVIOUS
<1>b. b.at = "served" /\ b.req = r.req /\ b.id = r.id /\ b.life = r.life /\ b.served = x
  BY <1>a DEF CallState
<1>c. call' = [call EXCEPT ![t] = b]
  BY <1>a, <1>r DEF Serves
<1> QED
  BY <1>b, <1>c, <1>r DEF Shape, Others, Same

\* A proxy that is looked for is cached, or is the one the service manager has.
LEMMA GetOf ==
  ASSUME Shape, NEW t \in Threads, GetCamSrv(t)
  PROVE  /\ Others(t) /\ call[t].at \in {"lookup", "watch", "store"}
         /\ \/ call'[t].at = "idle"
            \/ /\ call'[t].at \in {"watch", "store", "send"} /\ call'[t].req = call[t].req
               /\ call'[t].id = call[t].id /\ call'[t].served = call[t].served
         /\ GetCached(t) => call'[t].at = "send" /\ call'[t].life = proxy
         /\ GetObject(t) /\ life # 0 => call'[t].at = "watch" /\ call'[t].life = life
         /\ GetObject(t) /\ life = 0 => call'[t].at = "idle"
         /\ WatchObject(t) => call'[t].at = "store" /\ call'[t].life = call[t].life
         /\ StoreProxy(t) => call'[t].at = "send" /\ call'[t].life = call[t].life
<1>r. PICK r \in CallState : r = call[t]
  BY OwnCall
<1>1. CASE GetCached(t)
  <2>a. PICK b : b = [r EXCEPT !.at = "send", !.life = proxy]
    OBVIOUS
  <2>b. b.at = "send" /\ b.req = r.req /\ b.id = r.id /\ b.life = proxy /\ b.served = r.served
    BY <2>a DEF CallState
  <2>c. call' = [call EXCEPT ![t] = b] /\ call[t].at = "lookup" /\ proxy # 0
    BY <1>1, <2>a, <1>r DEF GetCached
  <2> QED
    BY <2>b, <2>c, <1>r DEF Shape, Others, GetObject, WatchObject, StoreProxy, Fetch
<1>2. CASE GetObject(t) /\ life # 0
  <2>a. PICK b : b = [r EXCEPT !.at = "watch", !.life = life]
    OBVIOUS
  <2>b. b.at = "watch" /\ b.req = r.req /\ b.id = r.id /\ b.life = life /\ b.served = r.served
    BY <2>a DEF CallState
  <2>c. call' = [call EXCEPT ![t] = b] /\ call[t].at = "lookup" /\ proxy = 0
    BY <1>2, <2>a, <1>r DEF GetObject, Fetch
  <2> QED
    BY <1>2, <2>b, <2>c, <1>r DEF Shape, Others, GetCached, WatchObject, StoreProxy
<1>3. CASE GetObject(t) /\ life = 0
  <2>1. call' = Ended(t) /\ call[t].at = "lookup" /\ proxy = 0
    BY <1>3 DEF GetObject, Fetch
  <2> QED
    BY <1>3, <2>1, EndedOf DEF GetCached, WatchObject, StoreProxy
<1>4. CASE WatchObject(t)
  <2>1. At(t, "store") /\ call[t].at = "watch"
    BY <1>4 DEF WatchObject
  <2> QED
    BY <2>1, AtOf DEF Same, GetCached, GetObject, StoreProxy
<1>5. CASE StoreProxy(t)
  <2>1. At(t, "send") /\ call[t].at = "store"
    BY <1>5 DEF StoreProxy
  <2> QED
    BY <2>1, AtOf DEF Same, GetCached, GetObject, WatchObject
<1> QED
  BY <1>1, <1>2, <1>3, <1>4, <1>5 DEF GetCamSrv

\* A request that is sent, or comes back at once.
LEMMA SendOf ==
  ASSUME Shape, NEW t \in Threads, Send(t)
  PROVE  /\ Others(t) /\ Same(t) /\ call'[t].served = call[t].served
         /\ \/ call'[t].at = "sent" /\ call[t].life = life /\ life # 0
            \/ /\ call'[t].at = "back"
               /\ \/ call'[t].lost \/ call'[t].result = "bad" \/ ~Proxy[call[t].req].waits
<1>1. PICK args \in Checked(call[t].req) :
        \/ call' = Back(t, "bad", FALSE) \/ call' = Unanswered(t)
        \/ call' = Back(t, "ok", FALSE) /\ ~Proxy[call[t].req].waits
        \/ /\ call' = [call EXCEPT ![t].at = "sent", ![t].args = args]
           /\ call[t].life = life /\ life # 0
  BY DEF Send
<1>2. CASE call' = [call EXCEPT ![t].at = "sent", ![t].args = args] /\ call[t].life = life /\ life # 0
  <2>r. PICK r \in CallState : r = call[t]
    BY OwnCall
  <2>a. PICK b : b = [r EXCEPT !.at = "sent", !.args = args]
    OBVIOUS
  <2>b. b.at = "sent" /\ b.req = r.req /\ b.id = r.id /\ b.life = r.life /\ b.served = r.served
    BY <2>a DEF CallState
  <2>c. call' = [call EXCEPT ![t] = b]
    BY <1>2, <2>a, <2>r
  <2> QED
    BY <1>2, <2>b, <2>c, <2>r DEF Shape, Others, Same
<1>3. CASE call' = Unanswered(t)
  BY <1>3, BackOf DEF Unanswered
<1>4. CASE call' = Back(t, "bad", FALSE)
  BY <1>4, BackOf
<1>5. CASE call' = Back(t, "ok", FALSE) /\ ~Proxy[call[t].req].waits
  BY <1>5, BackOf
<1> QED
  BY <1>1, <1>2, <1>3, <1>4, <1>5

\* A reply that arrives, or the want of one.
LEMMA ReplyOf ==
  ASSUME Shape, NEW t \in Threads, Reply(t)
  PROVE  /\ Others(t) /\ Same(t) /\ call'[t].served = call[t].served
         /\ call[t].at \in {"sent", "loading", "served"} /\ call'[t].at = "back"
         /\ \/ call'[t].lost
            \/ call[t].at = "served" /\ call'[t].result = call[t].served
<1>0. /\ call[t].at \in {"sent", "loading", "served"}
      /\ \/ call' = Unanswered(t)
         \/ call' = Back(t, call[t].served, FALSE) /\ call[t].at = "served"
  BY DEF Reply
<1>1. CASE call' = Unanswered(t)
  <2>1. PICK x : call' = Back(t, x, TRUE)
    BY <1>1 DEF Unanswered
  <2>2. Others(t) /\ Same(t) /\ call'[t].served = call[t].served /\ call'[t].at = "back" /\ call'[t].lost = TRUE
    BY <2>1, BackOf
  <2> QED
    BY <1>0, <2>2
<1>2. CASE call' = Back(t, call[t].served, FALSE) /\ call[t].at = "served"
  BY <1>0, <1>2, BackOf
<1> QED
  BY <1>0, <1>1, <1>2

\* What a stub and the object behind it make of a request.
Made(t, x) ==
  /\ call' = Serves(t, x) /\ x \in {"ok", "bad"}
  /\ service.ready => service'.ready
  /\ service.asks \subseteq service'.asks
  /\ x = "ok" /\ call[t].req \in {"INIT_SOURCE", "INIT_SINK"} => service'.ready
  /\ x = "ok" /\ call[t].at = "sent" /\ call[t].req \in Registrations => call[t].id \in service'.asks

\* Every method of a stub answers with one result, or begins to load the drivers.
LEMMA ServeCases ==
  ASSUME Shape, NEW t \in Threads, Serve(t)
  PROVE  /\ UNCHANGED <<cacheVars, kitVars, pushed, causes>>
         /\ call[t].at \in {"sent", "loading"} /\ call[t].life = life
         /\ \/ \E x : Made(t, x)
            \/ At(t, "loading") /\ call[t].req = "INIT_SOURCE" /\ UNCHANGED service
<1>s. service \in ServiceState
  BY DEF Shape
<1> USE DEF Quiet, Made
<1>1. CASE StubRefuses(t)
  BY <1>1 DEF StubRefuses
<1>2. CASE InitSource(t)
  <2>1. CASE At(t, "loading") /\ UNCHANGED service
    BY <1>2, <2>1 DEF InitSource, Takes
  <2>2. CASE \E loaded \in BOOLEAN : /\ service' = [service EXCEPT !.ready = @ \/ loaded]
                                     /\ call' = Serves(t, IF loaded THEN "ok" ELSE "bad")
    <3>1. PICK loaded \in BOOLEAN : /\ service' = [service EXCEPT !.ready = @ \/ loaded]
                                    /\ call' = Serves(t, IF loaded THEN "ok" ELSE "bad")
      BY <2>2
    <3>2. service'.asks = service.asks /\ (service'.ready <=> service.ready \/ loaded)
      BY <3>1, <1>s DEF ServiceState
    <3>3. call[t].req \notin Registrations
      BY <1>2 DEF InitSource, Takes, Registrations
    <3>4. Made(t, IF loaded THEN "ok" ELSE "bad")
      BY <3>1, <3>2, <3>3
    <3> QED
      BY <1>2, <3>4 DEF InitSource, Takes
  <2> QED
    BY <1>2, <2>1, <2>2 DEF InitSource
<1>3. CASE SourceInited(t)
  <2>1. service'.asks = service.asks /\ (service'.ready <=> service.ready \/ hdf.at = "ok")
    BY <1>3, <1>s DEF SourceInited, ServiceState
  <2>2. Made(t, IF hdf.at = "ok" THEN "ok" ELSE "bad")
    BY <1>3, <2>1 DEF SourceInited
  <2> QED
    BY <1>3, <2>2 DEF SourceInited
<1>4. CASE InitSink(t)
  <2>1. PICK made \in SUBSET Cameras :
          /\ service' = [service EXCEPT !.cameras = @ \union made, !.ready = @ \/ made = Cameras]
          /\ call' = Serves(t, IF made = Cameras THEN "ok" ELSE "bad")
    BY <1>4 DEF InitSink
  <2>2. service'.asks = service.asks /\ (service'.ready <=> service.ready \/ made = Cameras)
    BY <2>1, <1>s DEF ServiceState
  <2>3. call[t].req \notin Registrations
    BY <1>4 DEF InitSink, Takes, Registrations
  <2>4. Made(t, IF made = Cameras THEN "ok" ELSE "bad")
    BY <2>1, <2>2, <2>3
  <2> QED
    BY <1>4, <2>4 DEF InitSink, Takes
<1>q. ASSUME NEW req, Takes(t, req), req \cap (Registrations \cup {"INIT_SOURCE", "INIT_SINK"}) = {},
             \E x \in {"ok", "bad"} : call' = Serves(t, x), UNCHANGED <<cacheVars, kitVars, pushed, causes>>,
             service' = service \/ service' = [service EXCEPT !.cameras = {}]
      PROVE  /\ call[t].at = "sent" /\ call[t].life = life
             /\ \E x : Made(t, x)
  <2>1. service'.asks = service.asks /\ (service'.ready <=> service.ready)
    BY <1>q, <1>s DEF ServiceState
  <2>2. call[t].req \notin Registrations \cup {"INIT_SOURCE", "INIT_SINK"}
    BY <1>q DEF Takes
  <2> QED
    BY <1>q, <2>1, <2>2 DEF Takes
<1> DEFINE Init2 == Registrations \cup {"INIT_SOURCE", "INIT_SINK"}
<1>5. CASE ReleaseSource(t)
  <2>1. {"RELEASE_SOURCE"} \cap Init2 = {}
    BY DEF Registrations
  <2> QED
    BY <1>5, <2>1, <1>q DEF ReleaseSource
<1>6. CASE ReleaseSink(t)
  <2>1. {"RELEASE_SINK"} \cap Init2 = {}
    BY DEF Registrations
  <2> QED
    BY <1>6, <2>1, <1>q DEF ReleaseSink
<1>7. CASE Register(t)
  <2>1. PICK x \in {"ok", "bad"} : /\ call' = Serves(t, x)
                                   /\ service' = IF x = "ok" THEN [service EXCEPT !.asks = @ \union {call[t].id}] ELSE service
    BY <1>7 DEF Register
  <2>2. /\ service'.ready = service.ready /\ service.asks \subseteq service'.asks
        /\ x = "ok" => call[t].id \in service'.asks
    BY <2>1, <1>s DEF ServiceState
  <2>3. call[t].req \notin {"INIT_SOURCE", "INIT_SINK"}
    BY <1>7 DEF Register, Takes, Registrations
  <2>4. Made(t, x)
    BY <2>1, <2>2, <2>3
  <2> QED
    BY <1>7, <2>4 DEF Register, Takes
<1>8. CASE OfDevice(t)
  <2>1. ({"SUBSCRIBE_LOCAL_HARDWARE", "UNSUBSCRIBE_LOCAL_HARDWARE"} \union ToSink) \cap Init2 = {}
    BY DEF Registrations, ToSink
  <2>2. \E x \in {"ok", "bad"} : call' = Serves(t, x)
    BY <1>8 DEF OfDevice
  <2> QED
    BY <1>8, <2>1, <2>2, <1>q DEF OfDevice
<1>9. CASE OfConnected(t)
  <2>1. {"PAUSE_DISTRIBUTED_HARDWARE", "RESUME_DISTRIBUTED_HARDWARE", "STOP_DISTRIBUTED_HARDWARE"} \cap Init2 = {}
    BY DEF Registrations
  <2>2. \E x \in {"ok", "bad"} : call' = Serves(t, x)
    BY <1>9 DEF OfConnected
  <2> QED
    BY <1>9, <2>1, <2>2, <1>q DEF OfConnected
<1>10. CASE OfAccess(t)
  <2>1. DOMAIN AccessService \cap Init2 = {}
    BY DEF Registrations, AccessService
  <2> QED
    BY <1>10, <2>1, <1>q DEF OfAccess
<1>11. CASE OfSource(t)
  <2>1. {"CAMERA_NOTIFY", "UPDATE_WORKMODE"} \cap Init2 = {}
    BY DEF Registrations
  <2> QED
    BY <1>11, <2>1, <1>q DEF OfSource
<1>12. CASE OfCallback(t)
  <2>1. (DOMAIN SourceCallbackProxy \union DOMAIN SinkCallbackProxy) \cap Init2 = {}
    BY DEF Registrations, SourceCallbackProxy, SinkCallbackProxy
  <2> QED
    BY <1>12, <2>1, <1>q DEF OfCallback
<1> QED
  BY <1>1, <1>2, <1>3, <1>4, <1>5, <1>6, <1>7, <1>8, <1>9, <1>10, <1>11, <1>12 DEF Serve

----------------------------------------------------------------------------
\* The handler that is started and its service.
Live == {"send", "sent", "loading", "served", "back"}

\* A load's callback makes the one call of its thread, of a service that has been
\* started; what is fetched is that service, and nothing is answered before it is served.
ThreadInv(t) ==
  /\ t \in Loads => /\ (call[t].at = "idle") <=> (loads[t] # "calling")
                    /\ call[t].at # "idle" => call[t].req = InitRequest
                    /\ call[t].at \in Live => call[t].life \in 1 .. lives
  /\ call[t].at \in {"watch", "store"} => fetched[t] # 0 /\ call[t].life = fetched[t]
  /\ call[t].at \in {"lookup", "watch", "store", "send", "sent", "loading"} => call[t].served = "no"
LoadsInv == \A t \in Threads : ThreadInv(t)

\* Deaths are those of services that ran; who waits or is started is a kit, whose
\* client does nothing while it waits.
KitInv ==
  /\ life \notin notices /\ notices \subseteq 1 .. lives
  /\ waiting # {} => Kit /\ call[Client].at = "idle"
  /\ (\E l \in Loads : loads[l] # "idle") \/ started => Kit

\* A load that is waited for calls the service its proxy is cached of.
Reaches(l) ==
  call[l].at \in Live /\ call[l].life = life =>
    proxy = life /\ (call[l].served = "ok" => service.ready)
WaitedInv == \A l \in waiting : Reaches(l)

\* A started handler caches the running service, or one of whose death it will hear
\* while no thread holds the object of the one that runs; a release that has dropped the
\* proxy will stop it.
Holds(t) == call[t].at \in {"watch", "store"} /\ fetched[t] = life /\ life # 0
Releasing == call[Client].at = "uninit"
StartedInv ==
  started => \/ Releasing
             \/ proxy # 0 /\ proxy = life /\ service.ready
             \/ proxy # 0 /\ proxy \in notices /\ \A t \in Threads : ~Holds(t)

Regular == causes \cap {"unheard", "unready"} = {}
HandlerInv == LoadsInv /\ KitInv /\ (Regular => WaitedInv /\ StartedInv)

\* Types that the steps below use, and what never changes.
LEMMA HandlerTypes ==
  ASSUME Shape
  PROVE  /\ life \in 0 .. lives /\ lives \in Nat /\ proxy \in 0 .. lives
         /\ fetched \in [Threads -> 0 .. lives] /\ notices \subseteq Lives
         /\ loads \in [Loads -> {"idle", "asked", "calling"}] /\ waiting \subseteq Loads
         /\ Client \in Threads /\ Client \notin Loads /\ Loads \subseteq Threads
BY ThreadsAssumption, MaxLivesAssumption DEF Shape, TypeOK, CacheTypeOK

\* The pair of client and service never changes, and the history only grows.
LEMMA SideKept ==
  ASSUME Shape, Next
  PROVE  /\ (Kit' <=> Kit) /\ InitRequest' = InitRequest /\ ReleaseRequest' = ReleaseRequest
         /\ (SourceKit' <=> SourceKit) /\ causes \subseteq causes'
<1>1. side' = side /\ causes \subseteq causes'
  BY RestStep DEF Shape, TypeOK, RestOK
<1> QED
  BY <1>1 DEF Kit, SourceKit, InitRequest, ReleaseRequest

\* Every step keeps what a thread's call says of it.
LEMMA LoadsStep ==
  ASSUME Shape, LoadsInv, Next
  PROVE  LoadsInv'
<1>t. /\ life \in 0 .. lives /\ lives \in Nat /\ proxy \in 0 .. lives
      /\ fetched \in [Threads -> 0 .. lives]
      /\ loads \in [Loads -> {"idle", "asked", "calling"}]
      /\ Client \in Threads /\ Client \notin Loads /\ Loads \subseteq Threads
  BY HandlerTypes
<1>e. InitRequest' = InitRequest
  BY SideKept
<1>k. ASSUME UNCHANGED call, UNCHANGED fetched, lives' \in Nat, lives' >= lives,
             \A l \in Loads : (loads'[l] = "calling") <=> (loads[l] = "calling")
      PROVE  LoadsInv'
  BY <1>k, <1>t, <1>e DEF LoadsInv, ThreadInv, Live
<1>m. ASSUME NEW t \in Threads, Others(t), lives' = lives,
             \A l \in Loads \ {t} : loads'[l] = loads[l],
             \A u \in Threads \ {t} : fetched'[u] = fetched[u],
             ThreadInv(t)'
      PROVE  LoadsInv'
  BY <1>m, <1>e DEF LoadsInv, ThreadInv, Others
<1>1. CASE InitKit
  BY <1>1, <1>k, <1>t DEF InitKit, cacheVars
<1>2. CASE InitKitReturns \/ Driver
  BY <1>2, <1>k, <1>t DEF InitKitReturns, Driver, cacheVars, kitVars
<1>3. CASE AbilityStarts \/ AbilityEnds
  BY <1>3, <1>k, <1>t DEF AbilityStarts, AbilityEnds, ServiceStarts, ServiceEnds, kitVars
<1>4. CASE HolderStarts \/ HolderStops
  BY <1>4, <1>k, <1>t DEF HolderStarts, HolderStops, RecipientMade, CacheUnInit, cacheVars, kitVars
<1>5. ASSUME NEW r \in service.asks, Answer(r) PROVE LoadsInv'
  BY <1>5, <1>k, <1>t DEF Answer, cacheVars, kitVars
<1>6. ASSUME NEW k \in notices, OnCamSrvDied(k) PROVE LoadsInv'
  BY <1>6, <1>k, <1>t DEF OnCamSrvDied, OnRemoteDied
<1>7. ASSUME NEW l \in Loads, FinishStartSA(l) PROVE LoadsInv'
  <2>1. Others(l) /\ call'[l].at = "lookup" /\ call'[l].req = InitRequest /\ call'[l].served = "no"
    BY <1>7, <1>t, BeganOf DEF FinishStartSA
  <2>2. loads'[l] = "calling" /\ \A m \in Loads \ {l} : loads'[m] = loads[m]
    BY <1>7, <1>t DEF FinishStartSA
  <2>3. UNCHANGED <<lives, fetched>>
    BY <1>7 DEF FinishStartSA, RecipientMade
  <2> QED
    BY <2>1, <2>2, <2>3, <1>t, <1>m, <1>e DEF ThreadInv, Live
<1>8. ASSUME NEW l \in Loads, FinishStartSAFailed(l) PROVE LoadsInv'
  BY <1>8, <1>k, <1>t DEF FinishStartSAFailed, cacheVars
<1>9. CASE Ask
  <2>1. UNCHANGED <<lives, fetched, loads>>
    BY <1>9 DEF Ask, cacheVars, kitVars
  <2>2. CASE UNCHANGED call
    BY <2>1, <2>2, <1>k, <1>t
  <2>3. CASE \E p \in {"send", "lookup"} : \E req, i : call' = Began(Client, p, req, i)
    <3>1. Others(Client) /\ call'[Client].at \in {"send", "lookup"} /\ call'[Client].served = "no"
      BY <2>3, <1>t, BeganOf
    <3> QED
      BY <2>1, <3>1, <1>t, <1>m DEF ThreadInv
  <2> QED
    BY <1>9, <2>2, <2>3 DEF Ask
<1>10. ASSUME NEW t \in Threads, GetCamSrv(t) PROVE LoadsInv'
  <2>1. /\ Others(t) /\ call[t].at \in {"lookup", "watch", "store"}
        /\ \/ call'[t].at = "idle"
           \/ /\ call'[t].at \in {"watch", "store", "send"} /\ call'[t].req = call[t].req
              /\ call'[t].served = call[t].served
        /\ GetCached(t) => call'[t].at = "send" /\ call'[t].life = proxy
        /\ GetObject(t) /\ life # 0 => call'[t].at = "watch" /\ call'[t].life = life
        /\ GetObject(t) /\ life = 0 => call'[t].at = "idle"
        /\ WatchObject(t) => call'[t].at = "store" /\ call'[t].life = call[t].life
        /\ StoreProxy(t) => call'[t].at = "send" /\ call'[t].life = call[t].life
    BY <1>10, GetOf
  <2>i. ThreadInv(t)
    BY DEF LoadsInv
  <2>2. CASE GetCached(t)
    <3>1. proxy # 0 /\ UNCHANGED <<lives, fetched, loads>>
      BY <2>2 DEF GetCached, cacheVars
    <3> QED
      BY <3>1, <2>1, <2>2, <2>i, <1>t, <1>m, <1>e DEF ThreadInv, Live
  <2>3. CASE GetObject(t)
    <3>1. /\ lives' = lives /\ fetched' = [fetched EXCEPT ![t] = life]
          /\ loads' = IF life = 0 /\ t \in Loads THEN [loads EXCEPT ![t] = "idle"] ELSE loads
      BY <2>3 DEF GetObject, Fetch
    <3>2. /\ \A l \in Loads \ {t} : loads'[l] = loads[l]
          /\ \A u \in Threads \ {t} : fetched'[u] = fetched[u]
          /\ fetched'[t] = life
          /\ t \in Loads => loads'[t] = IF life = 0 THEN "idle" ELSE loads[t]
      BY <3>1, <1>t
    <3>3. ThreadInv(t)'
      <4>1. CASE life = 0
        BY <4>1, <3>2, <2>1, <2>3 DEF ThreadInv, Live
      <4>2. CASE life # 0
        BY <4>2, <3>2, <2>1, <2>3, <2>i, <1>e DEF ThreadInv, Live
      <4> QED
        BY <4>1, <4>2
    <3> QED
      BY <3>1, <3>2, <3>3, <2>1, <1>m
  <2>4. CASE WatchObject(t)
    <3>1. UNCHANGED <<lives, fetched, loads>> /\ call[t].at = "watch"
      BY <2>4 DEF WatchObject, Watch
    <3> QED
      BY <3>1, <2>1, <2>4, <2>i, <1>t, <1>m, <1>e DEF ThreadInv, Live
  <2>5. CASE StoreProxy(t)
    <3>1. /\ lives' = lives /\ loads' = loads /\ call[t].at = "store"
          /\ \A u \in Threads \ {t} : fetched'[u] = fetched[u]
      BY <2>5, <1>t DEF StoreProxy, Store
    <3>2. call[t].life \in 1 .. lives
      BY <3>1, <2>i, <1>t DEF ThreadInv
    <3> QED
      BY <3>1, <3>2, <2>1, <2>5, <2>i, <1>t, <1>m, <1>e DEF ThreadInv, Live
  <2> QED
    BY <1>10, <2>2, <2>3, <2>4, <2>5 DEF GetCamSrv
<1>11. ASSUME NEW t \in Threads, Send(t) \/ Reply(t) PROVE LoadsInv'
  <2>1. /\ Others(t) /\ Same(t) /\ call'[t].served = call[t].served
        /\ call[t].at \in Live \ {"back"} /\ call'[t].at \in {"sent", "back"}
        /\ call'[t].at = "sent" => call[t].at = "send"
    BY <1>11, SendOf, ReplyOf DEF Live, Send
  <2>2. UNCHANGED <<lives, fetched, loads>>
    BY <1>11 DEF Send, Reply, cacheVars, kitVars
  <2>i. ThreadInv(t)
    BY DEF LoadsInv
  <2> QED
    BY <2>1, <2>2, <2>i, <1>t, <1>m, <1>e DEF ThreadInv, Live, Same
<1>12. ASSUME NEW t \in Threads, Serve(t) PROVE LoadsInv'
  <2>1. UNCHANGED <<lives, fetched, loads>> /\ call[t].at \in {"sent", "loading"}
    BY <1>12, ServeCases DEF cacheVars, kitVars
  <2>2. /\ Others(t) /\ Same(t)
        /\ \/ call'[t].at = "served"
           \/ call'[t].at = "loading" /\ call'[t].served = call[t].served
    BY <1>12, ServeCases, AtOf, ServesOf DEF Made
  <2>i. ThreadInv(t)
    BY DEF LoadsInv
  <2> QED
    BY <2>1, <2>2, <2>i, <1>t, <1>m, <1>e DEF ThreadInv, Live, Same
<1>13. ASSUME NEW l \in Loads, StartEnds(l) PROVE LoadsInv'
  <2>1. Others(l) /\ call'[l].at = "idle"
    BY <1>13, <1>t, EndedOf DEF StartEnds
  <2>2. /\ UNCHANGED <<lives, fetched>> /\ loads'[l] = "idle"
        /\ \A m \in Loads \ {l} : loads'[m] = loads[m]
    BY <1>13, <1>t DEF StartEnds, cacheVars
  <2> QED
    BY <2>1, <2>2, <1>t, <1>m DEF ThreadInv, Live
<1>14. CASE ReleaseReturns \/ ReleaseEnds \/ RegisterEnds \/ RequestEnds
  <2>1. Others(Client) /\ call'[Client].at \in {"idle", "uninit"}
    BY <1>14, <1>t, EndedOf, AtOf DEF ReleaseReturns, ReleaseEnds, RegisterEnds, RequestEnds
  <2>2. UNCHANGED <<lives, fetched, loads>>
    BY <1>14 DEF ReleaseReturns, ReleaseEnds, RegisterEnds, RequestEnds, CacheUnInit, cacheVars, kitVars
  <2> QED
    BY <2>1, <2>2, <1>t, <1>m DEF ThreadInv
<1> QED
  BY <1>1, <1>2, <1>3, <1>4, <1>5, <1>6, <1>7, <1>8, <1>9, <1>10, <1>11, <1>12, <1>13, <1>14 DEF Next

\* Every step keeps what the handler's own variables say.
LEMMA KitStep ==
  ASSUME Shape, LoadsInv, KitInv, Next
  PROVE  KitInv'
<1>t. /\ life \in 0 .. lives /\ lives \in Nat /\ proxy \in 0 .. lives
      /\ waiting \subseteq Loads
      /\ Client \in Threads /\ Client \notin Loads /\ Loads \subseteq Threads
  BY HandlerTypes
<1>e. Kit' <=> Kit
  BY SideKept
<1> DEFINE NoticesOK == life \notin notices /\ notices \subseteq 1 .. lives
           WaitOK == waiting # {} => Kit /\ call[Client].at = "idle"
<1>n. NoticesOK'
  <2>1. CASE UNCHANGED cacheVars \/ RecipientMade
    BY <2>1 DEF cacheVars, RecipientMade, KitInv
  <2>2. CASE ServiceStarts
    BY <2>2, <1>t DEF ServiceStarts, KitInv
  <2>3. CASE ServiceEnds
    <3>1. life # 0 /\ life' = 0 /\ lives' = lives /\ notices' \subseteq notices \cup {life}
      BY <2>3 DEF ServiceEnds
    <3>2. life \in 1 .. lives
      BY <3>1, <1>t
    <3>3. notices' \subseteq 1 .. lives
      BY <3>1, <3>2 DEF KitInv
    <3>4. 0 \notin 1 .. lives
      BY <1>t
    <3> QED
      BY <3>1, <3>3, <3>4
  <2>4. CASE CacheUnInit
    <3>1. UNCHANGED <<life, lives>> /\ notices' \subseteq notices
      BY <2>4 DEF CacheUnInit, cacheVars
    <3> QED
      BY <3>1 DEF KitInv
  <2>5. ASSUME NEW t \in Threads, GetObject(t) \/ WatchObject(t) \/ StoreProxy(t) PROVE NoticesOK'
    BY <2>5 DEF GetObject, WatchObject, StoreProxy, Fetch, Watch, Store, KitInv
  <2>6. ASSUME NEW k \in notices, OnRemoteDied(k) PROVE NoticesOK'
    BY <2>6 DEF OnRemoteDied, KitInv
  <2> QED
    BY <2>1, <2>2, <2>3, <2>4, <2>5, <2>6, CacheCases DEF CacheStep
<1>w. WaitOK'
  <2>1. CASE UNCHANGED <<waiting, call>>
    BY <2>1, <1>e DEF KitInv
  <2>2. CASE InitKit \/ InitKitReturns
    BY <2>2, <1>e DEF InitKit, InitKitReturns
  <2>3. CASE Ask
    BY <2>3 DEF Ask, kitVars
  <2>4. ASSUME NEW t \in Threads, waiting' = waiting, Others(t), t \in Loads \/ call'[t].at = "idle" \/ call[t].at # "idle"
        PROVE  WaitOK'
    BY <2>4, <1>e, <1>t DEF KitInv, Others
  <2>5. ASSUME NEW l \in Loads, FinishStartSA(l) \/ StartEnds(l) PROVE WaitOK'
    <3>1. Others(l)
      BY <2>5, <1>t, BeganOf, EndedOf DEF FinishStartSA, StartEnds
    <3> QED
      BY <2>5, <3>1, <2>4, <1>t DEF FinishStartSA, StartEnds
  <2>6. ASSUME NEW t \in Threads, GetCamSrv(t) PROVE WaitOK'
    BY <2>6, GetOf, <2>4 DEF GetCamSrv
  <2>7. ASSUME NEW t \in Threads, Send(t) PROVE WaitOK'
    BY <2>7, SendOf, <2>4 DEF Send, kitVars
  <2>8. ASSUME NEW t \in Threads, Reply(t) PROVE WaitOK'
    BY <2>8, ReplyOf, <2>4 DEF Reply, kitVars
  <2>9. ASSUME NEW t \in Threads, Serve(t) PROVE WaitOK'
    <3>1. Others(t) /\ waiting' = waiting /\ call[t].at # "idle"
      BY <2>9, ServeCases, AtOf, ServesOf DEF Made, kitVars
    <3> QED
      BY <3>1, <2>4
  <2>10. CASE ReleaseReturns \/ ReleaseEnds \/ RegisterEnds \/ RequestEnds
    BY <2>10, <1>t, EndedOf, AtOf, <2>4 DEF ReleaseReturns, ReleaseEnds, RegisterEnds, RequestEnds, kitVars
  <2>11. CASE AbilityStarts \/ AbilityEnds \/ HolderStarts \/ HolderStops \/ Driver
    BY <2>11, <2>1 DEF AbilityStarts, AbilityEnds, HolderStarts, HolderStops, Driver, kitVars
  <2>12. ASSUME NEW l \in Loads, FinishStartSAFailed(l) PROVE WaitOK'
    BY <2>12, <2>1 DEF FinishStartSAFailed
  <2>13. ASSUME NEW r \in service.asks, Answer(r) PROVE WaitOK'
    BY <2>13, <2>1 DEF Answer, kitVars
  <2>14. ASSUME NEW k \in notices, OnCamSrvDied(k) PROVE WaitOK'
    BY <2>14, <2>1 DEF OnCamSrvDied
  <2> QED
    BY <2>2, <2>3, <2>5, <2>6, <2>7, <2>8, <2>9, <2>10, <2>11, <2>12, <2>13, <2>14 DEF Next
<1>s. ((\E l \in Loads : loads[l] # "idle") \/ started => Kit)'
  <2> DEFINE Busy == (\E l \in Loads : loads[l] # "idle") \/ started
  <2>1. ASSUME UNCHANGED loads, started' => started PROVE Busy' => Kit'
    BY <2>1, <1>e DEF KitInv
  <2>2. CASE InitKit
    BY <2>2, <1>e DEF InitKit
  <2>3. ASSUME NEW l \in Loads, loads[l] # "idle" PROVE Busy' => Kit'
    BY <2>3, <1>e DEF KitInv
  <2>4. ASSUME NEW l \in Loads, FinishStartSA(l) \/ FinishStartSAFailed(l) PROVE Busy' => Kit'
    BY <2>4, <2>3 DEF FinishStartSA, FinishStartSAFailed
  <2>5. ASSUME NEW l \in Loads, StartEnds(l) PROVE Busy' => Kit'
    <3>1. loads[l] = "calling"
      BY <2>5, <1>t DEF StartEnds, LoadsInv, ThreadInv
    <3> QED
      BY <3>1, <2>3
  <2>6. ASSUME NEW t \in Threads, GetCamSrv(t) PROVE Busy' => Kit'
    <3>1. CASE UNCHANGED loads
      BY <2>6, <3>1, <2>1 DEF GetCamSrv
    <3>2. CASE ~UNCHANGED loads
      <4>1. t \in Loads /\ call[t].at = "lookup"
        BY <2>6, <3>2 DEF GetCamSrv, GetCached, GetObject, WatchObject, StoreProxy
      <4>2. loads[t] = "calling"
        BY <4>1, <1>t DEF LoadsInv, ThreadInv
      <4> QED
        BY <4>1, <4>2, <2>3
    <3> QED
      BY <3>1, <3>2
  <2>7. ASSUME NEW t \in Threads, Send(t) \/ Reply(t) PROVE Busy' => Kit'
    BY <2>7, <2>1 DEF Send, Reply, kitVars
  <2>8. ASSUME NEW t \in Threads, Serve(t) PROVE Busy' => Kit'
    BY <2>8, ServeCases, <2>1 DEF kitVars
  <2>9. CASE ReleaseReturns \/ ReleaseEnds \/ RegisterEnds \/ RequestEnds
    BY <2>9, <2>1 DEF ReleaseReturns, ReleaseEnds, RegisterEnds, RequestEnds, kitVars
  <2>10. CASE InitKitReturns \/ Ask \/ AbilityStarts \/ AbilityEnds \/ HolderStarts \/ HolderStops \/ Driver
    BY <2>10, <2>1 DEF InitKitReturns, Ask, AbilityStarts, AbilityEnds, HolderStarts, HolderStops, Driver, kitVars
  <2>11. ASSUME NEW r \in service.asks, Answer(r) PROVE Busy' => Kit'
    BY <2>11, <2>1 DEF Answer, kitVars
  <2>12. ASSUME NEW k \in notices, OnCamSrvDied(k) PROVE Busy' => Kit'
    BY <2>12, <2>1 DEF OnCamSrvDied
  <2> QED
    BY <2>2, <2>4, <2>5, <2>6, <2>7, <2>8, <2>9, <2>10, <2>11, <2>12 DEF Next
<1> QED
  BY <1>n, <1>w, <1>s DEF KitInv

\* Every step of a regular behaviour keeps what a waited load and a started handler
\* have of the service.
LEMMA HandlerStep ==
  ASSUME Shape, CacheInv', LoadsInv, KitInv, WaitedInv, StartedInv, Next,
         "unheard" \notin causes', "unready" \notin causes'
  PROVE  WaitedInv' /\ StartedInv'
<1>t. /\ life \in 0 .. lives /\ lives \in Nat /\ proxy \in 0 .. lives
      /\ fetched \in [Threads -> 0 .. lives]
      /\ loads \in [Loads -> {"idle", "asked", "calling"}] /\ waiting \subseteq Loads
      /\ Client \in Threads /\ Client \notin Loads /\ Loads \subseteq Threads
  BY HandlerTypes
<1>e. Kit' <=> Kit
  BY SideKept
<1>i. ASSUME NEW t \in Threads PROVE ThreadInv(t)
  BY DEF LoadsInv
<1>m. ASSUME NEW t \in Threads, Others(t), UNCHANGED <<life, proxy, notices, waiting, fetched>>,
             started' => started, service.ready => service'.ready,
             t \in waiting => Reaches(t)', Holds(t)' => Holds(t) \/ proxy = life,
             call[t].at # "uninit"
      PROVE  WaitedInv' /\ StartedInv'
  <2>1. WaitedInv'
    BY <1>m, <1>t DEF WaitedInv, Reaches, Others
  <2>2. ASSUME NEW u \in Threads, Holds(u)' PROVE Holds(u) \/ proxy = life
    BY <1>m, <2>2 DEF Holds, Others
  <2>3. Releasing => Releasing'
    BY <1>m, <1>t DEF Others, Releasing
  <2>4. CASE proxy = life /\ started'
    BY <1>m, <2>1, <2>3, <2>4 DEF StartedInv, KitInv
  <2>5. CASE proxy # life
    BY <1>m, <2>1, <2>2, <2>3, <2>5 DEF StartedInv
  <2> QED
    BY <2>1, <2>4, <2>5 DEF StartedInv
<1>k. ASSUME UNCHANGED <<life, proxy, notices, call, fetched>>, waiting' \subseteq waiting,
             started' => started, service.ready => service'.ready
      PROVE  WaitedInv' /\ StartedInv'
  BY <1>k DEF WaitedInv, StartedInv, Reaches, Holds, Releasing
<1>1. CASE InitKit
  <2>1. PICK l \in Loads : loads[l] = "idle" /\ waiting' = {l}
    BY <1>1 DEF InitKit
  <2>2. call[l].at = "idle"
    BY <2>1, <1>t, <1>i DEF ThreadInv
  <2>3. ~started' /\ UNCHANGED call
    BY <1>1 DEF InitKit
  <2> QED
    BY <2>1, <2>2, <2>3 DEF WaitedInv, StartedInv, Reaches, Live
<1>2. CASE InitKitReturns \/ Driver
  BY <1>2, <1>k DEF InitKitReturns, Driver, cacheVars, kitVars
<1>3. CASE AbilityStarts
  <2>1. /\ life = 0 /\ life' = lives + 1 /\ UNCHANGED <<proxy, notices, fetched, call, waiting, started>>
    BY <1>3 DEF AbilityStarts, ServiceStarts, kitVars
  <2>2. ASSUME NEW t \in Threads PROVE ~Holds(t)'
    BY <2>1, <1>t DEF Holds
  <2>3. ASSUME NEW l \in Loads PROVE Reaches(l)'
    BY <2>1, <1>t, <1>i DEF ThreadInv, Reaches
  <2> QED
    BY <2>1, <2>2, <2>3, <1>t DEF WaitedInv, StartedInv, Releasing
<1>4. CASE AbilityEnds
  <2>1. /\ life # 0 /\ life' = 0 /\ UNCHANGED <<proxy, call, waiting, started>>
    BY <1>4 DEF AbilityEnds, ServiceEnds, kitVars
  <2>2. ASSUME NEW l \in Loads PROVE Reaches(l)'
    BY <2>1, <1>t, <1>i DEF ThreadInv, Reaches
  <2>3. proxy' # 0 => proxy' \in notices'
    BY <2>1 DEF CacheInv, DeadProxyIsDropped
  <2> QED
    BY <2>1, <2>2, <2>3, <1>t DEF WaitedInv, StartedInv, Holds, Releasing
<1>5. CASE HolderStarts \/ HolderStops
  <2>1. ~Kit /\ UNCHANGED <<started, waiting>>
    BY <1>5 DEF HolderStarts, HolderStops, kitVars
  <2> QED
    BY <2>1 DEF KitInv, WaitedInv, StartedInv
<1>6. ASSUME NEW r \in service.asks, Answer(r) PROVE WaitedInv' /\ StartedInv'
  <2>1. service'.ready = service.ready
    BY <1>6 DEF Answer, Shape, ServiceState
  <2> QED
    BY <1>6, <2>1, <1>k DEF Answer, cacheVars, kitVars
<1>7. ASSUME NEW k \in notices, OnCamSrvDied(k) PROVE WaitedInv' /\ StartedInv'
  <2>1. /\ notices' = notices \ {k} /\ UNCHANGED <<life, fetched, call, waiting, service>>
        /\ started' = (started /\ ~(Kit /\ proxy = k))
        /\ proxy # k => proxy' = proxy
    BY <1>7 DEF OnCamSrvDied, OnRemoteDied
  <2>2. k # life
    BY <1>7 DEF KitInv
  <2>3. ASSUME NEW l \in waiting, call[l].at \in Live, call[l].life = life PROVE proxy' = life
    BY <2>1, <2>2, <2>3 DEF WaitedInv, Reaches
  <2>4. started' => started /\ proxy' = proxy /\ proxy # k
    BY <2>1 DEF KitInv
  <2> QED
    BY <2>1, <2>2, <2>3, <2>4 DEF WaitedInv, StartedInv, Reaches, Holds, Releasing
<1>8. ASSUME NEW l \in Loads, FinishStartSA(l) PROVE WaitedInv' /\ StartedInv'
  <2>1. Others(l) /\ call'[l].at = "lookup"
    BY <1>8, <1>t, BeganOf DEF FinishStartSA
  <2>2. UNCHANGED <<life, proxy, notices, waiting, fetched, started, service>>
    BY <1>8 DEF FinishStartSA, RecipientMade
  <2>3. call[l].at = "idle"
    BY <1>8, <1>t, <1>i DEF FinishStartSA, ThreadInv
  <2> QED
    BY <2>1, <2>2, <2>3, <1>t, <1>m DEF Reaches, Holds, Live
<1>9. ASSUME NEW l \in Loads, FinishStartSAFailed(l) PROVE WaitedInv' /\ StartedInv'
  BY <1>9, <1>k DEF FinishStartSAFailed, cacheVars
<1>10. CASE Ask
  <2>1. waiting' = {} /\ UNCHANGED <<life, proxy, notices, waiting, fetched, started, service>>
    BY <1>10 DEF Ask, cacheVars, kitVars
  <2>2. CASE UNCHANGED call
    BY <2>1, <2>2, <1>k
  <2>3. call[Client].at = "idle"
    BY <1>10 DEF Ask
  <2>4. CASE \E p \in {"send", "lookup"} : \E req, i : call' = Began(Client, p, req, i)
    <3>1. Others(Client) /\ call'[Client].at \in {"send", "lookup"}
      BY <2>4, <1>t, BeganOf
    <3> QED
      BY <2>1, <2>3, <3>1, <1>t, <1>m DEF Holds
  <2> QED
    BY <1>10, <2>2, <2>4 DEF Ask
<1>11. ASSUME NEW t \in Threads, GetCamSrv(t) PROVE WaitedInv' /\ StartedInv'
  <2>1. /\ Others(t) /\ call[t].at \in {"lookup", "watch", "store"}
        /\ \/ call'[t].at = "idle"
           \/ call'[t].at \in {"watch", "store", "send"} /\ call'[t].served = call[t].served
        /\ GetCached(t) => call'[t].at = "send" /\ call'[t].life = proxy
        /\ GetObject(t) /\ life # 0 => call'[t].at = "watch" /\ call'[t].life = life
        /\ GetObject(t) /\ life = 0 => call'[t].at = "idle"
        /\ WatchObject(t) => call'[t].at = "store" /\ call'[t].life = call[t].life
        /\ StoreProxy(t) => call'[t].at = "send" /\ call'[t].life = call[t].life
    BY <1>11, GetOf
  <2>2. UNCHANGED <<waiting, started, service>> /\ call[t].served = "no"
    BY <1>11, <2>1, <1>i DEF GetCamSrv, ThreadInv
  <2>3. CASE GetCached(t)
    <3>1. UNCHANGED <<life, proxy, notices, fetched>>
      BY <2>3 DEF GetCached, cacheVars
    <3> QED
      BY <3>1, <2>1, <2>2, <2>3, <1>m DEF Reaches, Holds
  <2>4. CASE GetObject(t)
    <3>1. /\ UNCHANGED <<life, proxy, notices>> /\ proxy = 0
          /\ \A u \in Threads \ {t} : fetched'[u] = fetched[u]
      BY <2>4, <1>t DEF GetObject, Fetch
    <3>2. ~started' \/ Releasing'
      BY <3>1, <2>1, <2>2, <1>t DEF StartedInv, Releasing, Others
    <3>3. WaitedInv'
      BY <3>1, <2>1, <2>2, <2>4, <1>t DEF WaitedInv, Reaches, Others, Live
    <3> QED
      BY <3>2, <3>3 DEF StartedInv
  <2>5. CASE WatchObject(t)
    <3>1. UNCHANGED <<life, proxy, notices, fetched>> /\ call[t].at = "watch"
      BY <2>5 DEF WatchObject, Watch
    <3> QED
      BY <3>1, <2>1, <2>2, <2>5, <1>m DEF Reaches, Holds, Live
  <2>6. CASE StoreProxy(t)
    <3>1. /\ UNCHANGED <<life, notices>> /\ proxy' = fetched[t] /\ call[t].at = "store"
          /\ \A u \in Threads \ {t} : fetched'[u] = fetched[u]
      BY <2>6, <1>t DEF StoreProxy, Store
    <3>2. fetched[t] = life /\ life # 0
      BY <3>1, <1>11, <1>i DEF GetCamSrv, Unheard, ThreadInv
    <3>3. Holds(t)
      BY <3>1, <3>2 DEF Holds
    <3>4. started => Releasing \/ (proxy = life /\ service.ready)
      BY <3>3 DEF StartedInv
    <3>5. Releasing => Releasing'
      BY <3>1, <2>1, <1>t DEF Releasing, Others
    <3>6. WaitedInv'
      BY <3>1, <3>2, <2>1, <2>2, <2>6, <1>t DEF WaitedInv, Reaches, Others
    <3> QED
      BY <3>1, <3>2, <3>4, <3>5, <3>6, <2>2 DEF StartedInv
  <2> QED
    BY <1>11, <2>3, <2>4, <2>5, <2>6 DEF GetCamSrv
<1>12. ASSUME NEW t \in Threads, Send(t) \/ Reply(t) PROVE WaitedInv' /\ StartedInv'
  <2>1. /\ Others(t) /\ Same(t) /\ call'[t].served = call[t].served
        /\ call[t].at \in Live /\ call'[t].at \in {"sent", "back"}
    BY <1>12, SendOf, ReplyOf DEF Live, Send
  <2>2. UNCHANGED <<life, proxy, notices, waiting, fetched, started, service>>
    BY <1>12 DEF Send, Reply, cacheVars, kitVars
  <2>3. call[t].at # "uninit"
    BY <2>1 DEF Live
  <2> QED
    BY <2>1, <2>2, <2>3, <1>m DEF WaitedInv, Reaches, Holds, Same
<1>13. ASSUME NEW t \in Threads, Serve(t) PROVE WaitedInv' /\ StartedInv'
  <2>1. /\ UNCHANGED <<life, proxy, notices, waiting, fetched, started>>
        /\ call[t].at \in {"sent", "loading"}
        /\ \/ \E x : Made(t, x)
           \/ At(t, "loading") /\ UNCHANGED service
    BY <1>13, ServeCases DEF cacheVars, kitVars
  <2>2. CASE At(t, "loading") /\ UNCHANGED service
    <3>1. Others(t) /\ Same(t) /\ call'[t].at = "loading" /\ call'[t].served = call[t].served
      BY <2>2, AtOf
    <3> QED
      BY <2>1, <2>2, <3>1, <1>m DEF WaitedInv, Reaches, Holds, Same, Live
  <2>3. CASE \E x : Made(t, x)
    <3>1. PICK x : Made(t, x)
      BY <2>3
    <3>2. Others(t) /\ Same(t) /\ call'[t].at = "served" /\ call'[t].served = x
      BY <3>1, ServesOf DEF Made
    <3>3. t \in waiting /\ x = "ok" => service'.ready
      <4>1. t \in waiting => call[t].req \in {"INIT_SOURCE", "INIT_SINK"}
        BY <2>1, <1>t, <1>i DEF ThreadInv, InitRequest
      <4> QED
        BY <4>1, <3>1 DEF Made
    <3> QED
      BY <2>1, <3>1, <3>2, <3>3, <1>m DEF WaitedInv, Reaches, Holds, Same, Live, Made
  <2> QED
    BY <2>1, <2>2, <2>3
<1>14. ASSUME NEW l \in Loads, StartEnds(l) PROVE WaitedInv' /\ StartedInv'
  <2>1. Others(l) /\ call'[l].at = "idle" /\ UNCHANGED <<life, proxy, notices, waiting, fetched, service>>
    BY <1>14, <1>t, EndedOf DEF StartEnds, cacheVars
  <2>2. call[l].at = "back" /\ call[l].served = "ok" /\ call[l].life = life /\ l \in waiting
    BY <1>14 DEF StartEnds
  <2>3. proxy = life /\ service.ready /\ life # 0
    BY <2>2, <1>t, <1>i DEF WaitedInv, Reaches, ThreadInv, Live
  <2> QED
    BY <2>1, <2>3, <1>t DEF WaitedInv, StartedInv, Reaches, Others, Live
<1>15. CASE ReleaseReturns
  <2>1. call[Client].at = "back" /\ UNCHANGED <<waiting, started, service>>
    BY <1>15 DEF ReleaseReturns, kitVars
  <2>2. waiting = {}
    BY <2>1 DEF KitInv
  <2>3. CASE At(Client, "uninit")
    BY <2>1, <2>2, <2>3, <1>t, AtOf DEF WaitedInv, StartedInv, Releasing
  <2>4. CASE call' = Ended(Client) /\ UNCHANGED cacheVars
    <3>1. Others(Client) /\ call'[Client].at = "idle"
      BY <2>4, <1>t, EndedOf
    <3> QED
      BY <3>1, <2>1, <2>2, <2>4, <1>t, <1>m DEF Holds, cacheVars
  <2> QED
    BY <1>15, <2>3, <2>4 DEF ReleaseReturns
<1>16. CASE ReleaseEnds
  <2>1. waiting' = waiting /\ ~started' /\ call[Client].at = "uninit"
    BY <1>16 DEF ReleaseEnds
  <2>2. waiting = {}
    BY <2>1 DEF KitInv
  <2> QED
    BY <2>1, <2>2 DEF WaitedInv, StartedInv
<1>17. CASE RegisterEnds \/ RequestEnds
  <2>1. Others(Client) /\ call'[Client].at = "idle" /\ call[Client].at = "back"
    BY <1>17, <1>t, EndedOf DEF RegisterEnds, RequestEnds
  <2>2. UNCHANGED <<life, proxy, notices, waiting, fetched, started, service>>
    BY <1>17 DEF RegisterEnds, RequestEnds, cacheVars, kitVars
  <2> QED
    BY <2>1, <2>2, <1>t, <1>m DEF Holds
<1> QED
  BY <1>1, <1>2, <1>3, <1>4, <1>5, <1>6, <1>7, <1>8, <1>9, <1>10, <1>11, <1>12, <1>13, <1>14, <1>15, <1>16, <1>17 DEF Next

\* All of it holds at the start, and every step keeps it.
LEMMA HandlerStart == Init => HandlerInv
<1> SUFFICES ASSUME Init PROVE HandlerInv
  OBVIOUS
<1>1. /\ life = 0 /\ lives = 0 /\ notices = {} /\ started = FALSE /\ waiting = {}
      /\ loads = [l \in Loads |-> "idle"]
  BY DEF Init, CacheInit
<1>2. \A t \in Threads : call[t].at = "idle"
  BY DEF Init, NoCall
<1>3. LoadsInv
  BY <1>1, <1>2 DEF LoadsInv, ThreadInv, Live
<1>4. KitInv /\ WaitedInv /\ StartedInv
  BY <1>1 DEF KitInv, WaitedInv, StartedInv
<1> QED
  BY <1>3, <1>4 DEF HandlerInv

\* Every step keeps the handler's invariant.
LEMMA HandlerInvStep == Shape /\ CacheInv /\ HandlerInv /\ [Next]_vars => HandlerInv'
<1> SUFFICES ASSUME Shape, CacheInv, HandlerInv, [Next]_vars PROVE HandlerInv'
  OBVIOUS
<1>1. CASE Next
  <2>1. LoadsInv' /\ KitInv'
    BY <1>1, LoadsStep, KitStep DEF HandlerInv
  <2>2. ASSUME Regular' PROVE WaitedInv' /\ StartedInv'
    <3>1. causes \subseteq causes'
      BY <1>1, SideKept
    <3>2. Regular /\ "unheard" \notin causes' /\ "unready" \notin causes'
      BY <2>2, <3>1 DEF Regular
    <3>3. CacheInv'
      BY CacheInvStep
    <3> QED
      BY <1>1, <3>2, <3>3, HandlerStep DEF HandlerInv
  <2> QED
    BY <2>1, <2>2 DEF HandlerInv
<1>2. CASE UNCHANGED vars
  BY <1>2 DEF vars, cacheVars, kitVars, HandlerInv, LoadsInv, ThreadInv, KitInv, Regular, WaitedInv,
     Reaches, StartedInv, Releasing, Holds, InitRequest, Kit, SourceKit
<1> QED
  BY <1>1, <1>2

\* A started handler that has heard of every death has the running service, and it
\* is initialized, for any number of loads beside each other.
THEOREM StartedHandlersHaveService == Spec => []StartedHasService
<1>1. Shape /\ HandlerInv => StartedHasService
  BY DEF HandlerInv, Regular, StartedInv, Releasing, StartedHasService
<1> QED
  BY <1>1, CacheStart, CacheInvStep, HandlerStart, HandlerInvStep, ShapeInit, ShapeStep, PTL DEF Spec

----------------------------------------------------------------------------
\* The tables of the requests.

\* The rows of two tables as one are those of the first, then those of the second.
LEMMA Joined ==
  \A f, g, r :
    /\ r \in DOMAIN (f ++ g) <=> r \in DOMAIN f \/ r \in DOMAIN g
    /\ r \in DOMAIN f => (f ++ g)[r] = f[r]
    /\ r \in DOMAIN g /\ r \notin DOMAIN f => (f ++ g)[r] = g[r]
BY DEF ++

\* The proxies' table holds the rows of each of its parts.
LEMMA ProxyGroups ==
  \A r :
    /\ r \in DOMAIN Proxy <=> r \in UNION {DOMAIN SinkProxyOwner, DOMAIN SinkProxyChannel,
             DOMAIN SinkProxyHardware, DOMAIN SinkProxyAccess, DOMAIN SourceProxyOwner,
             DOMAIN SourceProxyDevice, DOMAIN SourceCallbackProxy, DOMAIN SinkCallbackProxy}
    /\ r \in DOMAIN SinkProxyOwner => Proxy[r] = SinkProxyOwner[r]
    /\ r \in DOMAIN SinkProxyChannel => Proxy[r] = SinkProxyChannel[r]
    /\ r \in DOMAIN SinkProxyHardware => Proxy[r] = SinkProxyHardware[r]
    /\ r \in DOMAIN SinkProxyAccess => Proxy[r] = SinkProxyAccess[r]
    /\ r \in DOMAIN SourceProxyOwner => Proxy[r] = SourceProxyOwner[r]
    /\ r \in DOMAIN SourceProxyDevice => Proxy[r] = SourceProxyDevice[r]
    /\ r \in DOMAIN SourceCallbackProxy => Proxy[r] = SourceCallbackProxy[r]
    /\ r \in DOMAIN SinkCallbackProxy => Proxy[r] = SinkCallbackProxy[r]
<1> TAKE r
<1>1. /\ r \in DOMAIN SinkProxyOwner <=> r \in {"INIT_SINK", "RELEASE_SINK",
           "SUBSCRIBE_LOCAL_HARDWARE", "UNSUBSCRIBE_LOCAL_HARDWARE"}
      /\ r \in DOMAIN SinkProxyChannel <=> r \in {"STOP_CAPTURE", "CHANNEL_NEG",
           "GET_CAMERA_INFO", "OPEN_CHANNEL"}
      /\ r \in DOMAIN SinkProxyHardware <=> r \in {"CLOSE_CHANNEL", "PAUSE_DISTRIBUTED_HARDWARE",
           "RESUME_DISTRIBUTED_HARDWARE", "STOP_DISTRIBUTED_HARDWARE"}
      /\ r \in DOMAIN SinkProxyAccess <=> r \in {"SET_ACCESS_LISTENER", "REMOVE_ACCESS_LISTENER",
           "SET_AUTHORIZATION_RESULT"}
      /\ r \in DOMAIN SourceProxyOwner <=> r \in {"INIT_SOURCE", "RELEASE_SOURCE",
           "REGISTER_DISTRIBUTED_HARDWARE"}
      /\ r \in DOMAIN SourceProxyDevice <=> r \in {"UNREGISTER_DISTRIBUTED_HARDWARE",
           "CAMERA_NOTIFY", "UPDATE_WORKMODE"}
      /\ r \in DOMAIN SourceCallbackProxy <=> r \in {"NOTIFY_REG_RESULT", "NOTIFY_UNREG_RESULT",
           "NOTIFY_STATE_CHANGED", "NOTIFY_DATASYNC_TRIGGER"}
      /\ r \in DOMAIN SinkCallbackProxy <=> r \in {"NOTIFY_RESOURCEINFO",
           "NOTIFY_STATE_CHANGEINFO"}
  BY DEF SinkProxyOwner, SinkProxyChannel, SinkProxyHardware, SinkProxyAccess, SourceProxyOwner,
     SourceProxyDevice, SourceCallbackProxy, SinkCallbackProxy
<1> QED
  BY <1>1, Joined DEF Proxy

\* So does the stubs' table.
LEMMA StubGroups ==
  \A r :
    /\ r \in DOMAIN Stub <=> r \in UNION {DOMAIN SinkStubOwner, DOMAIN SinkStubChannel,
             DOMAIN SinkStubHardware, DOMAIN SourceStubOwner, DOMAIN SourceStubDevice,
             DOMAIN SourceCallbackStub, DOMAIN SinkCallbackStub}
    /\ r \in DOMAIN SinkStubOwner => Stub[r] = SinkStubOwner[r]
    /\ r \in DOMAIN SinkStubChannel => Stub[r] = SinkStubChannel[r]
    /\ r \in DOMAIN SinkStubHardware => Stub[r] = SinkStubHardware[r]
    /\ r \in DOMAIN SourceStubOwner => Stub[r] = SourceStubOwner[r]
    /\ r \in DOMAIN SourceStubDevice => Stub[r] = SourceStubDevice[r]
    /\ r \in DOMAIN SourceCallbackStub => Stub[r] = SourceCallbackStub[r]
    /\ r \in DOMAIN SinkCallbackStub => Stub[r] = SinkCallbackStub[r]
<1> TAKE r
<1>1. /\ r \in DOMAIN SinkStubOwner <=> r \in {"INIT_SINK", "RELEASE_SINK",
           "SUBSCRIBE_LOCAL_HARDWARE", "UNSUBSCRIBE_LOCAL_HARDWARE"}
      /\ r \in DOMAIN SinkStubChannel <=> r \in {"STOP_CAPTURE", "CHANNEL_NEG", "GET_CAMERA_INFO",
           "OPEN_CHANNEL", "CLOSE_CHANNEL"}
      /\ r \in DOMAIN SinkStubHardware <=> r \in {"PAUSE_DISTRIBUTED_HARDWARE",
           "RESUME_DISTRIBUTED_HARDWARE", "STOP_DISTRIBUTED_HARDWARE", "SET_ACCESS_LISTENER",
           "REMOVE_ACCESS_LISTENER", "SET_AUTHORIZATION_RESULT"}
      /\ r \in DOMAIN SourceStubOwner <=> r \in {"INIT_SOURCE", "RELEASE_SOURCE",
           "REGISTER_DISTRIBUTED_HARDWARE"}
      /\ r \in DOMAIN SourceStubDevice <=> r \in {"UNREGISTER_DISTRIBUTED_HARDWARE",
           "CAMERA_NOTIFY", "UPDATE_WORKMODE"}
      /\ r \in DOMAIN SourceCallbackStub <=> r \in {"NOTIFY_REG_RESULT", "NOTIFY_UNREG_RESULT",
           "NOTIFY_STATE_CHANGED", "NOTIFY_DATASYNC_TRIGGER"}
      /\ r \in DOMAIN SinkCallbackStub <=> r \in {"NOTIFY_RESOURCEINFO", "NOTIFY_STATE_CHANGEINFO"}
  BY DEF SinkStubOwner, SinkStubChannel, SinkStubHardware, SourceStubOwner, SourceStubDevice,
     SourceCallbackStub, SinkCallbackStub
<1> QED
  BY <1>1, Joined DEF Stub

\* The arguments each proxy checks and writes.
LEMMA ProxyArgs ==
  /\ Proxy["INIT_SINK"].args = <<Param, Object>>
  /\ Proxy["RELEASE_SINK"].args = <<>>
  /\ Proxy["SUBSCRIBE_LOCAL_HARDWARE"].args = <<Id, Param>>
  /\ Proxy["UNSUBSCRIBE_LOCAL_HARDWARE"].args = <<Id>>
  /\ Proxy["STOP_CAPTURE"].args = <<Id>>
  /\ Proxy["CHANNEL_NEG"].args = <<Id, Param>>
  /\ Proxy["GET_CAMERA_INFO"].args = <<Id, Text>>
  /\ Proxy["OPEN_CHANNEL"].args = <<Id, Param>>
  /\ Proxy["CLOSE_CHANNEL"].args = <<Id>>
  /\ Proxy["PAUSE_DISTRIBUTED_HARDWARE"].args = <<Text>>
  /\ Proxy["RESUME_DISTRIBUTED_HARDWARE"].args = <<Text>>
  /\ Proxy["STOP_DISTRIBUTED_HARDWARE"].args = <<Text>>
  /\ Proxy["SET_ACCESS_LISTENER"].args = <<Given, Integer, Text>>
  /\ Proxy["REMOVE_ACCESS_LISTENER"].args = <<Text>>
  /\ Proxy["SET_AUTHORIZATION_RESULT"].args = <<Text, Bool>>
  /\ Proxy["INIT_SOURCE"].args = <<Param, Object>>
  /\ Proxy["RELEASE_SOURCE"].args = <<>>
  /\ Proxy["REGISTER_DISTRIBUTED_HARDWARE"].args = <<Id, Id, Id, Param, Param>>
  /\ Proxy["UNREGISTER_DISTRIBUTED_HARDWARE"].args = <<Id, Id, Id>>
  /\ Proxy["CAMERA_NOTIFY"].args = <<Id, Id, Param>>
  /\ Proxy["UPDATE_WORKMODE"].args = <<Id, Id, Natural, Natural, Integer, Bool>>
  /\ Proxy["NOTIFY_REG_RESULT"].args = <<Id, Id, Id, Integer, Data>>
  /\ Proxy["NOTIFY_UNREG_RESULT"].args = <<Id, Id, Id, Integer, Data>>
  /\ Proxy["NOTIFY_STATE_CHANGED"].args = <<Id, Id, Natural>>
  /\ Proxy["NOTIFY_DATASYNC_TRIGGER"].args = <<Id>>
  /\ Proxy["NOTIFY_RESOURCEINFO"].args = <<Integer, Text, Text>>
  /\ Proxy["NOTIFY_STATE_CHANGEINFO"].args = <<Id, Id, Natural>>
<1>1. /\ Proxy["INIT_SINK"].args = <<Param, Object>>
      /\ Proxy["RELEASE_SINK"].args = <<>>
      /\ Proxy["SUBSCRIBE_LOCAL_HARDWARE"].args = <<Id, Param>>
      /\ Proxy["UNSUBSCRIBE_LOCAL_HARDWARE"].args = <<Id>>
  BY ProxyGroups DEF SinkProxyOwner, Proxied
<1>2. /\ Proxy["STOP_CAPTURE"].args = <<Id>>
      /\ Proxy["CHANNEL_NEG"].args = <<Id, Param>>
      /\ Proxy["GET_CAMERA_INFO"].args = <<Id, Text>>
      /\ Proxy["OPEN_CHANNEL"].args = <<Id, Param>>
  BY ProxyGroups DEF SinkProxyChannel, Proxied
<1>3. /\ Proxy["CLOSE_CHANNEL"].args = <<Id>>
      /\ Proxy["PAUSE_DISTRIBUTED_HARDWARE"].args = <<Text>>
      /\ Proxy["RESUME_DISTRIBUTED_HARDWARE"].args = <<Text>>
      /\ Proxy["STOP_DISTRIBUTED_HARDWARE"].args = <<Text>>
  BY ProxyGroups DEF SinkProxyHardware, Proxied
<1>4. /\ Proxy["SET_ACCESS_LISTENER"].args = <<Given, Integer, Text>>
      /\ Proxy["REMOVE_ACCESS_LISTENER"].args = <<Text>>
      /\ Proxy["SET_AUTHORIZATION_RESULT"].args = <<Text, Bool>>
  BY ProxyGroups DEF SinkProxyAccess, Proxied
<1>5. /\ Proxy["INIT_SOURCE"].args = <<Param, Object>>
      /\ Proxy["RELEASE_SOURCE"].args = <<>>
      /\ Proxy["REGISTER_DISTRIBUTED_HARDWARE"].args = <<Id, Id, Id, Param, Param>>
  BY ProxyGroups DEF SourceProxyOwner, Proxied
<1>6. /\ Proxy["UNREGISTER_DISTRIBUTED_HARDWARE"].args = <<Id, Id, Id>>
      /\ Proxy["CAMERA_NOTIFY"].args = <<Id, Id, Param>>
      /\ Proxy["UPDATE_WORKMODE"].args = <<Id, Id, Natural, Natural, Integer, Bool>>
  BY ProxyGroups DEF SourceProxyDevice, Proxied
<1>7. /\ Proxy["NOTIFY_REG_RESULT"].args = <<Id, Id, Id, Integer, Data>>
      /\ Proxy["NOTIFY_UNREG_RESULT"].args = <<Id, Id, Id, Integer, Data>>
      /\ Proxy["NOTIFY_STATE_CHANGED"].args = <<Id, Id, Natural>>
      /\ Proxy["NOTIFY_DATASYNC_TRIGGER"].args = <<Id>>
  BY ProxyGroups DEF SourceCallbackProxy, Proxied
<1>8. /\ Proxy["NOTIFY_RESOURCEINFO"].args = <<Integer, Text, Text>>
      /\ Proxy["NOTIFY_STATE_CHANGEINFO"].args = <<Id, Id, Natural>>
  BY ProxyGroups DEF SinkCallbackProxy, Proxied
<1> QED
  BY ONLY <1>1, <1>2, <1>3, <1>4, <1>5, <1>6, <1>7, <1>8

\* The arguments each stub reads and checks.
LEMMA StubArgs ==
  /\ Stub["INIT_SINK"].args = <<Param, Given>>
  /\ Stub["RELEASE_SINK"].args = <<>>
  /\ Stub["SUBSCRIBE_LOCAL_HARDWARE"].args = <<Id, Param>>
  /\ Stub["UNSUBSCRIBE_LOCAL_HARDWARE"].args = <<Id>>
  /\ Stub["STOP_CAPTURE"].args = <<Id>>
  /\ Stub["CHANNEL_NEG"].args = <<Id, Param>>
  /\ Stub["GET_CAMERA_INFO"].args = <<Id, Text>>
  /\ Stub["OPEN_CHANNEL"].args = <<Id, Param>>
  /\ Stub["CLOSE_CHANNEL"].args = <<Id>>
  /\ Stub["PAUSE_DISTRIBUTED_HARDWARE"].args = <<Id>>
  /\ Stub["RESUME_DISTRIBUTED_HARDWARE"].args = <<Id>>
  /\ Stub["STOP_DISTRIBUTED_HARDWARE"].args = <<Id>>
  /\ Stub["SET_ACCESS_LISTENER"].args = <<Given, Integer, Text>>
  /\ Stub["REMOVE_ACCESS_LISTENER"].args = <<Text>>
  /\ Stub["SET_AUTHORIZATION_RESULT"].args = <<Text, Bool>>
  /\ Stub["INIT_SOURCE"].args = <<Param, Given>>
  /\ Stub["RELEASE_SOURCE"].args = <<>>
  /\ Stub["REGISTER_DISTRIBUTED_HARDWARE"].args = <<Id, Id, Id, Param, Param>>
  /\ Stub["UNREGISTER_DISTRIBUTED_HARDWARE"].args = <<Id, Id, Id>>
  /\ Stub["CAMERA_NOTIFY"].args = <<Id, Id, Param>>
  /\ Stub["UPDATE_WORKMODE"].args = <<Id, Id, Natural, Natural, Integer, Bool>>
  /\ Stub["NOTIFY_REG_RESULT"].args = <<Id, Id, Id, Integer, Data>>
  /\ Stub["NOTIFY_UNREG_RESULT"].args = <<Id, Id, Id, Integer, Data>>
  /\ Stub["NOTIFY_STATE_CHANGED"].args = <<Text, Text, Integer>>
  /\ Stub["NOTIFY_DATASYNC_TRIGGER"].args = <<Text>>
  /\ Stub["NOTIFY_RESOURCEINFO"].args = <<Integer, Text, Text>>
  /\ Stub["NOTIFY_STATE_CHANGEINFO"].args = <<Text, Text, Integer>>
<1>1. /\ Stub["INIT_SINK"].args = <<Param, Given>>
      /\ Stub["RELEASE_SINK"].args = <<>>
      /\ Stub["SUBSCRIBE_LOCAL_HARDWARE"].args = <<Id, Param>>
      /\ Stub["UNSUBSCRIBE_LOCAL_HARDWARE"].args = <<Id>>
  BY StubGroups DEF SinkStubOwner, Served
<1>2. /\ Stub["STOP_CAPTURE"].args = <<Id>>
      /\ Stub["CHANNEL_NEG"].args = <<Id, Param>>
      /\ Stub["GET_CAMERA_INFO"].args = <<Id, Text>>
      /\ Stub["OPEN_CHANNEL"].args = <<Id, Param>>
      /\ Stub["CLOSE_CHANNEL"].args = <<Id>>
  BY StubGroups DEF SinkStubChannel, Served
<1>3. /\ Stub["PAUSE_DISTRIBUTED_HARDWARE"].args = <<Id>>
      /\ Stub["RESUME_DISTRIBUTED_HARDWARE"].args = <<Id>>
      /\ Stub["STOP_DISTRIBUTED_HARDWARE"].args = <<Id>>
      /\ Stub["SET_ACCESS_LISTENER"].args = <<Given, Integer, Text>>
      /\ Stub["REMOVE_ACCESS_LISTENER"].args = <<Text>>
      /\ Stub["SET_AUTHORIZATION_RESULT"].args = <<Text, Bool>>
  BY StubGroups DEF SinkStubHardware, Served
<1>4. /\ Stub["INIT_SOURCE"].args = <<Param, Given>>
      /\ Stub["RELEASE_SOURCE"].args = <<>>
      /\ Stub["REGISTER_DISTRIBUTED_HARDWARE"].args = <<Id, Id, Id, Param, Param>>
  BY StubGroups DEF SourceStubOwner, Served
<1>5. /\ Stub["UNREGISTER_DISTRIBUTED_HARDWARE"].args = <<Id, Id, Id>>
      /\ Stub["CAMERA_NOTIFY"].args = <<Id, Id, Param>>
      /\ Stub["UPDATE_WORKMODE"].args = <<Id, Id, Natural, Natural, Integer, Bool>>
  BY StubGroups DEF SourceStubDevice, Served
<1>6. /\ Stub["NOTIFY_REG_RESULT"].args = <<Id, Id, Id, Integer, Data>>
      /\ Stub["NOTIFY_UNREG_RESULT"].args = <<Id, Id, Id, Integer, Data>>
      /\ Stub["NOTIFY_STATE_CHANGED"].args = <<Text, Text, Integer>>
      /\ Stub["NOTIFY_DATASYNC_TRIGGER"].args = <<Text>>
  BY StubGroups DEF SourceCallbackStub, Served
<1>7. /\ Stub["NOTIFY_RESOURCEINFO"].args = <<Integer, Text, Text>>
      /\ Stub["NOTIFY_STATE_CHANGEINFO"].args = <<Text, Text, Integer>>
  BY StubGroups DEF SinkCallbackStub, Served
<1> QED
  BY ONLY <1>1, <1>2, <1>3, <1>4, <1>5, <1>6, <1>7

\* Every request has a stub, which asks for one of two permissions or for none.
LEMMA StubPermissions == \A req \in DOMAIN Proxy : Stub[req].permission \in {"none", "enable", "access"}
<1>1. /\ \A req \in DOMAIN SinkStubOwner : SinkStubOwner[req].permission \in {"none", "enable", "access"}
      /\ \A req \in DOMAIN SinkStubChannel : SinkStubChannel[req].permission \in {"none", "enable", "access"}
      /\ \A req \in DOMAIN SinkStubHardware : SinkStubHardware[req].permission \in {"none", "enable", "access"}
      /\ \A req \in DOMAIN SourceStubOwner : SourceStubOwner[req].permission \in {"none", "enable", "access"}
      /\ \A req \in DOMAIN SourceStubDevice : SourceStubDevice[req].permission \in {"none", "enable", "access"}
      /\ \A req \in DOMAIN SourceCallbackStub : SourceCallbackStub[req].permission \in {"none", "enable", "access"}
      /\ \A req \in DOMAIN SinkCallbackStub : SinkCallbackStub[req].permission \in {"none", "enable", "access"}
  BY DEF SinkStubOwner, SinkStubChannel, SinkStubHardware, SourceStubOwner, SourceStubDevice,
     SourceCallbackStub, SinkCallbackStub, Served
<1>2. DOMAIN Proxy \subseteq DOMAIN Stub
  BY ProxyGroups, StubGroups DEF SinkProxyOwner, SinkProxyChannel, SinkProxyHardware,
     SinkProxyAccess, SourceProxyOwner, SourceProxyDevice, SourceCallbackProxy, SinkCallbackProxy,
     SinkStubOwner, SinkStubChannel, SinkStubHardware, SourceStubOwner, SourceStubDevice,
     SourceCallbackStub, SinkCallbackStub
<1> QED
  BY <1>1, <1>2, StubGroups

\* What a proxy does not check and its stub does.
Unchecked ==
  {"PAUSE_DISTRIBUTED_HARDWARE", "RESUME_DISTRIBUTED_HARDWARE", "STOP_DISTRIBUTED_HARDWARE"}

\* Two conditions of one type; the first admits what the second is asked about.
OfOneType(c, d) == \E type \in Types : c \subseteq type /\ d \subseteq type /\ d # {}

\* The types are apart, so a condition has one.
LEMMA TypeOfOne ==
  ASSUME NEW c, NEW type \in Types, c \subseteq type, c # {}
  PROVE  TypeOf(c) = type
<1>1. \A u \in Types : c \subseteq u => u = type
  BY DEF Types, Text, Object, Integer, Bool
<1> QED
  BY <1>1 DEF TypeOf

\* The conditions by their types.
LEMMA Conditions ==
  /\ \A c, d \in {Text, Id, Param, Named, Data} : OfOneType(c, d)
  /\ \A c, d \in {Object, Given} : OfOneType(c, d)
  /\ \A c, d \in {Integer, Natural} : OfOneType(c, d)
  /\ OfOneType(Bool, Bool)
<1>1. /\ \A c \in {Text, Id, Param, Named, Data} : c \subseteq Text /\ c # {}
      /\ \A c \in {Object, Given} : c \subseteq Object /\ c # {}
      /\ \A c \in {Integer, Natural} : c \subseteq Integer /\ c # {}
      /\ Bool # {}
  BY DEF Text, Id, Param, Named, Data, Object, Given, Integer, Natural, Bool
<1> QED
  BY <1>1 DEF OfOneType, Types

\* Two rows of as many conditions, one by one of the same type.
Matches(p, s) ==
  /\ DOMAIN s = DOMAIN p /\ \E n \in Nat : DOMAIN p = 1 .. n
  /\ \A i \in DOMAIN p : OfOneType(p[i], s[i])

LEMMA Match ==
  /\ Matches(<<>>, <<>>)
  /\ \A a, b : OfOneType(a, b) => Matches(<<a>>, <<b>>)
  /\ \A a, b, c, d : OfOneType(a, b) /\ OfOneType(c, d) => Matches(<<a, c>>, <<b, d>>)
  /\ \A a, b, c, d, e, f :
       OfOneType(a, b) /\ OfOneType(c, d) /\ OfOneType(e, f) => Matches(<<a, c, e>>, <<b, d, f>>)
BY DEF Matches

LEMMA MatchLong ==
  /\ Matches(<<Id, Id, Id, Param, Param>>, <<Id, Id, Id, Param, Param>>)
  /\ Matches(<<Id, Id, Id, Integer, Data>>, <<Id, Id, Id, Integer, Data>>)
  /\ Matches(<<Id, Id, Natural, Natural, Integer, Bool>>, <<Id, Id, Natural, Natural, Integer, Bool>>)
BY Conditions DEF Matches

\* The rows of a proxy and a stub that admits what the proxy has checked, but for
\* a null object.
Admits(p, s) ==
  \/ s = p
  \/ p = <<Param, Object>> /\ s = <<Param, Given>>
  \/ p = <<Id, Id, Natural>> /\ s = <<Text, Text, Integer>>
  \/ p = <<Id>> /\ s = <<Text>>

\* A proxy and its stub agree about the types of a request, and but for three
\* requests about its arguments.
Agree(req) ==
  /\ Matches(Proxy[req].args, Stub[req].args)
  /\ req \in Unchecked \/ Admits(Proxy[req].args, Stub[req].args)
LEMMA RowsAgree == \A req \in DOMAIN Proxy : Agree(req)
<1>1. DOMAIN Proxy \subseteq {"INIT_SINK", "RELEASE_SINK", "SUBSCRIBE_LOCAL_HARDWARE",
          "UNSUBSCRIBE_LOCAL_HARDWARE", "STOP_CAPTURE", "CHANNEL_NEG", "GET_CAMERA_INFO",
          "OPEN_CHANNEL", "CLOSE_CHANNEL", "PAUSE_DISTRIBUTED_HARDWARE",
          "RESUME_DISTRIBUTED_HARDWARE", "STOP_DISTRIBUTED_HARDWARE", "SET_ACCESS_LISTENER",
          "REMOVE_ACCESS_LISTENER", "SET_AUTHORIZATION_RESULT", "INIT_SOURCE", "RELEASE_SOURCE",
          "REGISTER_DISTRIBUTED_HARDWARE", "UNREGISTER_DISTRIBUTED_HARDWARE", "CAMERA_NOTIFY",
          "UPDATE_WORKMODE", "NOTIFY_REG_RESULT", "NOTIFY_UNREG_RESULT", "NOTIFY_STATE_CHANGED",
          "NOTIFY_DATASYNC_TRIGGER", "NOTIFY_RESOURCEINFO", "NOTIFY_STATE_CHANGEINFO"}
  BY ProxyGroups DEF SinkProxyOwner, SinkProxyChannel, SinkProxyHardware, SinkProxyAccess,
     SourceProxyOwner, SourceProxyDevice, SourceCallbackProxy, SinkCallbackProxy
<1>2. Agree("INIT_SINK") /\ Agree("RELEASE_SINK") /\ Agree("SUBSCRIBE_LOCAL_HARDWARE") /\
      Agree("UNSUBSCRIBE_LOCAL_HARDWARE")
  BY Conditions, Match, MatchLong, ProxyArgs, StubArgs DEF Agree, Admits, Unchecked
<1>3. Agree("STOP_CAPTURE") /\ Agree("CHANNEL_NEG") /\ Agree("GET_CAMERA_INFO") /\
      Agree("OPEN_CHANNEL")
  BY Conditions, Match, MatchLong, ProxyArgs, StubArgs DEF Agree, Admits, Unchecked
<1>4. Agree("CLOSE_CHANNEL") /\ Agree("PAUSE_DISTRIBUTED_HARDWARE") /\
      Agree("RESUME_DISTRIBUTED_HARDWARE") /\ Agree("STOP_DISTRIBUTED_HARDWARE")
  BY Conditions, Match, MatchLong, ProxyArgs, StubArgs DEF Agree, Admits, Unchecked
<1>5. Agree("SET_ACCESS_LISTENER") /\ Agree("REMOVE_ACCESS_LISTENER") /\
      Agree("SET_AUTHORIZATION_RESULT")
  BY Conditions, Match, MatchLong, ProxyArgs, StubArgs DEF Agree, Admits, Unchecked
<1>6. Agree("INIT_SOURCE") /\ Agree("RELEASE_SOURCE") /\ Agree("REGISTER_DISTRIBUTED_HARDWARE")
  BY Conditions, Match, MatchLong, ProxyArgs, StubArgs DEF Agree, Admits, Unchecked
<1>7. Agree("UNREGISTER_DISTRIBUTED_HARDWARE") /\ Agree("CAMERA_NOTIFY") /\
      Agree("UPDATE_WORKMODE")
  BY Conditions, Match, MatchLong, ProxyArgs, StubArgs DEF Agree, Admits, Unchecked
<1>8. Agree("NOTIFY_REG_RESULT") /\ Agree("NOTIFY_UNREG_RESULT") /\
      Agree("NOTIFY_STATE_CHANGED") /\ Agree("NOTIFY_DATASYNC_TRIGGER")
  BY Conditions, Match, MatchLong, ProxyArgs, StubArgs DEF Agree, Admits, Unchecked
<1>9. Agree("NOTIFY_RESOURCEINFO") /\ Agree("NOTIFY_STATE_CHANGEINFO")
  BY Conditions, Match, MatchLong, ProxyArgs, StubArgs DEF Agree, Admits, Unchecked
<1> QED
  BY ONLY <1>1, <1>2, <1>3, <1>4, <1>5, <1>6, <1>7, <1>8, <1>9

\* What the object behind a stub asks is what the handler of the kit has checked, or
\* what the proxy has.
LEMMA BehindRows ==
  \A req \in DOMAIN Behind :
    \/ req \in DOMAIN AccessService /\ req \in DOMAIN SinkHandler /\ Behind[req] = SinkHandler[req]
    \/ Behind[req] = Proxy[req].args
<1> SUFFICES ASSUME NEW req \in DOMAIN Behind
    PROVE  \/ /\ req \in DOMAIN AccessService /\ req \in DOMAIN SinkHandler
              /\ Behind[req] = SinkHandler[req]
           \/ Behind[req] = Proxy[req].args
  OBVIOUS
<1>1. /\ req \in DOMAIN AccessService
           <=> req \in {"SET_ACCESS_LISTENER", "REMOVE_ACCESS_LISTENER", "SET_AUTHORIZATION_RESULT"}
      /\ req \in DOMAIN SourceCallback <=> req \in {"NOTIFY_STATE_CHANGED", "NOTIFY_DATASYNC_TRIGGER"}
      /\ req \in DOMAIN SinkCallback <=> req = "NOTIFY_STATE_CHANGEINFO"
      /\ AccessService = SinkHandler
  BY DEF AccessService, SourceCallback, SinkCallback, SinkHandler
<1>2. req \in DOMAIN SourceCallback => SourceCallback[req] = Proxy[req].args
  <2>1. /\ SourceCallback["NOTIFY_STATE_CHANGED"] = <<Id, Id, Natural>>
        /\ SourceCallback["NOTIFY_DATASYNC_TRIGGER"] = <<Id>>
    BY DEF SourceCallback
  <2> QED
    BY <1>1, <2>1, ProxyArgs
<1>3. req \in DOMAIN SinkCallback => SinkCallback[req] = Proxy[req].args
  BY <1>1, ProxyArgs DEF SinkCallback
<1> QED
  BY <1>1, <1>2, <1>3, Joined DEF Behind

\* Only an object can be null, and an object that is missing is.
LEMMA MissingNull ==
  \A type \in Types : "null" \in type => Missing(type) = "null"
BY DEF Types, Text, Object, Integer, Bool, Missing

\* What is drawn for a request has an argument for each condition.
LEMMA ArgsTyped ==
  ASSUME NEW req \in DOMAIN Proxy, NEW args \in ArgsOf[req]
  PROVE  args = [i \in DOMAIN Proxy[req].args |-> args[i]]
<1>1. GoodArgs(req) = [i \in DOMAIN Proxy[req].args |-> GoodArgs(req)[i]]
  BY DEF GoodArgs
<1>2. PICK g : g = GoodArgs(req)
  OBVIOUS
<1>3. \/ args = g
      \/ \E i \in DOMAIN g : \E v : args = [g EXCEPT ![i] = v]
  BY <1>2 DEF ArgsOf, Requests
<1> QED
  BY <1>1, <1>2, <1>3

\* What a proxy has checked reaches its stub as it was: what is written is read with
\* the types it was written with, and the null object that is not written is read as null.
LEMMA ParcelKept ==
  ASSUME NEW p, NEW s, Matches(p, s), NEW args, args = [i \in DOMAIN p |-> args[i]], Fits(args, p),
         NEW req, Stub[req].args = s
  PROVE  Read(req, Written(args)) = args
<1>1. PICK n \in Nat : DOMAIN p = 1 .. n /\ DOMAIN s = 1 .. n
  BY DEF Matches
<1>2. args = [i \in 1 .. n |-> args[i]]
  BY <1>1
<1>3. args \in Seq({args[i] : i \in 1 .. n}) /\ Len(args) = n /\ DOMAIN args = 1 .. n
  BY <1>2
<1>4. ASSUME NEW i \in 1 .. n
      PROVE  TypeOf(s[i]) \in Types /\ args[i] \in TypeOf(s[i])
  <2>1. PICK type \in Types : p[i] \subseteq type /\ s[i] \subseteq type /\ s[i] # {}
    BY <1>1 DEF Matches, OfOneType
  <2>2. TypeOf(s[i]) = type
    BY <2>1, TypeOfOne
  <2> QED
    BY <1>1, <2>1, <2>2 DEF Fits
<1> DEFINE Found(parcel, i) == IF i \in DOMAIN parcel /\ parcel[i] \in TypeOf(s[i]) THEN parcel[i]
                               ELSE Missing(TypeOf(s[i]))
<1>5. ASSUME NEW i \in 1 .. n PROVE Found(Written(args), i) = args[i]
  <2>1. CASE args # <<>> /\ args[Len(args)] = "null"
    <3>1. Written(args) = SubSeq(args, 1, n - 1) /\ args[n] = "null"
      BY <1>3, <2>1 DEF Written
    <3>2. DOMAIN SubSeq(args, 1, n - 1) = 1 .. n - 1 /\ \A j \in 1 .. n - 1 : SubSeq(args, 1, n - 1)[j] = args[j]
      BY <1>3
    <3>3. CASE i = n
      BY <1>4, <3>1, <3>2, <3>3, MissingNull
    <3>4. CASE i # n
      <4>1. i \in 1 .. n - 1
        BY <3>4
      <4> QED
        BY <1>4, <3>1, <3>2, <4>1
    <3> QED
      BY <3>3, <3>4
  <2>2. CASE ~(args # <<>> /\ args[Len(args)] = "null")
    BY <1>3, <1>4, <2>2 DEF Written
  <2> QED
    BY <2>1, <2>2
<1>6. Read(req, Written(args)) = [i \in 1 .. n |-> Found(Written(args), i)]
  BY <1>1 DEF Read
<1> HIDE DEF Found
<1>7. [i \in 1 .. n |-> Found(Written(args), i)] = [i \in 1 .. n |-> args[i]]
  BY <1>5
<1> QED
  BY <1>2, <1>6, <1>7

\* Neither the stub nor the object behind it refuses what the proxy has checked.
LEMMA ArgsAccepted ==
  ASSUME NEW req \in DOMAIN Proxy, NEW args, args = [i \in DOMAIN Proxy[req].args |-> args[i]],
         Fits(args, Proxy[req].args), req \notin Unchecked, \A i \in DOMAIN args : args[i] # "null",
         req \in DOMAIN AccessService => Passes(SinkHandler, req, args)
  PROVE  Accepted(req, args, {"enable", "access"})
<1>1. Stub[req].permission \in {"enable", "access"} \union {"none"}
  BY StubPermissions
<1>2. Fits(args, Stub[req].args)
  <2>1. Admits(Proxy[req].args, Stub[req].args)
    BY RowsAgree DEF Agree
  <2>2. CASE Proxy[req].args = <<Param, Object>> /\ Stub[req].args = <<Param, Given>>
    BY <2>2 DEF Fits, Object, Given
  <2>3. CASE Proxy[req].args = <<Id, Id, Natural>> /\ Stub[req].args = <<Text, Text, Integer>>
    BY <2>3 DEF Fits, Id, Text, Natural, Integer
  <2>4. CASE Proxy[req].args = <<Id>> /\ Stub[req].args = <<Text>>
    BY <2>4 DEF Fits, Id, Text
  <2>5. CASE Stub[req].args = Proxy[req].args
    BY <2>5
  <2> QED
    BY <2>1, <2>2, <2>3, <2>4, <2>5 DEF Admits
<1>3. Passes(Behind, req, args)
  BY BehindRows DEF Passes
<1> QED
  BY <1>1, <1>2, <1>3 DEF Accepted

----------------------------------------------------------------------------
\* The callbacks of registrations.

\* The request for registration r is on its way, or its caller has still to
\* read that it failed or was lost.
Pending(r) ==
  /\ call[Client].id = r /\ Registers(Client)
  /\ \/ call[Client].at = "sent"
     \/ call[Client].at = "served" /\ call[Client].served # "ok"
     \/ call[Client].at = "back" /\ (call[Client].result # "ok" \/ call[Client].lost)

\* A callback that is kept is one the service has to answer or whose request is
\* pending; only a service that runs is asked, and has anything to answer.
KeptInv ==
  /\ life = 0 => service.asks = {}
  /\ \A t \in Threads : call[t].at = "sent" => call[t].life # 0
  /\ causes \cap {"lost", "died"} = {} => \A r \in pushed : r \in service.asks \/ Pending(r)

\* A registration waits for its reply.
LEMMA RegistrationsWait == \A req \in Registrations : Proxy[req].waits
<1>1. /\ Proxy["REGISTER_DISTRIBUTED_HARDWARE"] = SourceProxyOwner["REGISTER_DISTRIBUTED_HARDWARE"]
      /\ Proxy["UNREGISTER_DISTRIBUTED_HARDWARE"] = SourceProxyDevice["UNREGISTER_DISTRIBUTED_HARDWARE"]
  BY ProxyGroups DEF SourceProxyOwner, SourceProxyDevice
<1> QED
  BY <1>1 DEF Registrations, SourceProxyOwner, SourceProxyDevice, Proxied

\* Every step keeps the callbacks with what will answer them.
LEMMA KeptStep ==
  ASSUME Shape, LoadsInv, KeptInv, Next, causes' \cap {"lost", "died"} = {}
  PROVE  \A r \in pushed' : r \in service'.asks \/ Pending(r)'
<1>t. Client \in Threads /\ Client \notin Loads /\ Loads \subseteq Threads
  BY HandlerTypes
<1>e. (SourceKit' <=> SourceKit) /\ causes \subseteq causes'
  BY SideKept
<1>i. /\ life = 0 => service.asks = {}
      /\ \A r \in pushed : r \in service.asks \/ Pending(r)
  BY <1>e DEF KeptInv
<1> DEFINE Kept == \A r \in pushed' : r \in service'.asks \/ Pending(r)'
<1>l. ASSUME NEW l \in Loads, call[l].at # "idle" PROVE ~Registers(l)
  BY <1>l, <1>t DEF LoadsInv, ThreadInv, Registers, InitRequest, Registrations
<1>k. ASSUME call'[Client] = call[Client], pushed' = pushed, service.asks \subseteq service'.asks
      PROVE  Kept
  BY <1>k, <1>e, <1>i DEF Pending, Registers
<1>n. ASSUME \A r \in pushed : ~Pending(r), pushed' = pushed, service.asks \subseteq service'.asks
      PROVE  Kept
  BY <1>n, <1>i
<1>1. CASE InitKit \/ InitKitReturns \/ HolderStarts \/ HolderStops \/ Driver
  BY <1>1, <1>k DEF InitKit, InitKitReturns, HolderStarts, HolderStops, Driver
<1>2. CASE AbilityStarts
  <2>1. service.asks = {} /\ UNCHANGED <<call, pushed>>
    BY <1>2, <1>i DEF AbilityStarts, ServiceStarts
  <2> QED
    BY <2>1, <1>k
<1>3. CASE AbilityEnds
  <2>1. service.asks = {} /\ UNCHANGED <<call, pushed>>
    BY <1>3 DEF AbilityEnds
  <2> QED
    BY <2>1, <1>k
<1>4. ASSUME NEW l \in Loads, FinishStartSA(l) \/ FinishStartSAFailed(l) \/ StartEnds(l) PROVE Kept
  <2>1. call'[Client] = call[Client]
    BY <1>4, <1>t, BeganOf, EndedOf DEF FinishStartSA, FinishStartSAFailed, StartEnds, Others
  <2> QED
    BY <1>4, <2>1, <1>k DEF FinishStartSA, FinishStartSAFailed, StartEnds
<1>5. CASE Ask
  BY <1>5, <1>n DEF Ask, Pending
<1>6. ASSUME NEW t \in Threads, GetCamSrv(t) PROVE Kept
  <2>1. Others(t) /\ call[t].at \in {"lookup", "watch", "store"} /\ UNCHANGED <<pushed, service>>
    BY <1>6, GetOf DEF GetCamSrv
  <2> QED
    BY <2>1, <1>k, <1>n, <1>t DEF Others, Pending
<1>7. ASSUME NEW t \in Threads, Send(t) PROVE Kept
  <2>1. /\ Others(t) /\ Same(t)
        /\ \/ call'[t].at = "sent"
           \/ call'[t].at = "back" /\ (call'[t].lost \/ call'[t].result = "bad" \/ ~Proxy[call[t].req].waits)
    BY <1>7, SendOf
  <2>2. /\ call[t].at = "send" /\ UNCHANGED service
        /\ pushed' = IF Registers(t) THEN pushed \union {call[t].id} ELSE pushed
    BY <1>7 DEF Send
  <2>3. CASE t = Client
    <3>1. \A r \in pushed : r \in service.asks
      BY <2>2, <2>3, <1>i DEF Pending
    <3>2. ASSUME Registers(t), NEW r, r = call[t].id PROVE Pending(r)'
      <4>1. Proxy[call[t].req].waits
        BY <3>2, RegistrationsWait DEF Registers
      <4> QED
        BY <2>1, <2>3, <3>2, <4>1, <1>e DEF Same, Pending, Registers
    <3>3. ASSUME NEW r \in pushed' PROVE r \in pushed \/ (Registers(t) /\ r = call[t].id)
      BY <2>2
    <3> QED
      BY <2>2, <3>1, <3>2, <3>3
  <2>4. CASE t # Client
    <3>1. ~Registers(t)
      BY <2>2, <2>4, <1>l, ThreadsAssumption
    <3> QED
      BY <2>1, <2>2, <2>4, <3>1, <1>k, <1>t DEF Others
  <2> QED
    BY <2>3, <2>4
<1>8. ASSUME NEW t \in Threads, Serve(t) PROVE Kept
  <2>1. /\ Others(t) /\ Same(t) /\ pushed' = pushed /\ service.asks \subseteq service'.asks
        /\ call[t].at \in {"sent", "loading"}
        /\ \/ call'[t].at = "loading" /\ call[t].req = "INIT_SOURCE"
           \/ /\ call'[t].at = "served"
              /\ call[t].at = "sent" /\ call[t].req \in Registrations /\ call'[t].served = "ok"
                   => call[t].id \in service'.asks
    BY <1>8, ServeCases, AtOf, ServesOf DEF Made
  <2>2. CASE t # Client
    BY <2>1, <2>2, <1>k, <1>t DEF Others
  <2>3. CASE t = Client
    <3>1. ASSUME NEW r \in pushed, Pending(r) PROVE r \in service'.asks \/ Pending(r)'
      <4>1. call[t].at = "sent" /\ Registers(t) /\ call[t].id = r
        BY <2>1, <2>3, <3>1 DEF Pending
      <4>2. call'[t].at = "served"
        BY <2>1, <4>1 DEF Registers, Registrations
      <4> QED
        BY <2>1, <2>3, <4>1, <4>2, <1>e DEF Pending, Registers, Same
    <3> QED
      BY <2>1, <3>1, <1>i
  <2> QED
    BY <2>2, <2>3
<1>9. ASSUME NEW t \in Threads, Reply(t) PROVE Kept
  <2>1. /\ Others(t) /\ Same(t) /\ call'[t].served = call[t].served
        /\ call[t].at \in {"sent", "loading", "served"} /\ call'[t].at = "back"
        /\ call'[t].lost \/ (call[t].at = "served" /\ call'[t].result = call[t].served)
    BY <1>9, ReplyOf
  <2>2. UNCHANGED <<pushed, service>>
    BY <1>9 DEF Reply
  <2>3. CASE t # Client
    BY <2>1, <2>2, <2>3, <1>k, <1>t DEF Others
  <2>4. CASE t = Client
    <3>1. ASSUME NEW r \in pushed, Pending(r) PROVE Pending(r)'
      BY <2>1, <2>4, <3>1, <1>e DEF Pending, Registers, Same
    <3> QED
      BY <2>2, <3>1, <1>i
  <2> QED
    BY <2>3, <2>4
<1>10. CASE ReleaseReturns \/ ReleaseEnds
  <2>1. UNCHANGED <<pushed, service>> /\ (call[Client].req \notin Registrations \/ call[Client].at = "uninit")
    BY <1>10 DEF ReleaseReturns, ReleaseEnds, ReleaseRequest, Registrations
  <2> QED
    BY <2>1, <1>n DEF Pending, Registers
<1>11. CASE RegisterEnds
  <2>1. /\ call[Client].at = "back" /\ ~call[Client].lost /\ UNCHANGED service
        /\ pushed' = IF call[Client].result = "ok" THEN pushed ELSE pushed \ {call[Client].id}
    BY <1>11 DEF RegisterEnds
  <2> QED
    BY <2>1, <1>i DEF Pending
<1>12. CASE RequestEnds
  BY <1>12, <1>n DEF RequestEnds, Pending
<1>13. ASSUME NEW r \in service.asks, Answer(r) PROVE Kept
  <2>1. service'.asks = service.asks \ {r} /\ pushed' = pushed \ {r} /\ UNCHANGED call
    BY <1>13 DEF Answer, Shape, ServiceState
  <2> QED
    BY <2>1, <1>i, <1>e DEF Pending, Registers
<1>14. ASSUME NEW k \in notices, OnCamSrvDied(k) PROVE Kept
  BY <1>14, <1>k DEF OnCamSrvDied
<1> QED
  BY <1>1, <1>2, <1>3, <1>4, <1>5, <1>6, <1>7, <1>8, <1>9, <1>10, <1>11, <1>12, <1>13, <1>14 DEF Next

\* A request is sent only to a service that runs.
LEMMA SentStep ==
  ASSUME Shape, Next, \A t \in Threads : call[t].at = "sent" => call[t].life # 0
  PROVE  \A t \in Threads : call'[t].at = "sent" => call'[t].life # 0
<1>t. Client \in Threads /\ Loads \subseteq Threads
  BY HandlerTypes
<1> DEFINE SentTo == \A t \in Threads : call'[t].at = "sent" => call'[t].life # 0
<1>m. ASSUME NEW t \in Threads, Others(t), call'[t].at = "sent" => call'[t].life # 0 PROVE SentTo
  BY <1>m DEF Others
<1>1. CASE InitKit \/ InitKitReturns \/ HolderStarts \/ HolderStops \/ Driver \/ AbilityStarts \/ AbilityEnds
  BY <1>1 DEF InitKit, InitKitReturns, HolderStarts, HolderStops, Driver, AbilityStarts, AbilityEnds
<1>2. ASSUME NEW l \in Loads, FinishStartSA(l) \/ FinishStartSAFailed(l) \/ StartEnds(l) PROVE SentTo
  BY <1>2, <1>t, <1>m, BeganOf, EndedOf DEF FinishStartSA, FinishStartSAFailed, StartEnds
<1>3. CASE Ask
  <2>1. \/ UNCHANGED call
        \/ \E p \in {"send", "lookup"} : \E req, i : call' = Began(Client, p, req, i)
    BY <1>3 DEF Ask
  <2> QED
    BY <2>1, <1>t, <1>m, BeganOf
<1>4. ASSUME NEW t \in Threads, GetCamSrv(t) PROVE SentTo
  BY <1>4, <1>m, GetOf
<1>5. ASSUME NEW t \in Threads, Send(t) PROVE SentTo
  BY <1>5, <1>m, SendOf DEF Same
<1>6. ASSUME NEW t \in Threads, Serve(t) PROVE SentTo
  <2>1. Others(t) /\ call'[t].at # "sent"
    BY <1>6, ServeCases, AtOf, ServesOf DEF Made
  <2> QED
    BY <2>1, <1>m
<1>7. ASSUME NEW t \in Threads, Reply(t) PROVE SentTo
  BY <1>7, <1>m, ReplyOf
<1>8. CASE ReleaseReturns \/ ReleaseEnds \/ RegisterEnds \/ RequestEnds
  BY <1>8, <1>t, <1>m, EndedOf, AtOf DEF ReleaseReturns, ReleaseEnds, RegisterEnds, RequestEnds
<1>9. ASSUME NEW r \in service.asks, Answer(r) PROVE SentTo
  BY <1>9 DEF Answer
<1>10. ASSUME NEW k \in notices, OnCamSrvDied(k) PROVE SentTo
  BY <1>10 DEF OnCamSrvDied
<1> QED
  BY <1>1, <1>2, <1>3, <1>4, <1>5, <1>6, <1>7, <1>8, <1>9, <1>10 DEF Next

\* A service that does not run has nothing to answer.
LEMMA AsksStep ==
  ASSUME Shape, KeptInv, Next
  PROVE  life' = 0 => service'.asks = {}
<1>s. service \in ServiceState /\ life \in 0 .. lives /\ lives \in Nat
  BY HandlerTypes DEF Shape
<1>k. ASSUME life' = life, service' = service PROVE life' = 0 => service'.asks = {}
  BY <1>k DEF KeptInv
<1>1. CASE AbilityStarts \/ AbilityEnds
  BY <1>1 DEF AbilityStarts, AbilityEnds, NoService
<1>2. ASSUME NEW t \in Threads, Serve(t) PROVE life' = 0 => service'.asks = {}
  <2>1. life' = life /\ call[t].life = life
    BY <1>2, ServeCases DEF cacheVars
  <2>2. CASE service'.asks = service.asks
    BY <2>1, <2>2 DEF KeptInv
  <2>3. CASE call[t].at = "sent"
    BY <2>1, <2>3 DEF KeptInv
  <2>4. CASE SourceInited(t)
    BY <2>2, <2>4, <1>s DEF SourceInited, ServiceState
  <2>5. ~SourceInited(t) => call[t].at = "sent"
    BY <1>2 DEF Serve, StubRefuses, InitSource, InitSink, ReleaseSource, ReleaseSink, Register, OfDevice,
       OfConnected, OfAccess, OfSource, OfCallback, Takes
  <2> QED
    BY <2>3, <2>4, <2>5
<1>3. ASSUME NEW r \in service.asks, Answer(r) PROVE life' = 0 => service'.asks = {}
  BY <1>3 DEF Answer, cacheVars
<1>4. ASSUME NEW t \in Threads, GetCamSrv(t) \/ Send(t) \/ Reply(t) PROVE life' = 0 => service'.asks = {}
  BY <1>4, <1>k DEF GetCamSrv, GetCached, GetObject, WatchObject, StoreProxy, Fetch, Watch, Store, Send,
     Reply, cacheVars
<1>5. ASSUME NEW l \in Loads, FinishStartSA(l) \/ FinishStartSAFailed(l) \/ StartEnds(l)
      PROVE  life' = 0 => service'.asks = {}
  BY <1>5, <1>k DEF FinishStartSA, FinishStartSAFailed, StartEnds, RecipientMade, cacheVars
<1>6. CASE InitKit \/ InitKitReturns \/ HolderStarts \/ HolderStops \/ Driver \/ Ask
  BY <1>6, <1>k DEF InitKit, InitKitReturns, HolderStarts, HolderStops, Driver, Ask, RecipientMade,
     CacheUnInit, cacheVars
<1>7. CASE ReleaseReturns \/ ReleaseEnds \/ RegisterEnds \/ RequestEnds
  BY <1>7, <1>k DEF ReleaseReturns, ReleaseEnds, RegisterEnds, RequestEnds, CacheUnInit, cacheVars
<1>8. ASSUME NEW k \in notices, OnCamSrvDied(k) PROVE life' = 0 => service'.asks = {}
  BY <1>8, <1>k DEF OnCamSrvDied, OnRemoteDied
<1> QED
  BY <1>1, <1>2, <1>3, <1>4, <1>5, <1>6, <1>7, <1>8 DEF Next

\* No callback is kept at the start.
LEMMA KeptStart == Init => KeptInv
<1>1. Init => \A t \in Threads : call[t].at = "idle"
  BY DEF Init, NoCall
<1> QED
  BY <1>1 DEF Init, NoService, KeptInv

\* Every step keeps the invariant of the callbacks.
LEMMA KeptInvStep == Shape /\ LoadsInv /\ KeptInv /\ [Next]_vars => KeptInv'
<1> SUFFICES ASSUME Shape, LoadsInv, KeptInv, [Next]_vars PROVE KeptInv'
  OBVIOUS
<1>1. CASE Next
  BY <1>1, KeptStep, SentStep, AsksStep DEF KeptInv
<1>2. CASE UNCHANGED vars
  BY <1>2 DEF vars, cacheVars, KeptInv, Pending, Registers, SourceKit
<1> QED
  BY <1>1, <1>2

\* Every registration callback the kit keeps is one the service has still to answer,
\* unless the service died or the call was lost.
THEOREM KeptCallbacksAreAnswered == Spec => []CallbacksAreAnswered
<1>1. Shape /\ KeptInv => CallbacksAreAnswered
  BY DEF KeptInv, Pending, CallbacksAreAnswered
<1>2. HandlerInv => LoadsInv
  BY DEF HandlerInv
<1> QED
  BY <1>1, <1>2, CacheStart, CacheInvStep, HandlerStart, HandlerInvStep, KeptStart, KeptInvStep,
     ShapeInit, ShapeStep, PTL DEF Spec

----------------------------------------------------------------------------
\* What a stub gets and what a caller is told.

\* A thread that calls has one of the requests of its side.
Asks(t) == call[t].at # "idle" => call[t].req \in {InitRequest} \cup ClientRequests

\* What was sent is what the stub reads, and nobody behind it refuses it.
SentSound(t) ==
  call[t].at = "sent" =>
    /\ Got(t) = call[t].args
    /\ \/ Accepted(call[t].req, Got(t), Permissions)
       \/ "null" \in {call[t].args[i] : i \in DOMAIN call[t].args}
       \/ call[t].req \in Unchecked

\* A success is the service's, or that of a proxy that would not know.
BackSound(t) ==
  call[t].at = "back" /\ call[t].result = "ok" =>
    \/ call[t].served = "ok"
    \/ ~Proxy[call[t].req].waits
    \/ call[t].lost /\ ~Proxy[call[t].req].heeds

CallsInv == \A t \in Threads : Asks(t) /\ SentSound(t) /\ BackSound(t)

\* Every request has a row in the tables; the access requests are those of a sink's kit.
LEMMA KnownRequests ==
  ASSUME side \in Sides, NEW req \in {InitRequest} \cup ClientRequests
  PROVE  req \in DOMAIN Proxy /\ (req \in DOMAIN AccessService => side = "sinkKit")
<1>1. /\ DOMAIN SourceCallbackProxy \subseteq DOMAIN Proxy
      /\ DOMAIN SinkCallbackProxy \subseteq DOMAIN Proxy
  BY ProxyGroups
<1>2. DOMAIN AccessService = DOMAIN SinkProxyAccess
  BY DEF AccessService, SinkProxyAccess
<1>3. {"RELEASE_SOURCE", "INIT_SOURCE", "UPDATE_WORKMODE", "CAMERA_NOTIFY"} \cup Registrations \subseteq DOMAIN Proxy
  BY ProxyGroups DEF Registrations, SourceProxyOwner, SourceProxyDevice
<1>4. {"INIT_SINK", "RELEASE_SINK", "SUBSCRIBE_LOCAL_HARDWARE", "UNSUBSCRIBE_LOCAL_HARDWARE"}
        \cup ToSink \cup Unchecked \cup DOMAIN SinkProxyAccess \subseteq DOMAIN Proxy
  BY ProxyGroups DEF ToSink, Unchecked, SinkProxyOwner, SinkProxyChannel, SinkProxyHardware
<1>5. req \in DOMAIN Proxy
  BY <1>1, <1>2, <1>3, <1>4 DEF InitRequest, ClientRequests, SourceKit, Sides, Unchecked
<1>6. DOMAIN SinkProxyAccess \cap
        (DOMAIN SourceCallbackProxy \cup DOMAIN SinkCallbackProxy \cup ToSink \cup Registrations
         \cup {"RELEASE_SOURCE", "INIT_SOURCE", "UPDATE_WORKMODE", "CAMERA_NOTIFY", "INIT_SINK"}) = {}
  BY DEF SinkProxyAccess, SourceCallbackProxy, SinkCallbackProxy, ToSink, Registrations
<1>7. req \in DOMAIN AccessService => side = "sinkKit"
  BY <1>2, <1>6 DEF InitRequest, ClientRequests, SourceKit, Sides
<1> QED
  BY <1>5, <1>7

\* What the steps of a call make of it.
LEMMA SendSound ==
  ASSUME Shape, NEW t \in Threads, Asks(t), Send(t)
  PROVE  SentSound(t)' /\ BackSound(t)'
<1>1. PICK args \in Checked(call[t].req) :
        \/ call' = Back(t, "bad", FALSE) \/ call' = Unanswered(t)
        \/ call' = Back(t, "ok", FALSE) /\ ~Proxy[call[t].req].waits
        \/ /\ call' = [call EXCEPT ![t].at = "sent", ![t].args = args]
           /\ Fits(args, Proxy[call[t].req].args)
  BY DEF Send
<1>2. CASE /\ call' = [call EXCEPT ![t].at = "sent", ![t].args = args]
           /\ Fits(args, Proxy[call[t].req].args)
  <2>r. PICK r \in CallState : r = call[t]
    BY OwnCall
  <2>a. PICK b : b = [r EXCEPT !.at = "sent", !.args = args]
    OBVIOUS
  <2>b. b.at = "sent" /\ b.req = r.req /\ b.args = args
    BY <2>a DEF CallState
  <2>c. call'[t] = b
    BY <1>2, <2>a, <2>r DEF Shape
  <2>1. r.req \in {InitRequest} \cup ClientRequests /\ side \in Sides
    BY <2>r DEF Asks, Send, Shape, TypeOK
  <2>2. r.req \in DOMAIN Proxy /\ (r.req \in DOMAIN AccessService => side = "sinkKit")
    BY <2>1, KnownRequests
  <2>3. /\ args \in ArgsOf[r.req] /\ (side = "sinkKit" => Passes(SinkHandler, r.req, args))
        /\ Fits(args, Proxy[r.req].args)
    BY <1>2, <2>r DEF Checked
  <2>4. args = [i \in DOMAIN Proxy[r.req].args |-> args[i]]
    BY <2>2, <2>3, ArgsTyped
  <2>5. Read(r.req, Written(args)) = args
    BY <2>2, <2>3, <2>4, RowsAgree, ParcelKept DEF Agree
  <2>6. \/ Accepted(r.req, args, {"enable", "access"})
        \/ "null" \in {args[i] : i \in DOMAIN args}
        \/ r.req \in Unchecked
    BY <2>2, <2>3, <2>4, ArgsAccepted
  <2>7. BackSound(t)'
    BY <2>b, <2>c DEF BackSound
  <2>8. SentSound(t)'
    BY <2>b, <2>c, <2>5, <2>6 DEF SentSound, Got, Permissions
  <2> QED
    BY <2>7, <2>8
<1>3. CASE call' = Unanswered(t)
  <2>1. /\ Same(t) /\ call'[t].at = "back" /\ call'[t].lost = TRUE
        /\ call'[t].result = IF Proxy[call[t].req].heeds THEN "bad" ELSE "ok"
    BY <1>3, BackOf DEF Unanswered
  <2> QED
    BY <2>1 DEF Same, SentSound, BackSound
<1>4. CASE call' = Back(t, "bad", FALSE) \/ (call' = Back(t, "ok", FALSE) /\ ~Proxy[call[t].req].waits)
  <2>1. /\ Same(t) /\ call'[t].at = "back"
        /\ call'[t].result = "bad" \/ ~Proxy[call[t].req].waits
    <3>1. CASE call' = Back(t, "bad", FALSE)
      BY <3>1, BackOf
    <3>2. CASE call' = Back(t, "ok", FALSE) /\ ~Proxy[call[t].req].waits
      BY <3>2, BackOf
    <3> QED
      BY <1>4, <3>1, <3>2
  <2> QED
    BY <2>1 DEF Same, SentSound, BackSound
<1> QED
  BY <1>1, <1>2, <1>3, <1>4

LEMMA ReplySound ==
  ASSUME Shape, NEW t \in Threads, Reply(t)
  PROVE  SentSound(t)' /\ BackSound(t)'
<1>1. CASE call' = Unanswered(t)
  <2>1. /\ Same(t) /\ call'[t].at = "back" /\ call'[t].lost = TRUE
        /\ call'[t].result = IF Proxy[call[t].req].heeds THEN "bad" ELSE "ok"
    BY <1>1, BackOf DEF Unanswered
  <2> QED
    BY <2>1 DEF Same, SentSound, BackSound
<1>2. CASE call' = Back(t, call[t].served, FALSE)
  <2>1. call'[t].at = "back" /\ call'[t].served = call[t].served /\ call'[t].result = call[t].served
    BY <1>2, BackOf
  <2> QED
    BY <2>1 DEF SentSound, BackSound
<1> QED
  BY <1>1, <1>2 DEF Reply

\* Every step keeps the calls sound.
LEMMA CallsStep ==
  ASSUME Shape, CallsInv, Next
  PROVE  CallsInv'
<1>t. Client \in Threads /\ Loads \subseteq Threads
  BY HandlerTypes
<1>s. InitRequest' = InitRequest /\ ClientRequests' = ClientRequests
  <2>1. side' = side
    BY RestStep DEF Shape, TypeOK, RestOK
  <2> QED
    BY <2>1 DEF InitRequest, ClientRequests, SourceKit
<1> DEFINE Fine(t) == Asks(t) /\ SentSound(t) /\ BackSound(t)
<1>o. ASSUME NEW u \in Threads, call'[u] = call[u] PROVE Fine(u)'
  <2>1. Asks(u) /\ SentSound(u) /\ BackSound(u)
    BY DEF CallsInv
  <2> QED
    BY <1>o, <1>s, <2>1 DEF Asks, SentSound, BackSound, Got
<1>m. ASSUME NEW t \in Threads, Others(t), Fine(t)' PROVE CallsInv'
  <2>1. ASSUME NEW u \in Threads, u # t PROVE Fine(u)'
    BY <1>m, <1>o, <2>1 DEF Others
  <2> QED
    BY <1>m, <2>1 DEF CallsInv
<1>k. ASSUME UNCHANGED call PROVE CallsInv'
  BY <1>k, <1>o DEF CallsInv
<1>p. ASSUME NEW t \in Threads, call'[t].at \notin {"sent", "back"},
             call'[t].at # "idle" => call'[t].req \in {InitRequest} \cup ClientRequests
      PROVE  Fine(t)'
  BY <1>p, <1>s DEF Asks, SentSound, BackSound
<1>a. \A t \in Threads : Asks(t)
  BY DEF CallsInv
<1> HIDE DEF Fine
<1>1. CASE InitKit \/ InitKitReturns \/ HolderStarts \/ HolderStops \/ Driver \/ AbilityStarts \/ AbilityEnds
  BY <1>1, <1>k DEF InitKit, InitKitReturns, HolderStarts, HolderStops, Driver, AbilityStarts, AbilityEnds
<1>2. ASSUME NEW l \in Loads, FinishStartSA(l) \/ FinishStartSAFailed(l) \/ StartEnds(l) PROVE CallsInv'
  BY <1>2, <1>t, <1>k, <1>m, <1>p, BeganOf, EndedOf DEF FinishStartSA, FinishStartSAFailed, StartEnds
<1>3. CASE Ask
  <2>1. PICK req \in ClientRequests :
          \/ UNCHANGED call
          \/ \E p \in {"send", "lookup"} : call' = Began(Client, p, req, calls + 1)
    BY <1>3 DEF Ask
  <2> QED
    BY <2>1, <1>t, <1>k, <1>m, <1>p, BeganOf
<1>4. ASSUME NEW t \in Threads, GetCamSrv(t) PROVE CallsInv'
  BY <1>4, <1>a, <1>m, <1>p, GetOf DEF Asks
<1>5. ASSUME NEW t \in Threads, Send(t) PROVE CallsInv'
  <2>1. Others(t) /\ Same(t) /\ call[t].at = "send"
    BY <1>5, SendOf DEF Send
  <2>2. Asks(t)'
    BY <2>1, <1>a, <1>s DEF Asks, Same
  <2> QED
    BY <1>5, <1>a, <1>m, <2>1, <2>2, SendSound DEF Fine
<1>6. ASSUME NEW t \in Threads, Serve(t) PROVE CallsInv'
  <2>1. /\ Others(t) /\ Same(t) /\ call'[t].at \in {"served", "loading"}
        /\ call[t].at \in {"sent", "loading"}
    BY <1>6, ServeCases, AtOf, ServesOf DEF Made
  <2> QED
    BY <2>1, <1>a, <1>m, <1>p DEF Asks, Same
<1>7. ASSUME NEW t \in Threads, Reply(t) PROVE CallsInv'
  <2>1. Others(t) /\ Same(t) /\ call[t].at \in {"sent", "loading", "served"}
    BY <1>7, ReplyOf
  <2>2. Asks(t)'
    BY <2>1, <1>a, <1>s DEF Asks, Same
  <2> QED
    BY <1>7, <1>m, <2>1, <2>2, ReplySound DEF Fine
<1>8. CASE ReleaseReturns
  <2>1. /\ Others(Client) /\ call'[Client].at \in {"idle", "uninit"}
        /\ call'[Client].at # "idle" => call'[Client].req = call[Client].req /\ call[Client].at = "back"
    BY <1>8, <1>t, EndedOf, AtOf DEF ReleaseReturns, Same
  <2> QED
    BY <2>1, <1>t, <1>a, <1>m, <1>p DEF Asks
<1>9. CASE ReleaseEnds \/ RegisterEnds \/ RequestEnds
  BY <1>9, <1>t, <1>m, <1>p, EndedOf DEF ReleaseEnds, RegisterEnds, RequestEnds
<1>10. ASSUME NEW r \in service.asks, Answer(r) PROVE CallsInv'
  BY <1>10, <1>k DEF Answer
<1>11. ASSUME NEW k \in notices, OnCamSrvDied(k) PROVE CallsInv'
  BY <1>11, <1>k DEF OnCamSrvDied
<1> QED
  BY <1>1, <1>2, <1>3, <1>4, <1>5, <1>6, <1>7, <1>8, <1>9, <1>10, <1>11 DEF Next

\* What a proxy has checked reaches the stub as it was and is refused by nobody, and a
\* caller reads a success only of a request that was served, but for the proxies that
\* do not look.
THEOREM CallsAlwaysSound == Spec => []CallsAreSound
<1>1. Init => CallsInv
  <2>1. Init => \A t \in Threads : call[t].at = "idle"
    BY DEF Init, NoCall
  <2> QED
    BY <2>1 DEF CallsInv, Asks, SentSound, BackSound
<1>2. Shape /\ CallsInv /\ [Next]_vars => CallsInv'
  <2> SUFFICES ASSUME Shape, CallsInv, [Next]_vars PROVE CallsInv'
    OBVIOUS
  <2>1. CASE Next
    BY <2>1, CallsStep
  <2>2. CASE UNCHANGED vars
    BY <2>2 DEF vars, CallsInv, Asks, SentSound, BackSound, Got, InitRequest, ClientRequests, SourceKit
  <2> QED
    BY <2>1, <2>2
<1>3. CallsInv => CallsAreSound
  BY DEF CallsInv, SentSound, BackSound, CallsAreSound, Unchecked
<1> QED
  BY <1>1, <1>2, <1>3, ShapeInit, ShapeStep, PTL DEF Spec
=============================================================================
