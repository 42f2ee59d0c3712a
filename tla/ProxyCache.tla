----------------------------- MODULE ProxyCache -----------------------------
(***************************************************************************)
(* A cached proxy of a service in another process and the death recipient  *)
(* that drops it.  Four objects of the code follow this pattern: the       *)
(* kit's DCameraSourceHandlerIpc and DCameraSinkHandlerIpc, which cache    *)
(* the local service, and the services' DCameraSourceServiceIpc and        *)
(* DCameraSinkServiceIpc, which cache a remote one per device; the model   *)
(* has one of them, for one device.  A service that has died and started   *)
(* again is another object: a life is its incarnation, and no life is 0.   *)
(***************************************************************************)
EXTENDS Naturals

CONSTANTS Threads,   \* threads that use the cache
          MaxLives   \* bound: how often the service starts

ASSUME MaxLivesAssumption == MaxLives \in Nat \ {0}

VARIABLES
  life,      \* the incarnation that runs, 0 if none
  lives,     \* how many have been started
  isInit,    \* isInit_: the recipient object exists
  proxy,     \* localSource_, localSink_ or the entry of remoteSinks_: a life, 0 for null
  watching,  \* per life: how often the recipient is registered with it
  notices,   \* lives whose death the recipient has still to be told of
  fetched    \* per thread: the life of the object it got and has not yet stored

cacheVars == <<life, lives, isInit, proxy, watching, notices, fetched>>
Lives == 1 .. MaxLives

CacheTypeOK ==
  /\ life \in 0 .. lives /\ lives \in 0 .. MaxLives /\ isInit \in BOOLEAN /\ proxy \in 0 .. lives
  /\ watching \in [Lives -> Nat] /\ notices \subseteq Lives /\ fetched \in [Threads -> 0 .. lives]
CacheInit ==
  /\ life = 0 /\ lives = 0 /\ isInit = FALSE /\ proxy = 0
  /\ watching = [k \in Lives |-> 0] /\ notices = {} /\ fetched = [t \in Threads |-> 0]

ServiceStarts ==
  /\ life = 0 /\ lives < MaxLives
  /\ lives' = lives + 1 /\ life' = lives + 1
  /\ UNCHANGED <<isInit, proxy, watching, notices, fetched>>

(* The process of the service ends: whoever watches will be told.          *)
ServiceEnds ==
  /\ life # 0
  /\ life' = 0
  /\ notices' = notices \union {k \in {life} : watching[k] > 0}
  /\ UNCHANGED <<lives, isInit, proxy, watching, fetched>>

RecipientMade == isInit' = TRUE /\ UNCHANGED <<life, lives, proxy, watching, notices, fetched>>

(* RemoveDeathRecipient of the cached object, if there is one.             *)
Unwatched == IF proxy = 0 THEN watching
             ELSE [watching EXCEPT ![proxy] = IF @ = 0 THEN 0 ELSE @ - 1]

(* The object the service manager has, 0 if the service does not run.      *)
Fetch(t) ==
  /\ proxy = 0
  /\ fetched' = [fetched EXCEPT ![t] = life]
  /\ UNCHANGED <<life, lives, isInit, proxy, watching, notices>>

(* AddDeathRecipient: it fails for an object that is dead and for a null   *)
(* recipient, and the code goes on.                                        *)
Watches(t) == isInit /\ fetched[t] = life
Watch(t) ==
  /\ watching' = IF Watches(t) THEN [watching EXCEPT ![fetched[t]] = @ + 1] ELSE watching
  /\ UNCHANGED <<life, lives, isInit, proxy, notices, fetched>>

(* Slip: the recipient is taken from the new object instead of the old one. *)
StoreKeepsOld(t) ==
  /\ watching' = [watching EXCEPT ![fetched[t]] = IF @ = 0 THEN 0 ELSE @ - 1]
  /\ proxy' = fetched[t]
  /\ fetched' = [fetched EXCEPT ![t] = 0]
  /\ UNCHANGED <<life, lives, isInit, notices>>

Store(t) ==
  /\ watching' = Unwatched
  /\ proxy' = fetched[t]
  /\ fetched' = [fetched EXCEPT ![t] = 0]
  /\ UNCHANGED <<life, lives, isInit, notices>>

(* UnInit with what it deletes.                                            *)
CacheUnInit ==
  IF isInit
  THEN /\ isInit' = FALSE /\ proxy' = 0 /\ watching' = Unwatched
       /\ notices' = {k \in notices : Unwatched[k] > 0}
       /\ UNCHANGED <<life, lives, fetched>>
  ELSE UNCHANGED cacheVars

(* OnRemoteDied: only the object that is cached is dropped.                *)
OnRemoteDied(k) ==
  /\ k \in notices
  /\ notices' = notices \ {k}
  /\ IF proxy = k THEN proxy' = 0 /\ watching' = Unwatched ELSE UNCHANGED <<proxy, watching>>
  /\ UNCHANGED <<life, lives, isInit, fetched>>
=============================================================================
