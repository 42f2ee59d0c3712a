-------------------------------- MODULE Ipc --------------------------------
(***************************************************************************)
(* The requests that cross a process or a device as parcels: what each     *)
(* proxy checks and writes, what each stub reads, checks and asks of its   *)
(* caller.  The interfaces are IDistributedCameraSink and                  *)
(* IDistributedCameraSource with the callback of each.  There is no state  *)
(* here; Services makes calls with these tables.                           *)
(*                                                                         *)
(* An argument's condition is the set of values it admits.  A string is    *)
(* its class of length: empty, at most DID_MAX_SIZE ("id"), at most        *)
(* PARAM_MAX_SIZE ("param"), or longer ("huge").                           *)
(***************************************************************************)
EXTENDS Naturals, Sequences

(* Two tables as one.                                                      *)
f ++ g == [r \in DOMAIN f \union DOMAIN g |-> IF r \in DOMAIN f THEN f[r] ELSE g[r]]

Text    == {"empty", "id", "param", "huge"}
Id      == {"id"}
Param   == {"id", "param"}
Named   == Text \ {"empty"}
Data    == Text \ {"huge"}
Object  == {"object", "null"}
Given   == {"object"}
Integer == {"positive", "negative"}
Natural == {"positive"}
Bool    == {"true", "false"}

(* A proxy's method: the condition of each argument in the order they are  *)
(* written, whether the result of SendRequest is looked at, and whether    *)
(* the call waits for a reply.                                             *)
Proxied(args, heeds) == [args |-> args, heeds |-> heeds, waits |-> TRUE]

SinkProxyOwner ==
  [INIT_SINK                  |-> Proxied(<<Param, Object>>, FALSE),
   RELEASE_SINK               |-> Proxied(<<>>, FALSE),
   SUBSCRIBE_LOCAL_HARDWARE   |-> Proxied(<<Id, Param>>, TRUE),
   UNSUBSCRIBE_LOCAL_HARDWARE |-> Proxied(<<Id>>, TRUE)]

SinkProxyChannel ==
  [STOP_CAPTURE    |-> [Proxied(<<Id>>, TRUE) EXCEPT !.waits = FALSE],
   CHANNEL_NEG     |-> Proxied(<<Id, Param>>, TRUE),
   GET_CAMERA_INFO |-> Proxied(<<Id, Text>>, TRUE),
   OPEN_CHANNEL    |-> Proxied(<<Id, Param>>, TRUE)]

SinkProxyHardware ==
  [CLOSE_CHANNEL               |-> Proxied(<<Id>>, TRUE),
   PAUSE_DISTRIBUTED_HARDWARE  |-> Proxied(<<Text>>, TRUE),
   RESUME_DISTRIBUTED_HARDWARE |-> Proxied(<<Text>>, TRUE),
   STOP_DISTRIBUTED_HARDWARE   |-> Proxied(<<Text>>, TRUE)]

SinkProxyAccess ==
  [SET_ACCESS_LISTENER      |-> Proxied(<<Given, Integer, Text>>, TRUE),
   REMOVE_ACCESS_LISTENER   |-> Proxied(<<Text>>, TRUE),
   SET_AUTHORIZATION_RESULT |-> Proxied(<<Text, Bool>>, TRUE)]

SourceProxyOwner ==
  [INIT_SOURCE                   |-> Proxied(<<Param, Object>>, FALSE),
   RELEASE_SOURCE                |-> Proxied(<<>>, FALSE),
   REGISTER_DISTRIBUTED_HARDWARE |-> Proxied(<<Id, Id, Id, Param, Param>>, FALSE)]

SourceProxyDevice ==
  [UNREGISTER_DISTRIBUTED_HARDWARE |-> Proxied(<<Id, Id, Id>>, FALSE),
   CAMERA_NOTIFY                   |-> Proxied(<<Id, Id, Param>>, FALSE),
   UPDATE_WORKMODE |-> Proxied(<<Id, Id, Natural, Natural, Integer, Bool>>, FALSE)]

SourceCallbackProxy ==
  [NOTIFY_REG_RESULT       |-> Proxied(<<Id, Id, Id, Integer, Data>>, FALSE),
   NOTIFY_UNREG_RESULT     |-> Proxied(<<Id, Id, Id, Integer, Data>>, FALSE),
   NOTIFY_STATE_CHANGED    |-> Proxied(<<Id, Id, Natural>>, FALSE),
   NOTIFY_DATASYNC_TRIGGER |-> Proxied(<<Id>>, FALSE)]

SinkCallbackProxy ==
  [NOTIFY_RESOURCEINFO     |-> Proxied(<<Integer, Text, Text>>, FALSE),
   NOTIFY_STATE_CHANGEINFO |-> Proxied(<<Id, Id, Natural>>, FALSE)]

Proxy == SinkProxyOwner ++ SinkProxyChannel ++ SinkProxyHardware ++ SinkProxyAccess ++
         SourceProxyOwner ++ SourceProxyDevice ++ SourceCallbackProxy ++ SinkCallbackProxy

(* A stub's method: the condition of each argument in the order they are   *)
(* read, and the permission it wants of its caller.                        *)
Served(permission, args) == [permission |-> permission, args |-> args]

SinkStubOwner ==
  [INIT_SINK                  |-> Served("enable", <<Param, Given>>),
   RELEASE_SINK               |-> Served("enable", <<>>),
   SUBSCRIBE_LOCAL_HARDWARE   |-> Served("none", <<Id, Param>>),
   UNSUBSCRIBE_LOCAL_HARDWARE |-> Served("none", <<Id>>)]

SinkStubChannel ==
  [STOP_CAPTURE    |-> Served("none", <<Id>>),
   CHANNEL_NEG     |-> Served("none", <<Id, Param>>),
   GET_CAMERA_INFO |-> Served("none", <<Id, Text>>),
   OPEN_CHANNEL    |-> Served("none", <<Id, Param>>),
   CLOSE_CHANNEL   |-> Served("none", <<Id>>)]

SinkStubHardware ==
  [PAUSE_DISTRIBUTED_HARDWARE  |-> Served("access", <<Id>>),
   RESUME_DISTRIBUTED_HARDWARE |-> Served("access", <<Id>>),
   STOP_DISTRIBUTED_HARDWARE   |-> Served("access", <<Id>>),
   SET_ACCESS_LISTENER         |-> Served("access", <<Given, Integer, Text>>),
   REMOVE_ACCESS_LISTENER      |-> Served("access", <<Text>>),
   SET_AUTHORIZATION_RESULT    |-> Served("access", <<Text, Bool>>)]

SourceStubOwner ==
  [INIT_SOURCE                   |-> Served("enable", <<Param, Given>>),
   RELEASE_SOURCE                |-> Served("enable", <<>>),
   REGISTER_DISTRIBUTED_HARDWARE |-> Served("enable", <<Id, Id, Id, Param, Param>>)]

SourceStubDevice ==
  [UNREGISTER_DISTRIBUTED_HARDWARE |-> Served("enable", <<Id, Id, Id>>),
   CAMERA_NOTIFY                   |-> Served("none", <<Id, Id, Param>>),
   UPDATE_WORKMODE |-> Served("enable", <<Id, Id, Natural, Natural, Integer, Bool>>)]

SourceCallbackStub ==
  [NOTIFY_REG_RESULT       |-> Served("none", <<Id, Id, Id, Integer, Data>>),
   NOTIFY_UNREG_RESULT     |-> Served("none", <<Id, Id, Id, Integer, Data>>),
   NOTIFY_STATE_CHANGED    |-> Served("none", <<Text, Text, Integer>>),
   NOTIFY_DATASYNC_TRIGGER |-> Served("none", <<Text>>)]

SinkCallbackStub ==
  [NOTIFY_RESOURCEINFO     |-> Served("none", <<Integer, Text, Text>>),
   NOTIFY_STATE_CHANGEINFO |-> Served("none", <<Text, Text, Integer>>)]

Stub == SinkStubOwner ++ SinkStubChannel ++ SinkStubHardware ++
        SourceStubOwner ++ SourceStubDevice ++ SourceCallbackStub ++ SinkCallbackStub

(* What the object behind a stub checks once more.                         *)
AccessService ==
  [SET_ACCESS_LISTENER      |-> <<Given, Integer, Named>>,
   REMOVE_ACCESS_LISTENER   |-> <<Named>>,
   SET_AUTHORIZATION_RESULT |-> <<Named, Bool>>]

SourceCallback ==
  [NOTIFY_STATE_CHANGED |-> <<Id, Id, Natural>>, NOTIFY_DATASYNC_TRIGGER |-> <<Id>>]

SinkCallback == [NOTIFY_STATE_CHANGEINFO |-> <<Id, Id, Natural>>]

Behind == AccessService ++ SourceCallback ++ SinkCallback

(* What the handler of the kit checks before it calls the proxy.           *)
SinkHandler ==
  [SET_ACCESS_LISTENER      |-> <<Given, Integer, Named>>,
   REMOVE_ACCESS_LISTENER   |-> <<Named>>,
   SET_AUTHORIZATION_RESULT |-> <<Named, Bool>>]

----------------------------------------------------------------------------
Requests == DOMAIN Proxy

Fits(args, conditions) == \A i \in DOMAIN conditions : args[i] \in conditions[i]

(* The row of a table, if it has one, admits the arguments.                *)
Passes(table, request, args) == request \in DOMAIN table => Fits(args, table[request])

(* The types of a parcel's items, and what a read finds where the parcel   *)
(* has no such item.                                                       *)
Types == {Text, Object, Integer, Bool}
TypeOf(condition) == CHOOSE t \in Types : condition \subseteq t
Missing(type) == CASE type = Text -> "empty" [] type = Object -> "null"
                   [] type = Integer -> "positive" [] OTHER -> "false"

(* A null callback is not written: the parcel ends before it.              *)
Written(args) == IF args # <<>> /\ args[Len(args)] = "null"
                 THEN SubSeq(args, 1, Len(args) - 1) ELSE args

Read(request, parcel) ==
  [i \in DOMAIN Stub[request].args |->
     LET type == TypeOf(Stub[request].args[i])
     IN  IF i \in DOMAIN parcel /\ parcel[i] \in type THEN parcel[i] ELSE Missing(type)]

Accepted(request, got, permissions) ==
  /\ Stub[request].permission \in permissions \union {"none"}
  /\ Fits(got, Stub[request].args)
  /\ Passes(Behind, request, got)

(* The arguments worth telling apart: all as they should be, or all but one. *)
Ordinary == [Text |-> "id", Object |-> "object", Integer |-> "positive", Bool |-> "true"]
GoodArgs(request) ==
  [i \in DOMAIN Proxy[request].args |->
     CHOOSE v \in Proxy[request].args[i] : \E type \in DOMAIN Ordinary : v = Ordinary[type]]
ArgsOf == [request \in Requests |->
  {GoodArgs(request)} \union
  UNION {{[GoodArgs(request) EXCEPT ![i] = v] : v \in TypeOf(Proxy[request].args[i])} :
         i \in DOMAIN GoodArgs(request)}]
=============================================================================
