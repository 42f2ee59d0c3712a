------------------------------ MODULE Commands ------------------------------
(***************************************************************************)
(* The commands that sources and sinks send each other as JSON: each *Cmd  *)
(* class writes itself with Marshal and is read back with Unmarshal by the *)
(* peer, which may be of another version, so that a field is missing or    *)
(* has another type.  The info of a video frame goes the same way, beside  *)
(* the frame, and is read by HandleSourceStreamExt.                        *)
(*                                                                         *)
(* A JSON value is its type and what it holds; an object maps names to     *)
(* values.  Strings and most numbers are one representative each; only the *)
(* text of a setting is metadata that its sender encodes and its receiver  *)
(* decodes.                                                                *)
(***************************************************************************)
EXTENDS Naturals, Sequences, Base64

CONSTANTS IntMax,    \* the largest int, which cJSON's valueint cannot exceed
          MaxItems,  \* bound: infos, settings or details in one command
          Metadata   \* the encoded camera metadata that is sent alone, as bytes

ASSUME CommandsAssumption ==
  IntMax \in Nat \ {0} /\ MaxItems \in Nat \ {0} /\ \A b \in Metadata : b \in Seq(0..255)

VARIABLES
  sent,      \* the command its sender has, or NoCommand
  wire,      \* the message under way
  intact,    \* history: the message arrives as it was written
  received   \* what the receiver made of it, or NoCommand

commandVars == <<sent, wire, intact, received>>

NoCommand == [kind |-> "none"]
Json(t, v) == [t |-> t, v |-> v]
Joined(a, b) == [f \in DOMAIN a \union DOMAIN b |-> IF f \in DOMAIN a THEN a[f] ELSE b[f]]
With(o, name, v) == [f \in DOMAIN o \union {name} |-> IF f = name THEN v ELSE o[f]]

----------------------------------------------------------------------------
(* What each class writes and reads, by name and type.                     *)
Header == [Type |-> "string", dhId |-> "string", Command |-> "string"]
CaptureInfo == [Width |-> "number", Height |-> "number", Format |-> "number", DataSpace |-> "number",
                IsCapture |-> "bool", EncodeType |-> "number", StreamType |-> "number"]
CaptureTail == [mode |-> "number", userId |-> "number", tokenId |-> "number", accountId |-> "string"]
Setting == [SettingType |-> "number", SettingValue |-> "string"]
ChannelDetail == [DataSessionFlag |-> "string", StreamType |-> "number"]
SourceDevId == [SourceDevId |-> "string"]
Event == [EventType |-> "number", EventResult |-> "number", EventContent |-> "string"]
CameraState == [State |-> "number"]
FrameInfo == [type |-> "number", index |-> "number", pts |-> "number", startEncodeT |-> "number",
              finishEncodeT |-> "number", sendT |-> "number", ver |-> "string"]

\* The representatives of each type; a 64-bit number may exceed an int.
Sample(t) == CASE t = "number" -> 1 [] t = "string" -> "text" [] t = "bool" -> TRUE
Filled(fields) == [f \in DOMAIN fields |-> Sample(fields[f])]
Wide == {"tokenId", "pts", "startEncodeT", "finishEncodeT", "sendT"}

Write(fields, values) == [f \in DOMAIN fields |-> Json(fields[f], values[f])]
Has(o, f, t) == f \in DOMAIN o /\ o[f].t = t
Reads(fields, o) == \A f \in DOMAIN fields : Has(o, f, fields[f])
valueint(x) == IF x.t = "number" /\ x.v > IntMax THEN IntMax ELSE x.v
Read(fields, o) == [f \in DOMAIN fields |-> valueint(o[f])]

----------------------------------------------------------------------------
(* Marshal.  The command names its kind, and a setting's text is Base64.   *)
WithHeader(c, value) == With(Write(Header, With(Filled(Header), "Command", c.kind)), "Value", value)
Encoded(s) == With(s, "SettingValue", Base64Encode(s.SettingValue))
Decoded(s) == With(s, "SettingValue", Base64Decode(s.SettingValue))
MarshalSettings(s) == Json("array", [i \in DOMAIN s |-> Write(Setting, Encoded(s[i]))])
MarshalInfos(infos) ==
  Json("array", [i \in DOMAIN infos |->
    With(Write(CaptureInfo, infos[i]), "CaptureSettings", MarshalSettings(infos[i].settings))])
MarshalCapture(c) == Joined(WithHeader(c, MarshalInfos(c.value)), Write(CaptureTail, c.tail))
MarshalMetadata(c) == WithHeader(c, MarshalSettings(c.value))
MarshalDetails(d) == Json("array", [i \in DOMAIN d |-> Write(ChannelDetail, d[i])])
MarshalChannel(c) ==
  WithHeader(c, Json("object", With(Write(SourceDevId, c.value), "Detail", MarshalDetails(c.value.details))))
MarshalEvent(c) == WithHeader(c, Json("object", Write(Event, c.value)))
MarshalInfo(c) == WithHeader(c, Json("object", Write(CameraState, c.value)))
MarshalOpenInfo(c) == WithHeader(c, Json("object", Write(SourceDevId, c.value)))
(* SendSofbusStream: the time stamp goes as a number and as text.          *)
MarshalFrameInfo(c) == With(Write(FrameInfo, c.value), "rawTime", Json("string", c.value.pts))

Marshal(c) ==
  CASE c.kind = "capture" -> MarshalCapture(c)
    [] c.kind \in {"metadata", "result"} -> MarshalMetadata(c)
    [] c.kind = "channel" -> MarshalChannel(c)
    [] c.kind = "event" -> MarshalEvent(c)
    [] c.kind = "info" -> MarshalInfo(c)
    [] c.kind = "open" -> MarshalOpenInfo(c)
    [] c.kind = "frame" -> MarshalFrameInfo(c)

----------------------------------------------------------------------------
(* Unmarshal: the command that is read, or NoCommand.                      *)
ReadsAll(fields, a) == \A i \in DOMAIN a : Reads(fields, a[i])
ReadAll(fields, a) == [i \in DOMAIN a |-> Read(fields, a[i])]
ReadSettings(a) == [i \in DOMAIN a |-> Decoded(Read(Setting, a[i]))]
HasHeader(m) == Reads(Header, m)
If(accepted, c) == IF accepted THEN c ELSE NoCommand

(* UmarshalValue and UmarshalSettings: any array will do, an empty one     *)
(* too, if everything in it can be read.                                   *)
UmarshalSettings(info) == Has(info, "CaptureSettings", "array") /\ ReadsAll(Setting, info.CaptureSettings.v)
CanRead(info) == Reads(CaptureInfo, info) /\ UmarshalSettings(info)
(* Slip: the reading ends at a bad info without an error.                  *)
UmarshalsPrefix(m) ==
  /\ Has(m, "Value", "array")
  /\ m.Value.v # <<>> => CanRead(m.Value.v[1])
UmarshalValue(m) == Has(m, "Value", "array") /\ \A i \in DOMAIN m.Value.v : CanRead(m.Value.v[i])
ReadInfo(info) == With(Read(CaptureInfo, info), "settings", ReadSettings(info.CaptureSettings.v))
(* The infos before the first that cannot be read.                         *)
ReadInfos(a) ==
  LET ahead == Before(a, {a[i] : i \in {j \in DOMAIN a : ~CanRead(a[j])}})
  IN [i \in DOMAIN ahead |-> ReadInfo(ahead[i])]
(* What comes after Value is optional.                                     *)
Default == [mode |-> 0, userId |-> 0 - 1, tokenId |-> 0, accountId |-> ""]
OrDefault(m, f) == IF Has(m, f, CaptureTail[f]) THEN valueint(m[f]) ELSE Default[f]
UnmarshalCapture(m) ==
  If(HasHeader(m) /\ UmarshalValue(m),
     [kind |-> "capture", value |-> ReadInfos(m.Value.v),
      tail |-> [f \in DOMAIN CaptureTail |-> OrDefault(m, f)]])
(* Here an empty array is refused.                                         *)
UnmarshalMetadata(m) ==
  If(HasHeader(m) /\ Has(m, "Value", "array") /\ m.Value.v # <<>> /\ ReadsAll(Setting, m.Value.v),
     [kind |-> m.Command.v, value |-> ReadSettings(m.Value.v)])
UnmarshalDetails(o) ==
  Has(o, "Detail", "array") /\ o.Detail.v # <<>> /\ ReadsAll(ChannelDetail, o.Detail.v)
UnmarshalChannel(m) ==
  If(HasHeader(m) /\ Has(m, "Value", "object") /\ Reads(SourceDevId, m.Value.v) /\ UnmarshalDetails(m.Value.v),
     [kind |-> "channel",
      value |-> With(Read(SourceDevId, m.Value.v), "details", ReadAll(ChannelDetail, m.Value.v.Detail.v))])
UnmarshalObject(kind, fields, m) ==
  If(HasHeader(m) /\ Has(m, "Value", "object") /\ Reads(fields, m.Value.v),
     [kind |-> kind, value |-> Read(fields, m.Value.v)])
UnmarshalEvent(m) == UnmarshalObject("event", Event, m)
UnmarshalInfo(m) == UnmarshalObject("info", CameraState, m)
UnmarshalOpenInfo(m) == UnmarshalObject("open", SourceDevId, m)
UnmarshalFrameInfo(m) ==
  If(Reads(FrameInfo, m) /\ ("rawTime" \in DOMAIN m => m.rawTime.t = "string"),
     [kind |-> "frame", value |-> Read(FrameInfo, m)])
(* HandleSourceStreamExt: the text of the time stamp, if it is there.      *)
HandleSourceStreamExt(m) ==
  LET info == UnmarshalFrameInfo(m)
      rawTime == IF "rawTime" \in DOMAIN m THEN m.rawTime.v ELSE 0
  IN If(info # NoCommand, [kind |-> "frame", value |-> With(info.value, "rawTime", rawTime)])
(* A frame whose info cannot be read is delivered all the same, with one   *)
(* of zeros.                                                               *)
NoInfo == [f \in DOMAIN FrameInfo \union {"rawTime"} |-> IF f = "ver" THEN "" ELSE 0]
SourceOnStream(m) ==
  LET frame == HandleSourceStreamExt(m)
  IN IF frame # NoCommand THEN frame ELSE [kind |-> "frame", value |-> NoInfo]

(* What comes through the control channel is told by its command.          *)
CommandOf(m) == IF Has(m, "Command", "string") THEN m.Command.v ELSE "none"
ReceivedBySource(m) ==
  CASE CommandOf(m) = "result" -> UnmarshalMetadata(m)
    [] CommandOf(m) = "event" -> UnmarshalEvent(m)
    [] OTHER -> NoCommand
ReceivedBySink(m) ==
  CASE CommandOf(m) = "capture" -> UnmarshalCapture(m)
    [] CommandOf(m) = "metadata" -> UnmarshalMetadata(m)
    [] OTHER -> NoCommand

(* What comes by a call of the other's service, or beside a frame, is      *)
(* expected to be what it is.                                              *)
Received(kind, m) ==
  CASE kind \in {"capture", "metadata"} -> ReceivedBySink(m)
    [] kind \in {"event", "result"} -> ReceivedBySource(m)
    [] kind = "channel" -> UnmarshalChannel(m)
    [] kind = "info" -> UnmarshalInfo(m)
    [] kind = "open" -> UnmarshalOpenInfo(m)
    [] kind = "frame" -> SourceOnStream(m)

----------------------------------------------------------------------------
(* The commands of the program.                                            *)
Lists(S) == UNION {[1..n -> S] : n \in 0..MaxItems}
Widened(fields) == {[f \in DOMAIN fields |-> IF f \in big THEN IntMax + 1 ELSE Sample(fields[f])]
                      : big \in {DOMAIN fields \intersect Wide, {}}}
Of(kind, values) == {[kind |-> kind, value |-> v] : v \in values}
SettingOf(b) == With(Filled(Setting), "SettingValue", b)
ASetting == SettingOf(<<83>>)
Settings == Lists({ASetting}) \union {<<SettingOf(b)>> : b \in Metadata}
CaptureCommands ==
  {[kind |-> "capture", value |-> v, tail |-> t]
     : v \in Lists({With(Filled(CaptureInfo), "settings", s) : s \in Lists({ASetting})}),
       t \in Widened(CaptureTail)}
MetadataCommands == Of("metadata", Settings)
ResultCommands == Of("result", Settings)
ChannelCommands ==
  Of("channel", {With(Filled(SourceDevId), "details", d) : d \in Lists({Filled(ChannelDetail)})})
EventCommands == Of("event", {Filled(Event)})
InfoCommands == Of("info", {Filled(CameraState)})
OpenCommands == Of("open", {Filled(SourceDevId)})
FrameInfos == Of("frame", Widened(FrameInfo))
Commands == CaptureCommands \union MetadataCommands \union ResultCommands \union ChannelCommands
            \union EventCommands \union InfoCommands \union OpenCommands \union FrameInfos

(* A peer of another version: one field, at any depth, is missing or of    *)
(* another type.                                                           *)
Spoiled(o) == {[g \in DOMAIN o \ {f} |-> o[g]] : f \in DOMAIN o}
              \union {With(o, f, Json("null", 0)) : f \in DOMAIN o}
SpoiledList(a) == UNION {{[a EXCEPT ![i] = o] : o \in Spoiled(a[i])} : i \in DOMAIN a}
Inner(o) == {f \in {"Detail", "CaptureSettings"} : f \in DOMAIN o}
SpoiledInside(o) ==
  Spoiled(o) \union UNION {{With(o, f, Json(o[f].t, a)) : a \in SpoiledList(o[f].v)} : f \in Inner(o)}
SpoiledInfos(a) == UNION {{[a EXCEPT ![i] = o] : o \in SpoiledInside(a[i])} : i \in DOMAIN a}
SpoiledMessages(m) ==
  Spoiled(m) \union
  IF "Value" \notin DOMAIN m THEN {}
  ELSE IF m.Value.t = "object" THEN {With(m, "Value", Json("object", o)) : o \in SpoiledInside(m.Value.v)}
  ELSE {With(m, "Value", Json("array", a)) : a \in SpoiledInfos(m.Value.v)}

CommandInit == sent = NoCommand /\ wire = <<>> /\ intact = TRUE /\ received = NoCommand
Send == sent = NoCommand /\ \E c \in Commands : sent' = c /\ wire' = Marshal(c) /\ UNCHANGED <<intact, received>>
Spoil ==
  /\ sent # NoCommand /\ wire # <<>> /\ intact
  /\ wire' \in SpoiledMessages(wire) /\ intact' = FALSE
  /\ UNCHANGED <<sent, received>>
Receive ==
  /\ sent # NoCommand /\ wire # <<>>
  /\ received' = Received(sent.kind, wire) /\ wire' = <<>>
  /\ UNCHANGED <<sent, intact>>
CommandNext == Send \/ Spoil \/ Receive
CommandSpec == CommandInit /\ [][CommandNext]_commandVars

----------------------------------------------------------------------------
(* A command that is accepted says what was sent, whatever is missing in   *)
(* the message: all its infos, settings and details, each with its fields  *)
(* and the metadata of its text.  Only what follows the infos of a         *)
(* capture, and the time of a frame as text, may be replaced by a default, *)
(* and only a 64-bit number that is larger than an int is cut.  A frame is *)
(* delivered in any case, without any of its info unless all is there.     *)
SameFields(a, b, free) == \A f \in DOMAIN b \ free : a[f] = b[f] \/ (f \in Wide /\ b[f] > IntMax)
AcceptedSaysWhatWasSent ==
  received # NoCommand =>
    /\ received.kind = sent.kind
    /\ IF sent.kind = "frame"
       THEN \/ ~intact /\ received.value = NoInfo
            \/ /\ SameFields(received.value, sent.value, {})
               /\ received.value.rawTime \in {sent.value.pts} \union (IF intact THEN {} ELSE {0})
       ELSE received.value = sent.value
    /\ sent.kind = "capture" => SameFields(received.tail, sent.tail, IF intact THEN {} ELSE DOMAIN CaptureTail)

(* What Marshal writes Unmarshal accepts, except a list of settings or     *)
(* details without elements, which only Unmarshal refuses.                 *)
OwnCommandsAreAccepted ==
  sent # NoCommand /\ wire = <<>> /\ intact =>
    \/ received # NoCommand
    \/ sent.kind \in {"metadata", "result"} /\ sent.value = <<>>
    \/ sent.kind = "channel" /\ sent.value.details = <<>>

(* Together: the commands of the protocol arrive as they were meant, or    *)
(* not at all.                                                             *)
CommandsArrive == AcceptedSaysWhatWasSent /\ OwnCommandsAreAccepted
=============================================================================
