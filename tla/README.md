# Verification of the distributed camera

TLA+ models of the distributed camera component (`src/`), their model-checking
configurations for TLC, and proofs for TLAPS. The distributed camera lets an
application on one device (the *source*) use a camera of another device (the
*sink*). The models are translated from the C++ sources; where a document and
the code differ, the code is modelled.

1. [The system](#1-the-system)
2. [Hard behaviours](#2-hard-behaviours)
3. [Modules](#3-modules)
4. [Runs](#4-runs)
5. [Proofs](#5-proofs)
6. [What the code does that its own texts deny](#6-what-the-code-does-that-its-own-texts-deny)
7. [Not modelled](#7-not-modelled)

Paths below are relative to `src/services/`; *SRC* is
`cameraservice/sourceservice/src`, *SNK* is `cameraservice/sinkservice/src`, *CH*
is `channel/src`.

## 1. The system

| part (README_zh.md) | where | state it keeps | operations |
|---|---|---|---|
| DistributedCameraSDK | `src/interfaces/inner_kits` | the proxy of a service, the callbacks of registrations, the HDF drivers | start, stop, register, unregister, load drivers |
| source service | *SRC*`/distributedcamera` | `camerasMap_` under `camDevMutex_` | Register-/UnregisterDistributedHardware, erase by task, watchdog |
| SourceMgr: device | *SRC*`/distributedcameramgr/dcamera_source_dev.cpp`, `dcamerastate` | an event queue with one thread, the state (INIT, REGIST, OPENED, CONFIG_STREAM, CAPTURE) | events from the framework, the HAL and the softbus callbacks |
| SourceMgr: controller | `.../dcameracontrol` | `indexs_`, the control session | Init, OpenChannel, CloseChannel, StartCapture, StopCapture, UpdateSettings |
| SourceMgr: input | `.../dcameradata` | `channels_`, `dataProcess_`, `channelState_`, streams | ConfigStreams, ReleaseStreams, OpenChannel (parallel tasks, a wait of 3 s), StartCapture |
| SourceMgr: producer, smoother | `.../dcameradata`, `feedingsmoother` | `buffers_`, `dataQueue_`, `syncBufferQueue_`, shared memory of the sync, work mode | FeedStream, Start, Stop, UpdateProducerWorkMode, four threads |
| VirtualCameraHdf | external; `.../dcamerahdf` | which devices are enabled | Enable-/DisableDCameraDevice, Notify, its callback |
| SinkMgr: service | *SNK*`/distributedcamera` | the map of sink devices, caches of remote sources | InitSink, ReleaseSink, subscription, calls by IPC |
| SinkMgr: controller | *SNK*`/distributedcameramgr/dcamera_sink_controller.cpp` | `captureState_` under `captureStateMutex_`, ready flags, results | CAPTURE and STOP commands, session state, metadata, pause |
| SinkMgr: output | `dcamera_sink_output.cpp`, `dcamera_sink_data_process.cpp` | the encoder pipeline, data channels | StartCapture, StopCapture, FeedStream |
| CameraClient | `cameraservice/cameraoperator/client` | input, capture session, outputs, settings kept | PrepareCapture, CommitCapture, UpdateSettings, StopCapture, pause, resume |
| handler | `cameraservice/cameraoperator/handler` | nothing | Query: what is announced of each camera |
| commands | `cameraservice/base` | nothing | Marshal, Unmarshal of eight JSON messages |
| Channel | *CH* | sessions and sockets, trust of the sink, pending authorizations | create, release, send, softbus callbacks |
| DataProcess | `data_process/src` | the queues of the encoder and the decoder node and their threads | create, feed, destroy; convert pictures |

How they interact. The framework asks the source service to register a camera;
the service finds or makes a device object and posts REGIST to its queue. The
device enables the camera at the HAL, whose requests come back as events of the
same queue: OPEN makes the control session to the sink, CONFIG the data sessions,
START sends the CAPTURE command and starts the producers. On the sink the command
starts the encoder and the camera by two tasks whose results meet on the
controller's event thread. Video is encoded, sent frame by frame, decoded and
handed to a producer, which feeds the HDF; photos are cut into fragments and put
together again. Softbus reports every session that ends through callbacks on
threads of its own, which post events to the device. Services are started on
demand, called through cached proxies, and watched for their death.

What makes each part correct:

- *Device, controller, input*: the state machine, the sessions, the streams and
  what the HAL believes stay in step, whatever fails and whatever crosses.
- *Source service*: no request is lost, an enabled camera can always be disabled,
  the map stays bounded.
- *Producer*: frames reach the HDF in their order and none gets lost unseen; Stop
  ends.
- *Sink controller and client*: results of one start are not taken for another's,
  nothing is taken down under a start, what is reported as running runs, a
  source that has gone releases the camera, and the camera is told what was asked.
- *Channel*: a photo is handed over whole or not at all, and on a healthy
  session always; the sink lets one source in at a time and asks once.
- *DataProcess*: what is sent can be decoded; a picture keeps the info of its
  frame and shows it upright; threads can always be joined.
- *Kits and services*: a dead service is noticed, success is only reported when
  somebody gave it.
- *Commands, handler*: what is written is read, what is announced is served.

## 2. Hard behaviours

`PROJECT.json` lists the hazards with their lines. The kinds that matter here:

- softbus callbacks beside the device thread: a session is connected at Bind,
  recorded only later, and can be shut down in between;
- events that wait in a queue while what they speak of changes: a CLOSE for a
  session that is gone, a CONNECTED behind a close;
- critical sections that are too small: count, lookup and insertion in the
  service; the conflict test of the sink; the proxy that is fetched, watched and
  stored in three steps;
- operations of many steps of which a later one fails: registration,
  configuration, start of a capture on both sides, unregistration;
- three threads that stop a capture while two tasks and an event thread start it;
- condition variables notified without the mutex, threads joined under a lock
  that they need, codec callbacks beside a release;
- objects that several actors share and each believes its own: the one session
  object per channel of the sink, the current network id of an authorization;
- an answer and a timer that race for one request;
- fragments of photos that are cut short, dropped or split over two sockets, and
  carry no number that tells one photo from another;
- services that die around a call, and statuses that outlive what they describe.

Nothing is persisted: a process that ends starts again from Init, and its peers
see their sockets close, which the models have as shutdowns, and their proxies
die, which `Services` has as deaths with notices that come late.

## 3. Modules

| module | models | checked in | proofs |
|---|---|---|---|
| `SourceDev` | device, controller, input and their sessions | `MCSourceDev` | `SourceDevProofs` |
| `CameraLifecycle` | abstract: one camera as the source sees it | `MCSourceDev` | `SourceDevProofs` |
| `SourceRegistry` | the service's map and the life of the device objects | `MCSourceRegistry` | `SourceRegistryProofs` |
| `SinkCapture` | sink controller, output and camera client during start and stop | `MCSinkCapture` | `SinkProofs` |
| `PhotoChannel` | abstract: what the snapshot channel promises | `MCFragments` | `DataProofs` |
| `Fragments` | cutting and assembling photos on a softbus session | `MCFragments` | `DataProofs` |
| `SinkChannel` | the sink's sockets, trust, conflicts, authorization | `MCSinkChannel` | `SinkChannelProofs` |
| `ProxyCache`, `HdfDriver`, `Ipc` | cached proxies; loading of the HDF drivers; tables of the requests | through `Services` | |
| `Services` | kits, services and the calls between them | `MCServices` | `ServicesProofs` |
| `FrameFeed` | a producer of the source and its threads | `MCFrameFeed` | `FrameFeedProofs` |
| `SinkEncoder` | the encoder pipeline of the sink | `MCSinkEncoder` | `SinkProofs` |
| `SourceDecoder` | the decoder pipeline of the source | `MCSourceDecoder` | `SourceDecoderProofs` |
| `Commands`, `Base64` | the JSON messages and the text of metadata | `MCData` | `SourceDevProofs` |
| `Pictures` | geometry and colour of a frame from codec to stream | `MCData` | `SourceRegistryProofs` |
| `CameraClient` | settings, rates and photos on their way to the camera | `MCData` | `DataProofs` |
| `Abilities` | what a sink announces, and the limits it meets | `MCData` | `SinkProofs` |

Conventions. A variable `causes` (elsewhere `told`, `missed`, `dataMissed`,
`crossed`, `orphans`, `stale`, `misled`, `dropped`) is a history: it records the
irregular events there have been. A property that the code does not keep in every
behaviour names the events after which it may fail ("except", "unless"), so that it
says exactly how far the code can be trusted; none is excused by an event that
happens in every behaviour. Of such an event the property shows that it is the only
way to fail, and does not catch it: the "note" of a hazard in `PROJECT.json` says
where a hazard is excepted in this way, and where it is an outcome of the model that
no property forbids. An operator introduced as "Slip" is not part of the model: it is the
definition behind it with a plausible mistake, under which the run must fail.

### SourceDev

One camera. `queue` is the queue of `srcDevEventHandler_`; `state` is
`stateMachine_->currentState_`, and `Handled` says which events each state class
of `dcamerastate` handles. The device thread's actions take the head of the queue
and do the whole handler: `Register`, `UnregisterIdle` and `UnregisterOpen`
(UNREGIST in REGIST and in the open states), `Bind` and `Record` (OPEN),
`OpenRefused`, the three closes (`CloseOpened`, `CloseConfigured`,
`CloseCapturing`), `ConfigStreams`, `ReleaseStreams`, `StartCapture`,
`StopCapture`, `UpdateSettings`, `Notify`, and `Ignore` for an event the state does
not handle.

The openings of sessions are the handlers that are split, at Bind and at
`RecordSourceSocketSession`, because a softbus callback can come in between: `Bind`
and `Record` for the control session; for the data sessions `ConfigStreams` begins
the tasks of `DCameraSourceInput::OpenChannel`, one for each channel (`opening`),
whose `BindData` and `RecordData` interleave, and `FinishConfig` is the device thread
behind its wait for them. A socket lives through `phase`: `PeerShutdown`, `FindSession` (OnShutdown looks the
session up) and `SessionClosed` (OnSessionClose, which posts `Disconnection`) are
steps of the callback thread. `recorded` is `sourceSocketSessionMap_`.
`DataShutdown` and `DataClosed` are the same for the data sessions; `dataAlive` says
whose socket is still connected, and `dataMissed` which channels are taken for
connected although their shutdown came before the record and was dropped. Nothing
reports such a channel: the camera stays in CONFIG_STREAM until it is closed for
another reason.

`channels` and `procs` have three values because `operator[]` of a map makes a
null entry: absent, live and null. `crashed` records a call through such an entry.
`told`, `missed` and `crossed` are histories: what the HAL heard last, which
shutdowns found no session, and whether an open and a close passed each other.

Abstractions: streams by kind, not by id; the three-second wait of `OpenChannel` never expires; the error results of HAL
requests are not tracked; DCameraNotify and GetFullCaps change no state. A
behaviour in which an open and a close cross (`crossed`) is not judged by
`NoSilentClose`: the code can then indeed leave the HAL with a stale CONNECTED.

### SourceRegistry

`call` is what each IPC thread of the service is doing; its steps are the separate
critical sections of `RegisterDistributedHardware` and
`UnregisterDistributedHardware` (`Count`, find, insert, post). `devs` are device
objects, each with its queue; `Collect` is the reference count: an object neither
in the map nor held by a caller is destroyed, with its queue. `CamDevErase` is the
task that erases an entry and then answers. `owed` counts the framework's requests
without an answer; with `MaxOwed = 1` the framework waits for each answer.

Abstractions: all states with the camera enabled count as REGIST; creating a
device never fails; the callback proxy is there; device objects are
interchangeable, so a new one is taken by CHOOSE; the task's erase and its answer
are one step. The fault "reenable" is that registering an enabled camera again
fails: RegistState answers with a failure, and the listener erases the entry although
the HAL holds the camera. `orphans` are the cameras that are in this state, which
`EnabledIsReachable` excepts, and no others.

### SinkCapture

`captureState`, `ready`, `failed` and `infos` are the controller's fields; `tasks`
are the two preparation tasks; `events` is the queue of the controller's event
thread, whose `ProcessEvent` collects the results and whose `Verdict` ends the
wait for authorization and commits. While it waits it holds `captureStateMutex_`
(`deciding`), so neither a stop nor a start can proceed. `stopping` are the threads
inside `StopCapture`: the control channel's, the IPC's and the cleanup task's; each
may give up (`StopTimesOut`) only while a start is in progress. `camera` is
DCameraClient with its input, session and outputs: `CommitOK`,
`ConfigurationFails` and `PhotoFails` leave the parts that the code leaves.
`Disconnected` submits a cleanup.

What can go wrong is chosen once per behaviour (`faults`), so that a property can
be stated for behaviours in which certain things do not. "streams" stands for a
source with other streams that connects before the cleanup of the last one.

Abstractions: the access control in the sources at hand is a stub that takes the
direct path; metadata, pause, resume, settings, UnInit, ChannelNeg and the IPC
OpenChannel are left out; a source always configures a preview; a failing
`Start()` of the capture session is tolerated, as the code returns success.

### Fragments and PhotoChannel

The sink's event thread sends one photo at a time (`dcamera_sink_data_process.cpp`,
SendDataAsync): `sending` is where `UnPackSendData` is. `wire` is the socket,
`inbox` the event queue of the source's session, `assembly` its reassembly fields.
A byte of a photo is the pair of photo and position, so that a buffer shows
exactly what was copied into it. `Handle` is `PackRecvData` with the checks, the
copy and the post.

The life of the source's session is that of SourceDev: `Bind` makes a new session
object, `RecordSession` enters it into `sourceSocketSessionMap_`, packets that come
before are dropped (`OnBytes`), `Shutdown` comes from the peer. `ReleaseSession`
destroys the object with its queue, except when the peer has shut it down: the
socket number is -1 by then (`dcamera_softbus_session.cpp`, OnSessionClose), the
adapter does not find it (`CloseSoftbusSession`), and the session stays in the map
and works off its queue. `leftInbox` and `leftAssembly` are that session.

Assumed of softbus: a socket keeps the order of packets and loses only what is
under way when it ends. Left out: the sequence number (it is always 0), the byte
layout of the header, empty photos. Bounds: `MaxPhotos`, and one session with
packets left behind at a time. `CloseSession` and `ReleaseSession` are one step.

`PhotoChannel` promises whole photos, each at most once, and not their order: a
session left behind can hand over an older photo after a newer one has come.

### CameraLifecycle

The abstract specification of one camera: registered, opened with one control
session, configured, captured, closed, unregistered. `SourceDev` implements it
with the session mapped to `control \cup binding` and the used sockets to those
whose `phase` is not "free". `Drop` is the step a reader would not expect: an
unregistration whose DisableDCameraDevice fails has given the session back and
leaves the state where it was.

### SinkChannel

One sink, sockets of any source. `sock` is where each socket's `SinkOnBind` is,
with a step at every lock it releases: `Bind` (the session map), `ConflictTest`
(HandleConflictSession's unlocked test), `Accept` (trust, network id,
authorization), `BindEnds` (OnSessionOpened, all-connect manager).
`SinkOnShutDown` and `ShutDownEnds` are the two halves of a shutdown. All sockets
of a kind share one object `session[k]`; a refused control socket takes it over
(`conflict`) until its cleanup task has sent the busy error (`CleanupNotifies`)
and given it back (`CleanupRestores`). `ctl` is what the controller believes;
`CloseChannel` and `StopCapture` are its task on a disconnection, under
`autoLock_`. `access` and `req` are the authorization: `TimerWakes`,
`TimeoutTakes`, `TimeoutDecides` beside `AnswerArrives`, `AnswerTakes`,
`AnswerDecides`, each pair under its own lock. `UnInit` and `InitAgain` replace
the controller and keep the adapter.

`scene` chooses, once per behaviour, which of these meet, because all of them at
once are out of TLC's reach: rivals for the control session ("rivals"), data
sockets ("data"), the all-connect manager and UnInit ("stops"), captures
("commands") and authorization ("access"). The proofs hold for all scenes.
A peer with another operating system is not refused: `SinkOnBind` wants `CheckOsType`
to fail and to call the peer invalid, and `CheckOsType` calls it invalid only when it
returns DCAMERA_OK (`dcamera_softbus_adapter.cpp:640`, `:743`).

Abstractions: names of sockets and packages; a timer that is cancelled wakes and
does nothing; the access listener answers a request once.

### Services with ProxyCache, HdfDriver and Ipc

`side` is the pair of a caller and the service it calls: the kit of a source or a
sink and its service, a source service and a remote sink ("toSink"), the other
way round ("toSource"), a service and the callback in its kit ("toKit"), and the
source kit with its drivers ("drivers"). All go through the same code shape: look for a cached proxy, else fetch the object,
watch it, store it (`ProxyCache`); let the proxy check its arguments, send,
let the stub check and serve (`Ipc`, a table of all 27 requests with the condition
of every argument on both sides); read the reply.

`life` is the incarnation of the service; `ServiceEnds` can come between any two
steps and leaves a notice for the recipient, which `OnCamSrvDied` takes later.
`InitKit`, `FinishStartSA` and `StartEnds` are the start of a kit through a load
callback, `waiting` the loads whose caller still waits for them, a minute at most. On the side "drivers" `InitSource`
loads the two HDF devices (`HdfDriver`): each load waits on a status that only an unload
resets. `LoadDcameraHDFImpl` and `UnLoadDcameraHDFImpl` share no lock, so a release
may unload beside a load (`stale`). The kit's ReleaseSource drops the proxy
(`ReleaseReturns`) before it writes the state (`ReleaseEnds`). `pushed` is the kit's map of registration callbacks, `service.asks` what
the service has still to answer.

Abstractions: a parcel is the sequence of its values, each with its type; a
string is its class of length; one remote device per cache; the permissions of a
caller may change between calls.

### FrameFeed

One producer. `at` says where each of the four threads is: the snapshot thread
(`LooperSnapShot`), the smoother (`LooperSmooth`), the event handler's
(`EventThread`) and the sync thread (`SyncVideoThread`). `Start` starts those of
the stream's kind. A thread that found nothing is "drowsy" while it still holds
the mutex and "asleep" once it waits; a notification that was sent without the
mutex in between wakes nobody, and `causes` gets "missed". The lock word of the
shared memory (`UsesWord`) is taken by reading and writing, as in the code.
`UpdateBegins` and `UpdateEnds` are UpdateProducerWorkMode, `Stop` has a step for
each thread it tells, wakes and joins. Unmapped memory that a thread still uses
ends the process (`Faults`).

Abstractions: whether a frame is early, late or due is open (the clock arithmetic
of the smoother and the sync is not modelled); frames are numbers.

### SinkEncoder

The pipeline of the sink: its creation up to the listener (`Creating`), the
codec's callbacks (`Callback`, `OnError` with its own thread), the queue
`encodeBuffers_`, the sync thread that offers the head of the queue to the event
thread (`SyncOffers`) and answers a refusal with the congestion control
(`SyncVideoFrameFailure`, `AdjustBitrate`, `KeepsKeyFrames`, skipping), and the
release (`Stops`). `videoEncoder_` is read without a lock, so its test and its use
are two steps, and a use of a null encoder sets `crashed`. With equal codecs there
is no encoder (`equal`), and frames go from `FeedStream` to the queue as they are. They
carry neither a type nor an index, for which `FindInt32` writes 0
(`data_buffer.cpp:79`), so that none of them is a key frame: the first congestion
drops all that wait, and every later one is skipped. `SentFramesDecode` says that
those sent until then come without a gap, `SyncThreadServes` that no frame is skipped
before half a second of them has been given.

### SourceDecoder

The pipeline of the source: P is its event thread, E that of the node. P queues
frames to the codec with their infos (`FeedDecoderInputBuffer`,
`QueueInputBuffer`, `PopsInput`), E takes decoded pictures from the surface and
gives each the oldest info (`GetDecoderOutputBuffer`, `PostOutputDataBuffers`).
The codec is `CodecRuns`, its failure `OnError`. The release is `Destroying`, in
the code's order: the decoder, E under `eventMutex_`, the queues, P. An info stands
for the frame whose index and pts it has: `AlignFirstFrameTime` merges the info of the
codec data with the one behind it, of which only the times before the encoder are lost. Both builds
(with and without `distributed_camera_common`) are alternatives of one action
where they differ.

### Commands and Base64

Eight messages. `Marshal` and `Unmarshal...` are built from tables of the fields
and their types, as the code reads them: `Reads` is the IsString/IsInt32 tests,
`valueint` cuts a number to the range of int. `Spoil` removes or retypes any one
field at any depth, which is what a peer of another version sends. A frame whose
info cannot be read is delivered all the same, with the info it was made with
(`SourceOnStream`, `NoInfo`). Base64 is the
code's own encoder and decoder, over bytes and sextets: the n-th character belongs
to `Group(n, 4)` and the n-th byte to `Group(n, 3)`, and of an incomplete group at
the end the decoder takes one byte less than there are characters.

### Pictures

A buffer maps offsets to samples, and a sample is where in the frame it came
from. `CopyDecodedImage` and `ProcessData` do the address arithmetic of the
decoder node and the scale conversion, in both builds; libyuv and ffmpeg are
external and modelled by which sample they put where. For P010 the main build
exchanges U and V before it asks ffmpeg for P010LE, which keeps them as they come
(`Planes`), so such a stream has V for U, which `ColourFollowsBrightness` says. `DecodedImage` and `ConvertedImage` are
the whole of the two steps as functions of the configuration, the angle and the
buffer. `Crop` takes aspects within 1e-6 of each other to be the same; what
`SizesAssumption` says of the sizes holds of all that `IsInRange` admits.

### CameraClient

A command has one setting or several (`BeginUpdate`). For each `UpdateSettings` reads
`cameraInput_` in one step (`TestCamera`) and acts on it in the next, beside the steps
of a start's camera task. Without a camera it keeps the first of them and returns
(`dcamera_client.cpp:116`); `dropped` counts those behind it, by which the settings of
a running camera may lag behind the newest. `metadatas`, `infos` and
`fps` are what is kept from one start for the next; `applied`, `rate` and `photo`
are what the camera framework was told. `mishaps` says, once per behaviour, what
may go wrong.

### Abilities

`Query` makes the item that is announced from the profiles of a camera,
`GetCameras` the devices of the sink, `Ask` is any stream the virtual camera can
make of the item, and `Serve` asks every limit on its way in turn.

## 4. Runs

| run | question | bounds | distinct states |
|---|---|---|---|
| `source_sessions` | do control sessions, state and HAL stay in step, and is a dead session let go of | 2 sockets, 1 kind of stream, queue of 2 requests up to START, enable may fail | 574 059 |
| `source_streams` | the same with all requests, both kinds of stream, every HAL failure; is the life cycle implemented | 2 sockets, queue of 1 request | 1.8 million |
| `registry` | are requests answered, entries bounded, enabled cameras reachable | 4 cameras, 3 of them kept, 2 callers, limit 1 | 232 616 |
| `sink_capture` | starts, stops, failures, disconnections of the sink | 2 waiting cleanups, three sets of faults | 152 050 |
| `sink_retry` | *violation*: a start after a half-done commit | 1 cleanup | - |
| `fragments` | are photos whole, once, and delivered | 2 photos, packets of 3 with 1 reserved, sizes 3, 5, 8, 9, limit 8 | 43 992 |
| `sink_channel` | is one source let in, told and asked at a time | 2 sources, 3 sockets, 1 request, 2 inits, five scenes | 1.4 million |
| `services` | are deaths noticed, successes real, callbacks answered | 1 client and 1 load thread, 2 calls, 2 lives, 1 camera, six sides | 1.1 million |
| `frame_feed` | order and completeness of the frames, end of Stop | 3 frames, 2 photos kept, sync queue of 1, 2 changes of mode | 148 239 |
| `sink_encoder` | can what is sent be decoded, does the sync thread serve and end | 5 frames, 1 of them early, congestion at 3, rate of 3 steps | 977 913 |
| `source_decoder` | infos and pictures, frames that wait, end of the release | 3 frames, 1 codec buffer, input queue of 2 | 527 667 |
| `data` | messages, pictures, settings and abilities | see below | 1.9 million |

Why the bounds are enough:

- *Queue*: `MaxQueue` stops requests only; callbacks always post, so queues are
  longer. Two requests ahead of the callbacks' CLOSE and NOTIFY are what a crossing
  needs; two sockets are a session and its successor.
- *Registry*: with the limit 1 and two callers four cameras are one more than the
  map can be made to hold. The limit must be 1: with 0 a camera that has an entry
  could not be registered again. Cameras meet only in the count, so one of them is
  asked for everything and three (`Kept`) fill the map. Of the four objects one is
  always unused.
- *Source streams*: `StreamsView` leaves out the histories that none of the run's
  properties reads (`told`, `crossed`, `missed`), and the sockets are symmetric.
- *Sink capture*: two cleanups wait when a source leaves, returns and leaves again
  before the first has run. Streams are the preview alone or with photos.
- *Fragments*: 3 is one whole packet, 5 is a START and an END that is a full
  packet, 8 has MIDs, 9 exceeds the limit. A second photo meets whatever the
  first left. With three photos of sizes 5 and 8 the model has 291 438 states and
  the same properties hold.
- *Sink channel*: a holder, a rival, and a third that meets what the two have
  left. In scenes where a third adds nothing (`Bind`) two are allowed.
- *Services*: two threads are what it takes to fetch, watch and store beside each
  other; a second life is what a stale proxy is compared with.
- *Frames*: each queue overflows (photos 2, sync 1, congestion 3, input 2) and
  goes on afterwards; with five encoded frames two key frames can be kept and a
  third frame be skipped behind them. `MaxFrames` and `MaxModes` only stop inputs.
- *Data*: lists of up to two elements (`MaxItems`), so that one of several can be
  bad; metadata of one to four bytes, which are all the lengths modulo three, of
  bytes with none, some and all bits set; frames and streams of 4, 6 and 8 lines,
  which are below, at and above an alignment of 4 and give odd crops; frame rates
  below and above the limit; eleven profiles, at the limits and just beyond them,
  alone and in pairs.

Deadlock is checked in `source_sessions`, `registry`, `sink_capture` and
`fragments`. The others say `CHECK_DEADLOCK FALSE`, because the program may stop
there: at a null dereference, when the bounded inputs are used up, or at a join
that lasts for ever, which is what their liveness properties are about.

Fairness. `SourceDev`: the event runner of the device and the callback threads
that have begun are scheduled. `SourceRegistry`: IPC threads return, event runners
empty their queues, ffrt runs its tasks. `SinkCapture`: tasks run, the event thread
empties its queue, the wait for authorization has a time limit, a thread that can
take the mutex does. `Fragments`: both event threads run and softbus delivers what
is on a live socket. `FrameFeed`: each thread that can go on does, and a Stop or a
change of mode that has begun goes on; the lock word is read free sooner or later
(strong fairness), because the other thread sleeps for a frame's time between its
uses of it. `SinkEncoder`, `SourceDecoder`: the threads of the pipeline and a
release that has begun go on. Nothing is assumed of the framework, the HAL, the
user, the peer or the codec: no request, command, frame, shutdown or recovery has
to happen.

What the properties say is written above each in the modules. The central ones:

- `NoOrphanSession`, `DeadSessionCloses`, `NoSilentClose`, `ImplementsLifecycle`:
  no camera is closed with a session open or open on a session that nobody will
  close, and the HAL hears of every loss of the channel; the exception, named in the
  property, is the shutdown between Bind and the record.
- `DataLossCloses`, `ProducersHaveStreams`: a lost data channel closes the camera,
  with the same exception; producers do not outlive their streams, half-failed starts
  included.
- `NoLostRequest`, `Answered`, `EnabledIsReachable`: objects that are destroyed
  take no request of the framework with them, and a camera that is enabled can be
  disabled, but for one that was registered again in vain.
- `PreparationOwned`, `TeardownExcludesPreparation`, `RunningIsWired`,
  `StartsAndLossesEnd`: a start consists of its own parts only, nothing pulls them
  away, it ends, and a source that has gone does not keep the camera busy.
- `WholePhotos` (refinement of PhotoChannel), `Delivered`.
- `OneTrustedSocket`, `TrustEndsWithSocket`, `ControllerFollowsTrust`,
  `RepliesReachTrusted`: the source that holds the camera is one, the controller
  knows it, replies and busy errors go where they belong, and when its socket has
  gone the next one is let in.
- `StartedIsAllowed`, `OutcomeStands`: a capture runs for a source that was
  allowed, and a request is decided once.
- `DeadProxyIsDropped`, `StartedHasService`, `CallsAreSound`,
  `CallbacksAreAnswered`, `LoadedDriversRun`.
- `FramesReachDriver`, `StopEnds`; `SentFramesDecode`, `SyncThreadServes`,
  `StopEnds`; `InfoIsOfFrame`, `NoFrameStuck`, `ReleaseEnds`: the frames on their
  way through three components, and the end of their threads.
- `CommandsArrive`, `PicturesAreRight`, `CameraDoesAsAsked`, `PromiseIsKept`: what
  is computed, over all bounded inputs.

Every property has a mutant of the code in its module under which its run fails.

## 5. Proofs

All theorems are checked by TLAPS for every value of the constants, from the
assumptions named in the modules (`...Assumption`). A property of a run is seldom
inductive. Below is, for each module, what had to be said besides.

- **`SourceDevProofs`**: `TypeCorrect`; `SessionInvariant`, that `SessionInv` is
  invariant; from it `StateAndSessionsAgree`, `NoSessionLeaks` and
  `DeadSessionsClose`. They become inductive with
  `BindingInv` (what the open in progress owns: its socket is not recorded, and if
  it died it died unseen), `InitInv` (a controller or input that is not
  initialised holds nothing) and `RecordInv` (the callback threads find only
  recorded sessions, and the control session is recorded). The lemma on posting
  shows that a queued CLOSE stays queued until the device thread takes it, and
  taking it empties `control`. `DeviceImplementsLifecycle` is the refinement of
  `CameraLifecycle`, one step of the abstract camera or a stutter for each action;
  it needs `ProcsInv`, that a capture has only streams that are configured.
  `ProducersAlwaysHaveStreams` is inductive as it stands. `DataLossesClose` needs
  `DataInv`, where the loss of a data session is between the callback that hears
  of it and the queue, and that the tasks of a configuration own their channels until
  its end (`OpeningInv`), and `NoCloseIsSilent` needs `HearingInv`: sessions that the
  device is still opening (`Early`) and those whose two ends agree (`Paired`).
- **`SourceDevProofs`**, on `Commands` and `Base64`: `MetadataSurvivesText`, that
  `Base64Decode` undoes `Base64Encode` for bytes of any number. A group of three
  is restored from its four codes; of the last one the characters before the
  padding are enough for the bytes it stands for; and `Before` finds the padding
  where the length says. `CommandsAlwaysArrive`, that `CommandsArrive` is
  invariant, is from it and `CommandInv`: until it is received, a message is
  *thin*, what its sender wrote less what was lost. The relation is defined for
  objects, objects with an array and messages (`Thin`, `Thinner`, `ThinMessage`);
  every spoiling yields a thin message, a field that can be read in a thin one is
  as it was written, and so each class reads what it wrote or nothing
  (`CaptureArrives`, `MetadataArrives` and so on, one lemma for each class).
- **`SourceRegistryProofs`**: `CamerasAlwaysBounded`. The map alone is not
  inductive: a caller past the count inserts without counting again. Entries
  together with the callers admitted and not yet done (`AdmittedBounded`) never
  exceed the limit plus the number of callers. The proof moves one caller between
  the two sets at each step. `RequestsAreNeverLost` and `EnabledIsAlwaysReachable`
  rest on `OneRequest`: the request of a camera is in one place, at rest, with an
  IPC thread, with its device object, or with the task that ends it. They have the
  hypothesis `MaxOwed = 1`, a framework that waits for the answer about a camera
  before it asks again, which is the framework of the run (with two requests per
  camera under way TLC finds a lost one). They hold for every set of faults;
  `EnabledIsAlwaysReachable` names the cameras that a failing second registration has
  orphaned.
- **`SourceRegistryProofs`**, on `Pictures`: `FramesAreShown`, that
  `PictureShowsFrame`, the first half of `PicturesAreRight`, is invariant of
  `PictureSpec` for frames and streams of any size within the assumption. What the
  buffers hold depends on the configuration and the angle only (`PictureKept`). From
  there it is a chain of lemmas, one for each function of the code: the sample at an
  offset (`SurfaceIs`, `I420Is`), after the turn (`RotatedIs`), in the pasted square
  (`SquareStands`, `LyingStands`), after the crop (`CropIs`) and the scaling
  (`ScaledIs`). Columns and lines are treated apart: `WholeAxis` and `CutAxis` bound
  the rounding in one direction. The place of a sample is multiplied by the sizes of
  the stream, so that everything is an integer; the products are not linear, and
  each identity between them is a step of its own.
- **`SinkProofs`**, of `SinkCapture`: `StartsOwnTheirWork` (`PreparationOwned` is
  inductive: each part of a start moves from task to queue to flag),
  `TeardownIsExclusive` (every step that takes something down needs the state not
  to be STARTING, or both parts ready) and `RunningCapturesAreWired` (with
  `WiredInv`: a recorded success means a built pipeline or an open camera, and only
  a stop takes either away).
  Of `SinkEncoder`: `EncoderTypeCorrect`, `SyncThreadAlwaysServes` and
  `SentFramesAlwaysDecode`. `ControlInv` says what there is of the node at each
  place of its creation and release. `OrderInv`: what was sent, what the sync thread
  holds, what waits and what comes are in the order of the camera, so the queue
  holds no more than there are frames. `WayInv` looks at all frames on their way at
  once: as long as nothing was sent the first of them is a key frame or has one
  before it, and a delta frame whose predecessor is missing will meet a sync thread
  that skips and no key frame that ends the skipping before it (`Gaps`). Whatever
  the congestion control drops, one rule for a step that takes the first frame away
  covers it. Raw frames have no key among them, so for them the same rule says that
  nothing follows a gap. `KeyFrames` is counted by induction on its argument.
  Of `Abilities`: `PromiseIsAlwaysKept`. `AbilityInv` says where an item and a
  stream come from; the rest is about lists: what `ProcessProfile` announces of a
  format is a profile of the camera within the limits (`ProcessedIsAnnounced`), and
  the scan of the table of bitrates ends at the nearest size (`MatchedIsNearest`,
  with the best of the first n entries as the induction's hypothesis).
- **`DataProofs`**, of `Fragments`: `TypeCorrect`, `Agreement` and `Implements`, that
  `Fragments` implements `PhotoChannel`. The invariant follows the stream of
  fragments towards each session, the next one the sink will send included: photos
  come one after the other, none resumed after its end (`OneAfterTheOther`); among
  the fragments that still reach the assembly one that does not start a photo comes
  right behind its predecessor (`Gapless`); the assembly is a prefix of one photo
  (`IsPrefix`); the fragment it would accept next is the one that belongs there
  (`NextFits`). Losses keep this because packets are lost from the front only
  while there is no assembly (a session that is not recorded), or from the back.
  `NoneTwice` separates what a session left behind still ends from what is on its
  way to the next one. Nothing is assumed of the sizes or the width of the
  sub-sequence number: a photo whose numbers wrap is dropped, not corrupted.
  Of `CameraClient`: `ClientTypeCorrect` and `CameraAlwaysDoesAsAsked`. `StartInv`
  and `RateInv` hold whatever goes wrong: the infos a start ends with are its
  command's, and the rate is that of the outputs, because an old range goes where
  old outputs go. `Calm` holds in a behaviour without mishaps: `CalmSettings`, the
  newest settings are, but for the rest of a command that was dropped, the last of the
  queue or, if it is empty, those the camera has, except for an update under way; `CalmRates`, the encoder was made for the
  rate of the command before the outputs were.
- **`SinkChannelProofs`**: `TypeCorrect`, with what is known of a request at each
  of its places (`ReqInv`) and of the peer's sockets (`PeerInv`);
  `RequestsAreDecidedOnce`, an action property; `OneSourceAtATime` (`TrustInv`: a
  thread between its look at the trusted device and its mark is the only one
  there); `CapturesAreAllowed` (`AllowInv`: who was granted, for which request, and
  that a capture belongs to the current one). `LinkInv` ties the trusted socket to
  the rest: its session in the map, the names of the sessions, the flag the
  controller shares, what is being cleaned up, and where a reply is held. From it
  come `TrustIsLetGo`, `RepliesFindTheHolder` and `ControllerKnowsTheHolder`. The
  step the proof hangs on is a shutdown that finds no session: it is never that of
  the trusted socket, because a session names a socket only while it is trusted or
  being shut down.
- **`ServicesProofs`**: `TypeCorrect`; `ProxiesAreDropped` (`WatchInv`: on a living
  service the recipient is registered once for each thread that has yet to store
  its object and once more for the cache, so whatever the cache keeps will be heard
  of); `ReportedDriversRun`; `StartedHandlersHaveService` (`HandlerInv`: a started
  handler caches the running, initialised service, or one whose death notice is on
  its way while no thread holds an object of the running one);
  `KeptCallbacksAreAnswered` (`KeptInv`: a kept callback is asked of the service,
  or its call is still on its way there); `CallsAlwaysSound`
  (`CallsInv`; most of it is lemmas about the tables: what a proxy writes its stub
  reads with the same types, a null object that was not written is read as null, and
  what was checked no stub or object refuses).
- **`FrameFeedProofs`**: `TypeCorrect` (with `HeldInv`: what a thread has in hand
  at each of its places) and `FramesArrive`. The second is one half loss, one half
  order: a frame that has left the queue it was fed to is with a thread, handed on
  or one the code says it drops (`LossInv`; the smoother pops a frame only after it
  has handed it on), and the frames past the smoother are older than those it
  still has (`OrderInv`), for which a change of mode is the hard case: until it has
  switched, the tasks of the event handler or the sync queue are empty.
- **`SourceDecoderProofs`**: `TypeCorrect`, `NodeAlwaysSafe` (the first half of
  `ReleaseEnds`) and `InfosAreOfFrames`. The types say what is so in each stage of
  the release (`StageInv`), who owns the frame in hand (`OwnInv`), and that E has a
  task for each picture in the surface (`CountInv`; the count is a function of the
  suffixes, not a recursive operator). `EnoughInv`: the deque of infos has one that
  is not of codec data for every picture in the surface or the codec, so its front
  is never read while it is empty, which is `NodeIsSafe`. `FirstInv` and
  `InputsInv`: codec data is the first frame, nothing precedes it. `InfoInv`: the
  deque is the infos of the taken codec data, of the surface, of the codec and of
  the frame P is about to queue, in this order. After "astray", an info that no
  frame follows, the last is not so; the property excepts the same.

What is only model-checked, and why:

- Every liveness property (`FoundSessionIsDropped`, `Answered`,
  `StartsAndLossesEnd`, `Delivered`, `StopEnds` of two modules, `NoFrameStuck`, the
  second half of `ReleaseEnds`): fairness is about ENABLED, which these provers do
  not treat.
- `ColourFollowsBrightness`, the second half of `PicturesAreRight`: it compares the
  place of a colour with the place of a brightness, and its tolerance belongs to the
  sizes of the run. A stream that is many times smaller than the frame has them
  further apart, because the library scales the planes each on its own.

Induction over data by the theorems of the library is out of reach, because they
take an operator as a parameter. Where a proof needs induction on a number
(`KeyFrames`, lists, the table) it uses a fact about sets of numbers, which is
derived from the well-founded order of the library (`NumberInduction`).

## 6. What the code does that its own texts deny

`sink_retry` finds the one disagreement between a text of the repository and the
code that a property can state: a start after a half-done commit is reported with
"CheckAndCommitCapture successfully started capture." while the capture session
was never started (`ReportedCaptureRuns`; `dcamera_client.cpp:202` and `:220`).

Other things were met while modelling. The models have them where they say so;
no text of the repository promises otherwise, so no run is about them:

- *SNK* `dcamera_sink_data_process.cpp:80`: a pipeline whose creation failed half
  way is kept and used by the next start; `dcamera_stream_data_process.cpp:244` of
  the source keeps `pipeline_` with a null head in the same way.
- `dcamera_source_input.cpp:349`: `UpdateSettings` calls through a null entry that
  `operator[]` has made (`crashed` in `SourceDev`).
- `distributed_camera_source_service.cpp:250`: the limit is compared with `>`, so
  one camera more than the constant is admitted, and one more per concurrent
  caller (`CamerasBounded` states the bound that holds).
- `dcamera_sink_controller.cpp:537`, `:543`, `:557`: a refused authorization is
  noticed when both parts of the start are ready, that is, with the camera open.
- `dcamera_channel_source_impl.cpp:93`: a shutdown between Bind and the record is
  lost, for the control session and for data sessions (`missed`, `dataMissed`).
- `dcamera_service_state_listener.cpp:55`: a failing second registration erases the
  entry of an enabled camera (`orphans`).
- `encode_data_process.cpp:751`: raw frames are never key frames, so a congested
  stream of them does not come back (`ProcessData` in `SinkEncoder`).
- `scale_convert_process.cpp:514`: a P010 stream has U and V exchanged.
- A photo above the limit of the receiver is sent with success and dropped there.
- `dcamera_session_callback.cpp:44`: OnFocusState builds a result and never sends
  it.
- GetCameraInfo through IPC never returns the info it was given a buffer for.
- A second InitSink replaces a device that is in use.
- `dcamera_client.cpp:116`: without a camera only the first setting of a command
  is kept, and the command succeeds (`dropped` in `CameraClient`); `:271`: metadata that cannot be decoded is dereferenced.
- A frame rate above 30 is announced and then refused by the encoder pipeline
  (the exception in `PromiseIsKept`); `dcamera_handler.cpp:509` multiplies width
  and height of an announced size without looking for overflow.
- `decode_data_process.cpp:356`: the queue of pictures is emptied by swapping it
  while another thread may hold its front.
- `dcamera_stream_data_process_producer.cpp:527`: the memory of the sync is
  unmapped while the other producer's thread may use it (`Faults` in `FrameFeed`).

## 7. Not modelled

- *A late result of OpenChannel.* `dcamera_source_input.cpp:198` waits three
  seconds for its tasks. In `SourceDev` the wait ends with the tasks; a task that
  ends later writes into locals of a function that has returned, so what follows
  is not a state of this program.
- *ReleaseSession beside SendData* on the sink
  (`dcamera_channel_sink_impl.cpp:98`): a data race on a shared pointer, with the
  same kind of outcome.
- *UnInit of the sink controller while a stop hangs*
  (`dcamera_sink_controller.cpp:755`).
- *Clock arithmetic* of the smoother and the sync: it decides whether a frame goes
  now, later or never, and `FrameFeed` leaves that open. Low latency requests are a
  count and a timer that nothing waits for.
- *Arithmetic of colours* in libyuv and ffmpeg, which are external; `Pictures`
  says from which sample each sample comes.
- *The frame rate controller* (`fpscontroller`): no pipeline of this commit
  contains it.
- *Text*: dumpers, logs, JSON as characters, Base64 metadata of the abilities.
- *Facades and adapters*: service facades, TCP adapters, and the host environment
  (`mocks`, `platform`, `bus`, `protocol`, fault injection, log analyser), which
  stand in for the operating system.
