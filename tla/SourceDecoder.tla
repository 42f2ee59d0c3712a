---------------------------- MODULE SourceDecoder ----------------------------
(***************************************************************************)
(* The source's video on its way in: DCameraStreamDataProcess feeds its    *)
(* DCameraPipelineSource, whose event thread (P) hands each frame to       *)
(* DecodeDataProcess.  The node queues it to the codec with its frame info *)
(* in frameInfoDeque_; the codec renders decoded pictures to a surface,    *)
(* from which the event thread of the node (E) takes them, gives each the  *)
(* oldest info and passes it to ScaleConvertProcess and to the listener.   *)
(*                                                                         *)
(* A step is what a thread does under one lock or between two accesses to  *)
(* what the threads share.  Two builds of the node are modelled, with and  *)
(* without distributed_camera_common.                                      *)
(***************************************************************************)
EXTENDS Naturals, Sequences

CONSTANTS MaxFrames,  \* bound: frames fed to the pipeline
          MaxQueue,   \* VIDEO_DECODER_QUEUE_MAX
          Indexes     \* input buffers of the codec

ASSUME SizesAssumption == MaxQueue \in Nat /\ Indexes \in Nat \ {0}
ASSUME BoundsAssumption == MaxFrames \in Nat

VARIABLES
  control,   \* how far creating or destroying the pipeline has come
  coded,     \* the codecs differ: the node has a decoder and an event thread
  decoding,  \* isDecoderProcess_
  decoder,   \* videoDecoder_: "null", "started" or "stopped"
  process,   \* isProcess_ of the pipeline
  fed,       \* the last frame fed; a frame is its number, and 1 is codec data, which need not come
  tasks,     \* the tasks of P: a frame to process, or Again
  at,        \* where P is
  held,      \* the frame P has in its hands
  inputs,    \* inputBuffersQueue_
  free,      \* availableInputIndexsQueue_: how many
  infos,     \* frameInfoDeque_
  codec,     \* the codec: its free input buffers, and the frames queued to it
  output,    \* where the codec's output callback is
  surface,   \* the pictures in the surface
  events,    \* the tasks of E: Get, or a picture with its info to pass on
  eAt,       \* where E is
  picture,   \* the picture and info E has in its hands
  error,     \* where the codec's OnError is
  crashed,   \* a null pointer was used, or an empty queue popped
  causes     \* history: the irregular events there have been

nodeVars == <<coded, decoding, decoder, process>>
pVars == <<tasks, at, held, inputs, free>>
codecVars == <<codec, output, surface>>
eVars == <<events, eAt, picture>>
vars == <<nodeVars, control, fed, pVars, infos, codecVars, eVars, error, crashed, causes>>

Again == 0          \* the task that calls FeedDecoderInputBuffer again
Get == [n |-> 0, info |-> 0]
IsHead(n) == n = 1  \* AVCODEC_BUFFER_FLAG_CODEC_DATA
NoCodec == [free |-> 0, queued |-> <<>>]

Init ==
  /\ control = "none" /\ coded = FALSE /\ decoding = FALSE /\ decoder = "null" /\ process = FALSE
  /\ fed \in 0..1 /\ tasks = <<>> /\ at = "idle" /\ held = 0 /\ inputs = <<>> /\ free = 0 /\ infos = <<>>
  /\ codec = NoCodec /\ output = "none" /\ surface = <<>>
  /\ events = <<>> /\ eAt = "off" /\ picture = Get
  /\ error = "none" /\ crashed = FALSE /\ causes = {}

----------------------------------------------------------------------------
(* Creating the pipeline: InitDCameraPipNodes starts the codec and sets    *)
(* the flag whatever OnError made of it meanwhile.                         *)
InitDecoder ==
  /\ control = "none" /\ control' = "decoder"
  /\ coded' = TRUE /\ decoder' = "started" /\ eAt' = "idle"
  /\ codec' = [free |-> Indexes, queued |-> <<>>]
  /\ UNCHANGED <<decoding, process, causes>>
InitNode ==
  /\ \/ control = "none"      \* the codecs are equal: no decoder
     \/ control = "decoder"
  /\ control' = "flagged" /\ decoding' = TRUE
  /\ UNCHANGED <<coded, decoder, process, eAt, codec, causes>>
CreateDataProcessPipeline ==
  /\ control = "flagged" /\ control' = "running"
  /\ process' = TRUE
  /\ UNCHANGED <<coded, decoding, decoder, eAt, codec, causes>>
(* A node could not be made.  The decoder node made before it goes, and    *)
(* its destructor releases it only if the flag is still set: otherwise its *)
(* thread is destroyed while it can be joined, which ends the process.     *)
CreationFails ==
  /\ \/ control = "none" /\ control' = "done" /\ UNCHANGED crashed
     \/ control = "flagged" /\ control' = "halting" /\ crashed' = (coded /\ ~decoding)
  /\ decoding' = FALSE
  /\ UNCHANGED <<coded, decoder, process, eAt, codec, causes>>
CreatePipeline ==
  /\ \/ (InitDecoder \/ InitNode \/ CreateDataProcessPipeline) /\ UNCHANGED crashed
     \/ CreationFails
  /\ UNCHANGED <<fed, pVars, infos, output, surface, events, picture, error>>

(* DestroyDataProcessPipeline and ReleaseProcessNode.  E and P are stopped *)
(* and joined; each ends the task it is in and runs no other.              *)
DestroyPipeline ==
  /\ control = "running" /\ control' = "halting"
  /\ process' = FALSE /\ decoding' = FALSE
  /\ UNCHANGED <<decoder, codec, eAt, events, surface, inputs, free, infos>>
ReleaseVideoDecoder ==
  /\ control = "halting" /\ control' = "undecoded"
  /\ decoder' = "null"
  /\ codec' = IF output = "none" THEN NoCodec ELSE [free |-> 0, queued |-> <<Head(codec.queued)>>]
  /\ UNCHANGED <<decoding, process, eAt, events, surface, inputs, free, infos>>
(* ReleaseCodecEvent holds eventMutex_ while it joins.                     *)
Joining == control = "joinE"
Released == control \in {"unthreaded", "headless", "joinP", "done"}
(* Slip: the thread is joined but not told to stop.                        *)
JoinsUnstopped ==
  /\ \/ control = "undecoded" /\ control' = "joinE" /\ UNCHANGED <<eAt, events, surface>>
     \/ /\ Joining /\ eAt = "off" /\ control' = "unthreaded"
        /\ eAt' = "off" /\ events' = <<>> /\ surface' = <<>>
  /\ UNCHANGED <<decoding, process, decoder, codec, inputs, free, infos>>
ReleaseCodecEvent ==
  /\ \/ control = "undecoded" /\ control' = "joinE" /\ UNCHANGED <<eAt, events, surface>>
     \/ /\ Joining /\ eAt \in {"idle", "off"} /\ control' = "unthreaded"
        /\ eAt' = "off" /\ events' = <<>> /\ surface' = <<>>
  /\ UNCHANGED <<decoding, process, decoder, codec, inputs, free, infos>>
(* The queues are emptied without their locks while P may be in them, and  *)
(* pipelineHead_ becomes null while P may have tasks that use it.          *)
ReleaseProcessNode ==
  /\ control = "unthreaded" /\ control' = "headless"
  /\ inputs' = <<>> /\ free' = 0 /\ infos' = <<>>
  /\ UNCHANGED <<decoding, process, decoder, codec, eAt, events, surface>>
JoinsPipeline ==
  /\ \/ control = "headless" /\ control' = "joinP" /\ tasks' = <<>>
     \/ control = "joinP" /\ at = "idle" /\ control' = "done" /\ tasks' = tasks
  /\ UNCHANGED <<decoding, process, decoder, codec, eAt, events, surface, inputs, free, infos>>
Destroying ==
  \/ (ReleaseVideoDecoder \/ ReleaseCodecEvent \/ ReleaseProcessNode) /\ UNCHANGED tasks
  \/ JoinsPipeline
Destroys(Step) ==
  /\ Step
  /\ UNCHANGED <<coded, fed, at, held, output, picture, error, crashed, causes>>

----------------------------------------------------------------------------
(* FeedStreamToContinue, which shares pipelineMutex_ with Create and       *)
(* Destroy, and ProcessData of the pipeline.                               *)
FeedStreamToContinue ==
  /\ control = "running" /\ process /\ fed < MaxFrames
  /\ fed' = fed + 1 /\ tasks' = Append(tasks, fed + 1)
  /\ UNCHANGED <<nodeVars, control, at, held, inputs, free, infos, codecVars, eVars, error, crashed, causes>>

(* P takes a task.  One that was queued when pipelineHead_ became null     *)
(* uses it nevertheless.                                                   *)
Headless == control \in {"headless", "joinP", "done"}
TakesTask ==
  /\ at = "idle" /\ tasks # <<>> /\ control \notin {"joinP", "done"}
  /\ tasks' = Tail(tasks)
  /\ UNCHANGED <<nodeVars, control, fed, infos, codecVars, events, eAt, picture, error>>
PassesThrough ==
  /\ TakesTask /\ Head(tasks) # Again /\ ~coded
  /\ crashed' = Headless
  /\ UNCHANGED <<at, held, inputs, free, causes>>
Accepts == decoder # "null" /\ Len(inputs) <= MaxQueue /\ decoding
(* A frame that is too big is refused as well.                             *)
ProcessData ==
  /\ TakesTask /\ Head(tasks) # Again /\ coded
  /\ crashed' = Headless
  /\ \/ /\ ~Headless /\ Accepts
        /\ inputs' = Append(inputs, Head(tasks)) /\ at' = "feed"
     \/ UNCHANGED <<inputs, at>>
  /\ UNCHANGED <<held, free, causes>>
FeedsAgain ==
  /\ TakesTask /\ Head(tasks) = Again
  /\ at' = "feedAgain"
  /\ UNCHANGED <<held, inputs, free, crashed, causes>>

(* A frame that could not be queued is tried once more, by a task.         *)
Failed(again) ==
  /\ at' = "idle" /\ held' = 0
  /\ IF again THEN tasks' = tasks
     ELSE tasks' = IF Released THEN tasks ELSE Append(tasks, Again)
(* Slip: it is not tried again.                                            *)
FeedsOnce(again) ==
  /\ at = IF again THEN "feedAgain" ELSE "feed"
  /\ IF inputs = <<>> \/ ~decoding \/ free = 0
     THEN at' = "idle" /\ UNCHANGED <<held, tasks, infos, causes>>
     ELSE /\ held' = Head(inputs)
          /\ infos' = Append(infos, [n |-> Head(inputs), head |-> IsHead(Head(inputs))])
          /\ at' = IF again THEN "queueAgain" ELSE "queue" 
          /\ UNCHANGED <<tasks, causes>>
(* FeedDecoderInputBuffer: the info goes first.                            *)
FeedDecoderInputBuffer(again) ==
  /\ at = IF again THEN "feedAgain" ELSE "feed"
  /\ IF inputs = <<>> \/ ~decoding
     THEN at' = "idle" /\ UNCHANGED <<held, tasks, infos, causes>>
     ELSE IF free = 0
     THEN Failed(again) /\ causes' = (IF again THEN causes \union {"starved"} ELSE causes) /\ UNCHANGED infos
     ELSE /\ held' = Head(inputs)
          /\ infos' = Append(infos, [n |-> Head(inputs), head |-> IsHead(Head(inputs))])
          /\ at' = IF again THEN "queueAgain" ELSE "queue"
          /\ UNCHANGED <<tasks, causes>>
Feeds(again) ==
  /\ FeedDecoderInputBuffer(again)
  /\ UNCHANGED <<nodeVars, control, fed, inputs, free, codecVars, eVars, error, crashed>>

(* Under mtxDecoderLock_.  With the decoder gone, which P finds once at    *)
(* most, the build without distributed_camera_common pops the frame, the   *)
(* one with it leaves it.                                                  *)
QueueInputBuffer(again) ==
  /\ at = IF again THEN "queueAgain" ELSE "queue"
  /\ \/ /\ decoder = "null"
        /\ \/ at' = "idle" /\ held' = 0
           \/ at' = (IF again THEN "popAgain" ELSE "pop") /\ held' = held
        /\ UNCHANGED <<tasks, codec, causes>>
     \/ /\ decoder = "started"
        /\ at' = IF again THEN "popAgain" ELSE "pop"
        /\ codec' = [codec EXCEPT !.queued = Append(@, held)]
        /\ UNCHANGED <<held, tasks, causes>>
     \/ /\ decoder # "null" /\ Failed(again)
        /\ causes' = causes \union (IF again THEN {"astray", "starved"} ELSE {"astray"})
        /\ UNCHANGED codec
  /\ UNCHANGED <<nodeVars, control, fed, inputs, free, infos, output, surface, eVars, error, crashed>>
(* IncreaseWaitDecodeCnt: the frame and the index are taken off.           *)
PopsInput(again) ==
  /\ at = IF again THEN "popAgain" ELSE "pop"
  /\ at' = (IF again THEN "feedAgain" ELSE "feed") /\ held' = 0
  /\ IF inputs = <<>> \/ free = 0
     THEN crashed' = TRUE /\ UNCHANGED <<inputs, free>>
     ELSE inputs' = Tail(inputs) /\ free' = free - 1 /\ UNCHANGED crashed
  /\ UNCHANGED <<nodeVars, control, fed, tasks, infos, codecVars, eVars, error, causes>>

----------------------------------------------------------------------------
(* The codec, on threads of its own.  It drops an index that comes while   *)
(* more than MaxQueue wait, and gives no picture for codec data.           *)
OnInputBufferAvailable ==
  /\ decoder = "started" /\ codec.free > 0
  /\ codec' = [codec EXCEPT !.free = @ - 1]
  /\ free' = IF free > MaxQueue THEN free ELSE free + 1
  /\ UNCHANGED <<infos, output, surface, events, causes>>
Consumed == [free |-> codec.free + 1, queued |-> Tail(codec.queued)]
TakesHead ==
  /\ decoder = "started" /\ output = "none" /\ codec.queued # <<>> /\ IsHead(Head(codec.queued))
  /\ codec' = Consumed
  /\ UNCHANGED <<free, infos, output, surface, events, causes>>
(* The info of the codec data takes the index, the pts, the type and the   *)
(* end of encoding of the one behind it and stands for both; its rawTime   *)
(* and other times stay.  An info is told by its index here.               *)
AlignFirstFrameTime ==
  infos' = IF Len(infos) >= 2 /\ infos[1].head THEN Tail(infos) ELSE infos
OnOutputBufferAvailable ==
  /\ decoder = "started" /\ output = "none" /\ codec.queued # <<>> /\ ~IsHead(Head(codec.queued))
  /\ IF decoding
     THEN output' = "aligned" /\ AlignFirstFrameTime /\ UNCHANGED codec
     ELSE codec' = Consumed /\ UNCHANGED <<output, infos>>
  /\ UNCHANGED <<free, surface, events, causes>>
ReleaseOutputBuffer ==
  /\ output = "aligned"
  /\ \/ /\ decoder = "started"
        /\ output' = "rendered" /\ surface' = Append(surface, Head(codec.queued))
        /\ UNCHANGED <<codec, causes>>
     \/ /\ output' = "none" /\ codec' = Consumed
        /\ causes' = causes \union {"astray"}
        /\ UNCHANGED surface
  /\ UNCHANGED <<free, infos, events>>
(* Under eventMutex_, which a joining ReleaseCodecEvent has.               *)
OnSurfaceOutputBufferAvailable ==
  /\ output = "rendered" /\ ~Joining
  /\ events' = IF eAt = "off" THEN events ELSE Append(events, Get)
  /\ output' = "none" /\ codec' = Consumed
  /\ UNCHANGED <<free, infos, surface, causes>>
CodecRuns ==
  /\ \/ OnInputBufferAvailable \/ TakesHead \/ OnOutputBufferAvailable \/ ReleaseOutputBuffer
     \/ OnSurfaceOutputBufferAvailable
  /\ UNCHANGED <<nodeVars, control, fed, tasks, at, held, inputs, eAt, picture, error, crashed>>

----------------------------------------------------------------------------
(* E.  A picture that is too big or cannot be copied is given up, and its  *)
(* info is not.  Every task finds its picture in the surface.              *)
TakesEvent ==
  /\ eAt = "idle" /\ events # <<>> /\ ~Joining
  /\ events' = Tail(events)
(* Slip: a picture that is copied leaves its info in frameInfoDeque_.      *)
CopiesWithoutPop ==
  /\ surface' = Tail(surface)
  /\ IF infos = <<>>
     THEN crashed' = TRUE /\ UNCHANGED <<eAt, picture, infos>>
     ELSE /\ picture' = [n |-> Head(surface), info |-> Head(infos).n]
          /\ eAt' = "post" /\ UNCHANGED <<infos, crashed>>
  /\ UNCHANGED causes
CopyDecodedImage ==
  /\ surface' = Tail(surface)
  /\ IF infos = <<>>
     THEN crashed' = TRUE /\ UNCHANGED <<eAt, picture, infos>>
     ELSE /\ picture' = [n |-> Head(surface), info |-> Head(infos).n]
          /\ infos' = Tail(infos) /\ eAt' = "post" /\ UNCHANGED crashed
  /\ UNCHANGED causes
GetDecoderOutputBuffer ==
  /\ TakesEvent /\ Head(events) = Get
  /\ \/ CopyDecodedImage
     \/ /\ surface' = Tail(surface)
        /\ causes' = causes \union {"astray"}
        /\ UNCHANGED <<infos, eAt, picture, crashed>>
(* It needs eventMutex_ as well: if ReleaseCodecEvent has it, each waits   *)
(* for the other.                                                          *)
PostOutputDataBuffers ==
  /\ eAt = "post" /\ ~Joining
  /\ events' = Append(events, picture) /\ picture' = Get /\ eAt' = "idle"
  /\ UNCHANGED <<surface, infos, crashed, causes>>
(* ScaleConvertProcess and the listener get the picture.                   *)
DecodeDone ==
  /\ TakesEvent /\ Head(events) # Get
  /\ UNCHANGED <<surface, infos, eAt, picture, crashed, causes>>
EventRuns ==
  /\ GetDecoderOutputBuffer \/ PostOutputDataBuffers \/ DecodeDone
  /\ UNCHANGED <<nodeVars, control, fed, pVars, codec, output, error>>

(* OnError of the codec, with no lock at all.                              *)
OnErrorBegins ==
  /\ error = "none" /\ decoder = "started"
  /\ error' = "begun" /\ decoding' = FALSE
  /\ UNCHANGED <<decoder, process, crashed>>
OnErrorTests ==
  /\ error = "begun"
  /\ IF decoder = "null" THEN error' = "done" /\ process' = FALSE ELSE error' = "tested" /\ UNCHANGED process
  /\ UNCHANGED <<decoding, decoder, crashed>>
(* The decoder it has tested may be gone.                                  *)
StopsDecoder ==
  /\ error = "tested" /\ error' = "done"
  /\ IF decoder = "null" THEN crashed' = TRUE /\ UNCHANGED decoder
     ELSE decoder' = "stopped" /\ UNCHANGED crashed
  /\ process' = FALSE /\ UNCHANGED decoding
OnError ==
  /\ OnErrorBegins \/ OnErrorTests \/ StopsDecoder
  /\ UNCHANGED <<coded, control, fed, pVars, infos, codecVars, eVars, causes>>

----------------------------------------------------------------------------
PipelineRuns ==
  \/ PassesThrough \/ ProcessData \/ FeedsAgain
  \/ \E again \in BOOLEAN : Feeds(again) \/ QueueInputBuffer(again) \/ PopsInput(again)
Next ==
  /\ ~crashed
  /\ \/ CreatePipeline \/ Destroys(DestroyPipeline /\ UNCHANGED tasks) \/ Destroys(Destroying)
     \/ FeedStreamToContinue \/ PipelineRuns
     \/ CodecRuns \/ EventRuns \/ OnError

(* The threads run on; the codec and the feeder need not.                  *)
Fairness ==
  /\ WF_vars(~crashed /\ Destroys(Destroying))
  /\ WF_vars(~crashed /\ PipelineRuns) /\ WF_vars(~crashed /\ EventRuns)
Spec == Init /\ [][Next]_vars /\ Fairness

----------------------------------------------------------------------------
(* A picture is passed on with the index and the pts of its own frame;     *)
(* except after a frame was queued a second time with a second info, or a  *)
(* picture was lost on its way while its info stayed in frameInfoDeque_.   *)
InfoIsOfFrame ==
  \A i \in 1..Len(events) : events[i].n = events[i].info \/ "astray" \in causes

(* A frame in inputBuffersQueue_ goes to the codec although no buffer of   *)
(* the codec was free when it came; except when its one retry was in vain. *)
NoFrameStuck ==
  inputs # <<>> ~> inputs = <<>> \/ ~decoding \/ crashed \/ "starved" \in causes

(* While the node runs the empty front of a queue is never used and no     *)
(* null pointer: only a pipeline that is being destroyed can crash.        *)
NodeIsSafe == crashed => control \notin {"none", "decoder", "flagged", "running"}
(* Destroying one ends as well, whatever the threads were doing; except    *)
(* when E is about to post a picture while ReleaseCodecEvent holds         *)
(* eventMutex_ and waits for E to end.                                     *)
ReleaseEnds ==
  /\ []NodeIsSafe
  /\ control = "halting" ~> control = "done" \/ crashed \/ (Joining /\ eAt = "post")
=============================================================================
