----------------------------- MODULE SinkEncoder -----------------------------
(***************************************************************************)
(* The sink's video on its way out: DCameraSinkDataProcess creates a       *)
(* DCameraPipelineSink with one node, EncodeDataProcess.  The codec hands  *)
(* encoded frames to OnOutputBufferAvailable, which queues them; the       *)
(* node's sync thread offers each to the data process, whose event thread  *)
(* sends one frame at a time and answers DCAMERA_TRANS_BUSY meanwhile.  A  *)
(* node that falls behind lowers the bit rate and keeps key frames only.   *)
(*                                                                         *)
(* A step is what a thread does under one lock or between two accesses to  *)
(* what the threads share.  videoEncoder_ is read without a lock, so each  *)
(* test of it and the call that follows are two steps.                     *)
(***************************************************************************)
EXTENDS Integers, Sequences

CONSTANTS MaxFrames,   \* bound: frames the codec gives
          EarlyFrames, \* bound: frames given before the pipeline has its listener, or before the
                       \* codec fails or a frame is given up
          HalfRate,    \* maxFrameRate_ / SYNCQUEUE_DIVIDE_TWO
          KeysToRaise, \* BITRATE_INCREASE_STANDARD
          MaxBitrate   \* maxBitrate_, in units of DEFAULT_VIDEO_DYNAMIC_BITRATE

ASSUME BoundsAssumption == MaxFrames \in Nat /\ EarlyFrames \in 0..MaxFrames
ASSUME SizesAssumption == HalfRate \in Nat /\ KeysToRaise \in Nat \ {0}
ASSUME BitrateAssumption == MaxBitrate \in Nat /\ MaxBitrate >= 3

VARIABLES
  equal,      \* the source's codec type is that of the target; never changes
  control,    \* how far creating or destroying the pipeline has come
  encoding,   \* isEncoderProcess_
  encoder,    \* videoEncoder_: "null", "started" or "stopped"
  listener,   \* processListener_ of the pipeline is set
  joinable,   \* syncThread_.joinable()
  callback,   \* where the codec's OnOutputBufferAvailable is, "none" when it is not running
  coming,     \* the frame it brings
  frames,     \* frames the codec has given
  index_,
  buffers,    \* encodeBuffers_
  sync,       \* where the sync thread is
  held,       \* the frame it has taken
  isSkipState_, lastKeyFrameIndex_, curKeyFrameIndex_,
  keysSent,   \* syncKeyFrameSuccNum_
  rate,       \* currentBitrate_, dynamicBitrateStep_, isMaxBitrate_ and isMinBitrate_
  sending,    \* the event handler of the data process is not idle
  sent,       \* history: the last two frames posted to it
  error,      \* where the codec's OnError is
  crashed,    \* a null encoder was called, or the sync thread joined twice
  causes      \* history: the irregular events there have been

syncVars == <<isSkipState_, lastKeyFrameIndex_, curKeyFrameIndex_, keysSent, rate>>
codecVars == <<callback, coming, frames, index_>>
nodeVars == <<encoding, encoder, listener, joinable>>
encoderVars ==
  <<equal, control, nodeVars, codecVars, buffers, sync, held, syncVars, sending, sent, error, crashed, causes>>

NoFrame == [n |-> 0, index |-> 0, key |-> FALSE]
MinBitrate == MaxBitrate \div 3
Least(a, b) == IF a < b THEN a ELSE b

EncoderInit ==
  /\ equal \in BOOLEAN
  /\ control = "idle" /\ encoding = FALSE /\ encoder = "null" /\ listener = FALSE /\ joinable = FALSE
  /\ callback = "none" /\ coming = NoFrame /\ frames = 0 /\ index_ = 0
  /\ buffers = <<>> /\ sync = "off" /\ held = NoFrame
  /\ isSkipState_ = FALSE /\ lastKeyFrameIndex_ = 0 /\ curKeyFrameIndex_ = 0 /\ keysSent = 0
  /\ rate = [current |-> MaxBitrate - MinBitrate, step |-> MaxBitrate - MinBitrate, max |-> FALSE, min |-> FALSE]
  /\ sending = FALSE /\ sent = <<>> /\ error = "none" /\ crashed = FALSE /\ causes = {}

----------------------------------------------------------------------------
(* Creating the pipeline.  InitEncoder starts the codec, which may answer  *)
(* before isEncoderProcess_ is set, the sync thread runs or the pipeline   *)
(* has its listener.  Equal codec types need no encoder; a source that is  *)
(* encoded already cannot be converted.                                    *)
InitEncoder == ~equal /\ encoder' = "started" /\ control' = "encoder"
CodecsEqual == equal /\ encoder' = encoder /\ control' = "encoder"
NotConvertible == ~equal /\ encoder' = encoder /\ control' = "stopped"
StartCapture ==
  /\ control = "idle"
  /\ InitEncoder \/ CodecsEqual \/ NotConvertible
  /\ UNCHANGED <<encoding, listener, joinable, causes>>
(* InitNode sets the flag whatever OnError made of it meanwhile.           *)
SetsFlag ==
  /\ control = "encoder" /\ control' = "flagged"
  /\ encoding' = TRUE /\ UNCHANGED <<encoder, listener, joinable>>
  /\ causes' = IF error = "none" THEN causes ELSE causes \union {"revived"}
CreatePipeline ==
  /\ control = "threaded" /\ control' = "running"
  /\ listener' = TRUE /\ UNCHANGED <<encoding, encoder, joinable, causes>>
Creating ==
  /\ StartCapture \/ SetsFlag \/ CreatePipeline
  /\ UNCHANGED <<codecVars, buffers, sync, held, syncVars, sending, sent, error, crashed>>
CreateSyncEncodeBufferThread ==
  /\ control = "flagged" /\ control' = "threaded"
  /\ sync' = "top" /\ joinable' = TRUE
  /\ UNCHANGED <<encoding, encoder, listener, codecVars, buffers, held, syncVars, sending, sent, error, crashed, causes>>

(* ReleaseProcessNode, which StopCapture reaches through                  *)
(* DestroyDataProcessPipeline.                                             *)
StopEncoding ==
  /\ control = "running" /\ control' = "stopping"
  /\ encoding' = FALSE
  /\ UNCHANGED <<encoder, listener, joinable, codecVars, buffers, sync, held, syncVars, sending, sent, error, crashed, causes>>
ReleaseVideoEncoder ==
  /\ control = "stopping" /\ control' = "released"
  /\ encoder' = "null"
  /\ UNCHANGED <<encoding, listener, joinable, codecVars, buffers, sync, held, syncVars, sending, sent, error, crashed, causes>>
Woken == IF sync = "asleep" THEN "top" ELSE sync
(* Slip: the queue is emptied but nobody is told.                          *)
EmptiesQuietly(from, to) ==
  /\ \/ control = "released" /\ from = "released" /\ control' = to /\ error' = error
     \/ error = "halted" /\ from = "halted" /\ error' = to /\ control' = control
  /\ buffers' = <<>> /\ sync' = sync
(* The queue is emptied under encodeBuffersMutex_ and the sync thread      *)
(* notified, by ReleaseProcessNode and by OnError.                         *)
EmptiesBuffers(from, to) ==
  /\ \/ control = "released" /\ from = "released" /\ control' = to /\ error' = error
     \/ error = "halted" /\ from = "halted" /\ error' = to /\ control' = control
  /\ buffers' = <<>> /\ sync' = Woken
Empties ==
  /\ \/ EmptiesBuffers("released", IF joinable THEN "joining" ELSE "joined")
     \/ EmptiesBuffers("halted", IF joinable THEN "joining" ELSE "joined")
  /\ UNCHANGED <<nodeVars, codecVars, held, syncVars, sending, sent, crashed, causes>>
(* The second join of one thread has no defined outcome.                   *)
Joins ==
  /\ sync = "exited"
  /\ \/ control = "joining" /\ control' = "joined" /\ error' = error
     \/ error = "joining" /\ error' = "joined" /\ control' = control
  /\ crashed' = ~joinable /\ joinable' = FALSE
  /\ UNCHANGED <<encoding, encoder, listener, codecVars, buffers, sync, held, syncVars, sending, sent, causes>>
(* The listener goes and the tasks not yet run are removed.                *)
StopReturns ==
  /\ control = "joined" /\ control' = "stopped"
  /\ listener' = FALSE /\ sending' \in {sending, FALSE}
  /\ UNCHANGED <<encoding, encoder, joinable, codecVars, buffers, sync, held, syncVars, sent, error, crashed, causes>>

(* OnError of the codec, in a thread of its own.                           *)
OnError ==
  /\ error = "none" /\ encoder = "started" /\ frames <= EarlyFrames
  /\ error' = "begun" /\ encoding' = FALSE
  /\ UNCHANGED <<control, encoder, listener, joinable, codecVars, buffers, sync, held, syncVars, sending, sent, crashed, causes>>
ErrorTests ==
  /\ error = "begun"
  /\ error' = IF encoder = "null" THEN "halted" ELSE "tested"
  /\ UNCHANGED <<control, nodeVars, codecVars, buffers, sync, held, syncVars, sending, sent, crashed, causes>>
ErrorHalts ==
  /\ error = "tested" /\ error' = "halted"
  /\ crashed' = (encoder = "null")
  /\ encoder' = IF encoder = "null" THEN "null" ELSE "stopped"
  /\ UNCHANGED <<control, encoding, listener, joinable, codecVars, buffers, sync, held, syncVars, sending, sent, causes>>
ErrorHandling == OnError \/ ErrorTests \/ ErrorHalts

----------------------------------------------------------------------------
(* The codec gives its frames one after another, the first of them codec   *)
(* data, which counts as a key frame.                                      *)
EncoderOutputs ==
  /\ encoder = "started" /\ callback = "none"
  /\ frames < IF listener THEN MaxFrames ELSE EarlyFrames
  /\ frames' = frames + 1
  /\ \E key \in BOOLEAN :
       /\ frames = 0 => key
       /\ coming' = [n |-> frames + 1, index |-> 0, key |-> key]
  /\ callback' = "waiting"
  /\ UNCHANGED <<index_, buffers, sync, causes>>
(* OnOutputBufferAvailable waits three seconds for isEncoderProcess_.      *)
GivesUp ==
  /\ callback' = "none" /\ coming' = NoFrame /\ causes' = causes \union {"lost"}
  /\ UNCHANGED index_
(* A frame of a bad size, or one that cannot be copied, is given up.       *)
GetEncoderOutputBuffer ==
  /\ encoder # "null" /\ callback' = "copied"
  /\ index_' = index_ + 1 /\ coming' = [coming EXCEPT !.index = index_]
  /\ UNCHANGED causes
OnOutputBufferAvailable ==
  /\ callback = "waiting"
  /\ \/ (encoding => frames <= EarlyFrames) /\ GivesUp
     \/ encoding /\ GetEncoderOutputBuffer
  /\ UNCHANGED <<frames, buffers, sync>>
EncodeDone ==
  /\ callback = "copied"
  /\ buffers' = Append(buffers, coming) /\ coming' = NoFrame /\ sync' = Woken
  /\ callback' = IF encoder = "null" THEN "none" ELSE "returning"
  /\ UNCHANGED <<frames, index_, causes>>
Callback ==
  /\ EncoderOutputs \/ OnOutputBufferAvailable \/ EncodeDone
  /\ UNCHANGED <<control, nodeVars, held, syncVars, sending, sent, error, crashed>>
ReleasesOutput ==
  /\ callback = "returning" /\ callback' = "none"
  /\ crashed' = (encoder = "null")
  /\ UNCHANGED <<control, nodeVars, coming, frames, index_, buffers, sync, held, syncVars, sending, sent, error, causes>>
(* Without an encoder a frame goes on as it is.  It has neither a type nor *)
(* an index; FindInt32 makes both of them 0, so IsKeyFrame takes no raw    *)
(* frame for a key frame.                                                  *)
ProcessData ==
  /\ buffers' = Append(buffers, [n |-> frames + 1, index |-> 0, key |-> FALSE]) /\ sync' = Woken
FeedStream ==
  /\ control = "running" /\ equal /\ frames < MaxFrames
  /\ frames' = frames + 1 /\ ProcessData
  /\ UNCHANGED <<control, nodeVars, callback, coming, index_, held, syncVars, sending, sent, error, crashed, causes>>

----------------------------------------------------------------------------
(* SyncEncodeBufferThread. *)
SyncTakes ==
  /\ sync = "top"
  /\ IF ~encoding THEN sync' = "exited" /\ UNCHANGED <<held, buffers>>
     ELSE IF buffers = <<>> THEN sync' = "asleep" /\ UNCHANGED <<held, buffers>>
     ELSE sync' = "offer" /\ held' = Head(buffers) /\ buffers' = Tail(buffers)
  /\ UNCHANGED <<syncVars, sending, sent, causes>>

(* IsKeyFrame remembers the index of the last key frame it was shown.      *)
KeyIndex(f) == IF f.key THEN f.index ELSE curKeyFrameIndex_
Skipped(f) == isSkipState_ /\ ~f.key
(* Slip: any frame that is offered ends the skipping.                      *)
SkipEndsEarly(f) == isSkipState_' = FALSE
(* Skipping ends with a key frame that was not yet encoded when it began.  *)
SkipEnds(f) ==
  isSkipState_' = (isSkipState_ /\ ~(f.key /\ lastKeyFrameIndex_ # KeyIndex(f)))

(* The listener posts the frame if its event thread is idle.               *)
Posted == listener /\ ~sending
Posting == Append(IF Len(sent) = 2 THEN Tail(sent) ELSE sent, held)
(* Slip: a busy event thread ends the sync thread.                         *)
SyncGivesUp ==
  /\ sync = "offer" /\ ~Skipped(held)
  /\ sync' = IF Posted THEN "top" ELSE "exited"
  /\ held' = NoFrame
  /\ sending' = TRUE /\ sent' = IF Posted THEN Posting ELSE sent
  /\ SkipEnds(held) /\ curKeyFrameIndex_' = KeyIndex(held)
  /\ UNCHANGED <<buffers, lastKeyFrameIndex_, keysSent, rate, causes>>
SyncSkips ==
  /\ sync = "offer" /\ Skipped(held) /\ sync' = "top" /\ held' = NoFrame
  /\ UNCHANGED <<buffers, syncVars, sending, sent, causes>>
(* SyncVideoFrameSuccess: enough key frames in a row raise the bit rate.   *)
SyncVideoFrameSuccess ==
  LET n == keysSent + (IF held.key THEN 1 ELSE 0)
  IN  /\ keysSent' = IF n >= KeysToRaise THEN 0 ELSE n
      /\ sync' = IF n >= KeysToRaise /\ ~rate.max THEN "raise" ELSE "top"
      /\ sending' = TRUE /\ sent' = Posting /\ held' = NoFrame
      /\ UNCHANGED causes
(* No listener: the thread ends.                                           *)
Unheard ==
  /\ sync' = "exited" /\ held' = NoFrame /\ causes' = causes \union {"unheard"}
  /\ UNCHANGED <<keysSent, sending, sent>>
Refused == sync' = "busy" /\ UNCHANGED <<held, keysSent, sending, sent, causes>>
SyncOffers ==
  /\ sync = "offer" /\ ~Skipped(held)
  /\ SkipEnds(held) /\ curKeyFrameIndex_' = KeyIndex(held)
  /\ \/ Posted /\ SyncVideoFrameSuccess
     \/ ~listener /\ Unheard
     \/ listener /\ sending /\ Refused
  /\ UNCHANGED <<buffers, lastKeyFrameIndex_, rate>>
(* SyncVideoFrameFailure: the frame goes back, and a queue of half a       *)
(* second lowers the bit rate and loses its delta frames.                  *)
SyncVideoFrameFailure ==
  /\ sync = "busy" /\ keysSent' = 0 /\ held' = NoFrame
  /\ buffers' = <<held>> \o buffers
  /\ sync' = IF Len(buffers') < HalfRate THEN "top" ELSE IF rate.min THEN "drop" ELSE "lower"
  /\ UNCHANGED <<isSkipState_, lastKeyFrameIndex_, curKeyFrameIndex_, rate, sending, sent, causes>>
KeyFrames(queue) ==
  LET kept[i \in 0..Len(queue)] ==
        IF i = 0 THEN <<>> ELSE IF queue[i].key THEN Append(kept[i - 1], queue[i]) ELSE kept[i - 1]
  IN  kept[Len(queue)]
KeepsKeyFrames ==
  /\ sync = "drop" /\ sync' = "top"
  /\ LET kept == KeyFrames(buffers)
         last == IF kept = <<>> THEN lastKeyFrameIndex_ ELSE kept[Len(kept)].index
     IN  /\ buffers' = kept /\ lastKeyFrameIndex_' = last
         /\ curKeyFrameIndex_' = IF kept = <<>> THEN curKeyFrameIndex_ ELSE last
         /\ causes' = IF Len(kept) > 1 THEN causes \union {"keysKept"} ELSE causes
  /\ isSkipState_' = TRUE
  /\ UNCHANGED <<held, keysSent, rate, sending, sent>>

----------------------------------------------------------------------------
(* AdjustBitrateBasedOnNetworkConditions, and RoundBitrates.               *)
RoundBitrates(b) == IF b < MinBitrate THEN MinBitrate ELSE Least(b, MaxBitrate)
Wanted(up) ==
  RoundBitrates(Least(IF up THEN rate.current + rate.step ELSE (rate.current * 3) \div 4, MaxBitrate))
Reached(up) == Wanted(up) = rate.current /\ rate.current \in {MinBitrate, MaxBitrate}
Stepped(up) == IF up THEN rate.step ELSE 1
Onward(up) == IF up THEN "top" ELSE "drop"
(* A limit counts as reached when the rate was there already; otherwise    *)
(* the encoder is asked.                                                   *)
AdjustBitrate(up) ==
  /\ sync = IF up THEN "raise" ELSE "lower"
  /\ rate' = [rate EXCEPT !.step = Stepped(up), !.max = Reached(up) /\ rate.current = MaxBitrate,
                          !.min = Reached(up) /\ rate.current # MaxBitrate]
  /\ sync' = IF Reached(up) \/ encoder = "null" THEN Onward(up) ELSE IF up THEN "raising" ELSE "lowering"
Adjusting ==
  /\ AdjustBitrate(TRUE) \/ AdjustBitrate(FALSE)
  /\ UNCHANGED <<held, buffers, isSkipState_, lastKeyFrameIndex_, curKeyFrameIndex_, keysSent, sending, sent, causes>>
SyncEncodeBufferThread ==
  /\ \/ SyncTakes \/ SyncSkips \/ SyncOffers \/ SyncVideoFrameFailure \/ KeepsKeyFrames \/ Adjusting
  /\ UNCHANGED <<control, nodeVars, codecVars, error, crashed>>
(* SetParameter may refuse.                                                *)
SetParameter(up) ==
  /\ sync = IF up THEN "raising" ELSE "lowering"
  /\ crashed' = (encoder = "null")
  /\ \/ encoder # "null" /\ rate' = [rate EXCEPT !.current =
          RoundBitrates(Least(IF up THEN @ + rate.step ELSE (@ * 3) \div 4, MaxBitrate))]
     \/ rate' = rate
  /\ sync' = Onward(up)
  /\ UNCHANGED <<control, nodeVars, codecVars, buffers, held, isSkipState_, lastKeyFrameIndex_, curKeyFrameIndex_,
                 keysSent, sending, sent, error, causes>>

(* The event thread has sent its frame, or failed to.                      *)
SendDataAsync ==
  /\ sending /\ sending' = FALSE
  /\ UNCHANGED <<control, nodeVars, codecVars, buffers, sync, held, syncVars, sent, error, crashed, causes>>

Controls == Creating \/ CreateSyncEncodeBufferThread
Stops == ReleaseVideoEncoder \/ Empties \/ Joins \/ StopReturns
SyncSteps == SyncEncodeBufferThread \/ SetParameter(TRUE) \/ SetParameter(FALSE)
EncoderNext ==
  /\ ~crashed /\ UNCHANGED equal
  /\ \/ Controls \/ StopEncoding \/ Stops \/ ErrorHandling
     \/ Callback \/ ReleasesOutput \/ FeedStream
     \/ SyncSteps \/ SendDataAsync

(* Each thread runs on; when the node is stopped, and whether the codec    *)
(* fails or gives a frame, is open.                                        *)
EncoderFairness ==
  /\ WF_encoderVars(~crashed /\ UNCHANGED equal /\ Stops)
  /\ WF_encoderVars(~crashed /\ UNCHANGED equal /\ (ErrorTests \/ ErrorHalts))
  /\ WF_encoderVars(~crashed /\ UNCHANGED equal /\ SyncSteps)
  /\ WF_encoderVars(~crashed /\ UNCHANGED equal /\ SendDataAsync)
EncoderSpec == EncoderInit /\ [][EncoderNext]_encoderVars /\ EncoderFairness

----------------------------------------------------------------------------
Frames == [n : 0..MaxFrames, index : 0..MaxFrames, key : BOOLEAN]
EncoderTyped ==
  /\ equal \in BOOLEAN
  /\ control \in {"idle", "encoder", "flagged", "threaded", "running", "stopping", "released", "joining", "joined",
                  "stopped"}
  /\ encoding \in BOOLEAN /\ encoder \in {"null", "started", "stopped"}
  /\ listener \in BOOLEAN /\ joinable \in BOOLEAN
  /\ callback \in {"none", "waiting", "copied", "returning"}
  /\ coming \in Frames /\ held \in Frames /\ frames \in 0..MaxFrames /\ index_ \in 0..MaxFrames
  /\ buffers \in Seq(Frames) /\ sent \in Seq(Frames)
  /\ sync \in {"off", "top", "asleep", "offer", "busy", "raise", "raising", "lower", "lowering", "drop",
               "exited"}
  /\ isSkipState_ \in BOOLEAN /\ lastKeyFrameIndex_ \in 0..MaxFrames /\ curKeyFrameIndex_ \in 0..MaxFrames
  /\ keysSent \in 0..KeysToRaise
  /\ rate \in [current : MinBitrate..MaxBitrate, step : 1..MaxBitrate, max : BOOLEAN, min : BOOLEAN]
  /\ sending \in BOOLEAN /\ crashed \in BOOLEAN
  /\ error \in {"none", "begun", "tested", "halted", "joining", "joined"}
  /\ causes \subseteq {"lost", "unheard", "keysKept", "revived"}
(* Every variable keeps to its type, at most MaxFrames frames wait and the *)
(* last two that were posted are remembered.                               *)
EncoderTypeOK == EncoderTyped /\ Len(buffers) <= MaxFrames /\ Len(sent) <= 2

(* What is sent can be decoded: frames go out in the order of encoding,    *)
(* and a delta frame only right after the frame it builds on, also around  *)
(* the dropping of frames and the skipping that follows; except after      *)
(* OnOutputBufferAvailable gave a frame up; after more than one key frame  *)
(* was kept, the first of which ends the skipping although delta frames    *)
(* dropped behind the last are missed; or after the codec failed before    *)
(* InitNode set the flag that OnError had cleared.  A raw frame needs no   *)
(* other, and yet every one that is sent comes right after the last: none  *)
(* is a key frame, so a queue that is thinned loses all of them and no     *)
(* later one ever ends the skipping.                                       *)
SentFramesDecode ==
  /\ Len(sent) = 1 => sent[1].key \/ equal \/ causes \intersect {"lost", "revived"} # {}
  /\ Len(sent) = 2 =>
       /\ sent[1].n < sent[2].n
       /\ sent[2].key \/ sent[2].n = sent[1].n + 1 \/ causes \intersect {"lost", "keysKept", "revived"} # {}

(* While the node runs and the codec has not failed its sync thread lives, *)
(* so no frame waits for ever and encodeBuffers_ is emptied; except when   *)
(* the codec was so early that the first frame found no listener.  It      *)
(* skips no frame before half a second of frames has been given.  And      *)
(* nothing touches a released encoder, and no thread is joined twice,      *)
(* before the node is being released.                                      *)
SyncThreadServes ==
  /\ control \in {"threaded", "running"} /\ error = "none" => sync # "exited" \/ "unheard" \in causes
  /\ isSkipState_ => frames >= HalfRate
  /\ crashed => control \in {"released", "joining", "joined", "stopped"}

(* A release ends: the sync thread is woken and joined, whatever it was    *)
(* doing and whether or not the codec fails meanwhile.                     *)
StopEnds == control = "stopping" ~> control = "stopped" \/ crashed
=============================================================================
