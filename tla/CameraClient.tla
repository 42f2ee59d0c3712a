---------------------------- MODULE CameraClient ----------------------------
(***************************************************************************)
(* What the camera of the sink is told: DCameraClient hands settings, the  *)
(* frame rate and photos to the camera framework, and keeps settings in a  *)
(* queue as long as it has no camera.  Settings come on the thread of the  *)
(* control channel, without a lock, while the task of a start prepares the *)
(* camera; DCameraSinkDataProcess computes the encoder's frame rate from   *)
(* the same settings as the client computes the camera's.                  *)
(*                                                                         *)
(* Of the controller only the order is kept that SinkCapture shows: a      *)
(* start prepares both parts and commits, a stop waits for a start.        *)
(***************************************************************************)
EXTENDS Naturals, Sequences, FiniteSets

CONSTANTS
  Rates,        \* the frame rates of a command: <<min, max>>, or something else
  MaxFps,       \* DCAMERA_MAX_FPS and MAX_FRAME_RATE of the pipeline
  MaxMetadata,  \* DCAMERA_MAX_METADATA_SIZE
  MaxUpdates,   \* bound: settings given in a behaviour, in one command or in several
  Mishaps       \* the sets of things that may go wrong together

ASSUME ClientAssumption ==
  /\ \A r \in Rates : r \in Seq(Nat)
  /\ MaxFps \in Nat \ {0} /\ MaxMetadata \in Nat \ {0} /\ MaxUpdates \in Nat
  /\ Mishaps \subseteq SUBSET {"crossing", "prepare", "settings", "commit", "fast"}

VARIABLES
  mishaps,    \* what may go wrong; "crossing": settings come during a start,
              \* "fast": a rate above MaxFps is asked for
  phase,      \* the controller: "idle", "starting" or "running", or "crashed"
  todo,       \* the steps of the start that are left, per task
  ok,         \* no step of the start has failed
  request,    \* the command of the start in progress
  encoder,    \* the frame rate of pipeline_; 0 without one, "broken" if it failed
  camera,     \* cameraInput_, captureSession_ and the outputs
  metadatas,  \* cameraMetadatas_
  infos,      \* captureInfosCache_
  fps,        \* fpsRanges_
  applied,    \* the framework's: the last settings of this camera input, 0 for none
  rate,       \* the framework's: the frame rate of the preview
  photo,      \* the framework's: the settings of the last photo
  asked,      \* history: the command the outputs were made for
  updates,    \* history: the settings given so far
  latest,     \* history: the last settings given since the camera was let go
  dropped,    \* history: how many of the latest command were lost behind one that was kept
  update      \* the settings UpdateSettings is busy with, how many follow in their
              \* command, and what it has found cameraInput_ to ask for

told == <<applied, rate, photo>>
history == <<asked, updates, latest, dropped>>
clientVars == <<mishaps, phase, todo, ok, request, encoder, camera, metadatas, infos, fps, told, history, update>>

NoCamera == [input |-> "none", session |-> "none", outputs |-> {}]
NoUpdate == [settings |-> 0, left |-> 0, at |-> "none"]
Requests == {r \in [streams : {{"preview"}, {"preview", "photo"}}, rate : Rates, shot : {0, 1}]
               : r.shot # 0 => "photo" \in r.streams}
NoPhoto == [wanted |-> 0, used |-> 0]
NoRequest == [streams |-> {}, rate |-> <<>>, shot |-> 0]

ClientInit ==
  /\ mishaps \in Mishaps
  /\ phase = "idle" /\ todo = [encoder |-> <<>>, camera |-> <<>>] /\ ok = TRUE
  /\ request = NoRequest /\ encoder = 0 /\ camera = NoCamera
  /\ metadatas = <<>> /\ infos = NoRequest /\ fps = <<>>
  /\ applied = 0 /\ rate = <<>> /\ photo = NoPhoto
  /\ asked = NoRequest /\ updates = 0 /\ latest = 0 /\ dropped = 0 /\ update = NoUpdate
----------------------------------------------------------------------------
(* Frame rates.                                                            *)

IsRange(r) == Len(r) = 2
Larger(a, b) == IF a > b THEN a ELSE b
Smaller(a, b) == IF a < b THEN a ELSE b

\* Without a range of two, or with zeroes only, the default.
GetMaxFrameRate(r) ==
  IF IsRange(r) /\ Larger(r[1], r[2]) > 0 THEN Larger(r[1], r[2]) ELSE MaxFps

IsInRange(frameRate) == frameRate \in 0..MaxFps

\* The range of the infos, or what an earlier command left.
GetFpsRanges == IF IsRange(infos.rate) THEN infos.rate ELSE fps

Fastest(r) == Smaller(r, MaxFps)
FrameRate(f) == IF IsRange(f) /\ f[1] > 0 /\ f[2] > 0 THEN <<Fastest(f[1]), Fastest(f[2])>> ELSE <<>>
----------------------------------------------------------------------------
(* Settings.                                                               *)

\* Between its test of cameraInput_ and its call UpdateSettings can be overtaken.
Undisturbed == update = NoUpdate \/ "crossing" \in mishaps

\* A command has one setting or several.
BeginUpdate ==
  /\ update = NoUpdate
  /\ phase \in {"idle", "running"} \/ (phase = "starting" /\ "crossing" \in mishaps)
  /\ \E size \in 1..(MaxUpdates - updates) :
       /\ updates' = updates + size /\ latest' = updates + size
       /\ update' = [settings |-> updates + 1, left |-> size - 1, at |-> "test"]
  /\ dropped' = 0
  /\ UNCHANGED <<mishaps, phase, todo, ok, request, encoder, camera, metadatas, infos, fps, told, asked>>

TestCamera ==
  /\ update.at = "test" /\ phase # "crashed"
  /\ update' = [update EXCEPT !.at = IF camera.input = "none" THEN "keep" ELSE "set"]
  /\ UNCHANGED <<mishaps, phase, todo, ok, request, encoder, camera, metadatas, infos, fps, told, history>>

\* A slip: a full queue keeps what it has.
UpdateSettingCacheKeepingOld(settings) ==
  metadatas' = IF Len(metadatas) = MaxMetadata THEN metadatas ELSE Append(metadatas, settings)
\* A full queue loses its oldest settings.
UpdateSettingCache(settings) ==
  metadatas' = Append(IF Len(metadatas) = MaxMetadata THEN Tail(metadatas) ELSE metadatas, settings)

\* Settings that are kept or refused end their command: the rest is lost.
NextSettings ==
  IF update.left = 0 THEN NoUpdate ELSE [settings |-> update.settings + 1, left |-> update.left - 1, at |-> "test"]
UpdateSettings ==
  /\ phase # "crashed"
  /\ \/ /\ update.at = "keep"
        /\ UpdateSettingCache(update.settings)
        /\ dropped' = update.left /\ update' = NoUpdate
        /\ UNCHANGED <<phase, applied>>
     \/ /\ update.at = "set" /\ camera.input # "none"
        /\ applied' = update.settings /\ update' = NextSettings
        /\ UNCHANGED <<phase, metadatas, dropped>>
     \/ /\ update.at = "set" /\ camera.input # "none" /\ "settings" \in mishaps
        /\ update' = NoUpdate
        /\ UNCHANGED <<phase, metadatas, applied, dropped>>
     \/ /\ update.at = "set" /\ camera.input = "none"    \* the pointer has become null
        /\ phase' = "crashed" /\ update' = NoUpdate
        /\ UNCHANGED <<metadatas, applied, dropped>>
  /\ UNCHANGED <<mishaps, todo, ok, request, encoder, camera, infos, fps, rate, photo, asked, updates, latest>>
----------------------------------------------------------------------------
(* A start.                                                                *)

\* With an output the camera counts as configured.
Start(r) ==
  /\ phase \in {"idle", "running"} /\ Undisturbed
  /\ IsRange(r.rate) /\ ~IsInRange(GetMaxFrameRate(r.rate)) => "fast" \in mishaps
  /\ request' = r /\ phase' = "starting" /\ ok' = TRUE
  /\ todo' = [encoder |-> <<"pipeline">>,
              camera |-> IF camera.outputs = {} THEN <<"input", "settings", "session", "infos">> ELSE <<"infos">>]
  /\ UNCHANGED <<mishaps, encoder, camera, metadatas, infos, fps, told, history, update>>

Step(task, name) == phase = "starting" /\ Undisturbed /\ todo[task] # <<>> /\ Head(todo[task]) = name
NextStep(task) == todo' = [todo EXCEPT ![task] = Tail(@)]
Fails(task, rest) == ok' = FALSE /\ todo' = [todo EXCEPT ![task] = rest]
StartUnchanged == UNCHANGED <<mishaps, phase, request, photo, history, update>>

\* A pipeline is kept, one that could not be created too.
CreatePipeline ==
  /\ Step("encoder", "pipeline")
  /\ NextStep("encoder")
  /\ encoder' = IF encoder # 0 THEN encoder
                ELSE IF IsInRange(GetMaxFrameRate(request.rate)) THEN GetMaxFrameRate(request.rate)
                ELSE MaxFps + 1
  /\ ok' = (ok /\ encoder' <= MaxFps)
  /\ StartUnchanged /\ UNCHANGED <<camera, metadatas, infos, fps, applied, rate>>

\* A new camera input has no settings yet.
CreateInput ==
  /\ Step("camera", "input")
  /\ applied' = 0
  /\ \/ camera' = [camera EXCEPT !.input = "open"] /\ NextStep("camera") /\ UNCHANGED ok
     \/ "prepare" \in mishaps /\ camera' = [camera EXCEPT !.input = "closed"] /\ Fails("camera", <<"infos">>)
  /\ StartUnchanged /\ UNCHANGED <<encoder, metadatas, infos, fps, rate>>

\* Settings that are refused stay in the queue.
EmptyQueue ==
  /\ Step("camera", "settings")
  /\ \/ metadatas = <<>> /\ NextStep("camera") /\ UNCHANGED <<ok, metadatas, applied>>
     \/ /\ metadatas # <<>>
        /\ applied' = Head(metadatas) /\ metadatas' = Tail(metadatas)
        /\ UNCHANGED <<todo, ok>>
     \/ /\ metadatas # <<>> /\ "settings" \in mishaps
        /\ Fails("camera", <<"infos">>) /\ UNCHANGED <<metadatas, applied>>
  /\ StartUnchanged /\ UNCHANGED <<encoder, camera, infos, fps, rate>>

CreateSession ==
  /\ Step("camera", "session")
  /\ \/ camera' = [camera EXCEPT !.session = "created"] /\ NextStep("camera") /\ UNCHANGED ok
     \/ "prepare" \in mishaps /\ camera' = [camera EXCEPT !.session = "none"] /\ Fails("camera", <<"infos">>)
  /\ StartUnchanged /\ UNCHANGED <<encoder, metadatas, infos, fps, applied, rate>>

\* PrepareCapture keeps the infos whatever has failed.
KeepInfos ==
  /\ Step("camera", "infos")
  /\ NextStep("camera")
  /\ infos' = request
  /\ StartUnchanged /\ UNCHANGED <<ok, encoder, camera, metadatas, fps, applied, rate>>

Prepared == phase = "starting" /\ Undisturbed /\ todo.encoder = <<>> /\ todo.camera = <<>>
CommitUnchanged ==
  /\ request' = NoRequest /\ ok' = TRUE
  /\ UNCHANGED <<mishaps, todo, encoder, metadatas, infos, applied, updates, latest, dropped, update>>

GiveUp ==
  /\ Prepared /\ ~ok /\ phase' = "idle"
  /\ CommitUnchanged /\ UNCHANGED <<camera, fps, rate, photo, asked>>

\* Outputs are made, and the preview gets its rate, only the first time.
ConfigCaptureSessionInner ==
  IF camera.outputs = {}
  THEN /\ camera' = [camera EXCEPT !.session = "running", !.outputs = infos.streams]
       /\ rate' = FrameRate(fps') /\ asked' = infos
  ELSE UNCHANGED <<camera, rate, asked>>

\* StartPhotoOutput: the last metadata of the info.
StartPhotoOutput == photo' = IF infos.shot = 0 THEN photo ELSE [wanted |-> request.shot, used |-> infos.shot]

CommitCapture ==
  /\ Prepared /\ ok
  /\ fps' = GetFpsRanges
  /\ ConfigCaptureSessionInner
  /\ StartPhotoOutput
  /\ phase' = "running"
  /\ CommitUnchanged

\* The outputs made before the failure stay; the preview runs if only the photo
\* fails.
CommitFails ==
  /\ Prepared /\ ok /\ "commit" \in mishaps
  /\ fps' = GetFpsRanges
  /\ \/ /\ camera.outputs = {}
        /\ \E made \in SUBSET infos.streams : camera' = [camera EXCEPT !.outputs = made]
        /\ UNCHANGED <<rate, asked>>
     \/ infos.shot # 0 /\ ConfigCaptureSessionInner
  /\ phase' = "idle"
  /\ CommitUnchanged /\ UNCHANGED photo
----------------------------------------------------------------------------
(* Stop, pause and resume.                                                 *)

StopUnchanged == UNCHANGED <<mishaps, todo, ok, request, metadatas, infos, updates, update>>
Forget == applied' = 0 /\ rate' = <<>> /\ photo' = NoPhoto /\ latest' = 0 /\ dropped' = 0 /\ asked' = NoRequest

StopCapture ==
  /\ phase = "running" /\ Undisturbed
  /\ phase' = "idle" /\ camera' = NoCamera /\ encoder' = 0 /\ fps' = <<>>
  /\ Forget /\ StopUnchanged

\* The session is stopped and started again; the controller does not know.
SetSession(from, to) ==
  /\ camera.session = from /\ phase # "crashed" /\ Undisturbed
  /\ camera' = [camera EXCEPT !.session = to]
  /\ UNCHANGED <<mishaps, phase, todo, ok, request, encoder, metadatas, infos, fps, told, history, update>>
PauseCapture == SetSession("running", "created")
ResumeCapture == camera.outputs # {} /\ SetSession("created", "running")

ClientNext ==
  \/ BeginUpdate \/ TestCamera \/ UpdateSettings
  \/ \E r \in Requests : Start(r)
  \/ CreatePipeline \/ CreateInput \/ EmptyQueue \/ CreateSession \/ KeepInfos
  \/ GiveUp \/ CommitCapture \/ CommitFails
  \/ StopCapture \/ PauseCapture \/ ResumeCapture
ClientSpec == ClientInit /\ [][ClientNext]_clientVars
----------------------------------------------------------------------------
(* Properties.                                                             *)

\* When nothing goes wrong, a capture that runs has the newest settings that
\* were given since the camera was last let go: those the queue kept come before
\* those that went straight to the camera, and a full queue loses old ones.  Of a
\* command that found no camera only the first settings count: UpdateSettings keeps
\* them and returns, and those behind them are lost although it reports success.
NewestSettingsApply ==
  phase = "running" /\ update = NoUpdate /\ mishaps = {} => applied + dropped = latest

\* A photo has the settings of the command that asked for it.  The preview has
\* the rate of the command its outputs were made for, unless a commit has failed
\* half-way before; and when nothing goes wrong the encoder keeps up with it.
RatesAndPhotosFit ==
  /\ photo.used = photo.wanted
  /\ phase = "running" /\ "commit" \notin mishaps => rate = FrameRate(asked.rate)
  /\ phase = "running" /\ mishaps = {} => rate = <<>> \/ \A i \in 1..2 : rate[i] <= encoder

\* The camera is told what was asked for, in settings, rate and photos, although
\* they reach it by a queue, by infos that are kept and by calls in between.
CameraDoesAsAsked == NewestSettingsApply /\ RatesAndPhotosFit
=============================================================================
