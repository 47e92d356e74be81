---------------------------- MODULE SmoothPipeline ----------------------------
(***************************************************************************)
(* run_smooth_camera of src/application.cpp: the UI thread between the     *)
(* capture thread and the AI worker.  Each round it waits for a frame      *)
(* newer than the last one shown, copies the newest AI result and          *)
(* publishes the events of a generation it has not seen, submits the frame *)
(* to the AI worker if that is idle, and shows it.  Every way out, normal  *)
(* or exceptional, stops the RTSP output if there is one, then stops and   *)
(* joins the worker, then the capture thread.                              *)
(***************************************************************************)
EXTENDS Naturals

CONSTANTS ReopenAfter, MaxFrames  (* of CaptureThread *)

ASSUME CaptureAssumption == ReopenAfter \in Nat \ {0} /\ MaxFrames \in Nat

VARIABLES
  capPc, capReady, capFailed, capStop, sourceOpen, failures, latest,
  lastConsumed, overwritten, gStop,
  aiPc, pending, work, busy, aiStop, aiFailed, generation, resultFrame,
  uiPc,           (* control point of the UI thread                          *)
  streamer,       (* rtsp_streamer exists and was started: network mode      *)
  lastDisplayed,  (* last_displayed_sequence                                 *)
  lastGeneration, (* last_generation                                         *)
  resultShown,    (* latest_trace_frame_id: frame of the result drawn        *)
  displayed,      (* frames handed to the UI                                 *)
  published       (* auxiliary: generations whose events were published      *)

Cap == INSTANCE CaptureThread
Ai  == INSTANCE AiWorker

capVars == <<capPc, capReady, capFailed, capStop, sourceOpen, failures,
             latest, lastConsumed, overwritten>>
aiVars == <<aiPc, pending, work, busy, aiStop, aiFailed, generation, resultFrame>>
uiVars == <<uiPc, streamer, lastDisplayed, lastGeneration, resultShown, displayed, published>>
vars == <<capVars, aiVars, uiVars, gStop>>

Init ==
  /\ Cap!Init /\ Ai!Init
  /\ gStop = FALSE
  /\ uiPc = "start" /\ streamer = FALSE /\ lastDisplayed = 0 /\ lastGeneration = 0
  /\ resultShown = 0 /\ displayed = 0 /\ published = 0

-----------------------------------------------------------------------------
(* The UI thread.                                                           *)

Turn(pc) ==
  uiPc' = pc
  /\ UNCHANGED <<lastDisplayed, lastGeneration, resultShown, displayed, published>>
GoTo(pc) == Turn(pc) /\ UNCHANGED streamer

(* camera.start() has returned, and the RTSP output of the network mode and *)
(* the window are up.                                                       *)
StartUp ==
  /\ uiPc = "start" /\ Cap!Started /\ ~capFailed
  /\ Ai!Construct
  /\ Turn("top") /\ streamer' \in BOOLEAN
  /\ UNCHANGED <<capVars, gStop>>

(* camera.start() threw, or the RTSP output did, or the window after it: no *)
(* worker yet.                                                              *)
StartUpFails ==
  /\ uiPc = "start" /\ Cap!Started
  /\ Turn("stopCapture")
  /\ streamer' \in {b \in BOOLEAN : b => ~capFailed}
  /\ UNCHANGED <<capVars, aiVars, gStop>>

LoopTop ==
  /\ uiPc = "top"
  /\ GoTo(IF gStop \/ aiFailed THEN "stopStreamer" ELSE "wait")
  /\ UNCHANGED <<capVars, aiVars, gStop>>

NewFrame ==
  /\ uiPc = "wait" /\ Cap!HasNew(lastDisplayed)
  /\ Cap!TakeNew
  /\ lastDisplayed' = latest /\ displayed' = displayed + 1
  /\ uiPc' = "copy"
  /\ UNCHANGED <<aiVars, streamer, lastGeneration, resultShown, published, gStop>>

NoFrame ==
  /\ uiPc = "wait" /\ Cap!GivesUp(lastDisplayed)
  /\ GoTo("stopStreamer")
  /\ UNCHANGED <<capVars, aiVars, gStop>>

MutantIsNew == generation # 0  (* mutant: publishes a result on every copy *)
IsNew == generation # lastGeneration

(* copy_latest(), and the events of a generation not seen before.           *)
MutantCopyResult ==  (* mutant: last_generation is not advanced *)
  /\ uiPc = "copy"
  /\ resultShown' = resultFrame
  /\ published' = IF IsNew THEN published + 1 ELSE published
  /\ uiPc' = "submit"
  /\ UNCHANGED <<capVars, aiVars, streamer, lastDisplayed, lastGeneration, displayed, gStop>>
CopyResult ==
  /\ uiPc = "copy"
  /\ published' = IF IsNew THEN published + 1 ELSE published
  /\ lastGeneration' = generation
  /\ resultShown' = resultFrame
  /\ uiPc' = "submit"
  /\ UNCHANGED <<capVars, aiVars, streamer, lastDisplayed, displayed, gStop>>

FrameToSubmit == lastDisplayed

SubmitFrame ==
  /\ uiPc = "submit"
  /\ IF aiFailed
     THEN GoTo("stopStreamer") /\ UNCHANGED aiVars
     ELSE GoTo("show") /\ Ai!Submit(FrameToSubmit)
  /\ UNCHANGED <<capVars, gStop>>

(* Compose, publish to RTSP, show; the user may ask to quit, max_frames may *)
(* be reached, and the display may throw.                                   *)
Show ==
  /\ uiPc = "show"
  /\ \/ GoTo("top") /\ gStop' \in {gStop, TRUE}
     \/ GoTo("stopStreamer") /\ UNCHANGED gStop
  /\ UNCHANGED <<capVars, aiVars>>

(* cleanup(), in its order.  rtsp_streamer->stop() is called on this thread *)
(* and may not come back (RtspStreamer, run rtsp_stop); nothing after it is *)
(* done then.                                                               *)
StopStreamer ==
  /\ uiPc = "stopStreamer"
  /\ Turn("stopAi") /\ streamer' = FALSE
  /\ UNCHANGED <<capVars, aiVars, gStop>>

StopAi ==
  /\ uiPc = "stopAi"
  /\ Ai!RequestStop /\ GoTo("joinAi")
  /\ UNCHANGED <<capVars, gStop>>

JoinAi ==
  /\ uiPc = "joinAi" /\ Ai!Joined
  /\ GoTo("stopCapture")
  /\ UNCHANGED <<capVars, aiVars, gStop>>

StopCapture ==
  /\ uiPc = "stopCapture"
  /\ Cap!RaiseStop /\ GoTo("release")
  /\ UNCHANGED <<aiVars, gStop>>

Release ==
  /\ uiPc = "release"
  /\ Cap!ReleaseSource /\ GoTo("joinCapture")
  /\ UNCHANGED <<aiVars, gStop>>

JoinCapture ==
  /\ uiPc = "joinCapture" /\ Cap!Joined
  /\ GoTo(IF streamer THEN "dropStreamer" ELSE "end")
  /\ UNCHANGED <<capVars, aiVars, gStop>>

(* The window could not be set up: the destructor stops the RTSP output     *)
(* after the capture thread was joined.                                     *)
DropStreamer ==
  /\ uiPc = "dropStreamer"
  /\ Turn("end") /\ streamer' = FALSE
  /\ UNCHANGED <<capVars, aiVars, gStop>>

UiStep == \/ StartUp \/ StartUpFails \/ LoopTop \/ NewFrame \/ NoFrame
          \/ CopyResult \/ SubmitFrame \/ Show
          \/ StopStreamer \/ StopAi \/ JoinAi
          \/ StopCapture \/ Release \/ JoinCapture \/ DropStreamer

CaptureStep == Cap!Step /\ UNCHANGED <<aiVars, uiVars>>
AiStep      == Ai!Step /\ UNCHANGED <<capVars, uiVars, gStop>>

(* SIGINT.                                                                  *)
Signal == /\ ~gStop /\ gStop' = TRUE
          /\ UNCHANGED <<capVars, aiVars, uiVars>>

Next == UiStep \/ CaptureStep \/ AiStep \/ Signal

Spec == Init /\ [][Next]_vars

(* Calls that may never return: the stop of the RTSP output, and a read of  *)
(* an open input, because CameraSource retries as long as the driver has no *)
(* frame; once the input is released the descriptor is -1 and a read fails. *)
InStreamerStop == streamer /\ uiPc \in {"stopStreamer", "dropStreamer"}
InOpenRead == capPc = "read" /\ sourceOpen

(* Otherwise each thread keeps running: an open and an inference return,    *)
(* waits time out.                                                          *)
FairSpec ==
  /\ Spec
  /\ WF_vars(UiStep /\ ~InStreamerStop)
  /\ WF_vars(CaptureStep /\ ~InOpenRead)
  /\ WF_vars(AiStep)

-----------------------------------------------------------------------------
(* Properties.                                                              *)

TypeOK ==
  /\ Cap!TypeOK /\ Ai!TypeOK
  /\ uiPc \in {"start", "top", "wait", "copy", "submit", "show", "stopStreamer", "stopAi",
               "joinAi", "stopCapture", "release", "joinCapture", "dropStreamer", "end"}
  /\ streamer \in BOOLEAN
  /\ lastDisplayed \in Nat /\ lastGeneration \in Nat /\ resultShown \in Nat
  /\ displayed \in Nat /\ published \in Nat

(* The stateful AI chain sees frames in capture order, each once: what is   *)
(* waiting or being processed is newer than every frame already processed;  *)
(* and the boxes drawn over a frame were never computed from a later one.   *)
AiInOrder ==
  /\ pending # 0 => pending > resultFrame /\ pending > work
  /\ busy => work > resultFrame /\ pending = 0
  /\ resultShown <= resultFrame /\ resultFrame <= lastDisplayed

(* The UI misses at most one generation between two looks: it submits once  *)
(* per round, so two results at most can be finished since the last copy.   *)
AtMostOneSkipped ==
  lastGeneration <= generation /\ generation <= lastGeneration + 2

(* Every captured frame is accounted for: shown, overwritten unseen, or the *)
(* one still waiting in the slot.                                           *)
FrameAccounting ==
  latest = displayed + overwritten + (IF latest > lastConsumed THEN 1 ELSE 0)

(* When run_smooth_camera is left both threads have ended, the input is     *)
(* closed, also when the stop fell into an open() that succeeded later, and *)
(* the RTSP output was stopped on every way out.                            *)
CleanEnd == uiPc = "end" => Cap!Joined /\ Ai!Joined /\ ~sourceOpen /\ ~streamer

(* The events of the results are published in the order of the results and  *)
(* at most once; the slot in between may skip some.                         *)
Results == INSTANCE LossyStream WITH
  produced <- generation, consumed <- lastGeneration, delivered <- published
ResultStream == Results!Spec

(* Ctrl+C leads out of run_smooth_camera wherever the three threads are,    *)
(* also out of a read that gets no frame; only the stop of the RTSP output, *)
(* when that does not come back, can keep it.                               *)
SignalEnds == gStop ~> (uiPc = "end" \/ []InStreamerStop)

==============================================================================
