------------------------------- MODULE FrameLoop -------------------------------
(***************************************************************************)
(* The synchronous modes of src/application.cpp: run_application, which    *)
(* checks the options and loads the model, then run_image, run_video or    *)
(* run_camera with VideoIO, RknnModel, PerfMonitor and the track trace.    *)
(* One thread does everything; beside it a signal may come, and another    *)
(* process may create the files this one is about to write.                *)
(*                                                                         *)
(* An output `asked' for as .mp4 may be written to `other' instead, the    *)
(* MJPEG fallback beside it.  An exception is outcome "failed": the        *)
(* destructors then run, as they do at a normal return.                    *)
(***************************************************************************)
EXTENDS Integers, Lists

CONSTANTS
  GiveUpAfter,   (* read failures in a row that end run_camera: 5            *)
  Window,        (* frames of the moving average                             *)
  Samples,       (* bound: the measures one frame may have                   *)
  MaxLoopFrames  (* bound: frames a run processes                            *)

(* The constructor of PerfMonitor throws on a window of no frames.          *)
ASSUME WindowAssumption == Window \in Nat \ {0} /\ Samples \subseteq Int

Outputs == {"asked", "other"}

VARIABLES
  options,       (* mode, show, record, force, mp4, and max (0: no limit)    *)
  files,         (* what is at each output path, and since when              *)
  loopPc,
  outcome,       (* "none", then "ok" or "failed"                            *)
  context,       (* of the RKNN runtime: "none", "live", "destroyed"         *)
  batch,         (* an RknnOutputBatch holds outputs of the runtime          *)
  inputOpen, preview, stopAsked, readFailures,
  writer,        (* the output writer_ has open, or "closed"                 *)
  inFile,        (* frames written to it                                     *)
  processed,
  recent, recentSum, totalSum,  (* PerfMonitor                               *)
  timelines,     (* frames of pending_timings_                               *)
  traceRows,     (* rows of the trace, the three stages of a frame as one    *)
  measured,      (* auxiliary: the samples, in order                         *)
  displayed      (* auxiliary: frames the window has shown                   *)

world   == <<options, files>>
devices == <<context, batch, inputOpen, writer, inFile>>
perf    == <<recent, recentSum, totalSum, measured>>
trace   == <<timelines, traceRows, displayed>>
control == <<preview, stopAsked, readFailures, processed>>
loopVars == <<world, devices, perf, trace, control, loopPc, outcome>>

isImage  == options.mode = "image"
isCamera == options.mode = "camera"

(* The parser wants an --output with every --input.                         *)
Options ==
  {o \in [mode : {"image", "video", "camera"}, show : BOOLEAN, record : BOOLEAN,
          force : BOOLEAN, mp4 : BOOLEAN, max : {0, 1}] :
     o.mode # "camera" => o.record}

LoopInit ==
  /\ options \in Options /\ files \in [Outputs -> {"absent", "before"}]
  /\ loopPc = "validate" /\ outcome = "none"
  /\ context = "none" /\ batch = FALSE /\ inputOpen = FALSE
  /\ preview = FALSE /\ stopAsked = FALSE /\ readFailures = 0
  /\ writer = "closed" /\ inFile = 0 /\ processed = 0
  /\ recent = <<>> /\ recentSum = 0 /\ totalSum = 0 /\ measured = <<>>
  /\ timelines = {} /\ traceRows = <<>> /\ displayed = {}

-----------------------------------------------------------------------------
(* Control.                                                                 *)

At(pc)   == loopPc = pc /\ UNCHANGED options
Go(pc)   == loopPc' = pc /\ UNCHANGED outcome
Raise    == loopPc' = "unwind" /\ outcome' = "failed"
Succeed  == loopPc' = "unwind" /\ outcome' = "ok"

(* reject_existing(), and the same test in validate_options().              *)
MutantRejected(file) ==  (* mutant: the fallback is not protected *)
  file = "asked" /\ files[file] # "absent" /\ ~options.force
Rejected(file) == files[file] # "absent" /\ ~options.force

Validate ==
  /\ At("validate")
  /\ \/ Raise  (* a missing file, or options that do not go together *)
     \/ IF (isCamera /\ ~options.record /\ ~options.show)
           \/ (options.record /\ Rejected("asked"))
        THEN Raise ELSE Go("load")
  /\ UNCHANGED <<files, devices, perf, trace, control>>

(* A model whose metadata is refused takes its context with it; behind a    *)
(* model that loads, the TCP server may not start.                          *)
LoadModel ==
  /\ At("load")
  /\ \/ context' = "live" /\ Go(IF isImage THEN "infer" ELSE "open")
     \/ context' \in {"none", "live", "destroyed"} /\ Raise
  /\ UNCHANGED <<files, batch, inputOpen, writer, inFile, perf, trace, control>>

(* A camera is not opened for nobody: no window and no file.  The window    *)
(* may turn out to be unusable once the input is open.                      *)
OpenInput ==
  /\ At("open")
  /\ preview' \in {FALSE, options.show}
  /\ \/ inputOpen' = TRUE /\ Go("top")
        /\ (isCamera => preview' \/ options.record)
     \/ inputOpen' \in {FALSE, isCamera} /\ Raise  (* or the trace is not to be opened *)
  /\ UNCHANGED <<files, context, batch, writer, inFile, perf, trace,
                 stopAsked, readFailures, processed>>

-----------------------------------------------------------------------------
(* One round of the loop.                                                   *)

(* The stop request is seen, or a file has no more frames.                  *)
EndLoop ==
  /\ At("top") /\ (stopAsked \/ ~isCamera)
  /\ Go("finish")
  /\ UNCHANGED <<files, devices, perf, trace, control>>

Read ==
  /\ At("top") /\ ~stopAsked /\ processed < MaxLoopFrames
  /\ readFailures' = 0
  /\ Go("infer") \/ (isCamera /\ Raise)  (* a frame of the wrong size *)
  /\ UNCHANGED <<files, devices, perf, trace, preview, stopAsked, processed>>

ReadFails ==
  /\ At("top") /\ ~stopAsked /\ isCamera
  /\ readFailures' = readFailures + 1
  /\ IF processed = 0 \/ readFailures' >= GiveUpAfter THEN Raise ELSE Go("top")
  /\ UNCHANGED <<files, devices, perf, trace, preview, stopAsked, processed>>

(* RknnModel::run: the outputs are the caller's from outputs_get on.        *)
Infer ==
  /\ At("infer")
  /\ \/ batch' = TRUE /\ Go("decode")
     \/ UNCHANGED batch /\ Raise
  /\ UNCHANGED <<files, context, inputOpen, writer, inFile, perf, trace, control>>

(* decode_raw may throw, with the batch still held.  The frame then gets    *)
(* its stage rows in the trace.                                             *)
Decode ==
  /\ At("decode")
  /\ \/ /\ batch' = FALSE /\ Go(IF isImage THEN "image" ELSE "output")
        /\ IF isCamera
           THEN /\ traceRows' = Append(traceRows, <<processed + 1, "stages">>)
                /\ timelines' = timelines \cup {processed + 1}
           ELSE UNCHANGED <<traceRows, timelines>>
     \/ Raise /\ UNCHANGED <<batch, traceRows, timelines>>
  /\ UNCHANGED <<files, context, inputOpen, writer, inFile, perf, displayed, control>>

(* run_image: the path was tested in validate_options, and is not again.    *)
WriteImage ==
  /\ At("image")
  /\ \/ files' = [files EXCEPT !["asked"] = "ours"]
        /\ inFile' = 1 /\ processed' = 1 /\ Succeed
     \/ UNCHANGED <<files, inFile, processed>> /\ Raise
  /\ UNCHANGED <<context, batch, inputOpen, writer, perf, trace,
                 preview, stopAsked, readFailures>>

-----------------------------------------------------------------------------
(* open_output, in the first round: test, open; for .mp4 once more.         *)

Output ==
  /\ At("output")
  /\ IF ~options.record \/ writer # "closed" THEN Go("write")
     ELSE IF Rejected("asked") THEN Raise ELSE Go("openAsked")
  /\ UNCHANGED <<files, devices, perf, trace, control>>

Open(file, otherwise) ==
  /\ \/ files' = [files EXCEPT ![file] = "ours"] /\ writer' = file /\ Go("write")
     \/ UNCHANGED writer /\ otherwise  (* and may have left a stub *)
        /\ files' \in {files, [files EXCEPT ![file] = "ours"]}
  /\ UNCHANGED <<context, batch, inputOpen, inFile, perf, trace, control>>

OpenAsked == At("openAsked") /\ Open("asked", IF options.mp4 THEN Go("testOther") ELSE Raise)

TestOther ==
  /\ At("testOther")
  /\ IF Rejected("other") THEN Raise ELSE Go("openOther")
  /\ UNCHANGED <<files, devices, perf, trace, control>>

OpenOther == At("openOther") /\ Open("other", Raise)

-----------------------------------------------------------------------------
(* mark_output: a row, if the frame's timeline is still there.              *)
Mark(frame, stage, finalize) ==
  IF frame \in timelines
  THEN /\ traceRows' = Append(traceRows, <<frame, stage>>)
       /\ timelines' = IF finalize THEN {f \in timelines : f > frame} ELSE timelines
  ELSE UNCHANGED <<traceRows, timelines>>

MutantLastMark == TRUE  (* mutant: the file's mark closes the timeline *)
LastMark == ~preview

Write ==
  /\ At("write") /\ Go("count")
  /\ inFile' = IF options.record THEN inFile + 1 ELSE inFile
  /\ IF isCamera /\ options.record
     THEN Mark(processed + 1, "file_output", LastMark)
     ELSE UNCHANGED <<traceRows, timelines>>
  /\ UNCHANGED <<files, context, batch, inputOpen, writer, perf, displayed, control>>

(* PerfMonitor::add_frame: add first, then drop what left the window.       *)
MutantAddFrame(m) ==  (* mutant: the dropped sample stays in the sum *)
  /\ measured' = Append(measured, m) /\ totalSum' = totalSum + m
  /\ recent' = IF Len(recent) = Window THEN Append(Tail(recent), m) ELSE Append(recent, m)
  /\ recentSum' = recentSum + m
AddFrame(m) ==
  /\ measured' = Append(measured, m) /\ totalSum' = totalSum + m
  /\ LET kept == Append(recent, m)
     IN  IF Len(kept) > Window
         THEN recent' = Tail(kept) /\ recentSum' = recentSum + m - Head(kept)
         ELSE recent' = kept /\ recentSum' = recentSum + m

Count ==
  /\ At("count") /\ Go("show")
  /\ processed' = processed + 1
  /\ \E m \in Samples : AddFrame(m)
  /\ UNCHANGED <<files, devices, trace, preview, stopAsked, readFailures>>

NextRound == Go(IF options.max > 0 /\ processed >= options.max THEN "finish" ELSE "top")

Skip ==
  /\ At("show") /\ ~preview /\ NextRound
  /\ UNCHANGED <<files, devices, perf, trace, control>>

(* A key in the window asks to stop.                                        *)
Show ==
  /\ At("show") /\ preview /\ NextRound
  /\ stopAsked' \in {stopAsked, TRUE}
  /\ displayed' = displayed \cup {processed}
  /\ IF isCamera THEN Mark(processed, "local_display", TRUE) ELSE UNCHANGED <<traceRows, timelines>>
  /\ UNCHANGED <<files, devices, perf, preview, readFailures, processed>>

ShowFails ==
  /\ At("show") /\ preview /\ preview' = FALSE
  /\ IF isCamera /\ ~options.record THEN Raise ELSE NextRound
  /\ UNCHANGED <<files, devices, perf, trace, stopAsked, readFailures, processed>>

-----------------------------------------------------------------------------
(* The end.                                                                 *)

NothingRead == processed = 0

Finish ==
  /\ At("finish")
  /\ inputOpen' = (inputOpen /\ ~isCamera)
  /\ IF NothingRead THEN Raise /\ UNCHANGED writer
     ELSE writer' = "closed" /\ (IF options.record THEN Go("verify") ELSE Succeed)
  /\ UNCHANGED <<files, context, batch, inFile, perf, trace, control>>

(* verify_video_output opens the file again and wants a frame in it.        *)
Verify ==
  /\ At("verify") /\ (Raise \/ (inFile > 0 /\ Succeed))
  /\ UNCHANGED <<files, devices, perf, trace, control>>

(* The destructors, innermost scope first.                                  *)
Unwind ==
  /\ At("unwind")
  /\ batch' = FALSE
  /\ IF batch THEN Go("unwind") /\ UNCHANGED <<writer, inputOpen, context>>
     ELSE IF writer # "closed" \/ inputOpen
          THEN /\ writer' = "closed" /\ inputOpen' = FALSE
               /\ Go("unwind") /\ UNCHANGED context
          ELSE /\ context' = IF context = "live" THEN "destroyed" ELSE context
               /\ Go("end") /\ UNCHANGED <<writer, inputOpen>>
  /\ UNCHANGED <<files, inFile, perf, trace, control>>

LoopStep == \/ Validate \/ LoadModel \/ OpenInput \/ EndLoop \/ Read \/ ReadFails
            \/ Infer \/ Decode \/ WriteImage \/ Output \/ OpenAsked \/ TestOther
            \/ OpenOther \/ Write \/ Count \/ Skip \/ Show \/ ShowFails
            \/ Finish \/ Verify \/ Unwind

(* SIGINT, handled from the SignalGuard on.                                 *)
StopSignal ==
  /\ loopPc \notin {"validate", "load", "open", "unwind", "end"} /\ ~isImage /\ ~stopAsked
  /\ stopAsked' = TRUE
  /\ UNCHANGED <<world, devices, perf, trace, preview, readFailures, processed,
                 loopPc, outcome>>

(* Another process creates a file at one of the paths.                      *)
Intrude ==
  \E f \in Outputs :
    /\ files[f] = "absent" /\ loopPc # "end" /\ files' = [files EXCEPT ![f] = "since"]
    /\ UNCHANGED <<options, devices, perf, trace, control, loopPc, outcome>>

LoopNext == LoopStep \/ StopSignal \/ Intrude

LoopSpec == LoopInit /\ [][LoopNext]_loopVars

-----------------------------------------------------------------------------
(* Properties.                                                              *)

(* Without --force no file that was there before the run is replaced, be it *)
(* the output asked for or the fallback the user did not name.  (A file     *)
(* created between the test and the open may be, as a comment admits.)      *)
OutputsKept ==
  [][\A f \in Outputs :
       files[f] = "before" /\ ~options.force => files'[f] = "before"]_loopVars

(* A run that reports success has processed a frame, and its output has     *)
(* every frame processed; however a run ends, nothing is left open, and the *)
(* outputs of the runtime are given back before its context is destroyed.   *)
(* The averages are over all the frames and over the last Window of them.   *)
RunAccounted ==
  /\ batch => context = "live"
  /\ loopPc = "end" =>
       ~batch /\ ~inputOpen /\ writer = "closed" /\ context # "live"
  /\ outcome = "ok" => processed > 0 /\ (options.record => inFile = processed)
  /\ totalSum = Total(measured)
  /\ recent = SubSeq(measured, Len(measured) - Len(recent) + 1, Len(measured))
  /\ Len(recent) = (IF Len(measured) < Window THEN Len(measured) ELSE Window)
  /\ recentSum = Total(recent)

RowsOf(f) == {i \in DOMAIN traceRows : traceRows[i][1] = f}
StageRow(f)    == <<<<f, "stages">>>>
FileRow(f)     == IF options.record THEN <<<<f, "file_output">>>> ELSE <<>>
DisplayRow(f)  == IF f \in displayed THEN <<<<f, "local_display">>>> ELSE <<>>

(* The trace has, in this order, the stages of every frame of the camera,   *)
(* its output to the file and its display, each once and none forgotten,    *)
(* also when the window goes away in the middle; and the timelines kept for *)
(* it stay two at most, so that the limit of 256 never takes one away.      *)
TraceComplete ==
  isCamera =>
    /\ Cardinality(timelines) <= 2
    /\ \A f \in 1 .. processed :
         Picked(traceRows, RowsOf(f)) = StageRow(f) \o FileRow(f) \o DisplayRow(f)

LoopTypeOK ==
  /\ options \in Options
  /\ files \in [Outputs -> {"absent", "before", "since", "ours"}]
  /\ outcome \in {"none", "ok", "failed"} /\ context \in {"none", "live", "destroyed"}
  /\ batch \in BOOLEAN /\ inputOpen \in BOOLEAN /\ preview \in BOOLEAN
  /\ stopAsked \in BOOLEAN /\ readFailures \in 0 .. GiveUpAfter
  /\ writer \in Outputs \cup {"closed"} /\ inFile \in Nat /\ processed \in Nat

==============================================================================
