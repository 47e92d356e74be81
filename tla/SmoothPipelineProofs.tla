------------------------- MODULE SmoothPipelineProofs -------------------------
(***************************************************************************)
(* The hand-overs between the capture thread, the UI thread and the AI     *)
(* worker, for any number of frames and any number of failures that make   *)
(* the input reopen.                                                       *)
(***************************************************************************)
EXTENDS SmoothPipeline, TLAPS

(* A frame the UI thread was given is the newest it has asked about.        *)
SlotInv ==
  /\ lastConsumed = lastDisplayed /\ lastDisplayed <= latest
  /\ FrameAccounting

(* What the worker holds comes from earlier rounds of the UI thread, until  *)
(* the frame of this round has been submitted.                              *)
OrderInv ==
  /\ aiPc = "infer" <=> busy
  /\ pending # 0 => pending > work
  /\ busy => work > resultFrame /\ pending = 0
  /\ resultShown <= resultFrame /\ resultFrame <= work
  /\ pending <= lastDisplayed /\ work <= lastDisplayed
  /\ uiPc \in {"copy", "submit"} => pending < lastDisplayed /\ work < lastDisplayed

(* The frames in the worker count against the generations not yet seen.     *)
Outstanding == IF busy \/ pending # 0 THEN 1 ELSE 0
SeenInv ==
  /\ lastGeneration <= generation
  /\ generation + Outstanding <= lastGeneration + 2
  /\ uiPc = "submit" => generation + Outstanding <= lastGeneration + 1

(* The cleanup passes a thread only when it has ended, and the way out      *)
(* passes a stop of the RTSP output.                                        *)
EndInv ==
  /\ capPc = "done" => ~sourceOpen
  /\ uiPc = "start" => aiPc = "off"
  /\ uiPc \in {"stopCapture", "release", "joinCapture", "dropStreamer", "end"}
       => aiPc \in {"off", "done"}
  /\ uiPc \in {"dropStreamer", "end"} => capPc = "done"
  /\ uiPc = "end" => ~streamer

PipelineInv == TypeOK /\ SlotInv /\ OrderInv /\ SeenInv /\ EndInv

(* The capture thread touches its own variables only.                       *)
LEMMA CaptureKeeps ==
  ASSUME PipelineInv, CaptureStep
  PROVE  PipelineInv'
  <1> USE DEF capVars, aiVars, uiVars
  <1>1. UNCHANGED <<aiVars, uiVars, lastConsumed, gStop>> /\ Cap!Step
    BY DEF CaptureStep, Cap!Step, Cap!Open, Cap!CheckStop, Cap!ReadFrame, Cap!ReadFails,
           Cap!ReadThrows, Cap!Pause, Cap!Reopen, Cap!Publish, Cap!Close
  <1>2. TypeOK'
    <2>1. Ai!TypeOK' /\ uiPc' = uiPc
      BY <1>1 DEF PipelineInv, TypeOK, Ai!TypeOK
    <2>2. Cap!TypeOK'
      <3> USE <1>1, CaptureAssumption DEF PipelineInv, TypeOK, Cap!TypeOK
      <3>1. CASE Cap!Open
        BY <3>1 DEF Cap!Open
      <3>2. CASE Cap!CheckStop
        BY <3>2 DEF Cap!CheckStop
      <3>3. CASE Cap!ReadFrame
        BY <3>3 DEF Cap!ReadFrame
      <3>4. CASE Cap!ReadFails
        <4>1. failures' \in 0 .. ReopenAfter
          BY <3>4 DEF Cap!ReadFails
        <4>2. capPc' \in {"pause", "check"} /\ sourceOpen' \in {FALSE, sourceOpen}
          BY <3>4 DEF Cap!ReadFails
        <4>3. UNCHANGED <<capReady, capFailed, capStop, latest, lastConsumed, overwritten, gStop>>
          BY <3>4 DEF Cap!ReadFails
        <4> QED
          BY <4>1, <4>2, <4>3
      <3>5. CASE Cap!ReadThrows
        BY <3>5 DEF Cap!ReadThrows
      <3>6. CASE Cap!Pause
        BY <3>6 DEF Cap!Pause
      <3>7. CASE Cap!Reopen
        <4>1. failures' \in 0 .. ReopenAfter
          BY <3>7 DEF Cap!Reopen
        <4>2. capPc' = "check" /\ sourceOpen' \in {TRUE, sourceOpen}
          BY <3>7 DEF Cap!Reopen
        <4>3. UNCHANGED <<capReady, capFailed, capStop, latest, lastConsumed, overwritten, gStop>>
          BY <3>7 DEF Cap!Reopen
        <4> QED
          BY <4>1, <4>2, <4>3
      <3>8. CASE Cap!Publish
        BY <3>8 DEF Cap!Publish
      <3>9. CASE Cap!Close
        BY <3>9 DEF Cap!Close
      <3> QED
        BY <3>1, <3>2, <3>3, <3>4, <3>5, <3>6, <3>7, <3>8, <3>9 DEF Cap!Step
    <2> QED
      BY <1>1, <2>1, <2>2 DEF PipelineInv, TypeOK
  <1>3. SlotInv'
    <2>1. CASE UNCHANGED <<latest, overwritten>>
      BY <1>1, <2>1 DEF PipelineInv, SlotInv, FrameAccounting
    <2>2. CASE latest' = latest + 1
               /\ overwritten' = IF latest > lastConsumed THEN overwritten + 1 ELSE overwritten
      BY <1>1, <2>2 DEF PipelineInv, TypeOK, Cap!TypeOK, SlotInv, FrameAccounting
    <2> QED
      BY <1>1, <2>1, <2>2
      DEF Cap!Step, Cap!Open, Cap!CheckStop, Cap!ReadFrame, Cap!ReadFails,
          Cap!ReadThrows, Cap!Pause, Cap!Reopen, Cap!Publish, Cap!Close, Cap!Overwrites
  <1>4. OrderInv' /\ SeenInv'
    BY <1>1 DEF PipelineInv, OrderInv, SeenInv, Outstanding
  <1>5. EndInv'
    BY <1>1
    DEF PipelineInv, EndInv, Cap!Step, Cap!Open, Cap!CheckStop, Cap!ReadFrame,
        Cap!ReadFails, Cap!ReadThrows, Cap!Pause, Cap!Reopen, Cap!Publish, Cap!Close
  <1> QED
    BY <1>2, <1>3, <1>4, <1>5 DEF PipelineInv

(* The steps of the AI worker.                                              *)
LEMMA AiKeeps ==
  ASSUME PipelineInv, AiStep
  PROVE  PipelineInv'
  <1> USE DEF capVars, aiVars, uiVars
  <1>1. UNCHANGED <<capVars, uiVars, gStop>> /\ Ai!Step
    BY DEF AiStep
  <1>2. TypeOK'
    <2>1. Cap!TypeOK'
      BY <1>1 DEF PipelineInv, TypeOK, Cap!TypeOK
    <2>2. Ai!TypeOK'
      <3> USE DEF PipelineInv, TypeOK, Ai!TypeOK
      <3>1. CASE Ai!Take
        BY <3>1 DEF Ai!Take
      <3>2. CASE Ai!ExitWait
        BY <3>2 DEF Ai!ExitWait
      <3>3. CASE Ai!Finish
        <4>1. generation' \in Nat /\ resultFrame' \in Nat
          BY <3>3 DEF Ai!Finish
        <4>2. busy' = FALSE /\ aiPc' = "wait" /\ UNCHANGED <<pending, work, aiStop, aiFailed>>
          BY <3>3 DEF Ai!Finish
        <4> QED
          BY <4>1, <4>2
      <3>4. CASE Ai!Throw
        BY <3>4 DEF Ai!Throw
      <3> QED
        BY <1>1, <3>1, <3>2, <3>3, <3>4 DEF Ai!Step
    <2> QED
      BY <1>1, <2>1, <2>2 DEF PipelineInv, TypeOK
  <1>3. SlotInv'
    BY <1>1 DEF PipelineInv, SlotInv, FrameAccounting
  <1>4. OrderInv'
    BY <1>1 DEF PipelineInv, TypeOK, Ai!TypeOK, OrderInv, Ai!Step, Ai!Take, Ai!ExitWait,
                Ai!Finish, Ai!Throw
  <1>5. SeenInv'
    BY <1>1 DEF PipelineInv, TypeOK, Ai!TypeOK, OrderInv, SeenInv, Outstanding,
                Ai!Step, Ai!Take, Ai!ExitWait, Ai!Finish, Ai!Throw
  <1>6. EndInv'
    BY <1>1 DEF PipelineInv, EndInv, Ai!Step, Ai!Take, Ai!ExitWait, Ai!Finish, Ai!Throw
  <1> QED
    BY <1>2, <1>3, <1>4, <1>5, <1>6 DEF PipelineInv

(* The steps of the UI thread that hand something over.                     *)
LEMMA NewFrameKeeps ==
  ASSUME PipelineInv, NewFrame
  PROVE  PipelineInv'
  <1> USE DEF PipelineInv, NewFrame, Cap!HasNew, Cap!TakeNew, aiVars
  <1>1. TypeOK'
    BY DEF TypeOK, Cap!TypeOK, Ai!TypeOK
  <1>2. SlotInv'
    BY DEF TypeOK, Cap!TypeOK, SlotInv, FrameAccounting
  <1>3. OrderInv'
    BY DEF TypeOK, Cap!TypeOK, Ai!TypeOK, OrderInv
  <1>4. SeenInv' /\ EndInv'
    BY DEF SeenInv, Outstanding, EndInv
  <1> QED
    BY <1>1, <1>2, <1>3, <1>4

(* The user interface takes a copy of the latest frame ...                  *)
LEMMA CopyKeeps ==
  ASSUME PipelineInv, CopyResult
  PROVE  PipelineInv'
  <1> USE DEF PipelineInv, CopyResult, capVars, aiVars
  <1>1. TypeOK'
    BY DEF TypeOK, Cap!TypeOK, Ai!TypeOK
  <1>2. SlotInv' /\ EndInv'
    BY DEF SlotInv, FrameAccounting, EndInv
  <1>3. OrderInv'
    BY DEF TypeOK, Ai!TypeOK, OrderInv
  <1>4. SeenInv'
    BY DEF TypeOK, Ai!TypeOK, SeenInv, Outstanding
  <1> QED
    BY <1>1, <1>2, <1>3, <1>4

(* ... and hands it to the worker, in place of one it did not take.         *)
LEMMA SubmitKeeps ==
  ASSUME PipelineInv, SubmitFrame
  PROVE  PipelineInv'
  <1> USE DEF PipelineInv, SubmitFrame, GoTo, Turn, Ai!Submit, Ai!Accepts,
              FrameToSubmit, capVars, aiVars
  <1>1. TypeOK'
    BY DEF TypeOK, Cap!TypeOK, Ai!TypeOK
  <1>2. SlotInv' /\ EndInv'
    BY DEF SlotInv, FrameAccounting, EndInv
  <1>3. OrderInv'
    BY DEF TypeOK, Ai!TypeOK, OrderInv
  <1>4. SeenInv'
    BY DEF TypeOK, Ai!TypeOK, OrderInv, SeenInv, Outstanding
  <1> QED
    BY <1>1, <1>2, <1>3, <1>4

(* The others, which only move on.                                          *)
LEMMA ControlKeeps ==
  ASSUME PipelineInv,
         \/ StartUp \/ StartUpFails \/ LoopTop \/ NoFrame \/ Show \/ StopStreamer \/ StopAi
         \/ JoinAi \/ StopCapture \/ Release \/ JoinCapture \/ DropStreamer
  PROVE  PipelineInv'
  <1> USE DEF StartUp, StartUpFails, LoopTop, NoFrame, Show, StopStreamer, StopAi, JoinAi,
              StopCapture, Release, JoinCapture, DropStreamer, GoTo, Turn, Ai!Construct,
              Ai!RequestStop, Ai!Joined,
              Cap!RaiseStop, Cap!ReleaseSource, Cap!Joined, capVars, aiVars
  <1>1. /\ UNCHANGED <<lastDisplayed, lastGeneration, resultShown, displayed, published>>
        /\ UNCHANGED <<latest, lastConsumed, overwritten, failures, capPc, capReady, capFailed>>
        /\ UNCHANGED <<work, busy, aiFailed, generation, resultFrame>>
        /\ pending' \in {pending, 0} /\ uiPc' \notin {"copy", "submit"}
    BY DEF PipelineInv, TypeOK, Cap!TypeOK, Ai!TypeOK
  <1>2. aiPc' = aiPc \/ (uiPc = "start" /\ aiPc' = "wait")
    OBVIOUS
  <1>3. TypeOK'
    <2>1. Cap!TypeOK'
      <3>1. /\ gStop' = gStop \/ gStop' = TRUE
            /\ capStop' = capStop \/ capStop' = TRUE
            /\ sourceOpen' = sourceOpen \/ sourceOpen' = FALSE
        OBVIOUS
      <3> HIDE DEF StartUp, StartUpFails, LoopTop, NoFrame, Show, StopStreamer, StopAi, JoinAi,
                   StopCapture, Release, JoinCapture, DropStreamer
      <3> QED
        BY <1>1, <3>1 DEF PipelineInv, TypeOK, Cap!TypeOK
    <2>2. Ai!TypeOK'
      <3>1. aiPc' \in {"off", "wait", "infer", "done"} /\ pending' \in Nat
        BY <1>1, <1>2 DEF PipelineInv, TypeOK, Ai!TypeOK
      <3>2. aiStop' \in BOOLEAN
        <4>1. aiStop' = aiStop \/ aiStop' = TRUE
          OBVIOUS
        <4> QED
          BY <4>1 DEF PipelineInv, TypeOK, Ai!TypeOK
      <3>3. busy' => aiPc' = "infer"
        BY <1>1, <1>2 DEF PipelineInv, TypeOK, Ai!TypeOK, EndInv
      <3> QED
        BY <1>1, <3>1, <3>2, <3>3 DEF PipelineInv, TypeOK, Ai!TypeOK
    <2>3. uiPc' \in {"top", "wait", "stopStreamer", "stopAi", "joinAi", "stopCapture",
                     "release", "joinCapture", "dropStreamer", "end"}
      OBVIOUS
    <2>4. streamer' = streamer \/ streamer' \in BOOLEAN
      OBVIOUS
    <2> QED
      BY <1>1, <2>1, <2>2, <2>3, <2>4 DEF PipelineInv, TypeOK
  <1>4. SlotInv'
    BY <1>1 DEF PipelineInv, SlotInv, FrameAccounting
  <1>5. OrderInv'
    BY <1>1, <1>2 DEF PipelineInv, TypeOK, Ai!TypeOK, OrderInv, EndInv
  <1>6. SeenInv'
    BY <1>1 DEF PipelineInv, TypeOK, Ai!TypeOK, SeenInv, Outstanding
  <1>7. EndInv'
    <2> USE DEF PipelineInv, EndInv
    <2>1. CASE StartUp \/ StartUpFails
      BY <1>1, <2>1
    <2>2. CASE LoopTop \/ NoFrame \/ Show \/ StopStreamer \/ StopAi
      <3>1. uiPc' \in {"stopStreamer", "stopAi", "wait", "top", "joinAi"}
            /\ UNCHANGED <<capPc, sourceOpen>>
        BY <2>2
      <3> QED
        BY <3>1
    <2>3. CASE JoinAi
      BY <1>1, <2>3
    <2>4. CASE StopCapture \/ Release
      BY <1>1, <2>4
    <2>5. CASE JoinCapture \/ DropStreamer
      BY <1>1, <2>5
    <2> QED
      BY <2>1, <2>2, <2>3, <2>4, <2>5
  <1> QED
    BY <1>3, <1>4, <1>5, <1>6, <1>7 DEF PipelineInv

(* Every step keeps the invariant ...                                       *)
LEMMA PipelineKeeps ==
  ASSUME PipelineInv, [Next]_vars
  PROVE  PipelineInv'
  <1>1. CASE Signal \/ UNCHANGED vars
    <2>1. UNCHANGED <<capVars, aiVars, uiVars>> /\ gStop' \in {gStop, TRUE}
      BY <1>1 DEF Signal, vars
    <2> USE <2>1 DEF capVars, aiVars, uiVars, PipelineInv
    <2>2. TypeOK'
      <3>1. gStop' \in BOOLEAN
        BY DEF TypeOK, Cap!TypeOK
      <3>2. Cap!TypeOK'
        BY <3>1 DEF TypeOK, Cap!TypeOK
      <3>3. Ai!TypeOK'
        BY DEF TypeOK, Ai!TypeOK
      <3> QED
        BY <3>2, <3>3 DEF TypeOK
    <2>3. SlotInv' /\ OrderInv' /\ SeenInv' /\ EndInv'
      BY DEF SlotInv, FrameAccounting, OrderInv, SeenInv, Outstanding, EndInv
    <2> QED
      BY <2>2, <2>3
  <1>2. CASE UiStep
    BY <1>2, NewFrameKeeps, CopyKeeps, SubmitKeeps, ControlKeeps DEF UiStep
  <1> QED
    BY <1>1, <1>2, CaptureKeeps, AiKeeps DEF Next

(* ... which holds at the start.                                            *)
LEMMA PipelineStarts == Init => PipelineInv
  <1> SUFFICES ASSUME Init PROVE PipelineInv
    OBVIOUS
  <1> USE DEF Init, Cap!Init, Ai!Init
  <1>1. TypeOK
    <2>1. Cap!TypeOK
      <3>1. failures \in 0 .. ReopenAfter /\ latest \in Nat /\ lastConsumed \in Nat
            /\ overwritten \in Nat
        BY CaptureAssumption
      <3> QED
        BY <3>1 DEF Cap!TypeOK
    <2>2. Ai!TypeOK
      BY DEF Ai!TypeOK
    <2> QED
      BY <2>1, <2>2 DEF TypeOK
  <1>2. SlotInv
    BY DEF SlotInv, FrameAccounting
  <1>3. OrderInv /\ SeenInv /\ EndInv
    BY DEF OrderInv, SeenInv, Outstanding, EndInv
  <1> QED
    BY <1>1, <1>2, <1>3 DEF PipelineInv

(* The invariant of the capture thread, the worker and the loop between     *)
(* them.                                                                    *)
THEOREM PipelineInvariant == Spec => []PipelineInv
  BY PipelineStarts, PipelineKeeps, PTL DEF Spec

(* The tracker sees the frames in the order of their capture, and no frame  *)
(* is drawn with a result of a later one.                                   *)
THEOREM ChainInOrder == Spec => []AiInOrder
  <1>1. PipelineInv => AiInOrder
    BY DEF PipelineInv, TypeOK, Ai!TypeOK, OrderInv, AiInOrder
  <1> QED
    BY <1>1, PipelineInvariant, PTL

(* Of the results finished between two looks of the UI thread one at most   *)
(* is never seen.                                                           *)
THEOREM OneSkipped == Spec => []AtMostOneSkipped
  <1>1. PipelineInv => AtMostOneSkipped
    BY DEF PipelineInv, TypeOK, Ai!TypeOK, SeenInv, Outstanding, AtMostOneSkipped
  <1> QED
    BY <1>1, PipelineInvariant, PTL

(* Every captured frame was shown, overwritten, or waits in the slot.       *)
THEOREM FramesAccounted == Spec => []FrameAccounting
  <1>1. PipelineInv => FrameAccounting
    BY DEF PipelineInv, SlotInv
  <1> QED
    BY <1>1, PipelineInvariant, PTL

(* Whichever way run_smooth_camera is left, both threads have ended, the    *)
(* input is closed and the RTSP output was stopped.                         *)
THEOREM EndsClean == Spec => []CleanEnd
  <1>1. PipelineInv => CleanEnd
    BY DEF PipelineInv, EndInv, CleanEnd, Cap!Joined, Ai!Joined
  <1> QED
    BY <1>1, PipelineInvariant, PTL

(* The events of results are published in their order and at most once.     *)
THEOREM ImplementsResultStream == Spec => ResultStream
  <1>1. Init => Results!Init
    BY DEF Init, Ai!Init, Results!Init
  <1>2. PipelineInv /\ [Next]_vars => [Results!Next]_<<generation, lastGeneration, published>>
    <2> SUFFICES ASSUME PipelineInv, [Next]_vars
                 PROVE  [Results!Next]_<<generation, lastGeneration, published>>
      OBVIOUS
    <2> USE DEF capVars, aiVars, uiVars
    <2>1. CASE AiStep
      <3>1. UNCHANGED <<generation, lastGeneration, published>> \/ Results!Produce
        BY <2>1 DEF AiStep, Ai!Step, Ai!Take, Ai!ExitWait, Ai!Finish, Ai!Throw, Results!Produce
      <3> QED
        BY <3>1 DEF Results!Next
    <2>2. CASE CopyResult
      <3>1. CASE generation = lastGeneration
        BY <2>2, <3>1 DEF CopyResult, IsNew
      <3>2. CASE generation # lastGeneration
        <4>1. lastGeneration + 1 <= generation /\ generation \in Nat /\ lastGeneration \in Nat
          BY <3>2 DEF PipelineInv, TypeOK, Ai!TypeOK, SeenInv
        <4>2. Results!Consume
          BY <2>2, <3>2, <4>1 DEF CopyResult, IsNew, Results!Consume
        <4> QED
          BY <4>2 DEF Results!Next
      <3> QED
        BY <3>1, <3>2
    <2>3. CASE ~AiStep /\ ~CopyResult
      <3>1. CASE UiStep
        BY <2>3, <3>1 DEF UiStep, StartUp, StartUpFails, LoopTop, NewFrame, NoFrame,
              SubmitFrame, Show, StopStreamer, StopAi, JoinAi, StopCapture, Release,
              JoinCapture, DropStreamer, GoTo, Turn, Ai!Construct, Ai!RequestStop, Ai!Submit
      <3>2. CASE ~UiStep
        BY <2>3, <3>2 DEF Next, CaptureStep, Signal, vars
      <3> QED
        BY <3>1, <3>2
    <2> QED
      BY <2>1, <2>2, <2>3
  <1> QED
    BY <1>1, <1>2, PipelineInvariant, PTL
    DEF Spec, ResultStream, Results!Spec, Results!streamVars

==============================================================================
