---------------------------- MODULE FrameLoopProofs ----------------------------
(***************************************************************************)
(* Proofs about the synchronous modes, for any number of frames, any       *)
(* window, any measures and whatever another process does to the files:    *)
(* OutputsKept, RunAccounted and TraceComplete.                            *)
(***************************************************************************)
EXTENDS FrameLoop, ListTheorems

Row == Nat \X {"stages", "file_output", "local_display"}
Over == {"unwind", "end"}

LoopTypes ==
  /\ options \in Options
  /\ files \in [Outputs -> {"absent", "before", "since", "ours"}]
  /\ processed \in Nat /\ inFile \in Nat
  /\ batch \in BOOLEAN /\ preview \in BOOLEAN

(* What is about to be created was not there before the run.                *)
Fresh(file) == files[file] # "before" \/ options.force
Tested ==
  /\ isImage => loopPc \in {"validate", "load", "infer", "decode", "image"} \cup Over
  /\ isImage /\ loopPc \notin {"validate"} \cup Over => Fresh("asked")
  /\ loopPc = "openAsked" => Fresh("asked")
  /\ loopPc = "openOther" => Fresh("other")
  /\ loopPc = "image" => isImage

(* The frames in the file, and what is open.                                *)
Accounts ==
  /\ batch => context = "live" /\ loopPc \in {"decode", "unwind"}
  /\ loopPc \notin {"validate", "load"} \cup Over => context = "live"
  /\ loopPc = "end" => ~batch /\ ~inputOpen /\ writer = "closed" /\ context # "live"
  /\ outcome # "none" => loopPc \in Over
  /\ outcome = "ok" => processed > 0 /\ (options.record => inFile = processed)
  /\ loopPc \notin Over /\ options.record =>
       inFile = IF loopPc = "count" THEN processed + 1 ELSE processed
  /\ loopPc = "verify" => processed > 0

LoopInv == LoopTypes /\ Tested /\ Accounts

(* What is among the options.                                               *)
LEMMA OptionTypes ==
  ASSUME options \in Options
  PROVE  /\ options.mode \in {"image", "video", "camera"}
         /\ {options.show, options.record, options.force, options.mp4} \subseteq BOOLEAN
         /\ isImage => options.record
BY DEF Options, isImage

(* Every step of a run keeps the invariant ...                              *)
LEMMA LoopKeeps == LoopInv /\ [LoopNext]_loopVars => LoopInv'
<1> SUFFICES ASSUME LoopInv, [LoopNext]_loopVars PROVE LoopInv'
  OBVIOUS
<1> USE OptionTypes DEF LoopInv, LoopTypes, Tested, Accounts, Fresh, Over, Outputs, isImage, isCamera,
            At, Go, Raise, Succeed, world, devices, perf, trace, control
<1>1. CASE Validate
  BY <1>1 DEF Validate, Rejected, Options
<1>2. CASE LoadModel
  BY <1>2 DEF LoadModel
<1>3. CASE OpenInput
  BY <1>3 DEF OpenInput
<1>4. CASE EndLoop \/ Read \/ ReadFails
  <2>1. CASE EndLoop
    BY <1>4, <2>1 DEF EndLoop
  <2>2. CASE Read
    BY <1>4, <2>2 DEF Read
  <2>3. CASE ReadFails
    <3>1. /\ loopPc = "top" /\ UNCHANGED <<options, files, devices, processed, preview>>
          /\ \/ loopPc' = "unwind" /\ outcome' = "failed"
             \/ loopPc' = "top" /\ outcome' = outcome
      BY <2>3 DEF ReadFails
    <3> QED BY <3>1
  <2> QED BY <1>4, <2>1, <2>2, <2>3
<1>5. CASE Infer \/ Decode
  BY <1>5 DEF Infer, Decode
<1>6. CASE WriteImage
  BY <1>6 DEF WriteImage
<1>7. CASE Output \/ TestOther
  BY <1>7 DEF Output, TestOther, Rejected
<1>8. CASE OpenAsked \/ OpenOther
  BY <1>8 DEF OpenAsked, OpenOther, Open
<1>9. CASE Write
  BY <1>9 DEF Write
<1>10. CASE Count
  BY <1>10 DEF Count
<1>11. CASE Skip \/ Show \/ ShowFails
  <2>1. /\ loopPc = "show" /\ UNCHANGED <<options, files, devices, processed>>
        /\ preview' \in {preview, FALSE}
        /\ \/ loopPc' = "unwind" /\ outcome' = "failed"
           \/ loopPc' \in {"top", "finish"} /\ outcome' = outcome
    BY <1>11 DEF Skip, Show, ShowFails, NextRound
  <2> QED BY <2>1
<1>12. CASE Finish \/ Verify
  <2>1. CASE Finish
    <3>1. CASE processed = 0
      BY <2>1, <3>1 DEF Finish, NothingRead
    <3>2. CASE processed # 0
      BY <2>1, <3>2 DEF Finish, NothingRead
    <3> QED BY <3>1, <3>2
  <2>2. CASE Verify
    BY <2>2 DEF Verify
  <2> QED BY <1>12, <2>1, <2>2
<1>13. CASE Unwind
  BY <1>13 DEF Unwind
<1>14. CASE StopSignal \/ Intrude
  BY <1>14 DEF StopSignal, Intrude
<1>15. CASE UNCHANGED loopVars
  BY <1>15 DEF loopVars
<1> QED
  BY <1>1, <1>2, <1>3, <1>4, <1>5, <1>6, <1>7, <1>8, <1>9, <1>10, <1>11, <1>12, <1>13,
     <1>14, <1>15 DEF LoopNext, LoopStep

(* ... which holds of every way to start one.                               *)
LEMMA LoopStarts == LoopInit => LoopInv
<1> SUFFICES ASSUME LoopInit PROVE LoopInv
  OBVIOUS
<1>1. LoopTypes
  BY DEF LoopInit, LoopTypes
<1>2. Tested /\ Accounts
  BY DEF LoopInit, Tested, Accounts, Over
<1> QED BY <1>1, <1>2 DEF LoopInv

(* Without --force nothing that was there before the run is replaced.       *)
THEOREM NothingReplaced == LoopSpec => OutputsKept
<1> DEFINE Kept == \A f \in Outputs :
                     files[f] = "before" /\ ~options.force => files'[f] = "before"
<1>1. LoopInv /\ [LoopNext]_loopVars => [Kept]_loopVars
  <2>1. SUFFICES ASSUME LoopInv, LoopNext PROVE Kept
    OBVIOUS
  <2>2. CASE WriteImage \/ OpenAsked \/ OpenOther
    BY <2>1, <2>2 DEF WriteImage, OpenAsked, OpenOther, Open, LoopInv, LoopTypes, Tested, Fresh,
       Outputs, At, Over
  <2>3. CASE Intrude
    BY <2>1, <2>3 DEF Intrude, LoopInv, LoopTypes
  <2>4. CASE UNCHANGED files
    BY <2>4
  <2> QED
    BY <2>1, <2>2, <2>3, <2>4
    DEF LoopNext, LoopStep, Validate, LoadModel, OpenInput, EndLoop, Read, ReadFails, Infer,
        Decode, Output, TestOther, Write, Count, Skip, Show, ShowFails, Finish, Verify, Unwind,
        StopSignal, world
<1> QED BY <1>1, LoopStarts, LoopKeeps, PTL DEF LoopSpec, OutputsKept

-----------------------------------------------------------------------------
(* PerfMonitor: the window holds the last samples, and each sum is that of  *)
(* what it is kept for.                                                     *)

Least(a, b) == IF a < b THEN a ELSE b

PerfInv ==
  /\ measured \in Seq(Int) /\ recent \in Seq(Int)
  /\ Len(recent) = Least(Len(measured), Window)
  /\ \A k \in 1 .. Len(recent) : recent[k] = measured[Len(measured) - Len(recent) + k]
  /\ totalSum = Total(measured) /\ recentSum = Total(recent)

(* A frame is added to the window, and the oldest leaves a full one.        *)
LEMMA AddFrameKeeps ==
  ASSUME PerfInv, NEW m \in Samples, AddFrame(m)
  PROVE  PerfInv'
<1> DEFINE kept == Append(recent, m)
           L == Len(measured)
           r == Len(recent)
<1> USE DEF Least
<1>1. /\ m \in Int /\ Window \in Nat \ {0} /\ measured \in Seq(Int) /\ recent \in Seq(Int)
      /\ L \in Nat /\ r \in Nat /\ r = Least(L, Window)
  BY WindowAssumption DEF PerfInv
<1>10. r <= L /\ \A k \in 1 .. r : recent[k] = measured[L - r + k]
  <2>1. \A k \in 1 .. r : recent[k] = measured[L - r + k]
    BY DEF PerfInv
  <2> HIDE DEF L, r
  <2>2. r = Least(L, Window) /\ L \in Nat /\ Window \in Nat
    BY <1>1
  <2>3. r <= L
    BY <2>2
  <2> QED BY <2>1, <2>3
<1>2. /\ measured' = Append(measured, m) /\ measured' \in Seq(Int)
      /\ totalSum' = Total(measured')
  <2>1. measured' = Append(measured, m) /\ totalSum' = totalSum + m
    BY DEF AddFrame
  <2>2. Total(Append(measured, m)) = Total(measured) + m
    BY <1>1, TotalAppend
  <2> QED BY <1>1, <2>1, <2>2 DEF PerfInv
<1>3. /\ kept \in Seq(Int) /\ Len(kept) = r + 1 /\ Head(kept) \in Int
      /\ Total(kept) = recentSum + m /\ recentSum \in Int
  <2>1. Total(kept) = Total(recent) + m /\ Total(recent) \in Int
    BY <1>1, TotalAppend
  <2>2. kept \in Seq(Int) /\ Len(kept) = r + 1
    BY <1>1
  <2>3. Head(kept) \in Int
    BY <1>1, <2>2
  <2> QED BY <2>1, <2>2, <2>3 DEF PerfInv
<1>4. /\ Len(measured') = L + 1 /\ measured'[L + 1] = m
      /\ \A k \in 1 .. L : measured'[k] = measured[k]
  BY <1>1, <1>2
<1>5. kept[r + 1] = m /\ \A k \in 1 .. r : kept[k] = measured[L - r + k]
  <2>1. kept[r + 1] = m /\ \A k \in 1 .. r : kept[k] = recent[k]
    BY <1>1
  <2> QED BY <1>10, <2>1
<1> HIDE DEF kept, L, r
<1>6. \A k \in 1 .. r + 1 : kept[k] = measured'[L - r + k]
  <2>1. SUFFICES ASSUME NEW k \in 1 .. r + 1 PROVE kept[k] = measured'[L - r + k]
    OBVIOUS
  <2>2. CASE k = r + 1
    <3>1. L - r + k = L + 1
      BY <1>1, <2>2
    <3> QED BY <1>4, <1>5, <2>2, <3>1
  <2>3. CASE k # r + 1
    <3>1. k \in 1 .. r /\ L - r + k \in 1 .. L
      BY <1>1, <1>10, <2>3
    <3> QED BY <1>4, <1>5, <3>1
  <2> QED BY <2>2, <2>3
<1>7. CASE ~(Len(kept) > Window)
  <2>1. recent' = kept /\ recentSum' = recentSum + m
    BY <1>7 DEF AddFrame, kept
  <2>2. r + 1 = Least(L + 1, Window)
    BY <1>1, <1>3, <1>7
  <2>3. \A k \in 1 .. r + 1 : recent'[k] = measured'[L - r + k]
    BY <1>6, <2>1
  <2>4. Len(recent') = r + 1 /\ Len(measured') = L + 1 /\ recent' \in Seq(Int)
    BY <1>3, <1>4, <2>1
  <2>5. \A k \in 1 .. Len(recent') : recent'[k] = measured'[Len(measured') - Len(recent') + k]
    <3>1. SUFFICES ASSUME NEW k \in 1 .. r + 1
                   PROVE  recent'[k] = measured'[Len(measured') - Len(recent') + k]
      BY <2>4
    <3>2. Len(measured') - Len(recent') + k = L - r + k
      BY <1>1, <2>4
    <3> QED BY <2>3, <3>2
  <2>6. Len(recent') = Least(Len(measured'), Window)
    BY <2>2, <2>4
  <2>7. recentSum' = Total(recent')
    BY <1>3, <2>1
  <2> HIDE DEF Least
  <2> QED BY <1>2, <2>4, <2>5, <2>6, <2>7 DEF PerfInv
<1>8. CASE Len(kept) > Window
  <2>1. recent' = Tail(kept) /\ recentSum' = recentSum + m - Head(kept)
    BY <1>8 DEF AddFrame, kept
  <2>2. r = Window /\ r >= 1 /\ r = Least(L + 1, Window)
    BY <1>1, <1>3, <1>8
  <2>3. kept # <<>>
    BY <1>1, <1>3, <2>2
  <2>4. recent' \in Seq(Int) /\ Len(recent') = r /\ \A k \in 1 .. r : recent'[k] = kept[k + 1]
    BY <1>1, <1>3, <2>1, <2>2
  <2>5. ASSUME NEW k \in 1 .. r PROVE recent'[k] = measured'[L + 1 - r + k]
    <3>1. k + 1 \in 1 .. r + 1 /\ L - r + (k + 1) = L + 1 - r + k
      BY <1>1
    <3> QED BY <1>6, <2>4, <3>1
  <2>6. Total(recent') = Total(kept) - Head(kept)
    BY <1>3, <2>1, <2>3, TotalTail
  <2>7. recentSum' = Total(recent')
    BY <1>1, <1>3, <2>1, <2>6
  <2>8. \A k \in 1 .. Len(recent') : recent'[k] = measured'[Len(measured') - Len(recent') + k]
    <3>1. SUFFICES ASSUME NEW k \in 1 .. r
                   PROVE  recent'[k] = measured'[Len(measured') - Len(recent') + k]
      BY <2>4
    <3> QED BY <1>1, <1>4, <2>4, <2>5
  <2>9. Len(recent') = Least(Len(measured'), Window)
    BY <1>4, <2>2, <2>4
  <2> HIDE DEF Least
  <2> QED BY <1>2, <2>4, <2>7, <2>8, <2>9 DEF PerfInv
<1> QED BY <1>7, <1>8

(* The sum of the window is the one it is said to be.                       *)
LEMMA PerfKeeps == PerfInv /\ [LoopNext]_loopVars => PerfInv'
<1> SUFFICES ASSUME PerfInv, [LoopNext]_loopVars PROVE PerfInv'
  OBVIOUS
<1>1. CASE Count
  BY <1>1, AddFrameKeeps DEF Count
<1>2. CASE UNCHANGED perf
  BY <1>2 DEF PerfInv, perf
<1> QED
  BY <1>1, <1>2
  DEF LoopNext, LoopStep, Validate, LoadModel, OpenInput, EndLoop, Read, ReadFails, Infer,
      Decode, WriteImage, Output, OpenAsked, OpenOther, Open, TestOther, Write, Skip, Show,
      ShowFails, Finish, Verify, Unwind, StopSignal, Intrude, loopVars, perf

(* The window is the end of what was measured.                              *)
LEMMA PerfWindow ==
  ASSUME PerfInv
  PROVE  /\ recent = SubSeq(measured, Len(measured) - Len(recent) + 1, Len(measured))
         /\ Len(recent) = (IF Len(measured) < Window THEN Len(measured) ELSE Window)
<1> DEFINE L == Len(measured)
           r == Len(recent)
           q == SubSeq(measured, L - r + 1, L)
<1>1. /\ measured \in Seq(Int) /\ recent \in Seq(Int) /\ L \in Nat /\ r \in 0 .. L
      /\ \A k \in 1 .. r : recent[k] = measured[L - r + k]
  <2>1. measured \in Seq(Int) /\ recent \in Seq(Int) /\ r = Least(L, Window)
    BY DEF PerfInv
  <2>2. L \in Nat /\ r \in Nat /\ Window \in Nat
    BY <2>1, WindowAssumption
  <2>3. r \in 0 .. L
    BY <2>1, <2>2 DEF Least
  <2>4. \A k \in 1 .. r : recent[k] = measured[L - r + k]
    BY DEF PerfInv
  <2> QED BY <2>1, <2>2, <2>3, <2>4
<1>2. q \in Seq(Int) /\ Len(q) = r /\ \A k \in 1 .. r : q[k] = measured[L - r + k]
  <2>1. L - r + 1 \in 1 .. L + 1 /\ L - (L - r + 1) + 1 = r
    BY <1>1
  <2>2. /\ q \in Seq(Int) /\ Len(q) = L - (L - r + 1) + 1
        /\ \A k \in 1 .. r : q[k] = measured[L - r + 1 + k - 1]
    BY <1>1, <2>1
  <2>3. ASSUME NEW k \in 1 .. r PROVE L - r + 1 + k - 1 = L - r + k
    BY <1>1
  <2> QED BY <2>1, <2>2, <2>3
<1> HIDE DEF q
<1>3. recent = q
  BY <1>1, <1>2, SeqEqual
<1> QED BY <1>3 DEF q, PerfInv, Least

(* A successful run has written what it processed, whatever way a run ends  *)
(* everything is given back, and the sums are right after any number of     *)
(* frames.                                                                  *)
THEOREM RunsAccount == LoopSpec => []RunAccounted
<1>1. LoopInit => PerfInv
  BY TotalEmpty, WindowAssumption DEF LoopInit, PerfInv, Least
<1>2. LoopInv /\ PerfInv => RunAccounted
  BY PerfWindow DEF RunAccounted, LoopInv, Accounts, PerfInv
<1> QED BY <1>1, <1>2, LoopStarts, LoopKeeps, PerfKeeps, PTL DEF LoopSpec

-----------------------------------------------------------------------------
(* The trace.  RowsFor(f) is what it must say of frame f in each place of   *)
(* the loop, and Kept which timelines it may keep there: that of the frame  *)
(* before only after the window has gone, until the next frame's file mark  *)
(* takes it away.                                                           *)

ListOf(f)  == Picked(traceRows, RowsOf(f))
Before     == {"validate", "load", "open"}
Reading    == {"top", "infer", "decode", "finish", "verify"}
Writing    == {"output", "openAsked", "testOther", "openOther", "write"}
WholeOf(f) == StageRow(f) \o FileRow(f) \o DisplayRow(f)

RowsFor(f) ==
  IF f <= processed THEN WholeOf(f)
  ELSE IF f = processed + 1 /\ loopPc \in Writing THEN StageRow(f)
  ELSE IF f = processed + 1 /\ loopPc = "count" THEN StageRow(f) \o FileRow(f)
  ELSE <<>>

Places ==
  /\ loopPc \in Before \cup Reading \cup Writing \cup {"count", "show"} \cup Over
  /\ traceRows \in Seq(Row) /\ displayed \subseteq 1 .. processed
  /\ timelines \subseteq {processed, processed + 1}
  /\ loopPc = "show" => processed \notin displayed /\ processed > 0
  /\ loopPc \notin Before \cup Over => options.record \/ preview

Kept ==
  /\ loopPc \in Before => timelines = {}
  /\ loopPc \in Reading => timelines \subseteq {processed} /\ (timelines # {} => ~preview)
  /\ loopPc \in Writing => processed + 1 \in timelines /\ (processed \in timelines => ~preview)
  /\ loopPc = "count" => timelines = IF preview THEN {processed + 1} ELSE {}
  /\ loopPc = "show" => timelines = IF preview THEN {processed} ELSE {}

Rows == \A f \in Nat \ {0} : loopPc \notin Over \/ f <= processed => ListOf(f) = RowsFor(f)

TraceInv == isCamera => Places /\ Kept /\ Rows

(* One more row changes the list of its own frame only.                     *)
LEMMA RowAdded ==
  ASSUME traceRows \in Seq(Row), NEW g \in Nat,
         NEW st \in {"stages", "file_output", "local_display"},
         traceRows' = Append(traceRows, <<g, st>>)
  PROVE  /\ traceRows' \in Seq(Row)
         /\ \A f \in Nat : ListOf(f)' = IF f = g THEN Append(ListOf(f), <<g, st>>) ELSE ListOf(f)
<1> DEFINE row == <<g, st>>
           n == Len(traceRows)
<1>1. row \in Row /\ row[1] = g /\ n \in Nat
  BY DEF Row
<1>2. /\ traceRows' \in Seq(Row) /\ Len(traceRows') = n + 1 /\ traceRows'[n + 1] = row
      /\ \A i \in 1 .. n : traceRows'[i] = traceRows[i]
  BY <1>1
<1> HIDE DEF row
<1>3. ASSUME NEW f \in Nat
      PROVE  ListOf(f)' = IF f = g THEN Append(ListOf(f), row) ELSE ListOf(f)
  <2>1. RowsOf(f) \subseteq 1 .. n
    BY DEF RowsOf
  <2>2. RowsOf(f)' = IF f = g THEN RowsOf(f) \cup {n + 1} ELSE RowsOf(f)
    <3>1. DOMAIN traceRows = 1 .. n /\ DOMAIN traceRows' = 1 .. n + 1
      BY <1>2
    <3>2. 1 .. n + 1 = (1 .. n) \cup {n + 1}
      BY <1>1
    <3> QED BY <1>1, <1>2, <3>1, <3>2 DEF RowsOf
  <2>3. ListOf(f)' = Picked(Append(traceRows, row), RowsOf(f)')
    BY DEF ListOf, row
  <2>4. CASE f = g
    <3>1. \A P \in SUBSET (1 .. Len(traceRows)) :
            Picked(Append(traceRows, row), P \cup {Len(traceRows) + 1})
              = Append(Picked(traceRows, P), row)
      <4>1. row \in Row
        BY <1>1
      <4> QED BY <4>1, PickedAppend, Zenon
    <3> QED BY <2>1, <2>2, <2>3, <2>4, <3>1 DEF ListOf
  <2>5. CASE f # g
    BY <1>1, <2>1, <2>2, <2>3, <2>5, PickedSkip DEF ListOf
  <2> QED BY <2>4, <2>5
<1> QED BY <1>2, <1>3 DEF row

(* The rows of a frame, put together one after the other.                   *)
LEMMA WholeOfIs ==
  ASSUME NEW f
  PROVE  /\ Append(<<>>, <<f, "stages">>) = StageRow(f)
         /\ options.record => Append(StageRow(f), <<f, "file_output">>) = StageRow(f) \o FileRow(f)
         /\ ~options.record => StageRow(f) = StageRow(f) \o FileRow(f)
         /\ f \notin displayed => WholeOf(f) = StageRow(f) \o FileRow(f)
         /\ StageRow(f) \o FileRow(f) \o <<<<f, "local_display">>>>
              = Append(StageRow(f) \o FileRow(f), <<f, "local_display">>)
<1> DEFINE S == Seq({<<f, "stages">>, <<f, "file_output">>, <<f, "local_display">>})
<1>1. StageRow(f) \in S /\ FileRow(f) \in S /\ DisplayRow(f) \in S
  BY DEF StageRow, FileRow, DisplayRow
<1>2. \A s \in S : s \o <<>> = s
  OBVIOUS
<1>3. \A s \in S : \A x \in {<<f, "file_output">>, <<f, "local_display">>} :
        s \o <<x>> = Append(s, x)
  OBVIOUS
<1>4. StageRow(f) \o FileRow(f) \in S
  BY <1>1
<1>5. Append(<<>>, <<f, "stages">>) = StageRow(f)
  BY DEF StageRow
<1> HIDE DEF S
<1> QED BY <1>1, <1>2, <1>3, <1>4, <1>5 DEF FileRow, DisplayRow, WholeOf

(* A step that adds no row keeps what the rows of each frame must be.       *)
LEMMA NoRow ==
  ASSUME isCamera, LoopInv, TraceInv, isCamera' = isCamera,
         UNCHANGED <<options, traceRows, displayed, processed>>,
         loopPc' \in Over \/ \A f \in Nat \ {0} : RowsFor(f)' = RowsFor(f),
         loopPc' \notin Over => loopPc \notin Over
  PROVE  Rows'
<1>1. \A f \in Nat : ListOf(f)' = ListOf(f)
  BY DEF ListOf, RowsOf
<1>2. \A f \in Nat : f <= processed => RowsFor(f)' = WholeOf(f) /\ RowsFor(f) = WholeOf(f)
  BY DEF RowsFor, WholeOf, StageRow, FileRow, DisplayRow
<1>3. SUFFICES ASSUME NEW f \in Nat \ {0}, loopPc' \notin Over \/ f <= processed
               PROVE  ListOf(f)' = RowsFor(f)'
  BY DEF Rows
<1>4. ListOf(f) = RowsFor(f)
  BY <1>3 DEF TraceInv, Rows
<1>5. CASE f <= processed
  BY <1>1, <1>2, <1>4, <1>5
<1>6. CASE ~(f <= processed)
  BY <1>1, <1>3, <1>4, <1>6
<1> QED BY <1>5, <1>6

(* Every step keeps the rows and what is pending for them.                  *)
LEMMA TraceKeeps == LoopInv /\ TraceInv /\ [LoopNext]_loopVars => TraceInv'
<1> SUFFICES ASSUME LoopInv, TraceInv, [LoopNext]_loopVars PROVE TraceInv'
  OBVIOUS
<1>0. options' = options
  BY DEF LoopNext, LoopStep, Validate, LoadModel, OpenInput, EndLoop, Read, ReadFails, Infer,
         Decode, WriteImage, Output, OpenAsked, OpenOther, TestOther, Write, Count, Skip, Show,
         ShowFails, Finish, Verify, Unwind, StopSignal, Intrude, At, world, loopVars
<1> SUFFICES ASSUME isCamera PROVE Places' /\ Kept' /\ Rows'
  BY <1>0 DEF TraceInv, isCamera
<1> USE DEF At, Go, Raise, Succeed, world, devices, perf, trace, control
<1>a. /\ isCamera' = isCamera /\ Places /\ Kept /\ Rows
      /\ processed \in Nat /\ options \in Options /\ preview \in BOOLEAN /\ ~isImage
  BY <1>0 DEF TraceInv, LoopInv, LoopTypes, isCamera, isImage
<1>1. ASSUME UNCHANGED <<options, traceRows, timelines, displayed, processed, preview>>,
             \/ loopPc' \in Over
             \/ \E place \in {Before, Reading, Writing, {loopPc}} :
                  loopPc \in place /\ loopPc' \in place
      PROVE  Places' /\ Kept' /\ Rows'
  <2>1. Places' /\ Kept'
    BY <1>a, <1>1 DEF Places, Kept, Before, Reading, Writing, Over
  <2>2. loopPc' \in Over \/ \A f \in Nat \ {0} : RowsFor(f)' = RowsFor(f)
    BY <1>a, <1>1 DEF RowsFor, WholeOf, StageRow, FileRow, DisplayRow, Before, Reading, Writing, Over
  <2>3. loopPc' \notin Over => loopPc \notin Over
    BY <1>1 DEF Before, Reading, Writing, Over
  <2> QED BY <1>a, <1>1, <2>1, <2>2, <2>3, NoRow
<1>2. ASSUME loopPc \notin Over, UNCHANGED <<options, traceRows, displayed, processed>>,
             loopPc' \in Over \/ \A f \in Nat \ {0} : RowsFor(f)' = RowsFor(f)
      PROVE  Rows'
  BY <1>a, <1>2, NoRow
<1>3. CASE OpenInput
  <2>1. Places' /\ Kept'
    BY <1>a, <1>3 DEF OpenInput, Places, Kept, Before, Reading, Writing, Over
  <2>2. loopPc' \in Over \/ \A f \in Nat \ {0} : RowsFor(f)' = RowsFor(f)
    BY <1>a, <1>3 DEF OpenInput, RowsFor, WholeOf, StageRow, FileRow, DisplayRow, Writing, Over
  <2> QED BY <1>a, <1>2, <1>3, <2>1, <2>2 DEF OpenInput, Over
<1>4. CASE Decode
  <2>1. CASE loopPc' \in Over
    BY <1>a, <1>1, <1>4, <2>1 DEF Decode, Over
  <2>2. CASE loopPc' \notin Over
    <3> DEFINE g == processed + 1
    <3>1. /\ loopPc = "decode" /\ loopPc' = "output" /\ traceRows' = Append(traceRows, <<g, "stages">>)
          /\ timelines' = timelines \cup {g}
          /\ UNCHANGED <<options, displayed, processed, preview>>
      BY <1>a, <1>4, <2>2 DEF Decode, Over
    <3>2. /\ traceRows' \in Seq(Row) /\ g \in Nat
          /\ \A f \in Nat : ListOf(f)' = IF f = g THEN Append(ListOf(f), <<g, "stages">>) ELSE ListOf(f)
      <4>1. g \in Nat /\ traceRows \in Seq(Row)
        BY <1>a DEF Places
      <4> HIDE DEF g
      <4> QED BY <3>1, <4>1, RowAdded
    <3>3. Places' /\ Kept'
      BY <1>a, <3>1, <3>2 DEF Places, Kept, Before, Reading, Writing, Over
    <3>4. ASSUME NEW f \in Nat \ {0} PROVE ListOf(f)' = RowsFor(f)'
      <4>1. ListOf(f) = RowsFor(f)
        BY <1>a, <3>1 DEF Rows, Over
      <4>2. CASE f = g
        <5>1. RowsFor(f) = <<>> /\ RowsFor(f)' = StageRow(f)
          BY <1>a, <3>1, <4>2 DEF RowsFor, Writing, StageRow
        <5> QED BY <3>2, <4>1, <4>2, <5>1, WholeOfIs
      <4>3. CASE f # g
        <5>1. RowsFor(f)' = RowsFor(f)
          BY <1>a, <3>1, <4>3 DEF RowsFor, WholeOf, StageRow, FileRow, DisplayRow, Writing
        <5> QED BY <3>2, <4>1, <4>3, <5>1
      <4> QED BY <4>2, <4>3
    <3> QED BY <3>3, <3>4 DEF Rows
  <2> QED BY <2>1, <2>2
<1>5. CASE Write
  <2> DEFINE g == processed + 1
  <2>1. /\ loopPc = "write" /\ loopPc' = "count" /\ UNCHANGED <<options, displayed, processed, preview>>
        /\ IF options.record
           THEN /\ traceRows' = Append(traceRows, <<g, "file_output">>)
                /\ timelines' = IF ~preview THEN {f \in timelines : f > g} ELSE timelines
           ELSE UNCHANGED <<traceRows, timelines>>
    BY <1>a, <1>5 DEF Write, Mark, LastMark, Kept, Writing
  <2>2. /\ traceRows' \in Seq(Row) /\ g \in Nat
        /\ \A f \in Nat : ListOf(f)' =
             IF f = g /\ options.record THEN Append(ListOf(f), <<g, "file_output">>) ELSE ListOf(f)
    <3>1. CASE options.record
      BY <1>a, <2>1, <3>1, RowAdded DEF Places
    <3>2. CASE ~options.record
      BY <1>a, <2>1, <3>2 DEF Places, ListOf, RowsOf
    <3> QED BY <3>1, <3>2
  <2>3. timelines' = IF preview THEN {g} ELSE {}
    <3>1. timelines \subseteq {processed, g} /\ g \in timelines /\ (preview => processed \notin timelines)
      BY <1>a, <2>1 DEF Places, Kept, Writing
    <3>2. options.record \/ preview
      BY <1>a, <2>1 DEF Places, Before, Over
    <3>3. ASSUME ~preview, options.record PROVE timelines' = {}
      <4>1. \A f \in timelines : f = processed \/ f = g
        BY <3>1
      <4>2. \A f \in timelines : ~(f > g)
        BY <1>a, <4>1
      <4>3. timelines' = {f \in timelines : f > g}
        BY <2>1, <3>3
      <4> HIDE DEF g
      <4> QED BY <4>2, <4>3
    <3>4. ASSUME preview PROVE timelines = {g} /\ timelines' = timelines
      BY <1>a, <2>1, <3>1, <3>4
    <3> QED BY <1>a, <3>2, <3>3, <3>4
  <2>4. Places' /\ Kept'
    BY <1>a, <2>1, <2>2, <2>3 DEF Places, Kept, Before, Reading, Writing, Over
  <2>5. ASSUME NEW f \in Nat \ {0} PROVE ListOf(f)' = RowsFor(f)'
    <3>1. ListOf(f) = RowsFor(f)
      BY <1>a, <2>1 DEF Rows, Over
    <3>2. CASE f = g
      <4>1. RowsFor(f) = StageRow(f) /\ RowsFor(f)' = StageRow(f) \o FileRow(f)
        BY <1>a, <2>1, <3>2 DEF RowsFor, Writing, StageRow, FileRow
      <4> QED BY <2>2, <3>1, <3>2, <4>1, WholeOfIs
    <3>3. CASE f # g
      <4>1. RowsFor(f)' = RowsFor(f)
        BY <1>a, <2>1, <3>3 DEF RowsFor, WholeOf, StageRow, FileRow, DisplayRow, Writing
      <4> QED BY <2>2, <3>1, <3>3, <4>1
    <3> QED BY <3>2, <3>3
  <2> QED BY <2>4, <2>5 DEF Rows
<1>6. CASE Count
  <2>1. /\ loopPc = "count" /\ loopPc' = "show" /\ processed' = processed + 1
        /\ UNCHANGED <<options, traceRows, timelines, displayed, preview>>
    BY <1>6 DEF Count
  <2>2. Places' /\ Kept'
    <3>1. displayed \subseteq 1 .. processed + 1 /\ processed + 1 \notin displayed
      BY <1>a DEF Places
    <3> QED BY <1>a, <2>1, <3>1 DEF Places, Kept, Before, Reading, Writing, Over
  <2>3. ASSUME NEW f \in Nat \ {0} PROVE ListOf(f)' = RowsFor(f)'
    <3>1. ListOf(f) = RowsFor(f) /\ ListOf(f)' = ListOf(f)
      BY <1>a, <2>1 DEF Rows, Over, ListOf, RowsOf
    <3>2. CASE f = processed + 1
      <4>1. RowsFor(f) = StageRow(f) \o FileRow(f) /\ RowsFor(f)' = WholeOf(f) /\ f \notin displayed
        BY <1>a, <2>1, <3>2 DEF Places, RowsFor, Writing, WholeOf, StageRow, FileRow, DisplayRow
      <4> QED BY <3>1, <4>1, WholeOfIs
    <3>3. CASE f # processed + 1
      <4>1. RowsFor(f)' = RowsFor(f)
        BY <1>a, <2>1, <3>3 DEF RowsFor, WholeOf, StageRow, FileRow, DisplayRow, Writing
      <4> QED BY <3>1, <4>1
    <3> QED BY <3>2, <3>3
  <2> QED BY <2>2, <2>3 DEF Rows
<1>7. CASE Skip \/ ShowFails
  <2>1. /\ loopPc = "show" /\ loopPc' \in {"top", "finish"} \cup Over
        /\ UNCHANGED <<options, traceRows, timelines, displayed, processed>>
        /\ ~preview' /\ (loopPc' \notin Over => ~preview \/ options.record)
    BY <1>a, <1>7 DEF Skip, ShowFails, NextRound, Over
  <2>2. Places' /\ Kept'
    BY <1>a, <2>1 DEF Places, Kept, Before, Reading, Writing, Over
  <2>3. loopPc' \in Over \/ \A f \in Nat \ {0} : RowsFor(f)' = RowsFor(f)
    BY <1>a, <2>1 DEF RowsFor, WholeOf, StageRow, FileRow, DisplayRow, Writing
  <2> QED BY <1>2, <2>1, <2>2, <2>3 DEF Over
<1>8. CASE Show
  <2> DEFINE g == processed
  <2>1. /\ loopPc = "show" /\ loopPc' \in {"top", "finish"} /\ preview
        /\ displayed' = displayed \cup {g} /\ g \notin displayed /\ g \in Nat \ {0}
        /\ timelines = {g} /\ UNCHANGED <<options, processed, preview>>
    BY <1>a, <1>8 DEF Show, NextRound, Places, Kept
  <2>2. /\ traceRows' = Append(traceRows, <<g, "local_display">>)
        /\ timelines' = {}
    BY <1>a, <1>8, <2>1 DEF Show, Mark
  <2>3. /\ traceRows' \in Seq(Row)
        /\ \A f \in Nat : ListOf(f)' =
             IF f = g THEN Append(ListOf(f), <<g, "local_display">>) ELSE ListOf(f)
    BY <1>a, <2>1, <2>2, RowAdded DEF Places
  <2>4. Places' /\ Kept'
    <3>1. displayed' \subseteq 1 .. g
      BY <1>a, <2>1 DEF Places
    <3> QED BY <1>a, <2>1, <2>2, <2>3, <3>1 DEF Places, Kept, Before, Reading, Writing, Over
  <2>5. ASSUME NEW f \in Nat \ {0} PROVE ListOf(f)' = RowsFor(f)'
    <3>1. ListOf(f) = RowsFor(f)
      BY <1>a, <2>1 DEF Rows, Over
    <3>2. CASE f = g
      <4>1. RowsFor(f) = WholeOf(f) /\ WholeOf(f) = StageRow(f) \o FileRow(f)
        <5>1. RowsFor(f) = WholeOf(f) /\ f \notin displayed
          BY <2>1, <3>2 DEF RowsFor
        <5> QED BY <5>1, WholeOfIs
      <4>2. RowsFor(f)' = Append(StageRow(f) \o FileRow(f), <<f, "local_display">>)
        <5>1. WholeOf(f)' = StageRow(f) \o FileRow(f) \o <<<<f, "local_display">>>>
          BY <2>1, <3>2 DEF WholeOf, StageRow, FileRow, DisplayRow
        <5>2. RowsFor(f)' = WholeOf(f)'
          BY <1>a, <2>1, <3>2 DEF RowsFor
        <5> QED BY <5>1, <5>2, WholeOfIs
      <4> QED BY <2>3, <3>1, <3>2, <4>1, <4>2
    <3>3. CASE f # g
      <4>1. RowsFor(f)' = RowsFor(f)
        BY <1>a, <2>1, <3>3 DEF RowsFor, WholeOf, StageRow, FileRow, DisplayRow, Writing
      <4> QED BY <2>3, <3>1, <3>3, <4>1
    <3> QED BY <3>2, <3>3
  <2> QED BY <2>4, <2>5 DEF Rows
<1>9. CASE LoopStep /\ ~OpenInput /\ ~Decode /\ ~Write /\ ~Count /\ ~Skip /\ ~ShowFails /\ ~Show
  <2>1. ~WriteImage
    BY <1>a DEF WriteImage, Places, Before, Reading, Writing, Over
  <2>2. UNCHANGED <<options, traceRows, timelines, displayed, processed, preview>>
    BY <1>9, <2>1 DEF LoopStep, Validate, LoadModel, EndLoop, Read, ReadFails, Infer, Output,
       OpenAsked, OpenOther, Open, TestOther, Finish, Verify, Unwind
  <2>3. \/ loopPc' \in Over
        \/ loopPc \in Before /\ loopPc' \in Before
        \/ loopPc \in Reading /\ loopPc' \in Reading
        \/ loopPc \in Writing /\ loopPc' \in Writing
    BY <1>a, <1>9, <2>1 DEF LoopStep, Validate, LoadModel, EndLoop, Read, ReadFails, Infer, Output,
       OpenAsked, OpenOther, Open, TestOther, Finish, Verify, Unwind, Before, Reading, Writing, Over
  <2> QED BY <1>1, <2>2, <2>3
<1>10. CASE StopSignal \/ Intrude \/ UNCHANGED loopVars
  BY <1>1, <1>10 DEF StopSignal, Intrude, loopVars
<1> QED
  BY <1>3, <1>4, <1>5, <1>6, <1>7, <1>8, <1>9, <1>10 DEF LoopNext

(* Every row of every frame of the camera is in the trace once and in its   *)
(* place, and two timelines at most are kept, after any number of frames    *)
(* and whenever the window goes away.                                       *)
THEOREM TracesComplete == LoopSpec => []TraceComplete
<1>1. LoopInit => TraceInv
  <2>1. SUFFICES ASSUME LoopInit PROVE Places /\ Kept /\ Rows
    BY DEF TraceInv
  <2>2. Places /\ Kept
    BY <2>1 DEF LoopInit, Places, Kept, Before, Reading, Writing, Over
  <2>3. ASSUME NEW f \in Nat \ {0} PROVE ListOf(f) = RowsFor(f)
    <3>1. RowsOf(f) = {} /\ RowsFor(f) = <<>>
      BY <2>1 DEF LoopInit, RowsOf, RowsFor, Writing
    <3> QED BY <3>1, PickedNothing DEF ListOf
  <2> QED BY <2>2, <2>3 DEF Rows
<1>2. LoopInv /\ TraceInv => TraceComplete
  <2>1. SUFFICES ASSUME LoopInv, TraceInv, isCamera
                 PROVE  /\ Cardinality(timelines) <= 2
                        /\ \A f \in 1 .. processed :
                             Picked(traceRows, RowsOf(f)) = StageRow(f) \o FileRow(f) \o DisplayRow(f)
    BY DEF TraceComplete
  <2>2. timelines \in SUBSET {processed, processed + 1} /\ processed \in Nat
    BY <2>1 DEF TraceInv, Places, LoopInv, LoopTypes
  <2>3. Cardinality(timelines) <= 2
    <3>1. /\ IsFiniteSet({processed, processed + 1})
          /\ Cardinality({processed, processed + 1}) = 2
      <4>1. IsFiniteSet({processed}) /\ Cardinality({processed}) = 1
        BY FS_Singleton
      <4>2. {processed, processed + 1} = {processed} \cup {processed + 1} /\ processed + 1 \notin {processed}
        BY <2>2
      <4> QED BY <4>1, <4>2, FS_AddElement
    <3> QED BY <2>2, <3>1, FS_Subset
  <2>4. ASSUME NEW f \in 1 .. processed
        PROVE  Picked(traceRows, RowsOf(f)) = StageRow(f) \o FileRow(f) \o DisplayRow(f)
    <3>1. f \in Nat \ {0} /\ f <= processed
      BY <2>2
    <3>2. ListOf(f) = WholeOf(f)
      BY <2>1, <3>1 DEF TraceInv, Rows, RowsFor
    <3> QED BY <3>2 DEF ListOf, WholeOf
  <2> QED BY <2>3, <2>4
<1> QED BY <1>1, <1>2, LoopStarts, LoopKeeps, TraceKeeps, PTL DEF LoopSpec

==============================================================================
