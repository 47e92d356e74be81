------------------------------ MODULE YoloDecode ------------------------------
(***************************************************************************)
(* The end of src/yolo11_detector.cpp: decode_raw visits the cells of the  *)
(* three heads and makes a candidate of those that pass its tests, and     *)
(* classwise_nms keeps the best of the candidates that mean one object.    *)
(* A box is a model value; what iou() and the ratio of the areas say of    *)
(* two boxes is given by two relations on them.                            *)
(***************************************************************************)
EXTENDS Integers, Lists, Functions

CONSTANTS
  ModelBoxes,     (* boxes of candidates                                     *)
  NoBox,          (* one that is not finite, or has no inside                *)
  TooClose(_, _), (* iou over nms_threshold                                  *)
  Alike(_, _),    (* iou >= 0.80 and areas within 0.75                       *)
  ObjectClasses,  (* class ids, a set of integers                            *)
  Confidences,    (* scores, a set of integers                               *)
  ScoreThreshold, (* confidence_threshold                                    *)
  MaxDetections,  (* 128 in the code                                         *)
  MaxCandidates   (* bound: candidates of one frame                          *)

VARIABLES
  decodePc,    (* "cells", "nms", "done"                                     *)
  candidates,
  rank,        (* order: indices of candidates, best first                   *)
  next,        (* i                                                          *)
  suppressed,  (* indices                                                    *)
  kept         (* indices, in the order of rank                              *)

decodeVars == <<decodePc, candidates, rank, next, suppressed, kept>>

DecodeAssumption ==
  /\ IsFiniteSet(ObjectClasses) /\ ObjectClasses # {}
  /\ ObjectClasses \subseteq Int /\ Confidences \subseteq Int /\ ScoreThreshold \in Int
  /\ MaxDetections \in Nat
  /\ NoBox \notin ModelBoxes
  /\ \A f, g \in ModelBoxes : /\ TooClose(f, g) = TooClose(g, f)
                            /\ Alike(f, g) = Alike(g, f)
ASSUME DecodeAssumption

DecodeInit ==
  /\ decodePc = "cells" /\ candidates = <<>> /\ rank = <<>>
  /\ next = 1 /\ suppressed = {} /\ kept = <<>>

-----------------------------------------------------------------------------
(* The first of the best classes of a cell.                                 *)
BestClass(scores) ==
  CHOOSE c \in ObjectClasses :
    \A d \in ObjectClasses : scores[d] < scores[c] \/ (scores[d] = scores[c] /\ c <= d)

(* A cell becomes a candidate; one that fails a test leaves no trace.       *)
Cell(sum, scores, box) ==
  /\ decodePc = "cells" /\ Len(candidates) < MaxCandidates
  /\ sum >= ScoreThreshold /\ scores[BestClass(scores)] >= ScoreThreshold /\ box # NoBox
  /\ candidates' = Append(candidates, [box |-> box, class |-> BestClass(scores),
                                       score |-> scores[BestClass(scores)]])
  /\ UNCHANGED <<decodePc, rank, next, suppressed, kept>>

(* std::stable_sort by score: of equal ones the first comes first.          *)
Better(i, j) ==
  \/ candidates[i].score > candidates[j].score
  \/ candidates[i].score = candidates[j].score /\ i < j

Sort ==
  /\ decodePc = "cells" /\ decodePc' = "nms"
  /\ rank' = Arranged(DOMAIN candidates, Better)
  /\ UNCHANGED <<candidates, next, suppressed, kept>>

OneObject(i, j) ==
  IF candidates[i].class = candidates[j].class
  THEN TooClose(candidates[i].box, candidates[j].box)
  ELSE Alike(candidates[i].box, candidates[j].box)

MutantIsOut(i) == FALSE  (* mutant: the mark is not looked at *)
IsOut(i) == i \in suppressed

(* One round of the outer loop.                                             *)
Round ==
  /\ decodePc = "nms" /\ next <= Len(rank)
  /\ LET i == rank[next]
     IN  IF IsOut(i)
         THEN UNCHANGED <<suppressed, kept>>
         ELSE /\ kept' = Append(kept, i)
              /\ suppressed' = suppressed \cup
                   {rank[n] : n \in {m \in next + 1 .. Len(rank) : OneObject(i, rank[m])}}
  /\ next' = next + 1
  /\ UNCHANGED <<decodePc, candidates, rank>>

(* The counts are taken, and at most MaxDetections boxes restored.          *)
Detections == SubSeq(kept, 1, IF Len(kept) < MaxDetections THEN Len(kept) ELSE MaxDetections)
SuppressedCount == Len(candidates) - Len(kept)

Finished ==
  /\ decodePc = "nms" /\ next > Len(rank)
  /\ decodePc' = "done"
  /\ UNCHANGED <<candidates, rank, next, suppressed, kept>>

NextImage ==
  /\ decodePc = "done"
  /\ decodePc' = "cells" /\ candidates' = <<>> /\ rank' = <<>>
  /\ next' = 1 /\ suppressed' = {} /\ kept' = <<>>

Cells ==
  \E sum \in Confidences, scores \in [ObjectClasses -> Confidences],
     box \in ModelBoxes \cup {NoBox} : Cell(sum, scores, box)

DecodeNext == Cells \/ Sort \/ Round \/ Finished \/ NextImage

DecodeSpec == DecodeInit /\ [][DecodeNext]_decodeVars

-----------------------------------------------------------------------------
(* The memory of a tensor: where value_index finds (channel, row, column).  *)
ValueIndex(format, shape, channel, row, column) ==
  IF format = "NCHW"
  THEN (channel * shape.height + row) * shape.width + column
  ELSE (row * shape.width + column) * shape.channels + channel

-----------------------------------------------------------------------------
(* Properties.                                                              *)

(* What survives is what the detector means by an object: a candidate is    *)
(* kept exactly if no better one that is kept stands for the same object,   *)
(* and one that was itself suppressed takes nothing with it.  The best come *)
(* first, equals in the order of the cells, and the limit cuts the worst.   *)
BestSurvive ==
  decodePc = "done" =>
    /\ \A i \in DOMAIN candidates :
         i \in Range(kept) <=> ~\E j \in Range(kept) : Better(j, i) /\ OneObject(j, i)
    /\ \A m, n \in DOMAIN kept : m < n => Better(kept[m], kept[n])
    /\ \A i \in Range(kept) \ Range(Detections) :
         Len(Detections) = MaxDetections /\ \A j \in Range(Detections) : Better(j, i)
    /\ SuppressedCount = Cardinality(suppressed)

DecodeTypeOK ==
  /\ decodePc \in {"cells", "nms", "done"}
  /\ candidates \in Seq([box : ModelBoxes, class : ObjectClasses, score : Confidences])
  /\ Range(rank) \subseteq DOMAIN candidates /\ next \in 1 .. Len(rank) + 1
  /\ suppressed \subseteq DOMAIN candidates /\ Range(kept) \subseteq DOMAIN candidates

==============================================================================
