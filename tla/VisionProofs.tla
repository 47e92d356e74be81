----------------------------- MODULE VisionProofs -----------------------------
(***************************************************************************)
(* Proofs about what happens to the detections of one image: where         *)
(* value_index finds the elements of an output tensor and which candidates *)
(* classwise_nms keeps (src/yolo11_detector.cpp), under which raw ids      *)
(* IouTracker hands them on (src/iou_tracker.cpp), when the stabilizer     *)
(* changes the class of an object (src/semantic_stabilizer.cpp), and what  *)
(* RegionMonitor then tells of the regions (src/region_monitor.cpp); for   *)
(* any shapes, boxes, overlaps, thresholds, times and number of detections.*)
(***************************************************************************)
EXTENDS YoloDecode, IouTracker, ClassFusion, RegionMonitor, ListTheorems

(* An index into rows of the same length stays below the end of its row ... *)
LEMMA InsideRows ==
  ASSUME NEW m \in Nat, NEW n \in Nat, NEW a \in 0 .. m - 1, NEW b \in 0 .. n - 1
  PROVE  a * n + b \in 0 .. m * n - 1
  <1>1. a + 1 <= m /\ a * n \in Nat /\ m * n \in Nat
    OBVIOUS
  <1>2. (a + 1) * n = a * n + n
    OBVIOUS
  <1>3. (a + 1) * n <= m * n
    BY <1>1
  <1> QED
    BY <1>1, <1>2, <1>3

(* ... so two of them are equal only if row and place are.                  *)
LEMMA RowsApart ==
  ASSUME NEW n \in Nat, NEW a \in Nat, NEW b \in 0 .. n - 1, NEW c \in Nat, NEW d \in 0 .. n - 1,
         a * n + b = c * n + d
  PROVE  a = c /\ b = d
  <1>1. ASSUME NEW u \in Nat, NEW v \in Nat, u < v  PROVE u * n + n <= v * n
    <2>1. (u + 1) * n <= v * n
      BY <1>1
    <2> QED
      BY <2>1
  <1>2. a * n \in Nat /\ c * n \in Nat
    OBVIOUS
  <1>3. ~(a < c)
    BY <1>1, <1>2
  <1>4. ~(c < a)
    BY <1>1, <1>2
  <1> QED
    BY <1>2, <1>3, <1>4

Shapes == [channels : Nat, height : Nat, width : Nat]
Size(shape) == (shape.channels * shape.height) * shape.width

(* Two elements of a tensor have one place in its memory only if they are   *)
(* the same element.                                                        *)
THEOREM ElementsApart ==
  ASSUME NEW format, NEW shape \in Shapes,
         NEW c \in 0 .. shape.channels - 1, NEW d \in 0 .. shape.channels - 1,
         NEW row \in 0 .. shape.height - 1, NEW other \in 0 .. shape.height - 1,
         NEW x \in 0 .. shape.width - 1, NEW y \in 0 .. shape.width - 1,
         ValueIndex(format, shape, c, row, x) = ValueIndex(format, shape, d, other, y)
  PROVE  c = d /\ row = other /\ x = y
  <1>0. shape.channels \in Nat /\ shape.height \in Nat /\ shape.width \in Nat
    BY DEF Shapes
  <1>1. CASE format = "NCHW"
    <2> DEFINE u == c * shape.height + row
    <2> DEFINE v == d * shape.height + other
    <2>1. u \in Nat /\ v \in Nat
      BY <1>0
    <2>2. u * shape.width + x = v * shape.width + y
      BY <1>1 DEF ValueIndex
    <2>3. u = v /\ x = y
      <3> HIDE DEF u, v
      <3> QED
        BY <1>0, <2>1, <2>2, RowsApart
    <2> QED
      BY <1>0, <2>3, RowsApart
  <1>2. CASE format # "NCHW"
    <2> DEFINE u == row * shape.width + x
    <2> DEFINE v == other * shape.width + y
    <2>1. u \in Nat /\ v \in Nat
      BY <1>0
    <2>2. u * shape.channels + c = v * shape.channels + d
      BY <1>2 DEF ValueIndex
    <2>3. u = v /\ c = d
      <3> HIDE DEF u, v
      <3> QED
        BY <1>0, <2>1, <2>2, RowsApart
    <2> QED
      BY <1>0, <2>3, RowsApart
  <1> QED
    BY <1>1, <1>2

(* No element lies behind the end of the tensor.                            *)
THEOREM ElementsInside ==
  ASSUME NEW format, NEW shape \in Shapes, NEW c \in 0 .. shape.channels - 1,
         NEW row \in 0 .. shape.height - 1, NEW x \in 0 .. shape.width - 1
  PROVE  ValueIndex(format, shape, c, row, x) \in 0 .. Size(shape) - 1
  <1>0. shape.channels \in Nat /\ shape.height \in Nat /\ shape.width \in Nat
    BY DEF Shapes
  <1>1. CASE format = "NCHW"
    <2>1. c * shape.height + row \in 0 .. (shape.channels * shape.height) - 1
      BY <1>0, InsideRows
    <2>2. shape.channels * shape.height \in Nat
      BY <1>0
    <2> QED
      BY <1>0, <1>1, <2>1, <2>2, InsideRows DEF ValueIndex, Size
  <1>2. CASE format # "NCHW"
    <2>1. row * shape.width + x \in 0 .. (shape.height * shape.width) - 1
      BY <1>0, InsideRows
    <2>2. shape.height * shape.width \in Nat
      BY <1>0
    <2>3. ValueIndex(format, shape, c, row, x)
            \in 0 .. (shape.height * shape.width) * shape.channels - 1
      BY <1>0, <1>2, <2>1, <2>2, InsideRows DEF ValueIndex
    <2>4. (shape.height * shape.width) * shape.channels = Size(shape)
      BY <1>0 DEF Size
    <2> QED
      BY <2>3, <2>4
  <1> QED
    BY <1>1, <1>2

-----------------------------------------------------------------------------
(* What classwise_nms keeps.                                                *)

Candidate == [box : ModelBoxes, class : ObjectClasses, score : Confidences]
Count == Len(candidates)

(* Sorted: every candidate once, the better before the worse.               *)
Ranked ==
  /\ rank \in [1 .. Count -> 1 .. Count]
  /\ \A m, n \in 1 .. Count : m < n => Better(rank[m], rank[n])
  /\ \A i \in 1 .. Count : \E m \in 1 .. Count : rank[m] = i

(* Of the ranks visited, those not marked are kept; and marked is, also     *)
(* beyond them, what means the same object as a better one that is kept.    *)
Visited ==
  /\ next \in 1 .. Count + 1
  /\ kept \in Seq(1 .. Count)
  /\ \A m, n \in 1 .. Len(kept) : m < n => Better(kept[m], kept[n])
  /\ \A i \in Range(kept) : \E m \in 1 .. next - 1 : rank[m] = i
  /\ \A m \in 1 .. next - 1 : rank[m] \in Range(kept) <=> rank[m] \notin suppressed
  /\ suppressed \subseteq 1 .. Count
  /\ \A m \in 1 .. Count :
       rank[m] \in suppressed <=>
         \E n \in 1 .. next - 1 : n < m /\ rank[n] \in Range(kept) /\ OneObject(rank[n], rank[m])

DecodeInv ==
  /\ decodePc \in {"cells", "nms", "done"} /\ candidates \in Seq(Candidate)
  /\ decodePc = "cells" => rank = <<>> /\ next = 1 /\ suppressed = {} /\ kept = <<>>
  /\ decodePc # "cells" => Ranked /\ Visited
  /\ decodePc = "done" => next = Count + 1

(* A cell has a best class, the first of equal ones.                        *)
LEMMA BestClassIs ==
  ASSUME NEW scores \in [ObjectClasses -> Confidences]
  PROVE  BestClass(scores) \in ObjectClasses
<1> DEFINE R == {e \in ObjectClasses \X ObjectClasses :
                   \/ scores[e[1]] < scores[e[2]]
                   \/ scores[e[1]] = scores[e[2]] /\ e[2] < e[1]}
<1>1. /\ \A c \in ObjectClasses : scores[c] \in Int /\ c \in Int
      /\ IsFiniteSet(ObjectClasses) /\ ObjectClasses # {}
  BY DecodeAssumption DEF DecodeAssumption
<1>2. \A c, d \in ObjectClasses :
        <<c, d>> \in R <=> scores[c] < scores[d] \/ (scores[c] = scores[d] /\ d < c)
  OBVIOUS
<1> HIDE DEF R
<1>3. TotalOrder(R, ObjectClasses)
  BY <1>1, <1>2 DEF TotalOrder
<1>4. PICK c \in ObjectClasses : \A d \in ObjectClasses \ {c} : <<d, c>> \in R
  BY <1>1, <1>3, LastElement
<1>5. \A d \in ObjectClasses : scores[d] < scores[c] \/ (scores[d] = scores[c] /\ c <= d)
  <2>1. SUFFICES ASSUME NEW d \in ObjectClasses
                 PROVE  scores[d] < scores[c] \/ (scores[d] = scores[c] /\ c <= d)
    OBVIOUS
  <2>2. CASE d = c
    BY <1>1, <2>2
  <2>3. CASE d # c
    <3>1. <<d, c>> \in R
      BY <1>4, <2>3
    <3>2. scores[d] < scores[c] \/ (scores[d] = scores[c] /\ c < d)
      BY <1>2, <3>1
    <3> QED BY <1>1, <3>2
  <2> QED BY <2>2, <2>3
<1> QED BY <1>5 DEF BestClass

(* Better is a total order on the candidates, so there is a rank.           *)
LEMMA BetterOrders ==
  ASSUME candidates \in Seq(Candidate)
  PROVE  /\ Count \in Nat
         /\ \A i \in 1 .. Count : ~Better(i, i)
         /\ \A i, j \in 1 .. Count : i # j => Better(i, j) \/ Better(j, i)
         /\ \A i, j, k \in 1 .. Count : Better(i, j) /\ Better(j, k) => Better(i, k)
<1>1. /\ Count \in Nat
      /\ \A i \in 1 .. Count : candidates[i].score \in Int
  <2>1. ASSUME NEW i \in 1 .. Count PROVE candidates[i] \in Candidate
    BY DEF Count
  <2>2. \A e \in Candidate : e.score \in Int
    BY DecodeAssumption DEF DecodeAssumption, Candidate
  <2> QED BY <2>1, <2>2 DEF Count
<1> QED BY <1>1 DEF Better

(* The sort ranks the candidates from the best to the worst.                *)
LEMMA SortRanks ==
  ASSUME candidates \in Seq(Candidate), Sort
  PROVE  Ranked'
<1> DEFINE R == {e \in (1 .. Count) \X (1 .. Count) : Better(e[1], e[2])}
           S == DOMAIN candidates
<1>1. /\ \A i, j \in 1 .. Count : <<i, j>> \in R <=> Better(i, j)
      /\ S = 1 .. Count /\ Count \in Nat
  BY DEF Count
<1> HIDE DEF R
<1>2. IsFiniteSet(S) /\ Cardinality(S) = Count
  BY <1>1, NumbersUpTo
<1>3. TotalOrder(R, S)
  BY <1>1, BetterOrders DEF TotalOrder
<1> HIDE DEF S
<1>4. PICK f \in [1 .. Cardinality(S) -> S] : InOrder(f, R)
  BY <1>2, <1>3, CanBeArranged
<1>5. \A i, j \in 1 .. Cardinality(S) : i < j => Better(f[i], f[j])
  BY <1>1, <1>4 DEF InOrder
<1>6. rank' = Arranged(S, Better)
  BY DEF Sort, S
<1>7. /\ rank' \in [1 .. Cardinality(S) -> S]
      /\ \A i, j \in 1 .. Cardinality(S) : i < j => Better(rank'[i], rank'[j])
  BY <1>5, <1>6 DEF Arranged
<1>8. /\ rank' \in [1 .. Count -> 1 .. Count]
      /\ \A i, j \in 1 .. Count : i < j => Better(rank'[i], rank'[j])
  BY <1>1, <1>2, <1>7
<1>9. InOrder(rank', R)
  BY <1>1, <1>8 DEF InOrder
<1>10. \A i \in 1 .. Count : \E m \in 1 .. Count : rank'[m] = i
  <2>1. \A x \in S : \E i \in 1 .. Cardinality(S) : rank'[i] = x
    <3>1. IsFiniteSet(S) /\ rank' \in [1 .. Cardinality(S) -> S]
      BY <1>2, <1>7
    <3>2. ListsAll(rank', S)
      BY <1>3, <1>9, <3>1, InOrderListsAll
    <3> QED BY <3>2 DEF ListsAll
  <2> QED BY <1>1, <1>2, <2>1
<1>11. candidates' = candidates
  BY DEF Sort
<1> QED BY <1>8, <1>10, <1>11 DEF Ranked, Count, Better

(* One round of the suppression keeps what the invariant says.              *)
LEMMA RoundKeeps ==
  ASSUME candidates \in Seq(Candidate), Ranked, Visited, Round
  PROVE  Ranked' /\ Visited'
<1> DEFINE i == rank[next]
           K == Range(kept)
           marked == {rank[n] : n \in {m \in next + 1 .. Len(rank) : OneObject(i, rank[m])}}
<1>1. /\ Count \in Nat /\ Len(rank) = Count /\ next \in 1 .. Count /\ next' = next + 1
      /\ i \in 1 .. Count /\ UNCHANGED <<candidates, rank>>
  <2>1. Count \in Nat
    BY BetterOrders
  <2>2. rank \in [1 .. Count -> 1 .. Count] /\ next \in 1 .. Count + 1
    BY DEF Ranked, Visited
  <2>3. Len(rank) = Count
    BY <2>1, <2>2
  <2>4. next <= Len(rank) /\ next' = next + 1 /\ UNCHANGED <<candidates, rank>>
    BY DEF Round
  <2>5. next \in 1 .. Count
    BY <2>1, <2>2, <2>3, <2>4
  <2> QED BY <2>1, <2>2, <2>3, <2>4, <2>5
<1>2. /\ \A m, n \in 1 .. Count : m < n => Better(rank[m], rank[n])
      /\ \A m \in 1 .. Count : rank[m] \in 1 .. Count
  BY DEF Ranked
<1>3. \A m, n \in 1 .. Count : rank[m] = rank[n] => m = n
  <2>1. ASSUME NEW m \in 1 .. Count, NEW n \in 1 .. Count, rank[m] = rank[n], m < n PROVE FALSE
    BY <1>2, <2>1, BetterOrders
  <2>2. \A m, n \in 1 .. Count : m = n \/ m < n \/ n < m
    BY <1>1
  <2> QED BY <2>1, <2>2
<1>a. Count' = Count /\ rank' = rank /\ kept' \in {kept, Append(kept, i)}
      /\ \A m, n : Better(m, n)' = Better(m, n) /\ OneObject(m, n)' = OneObject(m, n)
  BY <1>1 DEF Round, Count, Better, OneObject
<1>4. Ranked'
  BY <1>a DEF Ranked
<1>5. /\ kept \in Seq(1 .. Count) /\ \A m, n \in 1 .. Len(kept) : m < n => Better(kept[m], kept[n])
      /\ \A k \in K : \E m \in 1 .. next - 1 : rank[m] = k
      /\ \A m \in 1 .. next - 1 : rank[m] \in K <=> rank[m] \notin suppressed
      /\ suppressed \subseteq 1 .. Count
      /\ \A m \in 1 .. Count :
           rank[m] \in suppressed <=>
             \E n \in 1 .. next - 1 : n < m /\ rank[n] \in K /\ OneObject(rank[n], rank[m])
  BY DEF Visited
<1>6. i \notin K
  <2>1. SUFFICES ASSUME i \in K PROVE FALSE
    OBVIOUS
  <2>2. PICK m \in 1 .. next - 1 : rank[m] = i
    BY <1>5, <2>1
  <2>3. m \in 1 .. Count /\ m # next
    BY <1>1
  <2> QED BY <1>1, <1>3, <2>2, <2>3
<1>7. \A m \in 1 .. next : m = next \/ m \in 1 .. next - 1
  BY <1>1
<1>8. CASE i \in suppressed
  <2>1. UNCHANGED <<suppressed, kept>>
    BY <1>8 DEF Round, IsOut
  <2>2. \A k \in K : \E m \in 1 .. next' - 1 : rank'[m] = k
    <3>1. ASSUME NEW k \in K PROVE \E m \in 1 .. next : rank[m] = k
      <4>1. PICK m \in 1 .. next - 1 : rank[m] = k
        BY <1>5
      <4>2. m \in 1 .. next
        BY <1>1
      <4> QED BY <4>1, <4>2
    <3> QED BY <1>1, <3>1
  <2>3. \A m \in 1 .. next : rank[m] \in K <=> rank[m] \notin suppressed
    BY <1>5, <1>6, <1>7, <1>8
  <2>4. ASSUME NEW m \in 1 .. Count
        PROVE  (\E n \in 1 .. next : n < m /\ rank[n] \in K /\ OneObject(rank[n], rank[m]))
               <=> (\E n \in 1 .. next - 1 : n < m /\ rank[n] \in K /\ OneObject(rank[n], rank[m]))
    <3>1. \A n \in 1 .. next - 1 : n \in 1 .. next
      BY <1>1
    <3> QED BY <1>6, <1>7, <3>1
  <2>6. next' - 1 = next /\ next' \in 1 .. Count + 1 /\ kept' = kept /\ suppressed' = suppressed
        /\ rank' = rank
    BY <1>1, <2>1
  <2> HIDE DEF i
  <2>7. \A m \in 1 .. Count :
          rank[m] \in suppressed <=>
             \E n \in 1 .. next : n < m /\ rank[n] \in K /\ OneObject(rank[n], rank[m])
    BY <1>5, <2>4
  <2> QED BY <1>a, <1>4, <1>5, <2>2, <2>3, <2>6, <2>7 DEF Visited
<1>9. CASE i \notin suppressed
  <2>1. kept' = Append(kept, i) /\ suppressed' = suppressed \cup marked
    BY <1>9 DEF Round, IsOut
  <2>2. /\ Range(kept') = K \cup {i} /\ kept' \in Seq(1 .. Count) /\ Len(kept') = Len(kept) + 1
        /\ Len(kept) \in Nat /\ kept'[Len(kept) + 1] = i
        /\ \A m \in 1 .. Len(kept) : kept'[m] = kept[m] /\ kept[m] \in K
    <3>1. /\ kept' \in Seq(1 .. Count) /\ Len(kept') = Len(kept) + 1 /\ Len(kept) \in Nat
          /\ kept'[Len(kept) + 1] = i /\ DOMAIN kept' = 1 .. Len(kept) + 1
          /\ DOMAIN kept = 1 .. Len(kept) /\ \A m \in 1 .. Len(kept) : kept'[m] = kept[m]
      BY <1>1, <1>5, <2>1
    <3>2. 1 .. Len(kept) + 1 = (1 .. Len(kept)) \cup {Len(kept) + 1}
      BY <3>1
    <3> HIDE DEF i
    <3>3. Range(kept') = K \cup {i}
      BY <3>1, <3>2 DEF Range
    <3>4. \A m \in 1 .. Len(kept) : kept[m] \in K
      BY <3>1 DEF Range
    <3> QED BY <3>1, <3>3, <3>4
  <2>3. ASSUME NEW k \in K PROVE Better(k, i)
    <3>1. PICK m \in 1 .. next - 1 : rank[m] = k
      BY <1>5
    <3>2. m \in 1 .. Count /\ m < next
      BY <1>1
    <3> QED BY <1>1, <1>2, <3>1, <3>2
  <2>4. \A m, n \in 1 .. Len(kept') : m < n => Better(kept'[m], kept'[n])
    <3>1. SUFFICES ASSUME NEW m \in 1 .. Len(kept) + 1, NEW n \in 1 .. Len(kept) + 1, m < n
                   PROVE  Better(kept'[m], kept'[n])
      BY <2>2
    <3>2. m \in 1 .. Len(kept)
      BY <2>2, <3>1
    <3>3. CASE n = Len(kept) + 1
      BY <2>2, <2>3, <3>2, <3>3
    <3>4. CASE n # Len(kept) + 1
      <4>1. n \in 1 .. Len(kept)
        BY <2>2, <3>4
      <4> QED BY <1>5, <2>2, <3>1, <3>2, <4>1
    <3> QED BY <3>3, <3>4
  <2>5. \A k \in K \cup {i} : \E m \in 1 .. next : rank[m] = k
    <3>1. ASSUME NEW k \in K PROVE \E m \in 1 .. next : rank[m] = k
      <4>1. PICK m \in 1 .. next - 1 : rank[m] = k
        BY <1>5
      <4>2. m \in 1 .. next
        BY <1>1
      <4> QED BY <4>1, <4>2
    <3>2. next \in 1 .. next
      BY <1>1
    <3> QED BY <3>1, <3>2
  <2>6. \A m \in 1 .. Count : rank[m] \in marked <=> next < m /\ OneObject(i, rank[m])
    <3>1. ASSUME NEW m \in 1 .. Count, rank[m] \in marked PROVE next < m /\ OneObject(i, rank[m])
      <4>1. PICK n \in next + 1 .. Count : OneObject(i, rank[n]) /\ rank[n] = rank[m]
        BY <1>1, <3>1
      <4>2. n \in 1 .. Count /\ next < n
        BY <1>1
      <4>3. n = m
        BY <1>3, <4>1, <4>2
      <4> QED BY <4>1, <4>2, <4>3
    <3>2. ASSUME NEW m \in 1 .. Count, next < m, OneObject(i, rank[m]) PROVE rank[m] \in marked
      <4>1. m \in next + 1 .. Len(rank)
        BY <1>1, <3>2
      <4> QED BY <3>2, <4>1
    <3> QED BY <3>1, <3>2
  <2>7. marked \subseteq 1 .. Count
    <3>1. ASSUME NEW n \in next + 1 .. Len(rank) PROVE rank[n] \in 1 .. Count
      <4>1. n \in 1 .. Count
        BY <1>1
      <4> QED BY <1>2, <4>1
    <3> QED BY <3>1
  <2> HIDE DEF marked
  <2>8. ASSUME NEW m \in 1 .. next
        PROVE  rank[m] \in K \cup {i} <=> rank[m] \notin suppressed \cup marked
    <3>1. m \in 1 .. Count /\ ~(next < m)
      BY <1>1
    <3>2. rank[m] \notin marked
      BY <2>6, <3>1
    <3>3. rank[m] = i => m = next
      BY <1>1, <1>3, <3>1
    <3> QED BY <1>5, <1>7, <1>9, <3>2, <3>3
  <2>9. ASSUME NEW m \in 1 .. Count
        PROVE  rank[m] \in suppressed \cup marked <=>
                 \E n \in 1 .. next : n < m /\ rank[n] \in K \cup {i} /\ OneObject(rank[n], rank[m])
    <3>1. \A n \in 1 .. next - 1 : n \in 1 .. next /\ rank[n] # i
      <4>1. \A n \in 1 .. next - 1 : n \in 1 .. next /\ n \in 1 .. Count /\ n # next
        BY <1>1
      <4> QED BY <1>1, <1>3, <4>1
    <3>2. next \in 1 .. next /\ rank[next] = i
      BY <1>1
    <3>3. rank[m] \in suppressed <=>
            \E n \in 1 .. next - 1 : n < m /\ rank[n] \in K /\ OneObject(rank[n], rank[m])
      BY <1>5
    <3>4. rank[m] \in marked <=> next < m /\ OneObject(rank[next], rank[m])
      BY <2>6
    <3> HIDE DEF i
    <3> QED BY <1>6, <1>7, <3>1, <3>2, <3>3, <3>4
  <2>11. next' - 1 = next /\ next' \in 1 .. Count + 1 /\ rank' = rank
    BY <1>1
  <2> HIDE DEF i, K
  <2>12. suppressed' \subseteq 1 .. Count
    BY <1>5, <2>1, <2>7
  <2>13. \A k \in Range(kept') : \E m \in 1 .. next' - 1 : rank'[m] = k
    BY <2>2, <2>5, <2>11
  <2>14. \A m \in 1 .. next' - 1 : rank'[m] \in Range(kept') <=> rank'[m] \notin suppressed'
    BY <2>1, <2>2, <2>8, <2>11
  <2>15. \A m \in 1 .. Count :
           rank'[m] \in suppressed' <=>
             \E n \in 1 .. next' - 1 :
               n < m /\ rank'[n] \in Range(kept') /\ OneObject(rank'[n], rank'[m])
    BY <2>1, <2>2, <2>9, <2>11
  <2>16. kept' \in Seq(1 .. Count) /\ next' \in 1 .. Count + 1
    BY <2>2, <2>11
  <2> QED BY <1>a, <1>4, <2>4, <2>12, <2>13, <2>14, <2>15, <2>16 DEF Visited
<1> QED BY <1>4, <1>8, <1>9

(* Every step of the decoding keeps the invariant.                          *)
LEMMA DecodeKeeps == DecodeInv /\ [DecodeNext]_decodeVars => DecodeInv'
<1> SUFFICES ASSUME DecodeInv, [DecodeNext]_decodeVars PROVE DecodeInv'
  OBVIOUS
<1>0. /\ decodePc \in {"cells", "nms", "done"} /\ candidates \in Seq(Candidate)
      /\ decodePc = "cells" => rank = <<>> /\ next = 1 /\ suppressed = {} /\ kept = <<>>
      /\ decodePc # "cells" => Ranked /\ Visited
      /\ decodePc = "done" => next = Count + 1
  BY DEF DecodeInv
<1>1. CASE Cells
  <2>1. PICK sum \in Confidences, scores \in [ObjectClasses -> Confidences],
             box \in ModelBoxes \cup {NoBox} : Cell(sum, scores, box)
    BY <1>1 DEF Cells
  <2> DEFINE best == BestClass(scores)
             new == [box |-> box, class |-> best, score |-> scores[best]]
  <2>2. best \in ObjectClasses
    BY BestClassIs
  <2>3. new \in Candidate
    BY <2>1, <2>2 DEF Cell, Candidate
  <2>4. /\ candidates' = Append(candidates, new) /\ decodePc = "cells"
        /\ UNCHANGED <<decodePc, rank, next, suppressed, kept>>
    BY <2>1 DEF Cell
  <2> HIDE DEF new
  <2>5. candidates' \in Seq(Candidate)
    BY <1>0, <2>3, <2>4
  <2> QED BY <1>0, <2>4, <2>5 DEF DecodeInv
<1>2. CASE Sort
  <2>1. Ranked'
    BY <1>0, <1>2, SortRanks
  <2>2. /\ next' = 1 /\ suppressed' = {} /\ kept' = <<>> /\ candidates' = candidates
        /\ decodePc' = "nms" /\ Count' = Count /\ Count \in Nat
    BY <1>0, <1>2, BetterOrders DEF Sort, Count
  <2>3. Range(<<>>) = {} /\ 1 .. 1 - 1 = {}
    BY DEF Range
  <2>4. Visited'
    BY <2>2, <2>3 DEF Visited
  <2> QED BY <1>0, <2>1, <2>2, <2>4 DEF DecodeInv
<1>3. CASE Round
  <2>1. decodePc = "nms" /\ decodePc' = "nms" /\ candidates' = candidates
    BY <1>3 DEF Round
  <2> QED BY <1>0, <1>3, <2>1, RoundKeeps DEF DecodeInv
<1>4. CASE Finished
  <2>1. /\ decodePc = "nms" /\ decodePc' = "done"
        /\ UNCHANGED <<candidates, rank, next, suppressed, kept>> /\ next > Len(rank)
    BY <1>4 DEF Finished
  <2>2. next = Count + 1
    <3>1. rank \in [1 .. Count -> 1 .. Count] /\ next \in 1 .. Count + 1 /\ Count \in Nat
      BY <1>0, <2>1, BetterOrders DEF Ranked, Visited
    <3>2. Len(rank) = Count
      BY <3>1
    <3> QED BY <2>1, <3>1, <3>2
  <2> QED BY <1>0, <2>1, <2>2 DEF DecodeInv, Ranked, Visited, Count, Better, OneObject
<1>5. CASE NextImage
  <2>1. <<>> \in Seq(Candidate)
    OBVIOUS
  <2> QED BY <1>5, <2>1 DEF NextImage, DecodeInv
<1>6. CASE UNCHANGED decodeVars
  <2>1. UNCHANGED <<decodePc, candidates, rank, next, suppressed, kept>>
    BY <1>6 DEF decodeVars
  <2>2. Ranked' = Ranked /\ Visited' = Visited /\ Count' = Count
    BY <2>1 DEF Ranked, Visited, Count, Better, OneObject
  <2> QED BY <1>0, <2>1, <2>2 DEF DecodeInv
<1> QED BY <1>1, <1>2, <1>3, <1>4, <1>5, <1>6 DEF DecodeNext

(* When it is done, those that are left are the best.                       *)
LEMMA SurvivorsAreBest ==
  ASSUME DecodeInv, decodePc = "done"
  PROVE  /\ \A i \in DOMAIN candidates :
              i \in Range(kept) <=> ~\E j \in Range(kept) : Better(j, i) /\ OneObject(j, i)
         /\ Range(kept) = (1 .. Count) \ suppressed
<1> DEFINE K == Range(kept)
<1>1. /\ candidates \in Seq(Candidate) /\ Ranked /\ Visited /\ next = Count + 1
      /\ Count \in Nat /\ DOMAIN candidates = 1 .. Count
  BY BetterOrders DEF DecodeInv, Count
<1>2. /\ \A k \in K : k \in 1 .. Count
      /\ \A m \in 1 .. Count : rank[m] \in K <=> rank[m] \notin suppressed
      /\ \A m \in 1 .. Count :
           rank[m] \in suppressed <=>
             \E n \in 1 .. Count : n < m /\ rank[n] \in K /\ OneObject(rank[n], rank[m])
  <2>1. next - 1 = Count
    BY <1>1
  <2>2. \A k \in K : k \in 1 .. Count
    BY <1>1, <2>1 DEF Visited, Ranked
  <2> QED BY <1>1, <2>1, <2>2 DEF Visited
<1>3. /\ \A m, n \in 1 .. Count : m < n => Better(rank[m], rank[n])
      /\ \A m \in 1 .. Count : rank[m] \in 1 .. Count
      /\ \A i \in 1 .. Count : \E m \in 1 .. Count : rank[m] = i
  BY <1>1 DEF Ranked
<1>4. \A m, n \in 1 .. Count : Better(rank[n], rank[m]) => n < m
  <2>1. ASSUME NEW m \in 1 .. Count, NEW n \in 1 .. Count, Better(rank[n], rank[m]), ~(n < m)
        PROVE  FALSE
    <3>1. m = n \/ m < n
      BY <1>1, <2>1
    <3>2. m # n
      BY <1>1, <1>3, <2>1, BetterOrders
    <3>3. Better(rank[m], rank[n])
      BY <1>3, <3>1, <3>2
    <3> QED BY <1>1, <1>3, <2>1, <3>3, BetterOrders
  <2> QED BY <2>1
<1> HIDE DEF K
<1>5. ASSUME NEW i \in 1 .. Count
      PROVE  i \in K <=> ~\E j \in K : Better(j, i) /\ OneObject(j, i)
  <2>1. PICK m \in 1 .. Count : rank[m] = i
    BY <1>3
  <2>2. ASSUME NEW j \in K, Better(j, i), OneObject(j, i) PROVE i \in suppressed
    <3>1. PICK n \in 1 .. Count : rank[n] = j
      BY <1>2, <1>3
    <3>2. n < m
      BY <1>4, <2>1, <2>2, <3>1
    <3> QED BY <1>2, <2>1, <2>2, <3>1, <3>2
  <2>3. ASSUME i \in suppressed PROVE \E j \in K : Better(j, i) /\ OneObject(j, i)
    <3>1. PICK n \in 1 .. Count : n < m /\ rank[n] \in K /\ OneObject(rank[n], rank[m])
      BY <1>2, <2>1, <2>3
    <3> QED BY <1>3, <2>1, <3>1
  <2>4. i \in K <=> i \notin suppressed
    BY <1>2, <2>1
  <2> QED BY <2>2, <2>3, <2>4
<1>6. ASSUME NEW i \in 1 .. Count PROVE i \in K <=> i \notin suppressed
  <2>1. PICK m \in 1 .. Count : rank[m] = i
    BY <1>3
  <2> QED BY <1>2, <2>1
<1>7. K = (1 .. Count) \ suppressed
  BY <1>2, <1>6
<1> QED BY <1>1, <1>5, <1>7 DEF K

(* classwise_nms keeps exactly what no better kept one stands for, the best *)
(* first, and counts the others, for any number of candidates and whatever  *)
(* the boxes and scores are.                                                *)
THEOREM SurvivorsBest == DecodeSpec => []BestSurvive
<1>1. DecodeInit => DecodeInv
  BY DEF DecodeInit, DecodeInv
<1>2. DecodeInv => BestSurvive
  <2> SUFFICES ASSUME DecodeInv, decodePc = "done"
               PROVE  /\ \A i \in DOMAIN candidates :
                           i \in Range(kept) <=>
                             ~\E j \in Range(kept) : Better(j, i) /\ OneObject(j, i)
                      /\ \A m, n \in DOMAIN kept : m < n => Better(kept[m], kept[n])
                      /\ \A i \in Range(kept) \ Range(Detections) :
                           /\ Len(Detections) = MaxDetections
                           /\ \A j \in Range(Detections) : Better(j, i)
                      /\ SuppressedCount = Cardinality(suppressed)
    BY DEF BestSurvive
  <2> DEFINE L == Len(kept)
             cut == IF L < MaxDetections THEN L ELSE MaxDetections
  <2>1. /\ kept \in Seq(1 .. Count) /\ L \in Nat /\ DOMAIN kept = 1 .. L
        /\ \A m, n \in 1 .. L : m < n => Better(kept[m], kept[n])
        /\ candidates \in Seq(Candidate) /\ Count \in Nat /\ suppressed \subseteq 1 .. Count
        /\ MaxDetections \in Nat
    <3>1. kept \in Seq(1 .. Count) /\ candidates \in Seq(Candidate)
      BY DEF DecodeInv, Visited
    <3> QED BY <3>1, BetterOrders, DecodeAssumption DEF DecodeInv, Visited, DecodeAssumption
  <2>2. cut \in 0 .. L /\ (cut < L => cut = MaxDetections)
    <3> HIDE DEF L
    <3> QED BY <2>1
  <2>3. /\ Detections \in Seq(1 .. Count) /\ Len(Detections) = cut
        /\ DOMAIN Detections = 1 .. cut
        /\ \A m \in 1 .. cut : Detections[m] = kept[m]
    <3>1. Detections = SubSeq(kept, 1, cut)
      BY DEF Detections
    <3> HIDE DEF cut
    <3> QED BY <2>1, <2>2, <3>1
  <2> HIDE DEF cut
  <2>4. ASSUME NEW i \in Range(kept) \ Range(Detections)
        PROVE  Len(Detections) = MaxDetections /\ \A j \in Range(Detections) : Better(j, i)
    <3>1. PICK n \in 1 .. L : kept[n] = i
      BY <2>1 DEF Range
    <3>2. ~(n \in 1 .. cut)
      BY <2>3, <3>1 DEF Range
    <3>3. cut < n /\ cut = MaxDetections
      BY <2>1, <2>2, <3>2
    <3>4. ASSUME NEW j \in Range(Detections) PROVE Better(j, i)
      <4>1. PICK m \in 1 .. cut : Detections[m] = j
        BY <2>3 DEF Range
      <4>2. m \in 1 .. L /\ m < n /\ kept[m] = j
        BY <2>1, <2>2, <2>3, <3>3, <4>1
      <4> QED BY <2>1, <3>1, <4>2
    <3> QED BY <2>3, <3>3, <3>4
  <2>5. SuppressedCount = Cardinality(suppressed)
    <3>1. Cardinality(Range(kept)) = L
      <4>1. kept \in [1 .. L -> Range(kept)] /\ \A i \in Range(kept) : \E m \in 1 .. L : kept[m] = i
        BY <2>1 DEF Range
      <4>2. ASSUME NEW m \in 1 .. L, NEW n \in 1 .. L, kept[m] = kept[n], m < n PROVE FALSE
        BY <2>1, <4>2, BetterOrders
      <4>3. \A m, n \in 1 .. L : m = n \/ m < n \/ n < m
        BY <2>1
      <4>4. kept \in Injection(1 .. L, Range(kept)) /\ kept \in Surjection(1 .. L, Range(kept))
        BY <4>1, <4>2, <4>3 DEF Injection, IsInjective, Surjection
      <4>5. IsFiniteSet(1 .. L) /\ Cardinality(1 .. L) = L
        <5> HIDE DEF L
        <5> QED BY <2>1, NumbersUpTo
      <4> QED BY <4>4, <4>5, FS_Surjection
    <3>2. IsFiniteSet(1 .. Count) /\ Cardinality(1 .. Count) = Count
      BY <2>1, NumbersUpTo
    <3>3. Range(kept) = (1 .. Count) \ suppressed /\ (1 .. Count) \cap suppressed = suppressed
      BY <2>1, SurvivorsAreBest
    <3>4. L = Count - Cardinality(suppressed)
      BY <3>1, <3>2, <3>3, FS_Difference
    <3>5. Cardinality(suppressed) \in Nat
      BY <2>1, <3>2, FS_Subset, FS_CardinalityType
    <3> HIDE DEF L
    <3>6. Count - L = Cardinality(suppressed)
      BY <2>1, <3>4, <3>5
    <3> QED BY <3>6 DEF SuppressedCount, Count, L
  <2> QED BY <2>1, <2>4, <2>5, SurvivorsAreBest
<1> QED BY <1>1, <1>2, DecodeKeeps, PTL DEF DecodeSpec

-----------------------------------------------------------------------------
(* The raw ids.                                                             *)

(* The number of members below a given one grows with the member and stays  *)
(* below the size of the set: the ids given to the fresh detections differ. *)
LEMMA RankGrows ==
  ASSUME NEW S, IsFiniteSet(S), S \subseteq Nat, NEW k \in S
  PROVE  LET Below(m) == {l \in S : l < m}
         IN  /\ Cardinality(Below(k)) \in Nat /\ Cardinality(Below(k)) < Cardinality(S)
             /\ \A m \in S : k < m => Cardinality(Below(k)) < Cardinality(Below(m))
<1> DEFINE Below(m) == {l \in S : l < m}
<1>1. IsFiniteSet(Below(k)) /\ Cardinality(Below(k)) \in Nat
  BY FS_Subset, FS_CardinalityType
<1>2. IsFiniteSet(Below(k) \cup {k})
      /\ Cardinality(Below(k) \cup {k}) = Cardinality(Below(k)) + 1
  <2>1. k \notin Below(k)
    OBVIOUS
  <2> HIDE DEF Below
  <2> QED BY <1>1, <2>1, FS_AddElement
<1>3. Cardinality(Below(k)) < Cardinality(S)
  <2>1. Below(k) \cup {k} \subseteq S
    OBVIOUS
  <2>2. Cardinality(Below(k) \cup {k}) <= Cardinality(S) /\ Cardinality(S) \in Nat
    BY <2>1, FS_Subset, FS_CardinalityType
  <2> QED BY <1>1, <1>2, <2>2
<1>4. ASSUME NEW m \in S, k < m PROVE Cardinality(Below(k)) < Cardinality(Below(m))
  <2>0. k \in Nat /\ m \in Nat /\ \A l \in S : l \in Nat
    OBVIOUS
  <2>1. Below(k) \cup {k} \subseteq Below(m)
    <3>1. k \in Below(m)
      BY <1>4
    <3>2. ASSUME NEW l \in Below(k) PROVE l \in Below(m)
      <4>1. l \in S /\ l < k /\ l \in Nat
        BY <2>0, <3>2
      <4> QED BY <1>4, <2>0, <4>1
    <3> QED BY <3>1, <3>2
  <2>2. IsFiniteSet(Below(m)) /\ Cardinality(Below(m)) \in Nat
    BY FS_Subset, FS_CardinalityType
  <2>3. Cardinality(Below(k) \cup {k}) <= Cardinality(Below(m))
    BY <2>1, <2>2, FS_Subset
  <2> QED BY <1>1, <1>2, <2>2, <2>3
<1> QED BY <1>1, <1>3, <1>4

(* The fresh detections among the n of an image have ranks of their own.    *)
LEMMA FreshRanks ==
  ASSUME NEW n \in Nat, NEW fresh \in SUBSET (1 .. n)
  PROVE  LET Rank(k) == Cardinality({l \in fresh : l < k})
         IN  /\ IsFiniteSet(fresh) /\ fresh \subseteq Nat /\ Cardinality(fresh) \in Nat
             /\ \A k \in fresh : Rank(k) \in Nat /\ Rank(k) < Cardinality(fresh)
             /\ \A k, l \in fresh : k # l => Rank(k) # Rank(l)
<1> DEFINE Rank(k) == Cardinality({l \in fresh : l < k})
<1>1. IsFiniteSet(fresh) /\ fresh \subseteq Nat /\ Cardinality(fresh) \in Nat
  <2>1. IsFiniteSet(fresh)
    BY NumbersUpTo, FS_Subset
  <2>2. fresh \subseteq Nat
    OBVIOUS
  <2> QED BY <2>1, <2>2, FS_CardinalityType
<1>2. /\ \A k \in fresh : Rank(k) \in Nat /\ Rank(k) < Cardinality(fresh)
      /\ \A k, l \in fresh : k < l => Rank(k) < Rank(l)
  BY <1>1, RankGrows
<1>3. \A k, l \in fresh : k # l => k < l \/ l < k
  BY <1>1
<1> HIDE DEF Rank
<1>4. \A k, l \in fresh : k # l => Rank(k) # Rank(l)
  BY <1>2, <1>3
<1> QED BY <1>1, <1>2, <1>4 DEF Rank

(* Every track has its type and an id of its own.                           *)
IdsInv == TrackerTypeOK /\ RawIdsDistinct

(* update() keeps it: a track that goes on keeps its id, and the new tracks *)
(* have ids from next_id_ on.                                               *)
LEMMA UpdateKeepsIds ==
  ASSUME IdsInv, NEW dets \in TrackerInputs, TrackerUpdate(dets)
  PROVE  IdsInv'
<1>1. PICK n \in Nat : dets \in [1 .. n -> DetectedBox]
  BY TrackerAssumption DEF TrackerInputs
<1>2. DOMAIN dets = 1 .. n /\ Len(dets) = n
  BY <1>1
<1>3. PICK a \in Matchings(dets) :
        LET fresh == {k \in DOMAIN dets : \A t \in tracks : a[t] # k}
            hit   == {t \in tracks : a[t] # 0}
        IN  /\ tracks' = {Hit(t, dets[a[t]]) : t \in hit}
                         \cup {[t EXCEPT !.missed = @ + 1] : t \in {s \in tracks \ hit : Survives(s)}}
                         \cup {New(dets[k], FreshId(fresh, k)) : k \in fresh}
            /\ nextRawId' = nextRawId + Cardinality(fresh)
  BY DEF TrackerUpdate
<1> DEFINE fresh == {k \in DOMAIN dets : \A t \in tracks : a[t] # k}
           hit   == {t \in tracks : a[t] # 0}
           Rank(k) == Cardinality({l \in fresh : l < k})
           Old(u, t) == /\ u = IF t \in hit THEN Hit(t, dets[a[t]])
                               ELSE [t EXCEPT !.missed = @ + 1]
                        /\ t \in hit \/ Survives(t)
<1>4. /\ IsFiniteSet(fresh) /\ fresh \subseteq Nat /\ Cardinality(fresh) \in Nat
      /\ \A k \in fresh : Rank(k) \in Nat /\ Rank(k) < Cardinality(fresh)
      /\ \A k, l \in fresh : k # l => Rank(k) # Rank(l)
  <2>1. fresh \in SUBSET (1 .. n)
    BY <1>2
  <2> HIDE DEF fresh
  <2> QED BY <2>1, FreshRanks
<1>5. \A k \in fresh : Rank(k) \in Nat /\ Rank(k) < Cardinality(fresh)
  BY <1>4
<1>6. \A k, l \in fresh : k # l => Rank(k) # Rank(l)
  BY <1>4
<1>7. nextRawId \in Nat /\ \A t \in tracks : t \in Track /\ t.id < nextRawId
  BY DEF IdsInv, TrackerTypeOK
<1>8. \A u \in tracks' : \/ \E t \in tracks : Old(u, t)
                         \/ \E k \in fresh : u = New(dets[k], nextRawId + Rank(k))
  BY <1>3 DEF FreshId
<1>9. ASSUME NEW u, NEW t \in tracks, Old(u, t)
      PROVE  u \in Track /\ u.id = t.id
  <2>1. CASE t \in hit
    <3>1. a[t] \in 1 .. n
      BY <1>2, <2>1 DEF Matchings
    <3>2. dets[a[t]] \in DetectedBox
      BY <1>1, <3>1
    <3> QED BY <1>7, <1>9, <2>1, <3>2, TrackerAssumption DEF Hit, Track, DetectedBox
  <2>2. CASE t \notin hit
    <3>1. u = [t EXCEPT !.missed = @ + 1] /\ t.missed < MaxMissed /\ t \in Track
      BY <1>7, <1>9, <2>2 DEF Survives
    <3>2. t.missed + 1 \in 0 .. MaxMissed
      BY <3>1, TrackerAssumption DEF Track
    <3> QED BY <3>1, <3>2 DEF Track
  <2> QED BY <2>1, <2>2
<1>10. ASSUME NEW u, NEW k \in fresh, u = New(dets[k], nextRawId + Rank(k))
       PROVE  u \in Track /\ u.id = nextRawId + Rank(k)
  <2>1. dets[k] \in DetectedBox
    BY <1>1, <1>2
  <2> HIDE DEF Rank, fresh
  <2>2. nextRawId + Rank(k) \in Nat
    BY <1>5, <1>7
  <2> QED BY <1>10, <2>1, <2>2, TrackerAssumption DEF New, Track, DetectedBox
<1>11. nextRawId' = nextRawId + Cardinality(fresh)
  BY <1>3
<1> HIDE DEF fresh, hit, Rank, Old
<1>12. TrackerTypeOK'
  <2>1. nextRawId' \in Nat /\ nextRawId' >= nextRawId
    BY <1>4, <1>7, <1>11
  <2>2. ASSUME NEW u \in tracks' PROVE u \in Track /\ u.id < nextRawId'
    <3>1. CASE \E t \in tracks : Old(u, t)
      <4>1. PICK t \in tracks : Old(u, t)
        BY <3>1
      <4>2. u \in Track /\ u.id = t.id /\ t.id < nextRawId /\ t.id \in Nat
        BY <4>1, <1>7, <1>9 DEF Track
      <4> QED BY <4>2, <2>1, <1>7
    <3>2. CASE \E k \in fresh : u = New(dets[k], nextRawId + Rank(k))
      BY <3>2, <1>4, <1>5, <1>7, <1>10, <1>11
    <3> QED BY <1>8, <3>1, <3>2
  <2> QED BY <2>1, <2>2 DEF TrackerTypeOK
<1>13. RawIdsDistinct'
  <2> SUFFICES ASSUME NEW u \in tracks', NEW v \in tracks', u.id = v.id PROVE u = v
    BY DEF RawIdsDistinct
  <2>1. ASSUME NEW t \in tracks, Old(u, t), NEW s \in tracks, Old(v, s) PROVE u = v
    <3>1. t.id = s.id
      BY <1>9, <2>1
    <3>2. t = s
      BY <3>1 DEF IdsInv, RawIdsDistinct
    <3> QED BY <2>1, <3>2 DEF Old
  <2>2. ASSUME NEW k \in fresh, u = New(dets[k], nextRawId + Rank(k)),
               NEW l \in fresh, v = New(dets[l], nextRawId + Rank(l))
        PROVE  u = v
    <3>1. Rank(k) = Rank(l)
      BY <1>5, <1>7, <1>10, <2>2
    <3> QED BY <1>6, <2>2, <3>1
  <2>3. ASSUME NEW w, NEW x, w.id = x.id, NEW t \in tracks, Old(w, t),
               NEW k \in fresh, x = New(dets[k], nextRawId + Rank(k))
        PROVE  FALSE
    <3>1. w.id = t.id /\ t.id < nextRawId /\ t.id \in Nat
      BY <1>7, <1>9, <2>3 DEF Track
    <3>2. x.id = nextRawId + Rank(k) /\ Rank(k) \in Nat
      BY <1>5, <1>10, <2>3
    <3> QED BY <1>7, <2>3, <3>1, <3>2
  <2> QED BY <1>8, <2>1, <2>2, <2>3
<1> QED BY <1>12, <1>13 DEF IdsInv

(* The ids are the invariant of the tracker.                                *)
LEMMA IdsHold == TrackerSpec => []IdsInv
<1>1. TrackerInit => IdsInv
  BY DEF TrackerInit, IdsInv, TrackerTypeOK, RawIdsDistinct
<1>2. IdsInv /\ [TrackerNext]_trackerVars => IdsInv'
  <2>1. ASSUME IdsInv, NEW dets \in TrackerInputs, TrackerUpdate(dets) PROVE IdsInv'
    BY <2>1, UpdateKeepsIds
  <2>2. ASSUME TrackerReset PROVE IdsInv'
    BY <2>2 DEF TrackerReset, IdsInv, TrackerTypeOK, RawIdsDistinct
  <2>3. ASSUME IdsInv, UNCHANGED trackerVars PROVE IdsInv'
    BY <2>3 DEF trackerVars, IdsInv, TrackerTypeOK, RawIdsDistinct
  <2> QED BY <2>1, <2>2, <2>3 DEF TrackerNext
<1> QED BY <1>1, <1>2, PTL DEF TrackerSpec

(* A raw id is carried by one track at most, however the boxes overlap and  *)
(* whichever tracks are dropped (IouTracker::update).                       *)
THEOREM RawIdsAreUnique == TrackerSpec => []RawIdsDistinct
<1>1. IdsInv => RawIdsDistinct
  BY DEF IdsInv
<1> QED BY <1>1, IdsHold, PTL

(* What update() returns: one track per detection, as it was detected, and  *)
(* each that has an old id is of the class of the track that had it.        *)
LEMMA OutputIsInput ==
  ASSUME IdsInv, NEW dets \in TrackerInputs, TrackerUpdate(dets)
  PROVE  /\ \A d \in DetectedBox :
              Cardinality({t \in Output' : t.box = d.box /\ t.class = d.class})
                = Cardinality({k \in DOMAIN input' : input'[k] = d})
         /\ \A u \in tracks' : u.id < nextRawId =>
              \E t \in tracks : t.id = u.id /\ t.class = u.class
<1>1. PICK n \in Nat : dets \in [1 .. n -> DetectedBox]
  BY TrackerAssumption DEF TrackerInputs
<1>2. DOMAIN dets = 1 .. n /\ Len(dets) = n
  BY <1>1
<1>3. PICK a \in Matchings(dets) :
        LET fresh == {k \in DOMAIN dets : \A t \in tracks : a[t] # k}
            hit   == {t \in tracks : a[t] # 0}
        IN  /\ tracks' = {Hit(t, dets[a[t]]) : t \in hit}
                         \cup {[t EXCEPT !.missed = @ + 1] : t \in {s \in tracks \ hit : Survives(s)}}
                         \cup {New(dets[k], FreshId(fresh, k)) : k \in fresh}
            /\ input' = dets
  BY DEF TrackerUpdate
<1> DEFINE fresh == {k \in DOMAIN dets : \A t \in tracks : a[t] # k}
           hit   == {t \in tracks : a[t] # 0}
<1>4. /\ nextRawId \in Nat
      /\ \A t \in tracks : t \in Track /\ t.id \in Nat /\ t.id < nextRawId /\ t.missed \in Nat
  BY TrackerAssumption DEF IdsInv, TrackerTypeOK, Track
<1>5. /\ \A k \in fresh : FreshId(fresh, k) >= nextRawId
      /\ \A k, l \in fresh : FreshId(fresh, k) = FreshId(fresh, l) => k = l
  <2>1. fresh \in SUBSET (1 .. n)
    BY <1>2
  <2> HIDE DEF fresh
  <2> DEFINE Rank(k) == Cardinality({l \in fresh : l < k})
  <2>2. /\ \A k \in fresh : Rank(k) \in Nat
        /\ \A k, l \in fresh : k # l => Rank(k) # Rank(l)
    BY <2>1, FreshRanks
  <2>3. \A k \in fresh : FreshId(fresh, k) = nextRawId + Rank(k)
    BY DEF FreshId
  <2> HIDE DEF Rank
  <2>4. \A k \in fresh : nextRawId + Rank(k) >= nextRawId
    BY <1>4, <2>2
  <2>5. \A k, l \in fresh : nextRawId + Rank(k) = nextRawId + Rank(l) => Rank(k) = Rank(l)
    BY <1>4, <2>2
  <2> QED BY <2>2, <2>3, <2>4, <2>5
(* A detection is taken by one track at most, of its own class.             *)
<1>6. \A t \in hit : a[t] \in 1 .. n /\ a[t] \in Open(a, t, dets)
  <2>1. a \in [tracks -> 0 .. n] /\ \A t \in tracks : Chooses(a, t, dets)
    BY <1>2 DEF Matchings
  <2>2. \A t \in tracks : a[t] # 0 => a[t] \in Open(a, t, dets)
    BY <2>1, Zenon DEF Chooses
  <2> QED BY <1>2, <2>1, <2>2
<1>7. \A t \in hit : t \in tracks /\ Matches(t, dets[a[t]])
  BY <1>6 DEF Open
<1>8. \A s, t \in hit : a[s] = a[t] => s = t
  <2>1. ASSUME NEW s \in hit, NEW t \in hit, s.id < t.id PROVE a[s] # a[t]
    BY <1>6, <2>1 DEF Open
  <2>2. \A s, t \in hit : s.id < t.id \/ t.id < s.id \/ s = t
    BY <1>4 DEF IdsInv, RawIdsDistinct
  <2> QED BY <2>1, <2>2
<1> DEFINE Taken(k, u) == \/ \E t \in hit : a[t] = k /\ u = Hit(t, dets[k])
                          \/ k \in fresh /\ u = New(dets[k], FreshId(fresh, k))
<1>9. \A k \in 1 .. n : \E u \in tracks' : Taken(k, u)
  <2>1. SUFFICES ASSUME NEW k \in 1 .. n PROVE \E u \in tracks' : Taken(k, u)
    OBVIOUS
  <2>2. CASE k \in fresh
    BY <1>3, <2>2
  <2>3. CASE k \notin fresh
    <3>1. PICK t \in tracks : a[t] = k
      BY <1>2, <2>3
    <3>2. t \in hit
      BY <3>1
    <3>3. Hit(t, dets[k]) \in tracks'
      BY <1>3, <3>1, <3>2
    <3> QED BY <3>1, <3>2, <3>3
  <2> QED BY <2>2, <2>3
<1>10. \A u \in tracks' :
         \/ \E k \in 1 .. n : Taken(k, u)
         \/ \E t \in tracks : u = [t EXCEPT !.missed = @ + 1]
  <2>1. \A k \in fresh : k \in 1 .. n
    BY <1>2
  <2>2. \A u \in tracks' :
          \/ \E t \in hit : u = Hit(t, dets[a[t]])
          \/ \E t \in tracks : u = [t EXCEPT !.missed = @ + 1]
          \/ \E k \in fresh : u = New(dets[k], FreshId(fresh, k))
    BY <1>3
  <2> HIDE DEF fresh, hit
  <2> QED BY <1>6, <2>1, <2>2
<1>11. ASSUME NEW k \in 1 .. n, NEW u, Taken(k, u)
       PROVE  u.missed = 0 /\ u.box = dets[k].box /\ u.class = dets[k].class
  BY <1>11 DEF Hit, New
<1>12. ASSUME NEW k \in 1 .. n, NEW l \in 1 .. n, NEW u, Taken(k, u), Taken(l, u) PROVE k = l
  <2>1. ASSUME NEW i, NEW t \in hit, a[t] = i, u = Hit(t, dets[i]) PROVE u.id = t.id /\ u.id < nextRawId
    BY <1>4, <1>7, <2>1 DEF Hit
  <2>2. ASSUME NEW i \in fresh, u = New(dets[i], FreshId(fresh, i)) PROVE u.id = FreshId(fresh, i) /\ ~(u.id < nextRawId)
    <3>1. u.id = FreshId(fresh, i)
      BY <2>2 DEF New
    <3>2. FreshId(fresh, i) >= nextRawId /\ FreshId(fresh, i) \in Int
      <4>1. fresh \in SUBSET (1 .. n)
        BY <1>2
      <4> HIDE DEF fresh
      <4>2. Cardinality({m \in fresh : m < i}) \in Nat
        BY <4>1, FreshRanks
      <4> QED BY <1>4, <4>2 DEF FreshId
    <3> QED BY <1>4, <3>1, <3>2
  <2> HIDE DEF fresh, hit
  <2>3. CASE u.id < nextRawId
    <3>1. PICK s \in hit : a[s] = k /\ u.id = s.id
      BY <1>12, <2>1, <2>2, <2>3
    <3>2. PICK t \in hit : a[t] = l /\ u.id = t.id
      BY <1>12, <2>1, <2>2, <2>3
    <3>3. s = t
      BY <1>7, <3>1, <3>2 DEF IdsInv, RawIdsDistinct
    <3> QED BY <3>1, <3>2, <3>3
  <2>4. CASE ~(u.id < nextRawId)
    <3>1. k \in fresh /\ u.id = FreshId(fresh, k) /\ l \in fresh /\ u.id = FreshId(fresh, l)
      BY <1>12, <2>1, <2>2, <2>4
    <3> QED BY <1>5, <3>1
  <2> QED BY <2>3, <2>4
<1>13. ASSUME NEW t \in tracks, NEW u, u = [t EXCEPT !.missed = @ + 1]
       PROVE  u.missed # 0 /\ u.id = t.id /\ u.class = t.class
  <2>1. u.missed = t.missed + 1 /\ u.id = t.id /\ u.class = t.class
    BY <1>4, <1>13 DEF Track
  <2> QED BY <1>4, <2>1
<1>14. ASSUME NEW t \in hit, NEW k, a[t] = k, NEW u, u = Hit(t, dets[k])
       PROVE  u.id = t.id /\ u.class = t.class /\ t \in tracks
  BY <1>7, <1>14 DEF Hit, Matches
<1>15. ASSUME NEW k \in fresh, NEW u, u = New(dets[k], FreshId(fresh, k))
       PROVE  u.id >= nextRawId
  BY <1>5, <1>15 DEF New
<1> HIDE DEF fresh, hit
<1>16. ASSUME NEW u \in tracks', u.id < nextRawId
       PROVE  \E t \in tracks : t.id = u.id /\ t.class = u.class
  <2>1. CASE \E k \in 1 .. n : Taken(k, u)
    <3>1. PICK k \in 1 .. n : Taken(k, u)
      BY <2>1
    <3>2. ASSUME k \in fresh, u = New(dets[k], FreshId(fresh, k)) PROVE FALSE
      <4>1. u.id = FreshId(fresh, k) /\ FreshId(fresh, k) \in Nat
        <5>1. fresh \in SUBSET (1 .. n)
          BY <1>2 DEF fresh
        <5>2. Cardinality({m \in fresh : m < k}) \in Nat
          BY <3>2, <5>1, FreshRanks
        <5> QED BY <1>4, <3>2, <5>2 DEF FreshId, New
      <4> QED BY <1>4, <1>15, <1>16, <3>2, <4>1
    <3> QED BY <1>14, <3>1, <3>2
  <2>2. CASE \E t \in tracks : u = [t EXCEPT !.missed = @ + 1]
    BY <1>13, <2>2
  <2> QED BY <1>10, <2>1, <2>2
<1>17. ASSUME NEW d \in DetectedBox
       PROVE  Cardinality({t \in Output' : t.box = d.box /\ t.class = d.class})
                = Cardinality({k \in DOMAIN input' : input'[k] = d})
  <2> DEFINE A == {t \in Output' : t.box = d.box /\ t.class = d.class}
             B == {k \in 1 .. n : dets[k] = d}
             f == [k \in B |-> CHOOSE u : u \in tracks' /\ Taken(k, u)]
  <2>1. {k \in DOMAIN input' : input'[k] = d} = B
    BY <1>2, <1>3
  <2>2. ASSUME NEW k \in B PROVE f[k] \in tracks' /\ Taken(k, f[k])
    <3>1. f[k] = CHOOSE u : u \in tracks' /\ Taken(k, u)
      OBVIOUS
    <3>2. \E u : u \in tracks' /\ Taken(k, u)
      BY <1>9
    <3> HIDE DEF f, Taken
    <3> QED BY <3>1, <3>2
  <2>3. f \in [B -> A]
    <3>1. ASSUME NEW k \in B PROVE f[k] \in A
      <4>1. f[k].missed = 0 /\ f[k].box = d.box /\ f[k].class = d.class
        <5> HIDE DEF f, Taken
        <5> QED BY <1>11, <2>2
      <4> QED BY <2>2, <4>1 DEF Output
    <3> QED BY <3>1
  <2>4. ASSUME NEW k \in B, NEW l \in B, f[k] = f[l] PROVE k = l
    <3>1. k \in 1 .. n /\ l \in 1 .. n
      OBVIOUS
    <3> HIDE DEF f, Taken, B
    <3> QED BY <1>12, <2>2, <2>4, <3>1
  <2>5. ASSUME NEW u \in A PROVE \E k \in B : f[k] = u
    <3>1. u \in tracks' /\ u.missed = 0 /\ u.box = d.box /\ u.class = d.class
      BY DEF Output
    <3>2. PICK k \in 1 .. n : Taken(k, u)
      <4> HIDE DEF Taken
      <4> QED BY <1>10, <1>13, <3>1
    <3>3. dets[k].box = d.box /\ dets[k].class = d.class
      <4> HIDE DEF Taken
      <4> QED BY <1>11, <3>1, <3>2
    <3>4. dets[k] = d
      BY <1>1, <3>3 DEF DetectedBox
    <3>5. k \in B
      BY <3>4
    <3>6. f[k] = u
      <4>1. Taken(k, f[k])
        BY <2>2, <3>5
      <4>2. ASSUME NEW v, Taken(k, v), NEW w, Taken(k, w) PROVE v = w
        <5>1. CASE k \in fresh
          <6>1. ~\E t \in hit : a[t] = k
            BY <5>1 DEF fresh, hit
          <6> QED BY <4>2, <6>1
        <5>2. CASE k \notin fresh
          BY <1>8, <4>2, <5>2
        <5> QED BY <5>1, <5>2
      <4> HIDE DEF f, Taken
      <4> QED BY <3>2, <4>1, <4>2
    <3> QED BY <3>5, <3>6
  <2> HIDE DEF A, B, f
  <2>6. f \in Injection(B, A) /\ f \in Surjection(B, A)
    BY <2>3, <2>4, <2>5 DEF Injection, IsInjective, Surjection
  <2>7. IsFiniteSet(B)
    <3>1. IsFiniteSet(1 .. n) /\ B \subseteq 1 .. n
      BY NumbersUpTo DEF B
    <3> QED BY <3>1, FS_Subset
  <2>8. Cardinality(A) = Cardinality(B)
    BY <2>6, <2>7, FS_Surjection
  <2> QED BY <2>1, <2>8 DEF A
<1> QED BY <1>16, <1>17

(* Every detection comes out of update() exactly once, and an old id only   *)
(* with the class it had, for any overlaps and any number of detections.    *)
THEOREM OutputsContinue == TrackerSpec => TracksContinue
<1> DEFINE Continues ==
      nextRawId' >= nextRawId =>
       /\ \A d \in DetectedBox :
            Cardinality({t \in Output' : t.box = d.box /\ t.class = d.class})
              = Cardinality({k \in DOMAIN input' : input'[k] = d})
       /\ \A u \in tracks' : u.id < nextRawId =>
            \E t \in tracks : t.id = u.id /\ t.class = u.class
<1>1. IdsInv /\ [TrackerNext]_trackerVars => [Continues]_trackerVars
  <2>1. SUFFICES ASSUME IdsInv, TrackerNext PROVE Continues
    OBVIOUS
  <2>2. CASE \E dets \in TrackerInputs : TrackerUpdate(dets)
    BY <2>1, <2>2, OutputIsInput
  <2>3. CASE TrackerReset
    <3>1. tracks' = {} /\ Output' = {} /\ DOMAIN input' = {}
      BY <2>3 DEF TrackerReset, Output
    <3> QED BY <3>1
  <2> QED BY <2>1, <2>2, <2>3 DEF TrackerNext
<1>2. TrackerSpec => []IdsInv
  BY IdsHold
<1> QED BY <1>1, <1>2, PTL DEF TrackerSpec, TracksContinue

-----------------------------------------------------------------------------
(* The class of an object.                                                  *)

(* The rival has been ahead at every observation since the hold time began. *)
FusionInv ==
  /\ waited \in 0 .. SwitchHold
  /\ ahead \in [FusionClasses -> -1 .. SwitchHold]
  /\ IsFiniteSet(DOMAIN evidence) /\ DOMAIN evidence \subseteq FusionClasses
  /\ rival # NoClass => rival \in FusionClasses /\ ahead[rival] >= waited

(* The classes of a table of evidence, and of its leader.                   *)
LEMMA TableOf ==
  ASSUME FusionInv, NEW c \in FusionClasses, NEW weight, NEW dt
  PROVE  LET e == WithObservation(c, weight, dt)
         IN  /\ IsFiniteSet(DOMAIN e) /\ DOMAIN e \subseteq FusionClasses
             /\ Leader(e) # NoClass => Leader(e) \in FusionClasses
<1> DEFINE e == WithObservation(c, weight, dt)
<1>1. DOMAIN e \subseteq DOMAIN evidence \cup {c}
  BY DEF WithObservation, Without
<1>2. IsFiniteSet(DOMAIN evidence \cup {c})
  BY FS_AddElement DEF FusionInv
<1>3. IsFiniteSet(DOMAIN e) /\ DOMAIN e \subseteq FusionClasses
  BY <1>1, <1>2, FS_Subset DEF FusionInv
<1> HIDE DEF e
<1>4. ASSUME Leader(e) # NoClass PROVE Leader(e) \in FusionClasses
  <2> DEFINE leaders == {k \in DOMAIN e : /\ e[k] > e[stable] /\ 10 * e[k] >= Ratio * e[stable]
                                          /\ \A d \in DOMAIN e : e[d] <= e[k]}
             R == {p \in leaders \X leaders : p[2] < p[1]}
  <2>1. leaders # {} /\ Leader(e) = CHOOSE k \in leaders : \A d \in leaders : k <= d
    BY <1>4 DEF Leader
  <2>2. IsFiniteSet(leaders) /\ leaders \subseteq FusionClasses
    BY <1>3, FS_Subset
  <2> HIDE DEF leaders
  <2>3. \A k, l \in leaders : <<k, l>> \in R <=> l < k
    OBVIOUS
  <2> HIDE DEF R
  <2>4. \A k \in leaders : k \in Nat
    BY <2>2, FusionAssumption
  <2>5. TotalOrder(R, leaders)
    BY <2>3, <2>4 DEF TotalOrder
  <2>6. PICK k \in leaders : \A d \in leaders \ {k} : <<d, k>> \in R
    <3>1. leaders # {} /\ IsFiniteSet(leaders)
      BY <2>1, <2>2
    <3> QED BY <2>5, <3>1, LastElement
  <2>7. \A d \in leaders : k <= d
    <3>1. SUFFICES ASSUME NEW d \in leaders PROVE k <= d
      OBVIOUS
    <3>2. CASE d # k
      <4>1. k < d
        BY <2>3, <2>6, <3>2
      <4> QED BY <2>4, <4>1
    <3> QED BY <2>4, <3>2
  <2> QED BY <2>1, <2>2, <2>7
<1> QED BY <1>3, <1>4 DEF e

(* A longer time is not held at less.                                       *)
LEMMA HeldGrows ==
  ASSUME NEW t \in Nat, NEW u \in Nat, t <= u
  PROVE  Held(t) \in 0 .. SwitchHold /\ Held(t) <= Held(u)
BY FusionAssumption DEF Held

(* Every step of the fusion keeps the invariant.                            *)
LEMMA FusionKeeps ==
  ASSUME FusionInv, FusionNext
  PROVE  FusionInv' /\ (stable # NoClass /\ stable' # stable => ahead'[stable'] >= SwitchHold)
<1>0. /\ waited \in 0 .. SwitchHold /\ SwitchHold \in Nat /\ FusionClasses \subseteq Nat
      /\ FusionSteps \subseteq Nat /\ ahead \in [FusionClasses -> -1 .. SwitchHold]
      /\ IsFiniteSet(DOMAIN evidence) /\ DOMAIN evidence \subseteq FusionClasses
      /\ rival # NoClass => rival \in FusionClasses /\ ahead[rival] >= waited
      /\ waited \in Nat
  BY FusionAssumption DEF FusionInv
(* Who is ahead stays at least as long ahead as the hold time has gone on.  *)
<1>1. ASSUME NEW d \in FusionClasses, NEW dt \in FusionSteps, ahead[d] >= 0
      PROVE  /\ Held(ahead[d] + dt) \in 0 .. SwitchHold
             /\ ahead[d] >= waited => Held(waited + dt) <= Held(ahead[d] + dt)
  <2>1. ahead[d] \in Nat /\ dt \in Nat
    BY <1>0, <1>1
  <2>2. ahead[d] + dt \in Nat /\ waited + dt \in Nat
    BY <1>0, <2>1
  <2>3. ahead[d] >= waited => waited + dt <= ahead[d] + dt
    BY <1>0, <2>1
  <2> QED BY <2>2, <2>3, HeldGrows
<1>2. ASSUME NEW dt \in FusionSteps PROVE Held(waited + dt) \in 0 .. SwitchHold
  <2>1. waited + dt \in Nat
    BY <1>0
  <2> QED BY <2>1, HeldGrows
<1>3. CASE ObserveAny
  <2>1. PICK c \in FusionClasses, w \in Weights, dt \in FusionSteps : Observe(c, w, dt)
    BY <1>3 DEF ObserveAny
  <2> DEFINE e == WithObservation(c, w, dt)
             leader == Leader(e)
  <2>2. /\ IsFiniteSet(DOMAIN e) /\ DOMAIN e \subseteq FusionClasses
        /\ leader # NoClass => leader \in FusionClasses
    BY TableOf
  <2>3. /\ evidence' = e
        /\ IF stable = NoClass THEN stable' = c /\ rival' = NoClass /\ waited' = 0
           ELSE IF leader = NoClass THEN rival' = NoClass /\ waited' = 0 /\ UNCHANGED stable
           ELSE Challenge(leader, dt)
        /\ ahead' = [d \in FusionClasses |->
                       IF d # leader THEN -1 ELSE IF ahead[d] < 0 THEN 0 ELSE Held(ahead[d] + dt)]
    BY <2>1 DEF Observe
  <2> HIDE DEF e, leader
  <2>4. ahead' \in [FusionClasses -> -1 .. SwitchHold]
    <3>1. ASSUME NEW d \in FusionClasses
          PROVE  (IF d # leader THEN -1 ELSE IF ahead[d] < 0 THEN 0 ELSE Held(ahead[d] + dt))
                   \in -1 .. SwitchHold
      <4>1. ahead[d] \in Int
        BY <1>0
      <4>2. ahead[d] < 0 \/ Held(ahead[d] + dt) \in 0 .. SwitchHold
        BY <1>1, <4>1
      <4> QED BY <1>0, <4>2
    <3> QED BY <2>3, <3>1
  <2>5. IsFiniteSet(DOMAIN evidence') /\ DOMAIN evidence' \subseteq FusionClasses
    BY <2>2, <2>3
  <2>6. CASE stable = NoClass \/ leader = NoClass
    BY <1>0, <2>3, <2>4, <2>5, <2>6 DEF FusionInv
  <2>7. CASE stable # NoClass /\ leader # NoClass
    <3>1. leader \in FusionClasses /\ Challenge(leader, dt) /\ ahead[leader] \in -1 .. SwitchHold
      BY <1>0, <2>2, <2>3, <2>7
    <3>2. ahead'[leader] = IF ahead[leader] < 0 THEN 0 ELSE Held(ahead[leader] + dt)
      BY <2>3, <3>1
    <3>3. CASE rival # leader
      <4>1. rival' = leader /\ waited' = 0 /\ stable' = stable
        BY <3>1, <3>3 DEF Challenge
      <4>2. ahead'[leader] >= 0
        BY <1>1, <3>1, <3>2
      <4> QED BY <1>0, <2>4, <2>5, <3>1, <4>1, <4>2 DEF FusionInv
    <3>4. CASE rival = leader
      <4>1. ahead[leader] >= waited /\ ahead[leader] >= 0
        BY <1>0, <2>7, <3>1, <3>4
      <4>2. ahead'[leader] >= Held(waited + dt) /\ ahead'[leader] \in 0 .. SwitchHold
        <5>1. ahead'[leader] = Held(ahead[leader] + dt)
          BY <3>1, <3>2, <4>1
        <5>2. Held(waited + dt) <= Held(ahead[leader] + dt)
          BY <1>1, <3>1, <4>1
        <5>3. Held(ahead[leader] + dt) \in 0 .. SwitchHold /\ Held(waited + dt) \in 0 .. SwitchHold
          BY <1>1, <1>2, <3>1, <4>1
        <5> QED BY <1>0, <5>1, <5>2, <5>3
      <4>3. CASE Held(waited + dt) >= SwitchHold
        <5>1. stable' = leader /\ rival' = NoClass /\ waited' = 0
          BY <3>1, <3>4, <4>3 DEF Challenge
        <5>2. ahead'[leader] >= SwitchHold
          BY <1>0, <1>2, <4>2, <4>3
        <5> QED BY <1>0, <2>4, <2>5, <5>1, <5>2 DEF FusionInv
      <4>4. CASE ~(Held(waited + dt) >= SwitchHold)
        <5>1. waited' = Held(waited + dt) /\ UNCHANGED <<stable, rival>>
          BY <3>1, <3>4, <4>4 DEF Challenge
        <5> QED BY <1>2, <2>4, <2>5, <3>1, <3>4, <4>2, <5>1 DEF FusionInv
      <4> QED BY <4>3, <4>4
    <3> QED BY <3>3, <3>4
  <2> QED BY <2>6, <2>7
<1>4. ASSUME NEW dt \in FusionSteps, MissObject(dt) PROVE FusionInv' /\ stable' = stable
  <2>1. /\ waited' = (IF rival = NoClass THEN 0 ELSE Held(waited + dt))
        /\ ahead' = [d \in FusionClasses |-> IF ahead[d] < 0 THEN -1 ELSE Held(ahead[d] + dt)]
        /\ UNCHANGED <<evidence, stable, rival>>
    BY <1>4 DEF MissObject
  <2>2. ASSUME NEW d \in FusionClasses
        PROVE  (IF ahead[d] < 0 THEN -1 ELSE Held(ahead[d] + dt)) \in -1 .. SwitchHold
    <3>1. ahead[d] \in Int
      BY <1>0
    <3>2. ahead[d] < 0 \/ Held(ahead[d] + dt) \in 0 .. SwitchHold
      BY <1>1, <3>1
    <3> QED BY <1>0, <3>2
  <2>3. ahead' \in [FusionClasses -> -1 .. SwitchHold] /\ waited' \in 0 .. SwitchHold
    BY <1>0, <1>2, <2>1, <2>2
  <2>4. ASSUME rival # NoClass PROVE ahead'[rival] >= waited'
    <3>0. rival \in FusionClasses /\ ahead[rival] >= waited
      BY <1>0, <2>4
    <3>1. rival \in FusionClasses /\ ahead[rival] >= waited /\ ahead[rival] >= 0
          /\ ahead[rival] \in Int
      <4>1. ahead[rival] \in -1 .. SwitchHold
        BY <1>0, <3>0
      <4> QED BY <1>0, <3>0, <4>1
    <3>2. ahead'[rival] = Held(ahead[rival] + dt) /\ waited' = Held(waited + dt)
      BY <2>1, <2>4, <3>1
    <3>3. Held(ahead[rival] + dt) \in 0 .. SwitchHold /\ Held(waited + dt) <= Held(ahead[rival] + dt)
      BY <1>1, <3>1
    <3>4. Held(waited + dt) \in 0 .. SwitchHold
      BY <1>2
    <3> QED BY <1>0, <3>2, <3>3, <3>4
  <2> QED BY <1>0, <2>1, <2>3, <2>4 DEF FusionInv
<1> QED BY <1>3, <1>4 DEF FusionNext

(* The class of an object changes only to one that was ahead at every       *)
(* observation of a whole hold time, however evidence fades and is lost.    *)
THEOREM SwitchesAreHeld == FusionSpec => SwitchIsHeld
<1>1. FusionInit => FusionInv
  <2>1. SUFFICES ASSUME FusionInit PROVE FusionInv
    OBVIOUS
  <2>2. DOMAIN evidence = {} /\ IsFiniteSet({})
    BY <2>1, FS_EmptySet DEF FusionInit
  <2> QED BY <2>1, <2>2, FusionAssumption DEF FusionInit, FusionInv
<1>2. FusionInv /\ [FusionNext]_fusionVars =>
        /\ FusionInv'
        /\ [stable # NoClass /\ stable' # stable => ahead'[stable'] >= SwitchHold]_fusionVars
  <2>1. ASSUME FusionInv, UNCHANGED fusionVars PROVE FusionInv'
    BY <2>1 DEF fusionVars, FusionInv
  <2> QED BY <2>1, FusionKeeps
<1> QED BY <1>1, <1>2, PTL DEF FusionSpec, SwitchIsHeld

(***************************************************************************)
(* RegionMonitor, for any identities, windows and times.                   *)
(***************************************************************************)

(* The time an occupant was last seen is less than max_lost_seconds_ ago,   *)
(* and every state is well formed: together they are inductive.             *)
Bounded == StatesOK /\ NoStaleOccupant

(* A count of visible time is a natural number.                             *)
LEMMA VisibleType ==
  ASSUME NEW s \in TrackState, NEW dt \in Nat
  PROVE  Visible(s, dt) \in Nat
  BY RegionAssumption DEF Visible, TrackState

(* What update() keeps of an object it saw.                                 *)
LEMMA SeenOK ==
  ASSUME StatesOK, NEW d \in RegionDetections, NEW dt \in Nat
  PROVE  StateOK(Seen(d, dt)) /\ Seen(d, dt).since = 0
<1>1. CASE Stays(d)
  <2> DEFINE o == states[d.id]
             told == o.dwelled \/ Dwells(d, dt)
             s == [o EXCEPT !.missing = FALSE, !.since = 0,
                            !.dwelled = told, !.visible = Visible(o, dt)]
  <2>1. o \in TrackState /\ o.inside
    BY <1>1 DEF StatesOK, StateOK, Stays, Inside, Known
  <2>2. Visible(o, dt) \in Nat
    BY <2>1, VisibleType
  <2>3. Seen(d, dt) = s
    BY <1>1 DEF Seen
  <2>4. ~told => Visible(o, dt) < Dwell
    BY <1>1, <2>2, RegionAssumption DEF Dwells
  <2>5. told \in BOOLEAN
    OBVIOUS
  <2> HIDE DEF o, told
  <2>6. /\ s.since = 0 /\ s.inside /\ s.missing = FALSE
        /\ s.dwelled = told /\ s.visible = Visible(o, dt) /\ s \in TrackState
    BY <2>1, <2>2, <2>5 DEF TrackState
  <2> HIDE DEF s
  <2> QED BY <2>3, <2>4, <2>6 DEF StateOK
<1>2. CASE ~Stays(d)
  <2>1. Seen(d, dt) = Fresh(d.inside) /\ d.inside \in BOOLEAN
    BY <1>2 DEF Seen, RegionDetections
  <2>2. Fresh(d.inside) \in TrackState
    BY <2>1 DEF Fresh, TrackState
  <2>3. ~d.inside => Fresh(d.inside) = Fresh(FALSE)
    BY <2>1
  <2>4. /\ Fresh(d.inside).since = 0 /\ (Fresh(d.inside).inside <=> d.inside)
        /\ Fresh(d.inside).visible = 0
    BY DEF Fresh
  <2> QED BY <2>1, <2>2, <2>3, <2>4 DEF StateOK
<1> QED BY <1>1, <1>2

(* What update() keeps of an object it did not see and did not time out.    *)
LEMMA UnseenOK ==
  ASSUME NEW o, StateOK(o), NEW dt \in Nat, ~TimedOut(o, dt)
  PROVE  StateOK(Unseen(o, dt)) /\ (Unseen(o, dt).inside => Unseen(o, dt).since < RegionLost)
<1>1. CASE o.inside
  <2> DEFINE s == [o EXCEPT !.missing = TRUE, !.since = @ + dt]
  <2>1. Unseen(o, dt) = s
    BY <1>1 DEF Unseen
  <2>2. o.since + dt < RegionLost
    BY <1>1, RegionAssumption DEF TimedOut, StateOK, TrackState
  <2>3. o \in TrackState /\ (~o.dwelled /\ Dwell > 0 => o.visible < Dwell)
    BY <1>1 DEF StateOK
  <2>4. s.since = o.since + dt /\ s.missing = TRUE
    BY <2>3 DEF TrackState
  <2>5. s.inside = o.inside /\ s.dwelled = o.dwelled /\ s.visible = o.visible
    BY <2>3 DEF TrackState
  <2>6. o.since + dt \in Nat
    BY <2>3 DEF TrackState
  <2>7. s \in TrackState
    BY <2>3, <2>6 DEF TrackState
  <2> HIDE DEF s
  <2> QED BY <1>1, <2>1, <2>2, <2>3, <2>4, <2>5, <2>7 DEF StateOK
<1>2. CASE ~o.inside
  BY <1>2 DEF Unseen, StateOK, Fresh
<1> QED BY <1>1, <1>2

(* The invariant holds at the start and every step keeps it.                *)
LEMMA BoundedInductive ==
  /\ RegionInit => Bounded
  /\ Bounded /\ [RegionNext]_regionVars => Bounded'
<1>1. ASSUME RegionInit PROVE Bounded
  BY <1>1 DEF RegionInit, Bounded, StatesOK, NoStaleOccupant
<1>2. ASSUME Bounded, NEW dets \in RegionInputs, NEW dt \in RegionSteps, RegionUpdate(dets, dt)
      PROVE  Bounded'
  <2> DEFINE seen == {dets[k].id : k \in DOMAIN dets}
             lost == {i \in DOMAIN states \ seen : TimedOut(states[i], dt)}
             Det(i) == dets[CHOOSE k \in DOMAIN dets : dets[k].id = i]
             after(i) == IF i \in seen THEN Seen(Det(i), dt) ELSE Unseen(states[i], dt)
  <2>1. dt \in Nat
    BY RegionAssumption
  <2>2. PICK n \in Nat : dets \in [1 .. n -> RegionDetections]
    BY DEF RegionInputs
  <2>3. \A i \in seen : Det(i) \in RegionDetections /\ i \in Ids
    BY <2>2 DEF RegionDetections
  <2>4. states' = [i \in (DOMAIN states \cup seen) \ lost |-> after(i)]
    BY <1>2 DEF RegionUpdate
  <2>5. StatesOK
    BY <1>2 DEF Bounded
  <2>6. ASSUME NEW i \in DOMAIN states'
        PROVE  /\ StateOK(states'[i])
               /\ states'[i].inside => states'[i].since < RegionLost
    <3>1. states'[i] = after(i) /\ i \in (DOMAIN states \cup seen) \ lost
      BY <2>4
    <3>2. CASE i \in seen
      <4>1. states'[i] = Seen(Det(i), dt)
        BY <3>1, <3>2
      <4>2. Det(i) \in RegionDetections
        BY <2>3, <3>2
      <4> HIDE DEF seen, lost, Det, after
      <4>3. StateOK(states'[i]) /\ states'[i].since = 0
        BY <4>1, <4>2, <2>1, <2>5, SeenOK
      <4> QED BY <4>3, RegionAssumption
    <3>3. CASE i \notin seen
      <4>1. /\ i \in DOMAIN states /\ ~TimedOut(states[i], dt)
            /\ states'[i] = Unseen(states[i], dt)
        BY <3>1, <3>3
      <4>2. StateOK(states[i])
        BY <4>1, <2>5 DEF StatesOK
      <4> QED BY <4>1, <4>2, <2>1, UnseenOK
    <3> QED BY <3>2, <3>3
  <2>7. DOMAIN states' \subseteq Ids
    BY <2>3, <2>4, <2>5 DEF StatesOK
  <2> HIDE DEF seen, lost, Det, after
  <2> QED BY <2>6, <2>7 DEF Bounded, StatesOK, NoStaleOccupant, StateOK, Fresh
<1>3. ASSUME Bounded, RegionReset PROVE Bounded'
  BY <1>3 DEF RegionReset, Bounded, StatesOK, NoStaleOccupant
<1>4. ASSUME Bounded, UNCHANGED regionVars PROVE Bounded'
  BY <1>4 DEF regionVars, Bounded, StatesOK, NoStaleOccupant, StateOK, Fresh
<1> QED BY <1>1, <1>2, <1>3, <1>4 DEF RegionNext

(* No object that vanished inside the region occupies it for longer than    *)
(* max_lost_seconds_, whatever the detections and the time between updates  *)
(* (RegionMonitor::update, the loop over the states not observed).          *)
THEOREM StaleOccupantsLeave == RegionSpec => []NoStaleOccupant
<1>1. Bounded => NoStaleOccupant
  BY DEF Bounded
<1> QED BY <1>1, BoundedInductive, PTL DEF RegionSpec

(* Every state is well formed: what is outside is neither missing nor       *)
(* dwelling, and an occupant not yet reported as dwelling has been visible  *)
(* for less than dwell_seconds_.                                            *)
THEOREM RegionStates == RegionSpec => []StatesOK
<1>1. Bounded => StatesOK
  BY DEF Bounded
<1> QED BY <1>1, BoundedInductive, PTL DEF RegionSpec

-----------------------------------------------------------------------------
(* What an update reports.                                                  *)

SeenIds(dets)     == {dets[k].id : k \in DOMAIN dets}
LostIds(dets, dt) == {i \in DOMAIN states \ SeenIds(dets) : TimedOut(states[i], dt)}
EventType(d, dt) ==
  IF Enters(d) THEN "ENTER" ELSE IF Exits(d) THEN "EXIT"
  ELSE IF Dwells(d, dt) THEN "DWELL" ELSE "none"
EventOf(d, dt) == [type |-> EventType(d, dt), id |-> d.id]
Timeout(i) == [type |-> "EXIT", id |-> i]

(* The events of the detections that have one, and of the timeouts.         *)
ReportOf(e, dets, dt) ==
  \/ \E m \in DOMAIN dets : EventType(dets[m], dt) # "none" /\ e = EventOf(dets[m], dt)
  \/ \E i \in LostIds(dets, dt) : e = Timeout(i)

(* new_events holds those, each of them once.                               *)
LEMMA UpdateReports ==
  ASSUME IsFiniteSet(DOMAIN states), DOMAIN states \subseteq Ids,
         NEW dets \in RegionInputs, NEW dt, RegionUpdate(dets, dt)
  PROVE  /\ \A k \in DOMAIN events' : ReportOf(events'[k], dets, dt)
         /\ \A e : ReportOf(e, dets, dt) => \E k \in DOMAIN events' : events'[k] = e
         /\ \A k, l \in DOMAIN events' : events'[k] = events'[l] => k = l
<1> DEFINE lost == LostIds(dets, dt)
           late == Ascending(lost)
           report == [k \in DOMAIN dets |-> EventOf(dets[k], dt)]
           P == {k \in DOMAIN report : report[k].type # "none"}
           at == Ascending(P)
           T == {report[k] : k \in DOMAIN report}
           A == Picked(report, P)
           B == [k \in DOMAIN late |-> Timeout(late[k])]
           n == Cardinality(P)
           m == Cardinality(lost)
<1>1. PICK size \in Nat : dets \in [1 .. size -> RegionDetections]
  BY DEF RegionInputs
<1>2. \A k, l \in DOMAIN dets : dets[k].id = dets[l].id => k = l
  BY DEF RegionInputs
<1>3. events' = A \o B
  BY DEF RegionUpdate, EventType, EventOf, Timeout, LostIds, SeenIds
<1>4. /\ DOMAIN report = DOMAIN dets /\ DOMAIN dets = 1 .. size
      /\ report \in Seq(T) /\ Len(report) = size
      /\ \A k \in DOMAIN dets : report[k] = EventOf(dets[k], dt)
      /\ \A k \in P : k \in DOMAIN dets
      /\ P \in SUBSET (1 .. Len(report))
  <2>1. DOMAIN report = 1 .. size /\ DOMAIN dets = 1 .. size
    BY <1>1
  <2>2. \A k \in 1 .. size : report[k] \in T
    BY <2>1
  <2>3. report \in [1 .. size -> T]
    BY <2>1, <2>2
  <2> HIDE DEF T, report
  <2>4. report \in Seq(T) /\ Len(report) = size
    BY <2>1, <2>3
  <2> QED BY <2>1, <2>4 DEF report
<1>5. \A k \in DOMAIN dets :
        /\ report[k].type = EventType(dets[k], dt) /\ report[k].id = dets[k].id
        /\ k \in P <=> EventType(dets[k], dt) # "none"
  BY <1>4 DEF EventOf
<1>6. lost \in SUBSET Nat /\ IsFiniteSet(lost) /\ \A i \in lost, k \in DOMAIN dets : dets[k].id # i
  BY RegionAssumption, FS_Subset DEF LostIds, SeenIds
<1> HIDE DEF lost, report, P, T
<1>7. /\ n \in Nat /\ Len(A) = n /\ A \in Seq(T)
      /\ at \in [1 .. n -> P] /\ Rising(at)
      /\ \A x \in P : \E i \in 1 .. n : at[i] = x
      /\ A = [i \in 1 .. n |-> report[at[i]]]
  BY <1>4, PickedIs
<1>8. /\ m \in Nat /\ late \in [1 .. m -> lost] /\ Rising(late)
      /\ \A x \in lost : \E i \in 1 .. m : late[i] = x
  BY <1>6, AscendingIs
<1> HIDE DEF at, late, n, m, A
<1>9. /\ DOMAIN B = 1 .. m /\ Len(B) = m /\ B \in Seq({Timeout(i) : i \in lost})
      /\ \A k \in 1 .. m : B[k] = Timeout(late[k])
  <2>1. DOMAIN late = 1 .. m /\ \A k \in 1 .. m : late[k] \in lost
    BY <1>8
  <2>2. B \in [1 .. m -> {Timeout(i) : i \in lost}]
    BY <2>1
  <2>3. \A k \in 1 .. m : B[k] = Timeout(late[k])
    BY <2>1
  <2> HIDE DEF B
  <2>4. DOMAIN B = 1 .. m /\ Len(B) = m /\ B \in Seq({Timeout(i) : i \in lost})
    BY <1>8, <2>2
  <2> QED BY <2>3, <2>4
<1> HIDE DEF B
<1>10. /\ DOMAIN events' = 1 .. n + m
       /\ \A k \in 1 .. n : events'[k] = report[at[k]] /\ at[k] \in P
       /\ \A k \in n + 1 .. n + m :
             events'[k] = Timeout(late[k - n]) /\ late[k - n] \in lost /\ k - n \in 1 .. m
  <2>1. A \in Seq(T \cup {Timeout(i) : i \in lost}) /\ B \in Seq(T \cup {Timeout(i) : i \in lost})
    BY <1>7, <1>9
  <2>2. /\ DOMAIN events' = 1 .. n + m
        /\ \A k \in 1 .. n + m : events'[k] = IF k <= n THEN A[k] ELSE B[k - n]
    <3>1. Len(A) = n /\ Len(B) = m /\ n \in Nat /\ m \in Nat
      BY <1>7, <1>8, <1>9
    <3> QED BY ONLY <1>3, <2>1, <3>1
  <2>3. \A k \in n + 1 .. n + m : k - n \in 1 .. m /\ ~(k <= n) /\ k \in 1 .. n + m
    BY <1>7, <1>8
  <2>4. \A k \in 1 .. n : k <= n /\ k \in 1 .. n + m
    BY <1>7, <1>8
  <2>5. \A k \in 1 .. n : A[k] = report[at[k]] /\ at[k] \in P
    BY <1>7
  <2>6. \A k \in 1 .. m : late[k] \in lost
    BY <1>8
  <2> QED BY <2>2, <2>3, <2>4, <2>5, <2>6, <1>9
<1>11. \A k \in DOMAIN events' : k \in 1 .. n \/ k \in n + 1 .. n + m
  BY <1>7, <1>8, <1>10
<1>12. ASSUME NEW k \in DOMAIN events' PROVE ReportOf(events'[k], dets, dt)
  <2>1. CASE k \in 1 .. n
    <3>1. events'[k] = report[at[k]] /\ at[k] \in P /\ at[k] \in DOMAIN dets
      BY <1>4, <1>10, <2>1
    <3>2. EventType(dets[at[k]], dt) # "none" /\ report[at[k]] = EventOf(dets[at[k]], dt)
      BY <1>4, <1>5, <3>1
    <3> QED BY <3>1, <3>2 DEF ReportOf
  <2>2. CASE k \in n + 1 .. n + m
    BY <1>10, <2>2 DEF ReportOf, lost
  <2> QED BY <1>11, <2>1, <2>2
<1>13. ASSUME NEW e, ReportOf(e, dets, dt) PROVE \E k \in DOMAIN events' : events'[k] = e
  <2>1. CASE \E x \in DOMAIN dets : EventType(dets[x], dt) # "none" /\ e = EventOf(dets[x], dt)
    <3>1. PICK x \in DOMAIN dets : EventType(dets[x], dt) # "none" /\ e = EventOf(dets[x], dt)
      BY <2>1
    <3>2. x \in P /\ e = report[x]
      BY <1>4, <1>5, <3>1
    <3>3. PICK i \in 1 .. n : at[i] = x
      BY <1>7, <3>2
    <3>4. i \in DOMAIN events'
      BY <1>7, <1>8, <1>10
    <3> QED BY <1>10, <3>2, <3>3, <3>4
  <2>2. CASE \E i \in lost : e = Timeout(i)
    <3>1. PICK i \in lost : e = Timeout(i)
      BY <2>2
    <3>2. PICK j \in 1 .. m : late[j] = i
      BY <1>8
    <3>3. n + j \in n + 1 .. n + m /\ n + j \in 1 .. n + m /\ (n + j) - n = j
      BY <1>7, <1>8
    <3> QED BY <1>10, <3>1, <3>2, <3>3
  <2> QED BY <1>13, <2>1, <2>2 DEF ReportOf, lost
<1>14. ASSUME NEW k \in DOMAIN events', NEW l \in DOMAIN events', events'[k] = events'[l], k < l
       PROVE  FALSE
  <2>1. k \in 1 .. n + m /\ l \in 1 .. n + m
    BY <1>10
  <2>2. CASE k \in 1 .. n /\ l \in 1 .. n
    <3>1. at[k] < at[l] /\ at[k] \in P /\ at[l] \in P
      BY <1>7, <1>10, <1>14, <2>2 DEF Rising
    <3>2. at[k] \in DOMAIN dets /\ at[l] \in DOMAIN dets
      BY <1>4, <3>1
    <3>3. dets[at[k]].id = dets[at[l]].id
      BY <1>5, <1>10, <1>14, <2>2, <3>2
    <3>4. at[k] = at[l]
      BY <1>2, <3>2, <3>3
    <3> QED BY <1>4, <3>1, <3>2, <3>4
  <2>3. CASE k \in 1 .. n /\ l \in n + 1 .. n + m
    <3>1. at[k] \in DOMAIN dets /\ events'[k].id = dets[at[k]].id
      BY <1>4, <1>5, <1>10, <2>3
    <3>2. late[l - n] \in lost /\ events'[l] = Timeout(late[l - n])
      BY <1>10, <2>3
    <3>3. Timeout(late[l - n]).id = late[l - n]
      BY DEF Timeout
    <3>4. events'[k].id = late[l - n]
      BY <1>14, <3>2, <3>3
    <3> QED BY <1>6, <3>1, <3>2, <3>4
  <2>4. CASE k \in n + 1 .. n + m /\ l \in n + 1 .. n + m
    <3>1. /\ k - n \in 1 .. m /\ l - n \in 1 .. m /\ k - n < l - n
      BY <1>7, <1>8, <1>10, <1>14, <2>4
    <3>2. late[k - n] < late[l - n] /\ late[k - n] \in Nat
      BY <1>6, <1>8, <3>1 DEF Rising
    <3>3. Timeout(late[k - n]) = Timeout(late[l - n])
      BY <1>10, <1>14, <2>4
    <3>4. Timeout(late[k - n]).id = late[k - n] /\ Timeout(late[l - n]).id = late[l - n]
      BY DEF Timeout
    <3>5. late[k - n] = late[l - n]
      BY <3>3, <3>4
    <3> QED BY <3>2, <3>5
  <2> QED BY <1>7, <1>8, <1>11, <1>14, <2>1, <2>2, <2>3, <2>4
<1>15. \A k, l \in DOMAIN events' : events'[k] = events'[l] => k = l
  BY <1>7, <1>8, <1>10, <1>14
<1> QED BY <1>12, <1>13, <1>15

-----------------------------------------------------------------------------
(* The invariant with what the order of the timeouts rests on: only         *)
(* finitely many identities are known.                                      *)
Consistent == Bounded /\ IsFiniteSet(DOMAIN states)

(* The identities of one input are finitely many.                           *)
LEMMA SeenIdsFinite ==
  ASSUME NEW dets \in RegionInputs
  PROVE  IsFiniteSet(SeenIds(dets)) /\ SeenIds(dets) \subseteq Ids
<1>1. PICK size \in Nat : dets \in [1 .. size -> RegionDetections]
  BY DEF RegionInputs
<1>2. IsFiniteSet(1 .. size) /\ DOMAIN dets = 1 .. size
  BY <1>1, NumbersUpTo
<1>3. IsFiniteSet({dets[k].id : k \in 1 .. size})
  <2> DEFINE ids == [k \in 1 .. size |-> dets[k].id]
             S == {dets[k].id : k \in 1 .. size}
  <2>1. ids \in Surjection(1 .. size, S)
    BY DEF Surjection
  <2> HIDE DEF ids
  <2> QED BY <1>2, <2>1, FS_Surjection
<1>4. \A k \in 1 .. size : dets[k].id \in Ids
  BY <1>1 DEF RegionDetections
<1> QED BY <1>2, <1>3, <1>4 DEF SeenIds

(* The states after an update.                                              *)
LEMMA UpdatedStates ==
  ASSUME NEW dets \in RegionInputs, NEW dt, RegionUpdate(dets, dt)
  PROVE  /\ DOMAIN states' = (DOMAIN states \cup SeenIds(dets)) \ LostIds(dets, dt)
         /\ \A m \in DOMAIN dets : states'[dets[m].id] = Seen(dets[m], dt)
         /\ \A i \in (DOMAIN states \ SeenIds(dets)) \ LostIds(dets, dt) :
               states'[i] = Unseen(states[i], dt)
<1> DEFINE Det(i) == dets[CHOOSE k \in DOMAIN dets : dets[k].id = i]
           after(i) == IF i \in SeenIds(dets) THEN Seen(Det(i), dt) ELSE Unseen(states[i], dt)
<1>1. states' = [i \in (DOMAIN states \cup SeenIds(dets)) \ LostIds(dets, dt) |-> after(i)]
  BY DEF RegionUpdate, SeenIds, LostIds
<1>2. ASSUME NEW m \in DOMAIN dets PROVE states'[dets[m].id] = Seen(dets[m], dt)
  <2> DEFINE i == dets[m].id
             c == CHOOSE k \in DOMAIN dets : dets[k].id = i
  <2>1. c \in DOMAIN dets /\ dets[c].id = i
    OBVIOUS
  <2>2. c = m
    BY <2>1 DEF RegionInputs
  <2>3. i \in SeenIds(dets) /\ i \notin LostIds(dets, dt)
    BY DEF SeenIds, LostIds
  <2>4. states'[i] = after(i)
    BY <1>1, <2>3
  <2>5. after(i) = Seen(dets[c], dt)
    BY <2>3
  <2> HIDE DEF after, c, i
  <2>6. states'[i] = Seen(dets[m], dt)
    BY <2>2, <2>4, <2>5
  <2> QED BY <2>6 DEF i
<1> HIDE DEF after
<1>3. ASSUME NEW i \in (DOMAIN states \ SeenIds(dets)) \ LostIds(dets, dt)
      PROVE  states'[i] = Unseen(states[i], dt)
  BY <1>1 DEF after
<1>4. DOMAIN states' = (DOMAIN states \cup SeenIds(dets)) \ LostIds(dets, dt)
  BY <1>1
<1> QED BY <1>2, <1>3, <1>4

(* The states are consistent at the start and after every update.           *)
LEMMA ConsistentInductive ==
  /\ RegionInit => Consistent
  /\ Consistent /\ [RegionNext]_regionVars => Consistent'
<1>1. ASSUME RegionInit PROVE Consistent
  <2>1. DOMAIN states = {}
    BY <1>1 DEF RegionInit
  <2> QED BY <1>1, <2>1, BoundedInductive, FS_EmptySet DEF Consistent
<1>2. ASSUME Consistent, [RegionNext]_regionVars PROVE Consistent'
  <2>1. Bounded'
    BY <1>2, BoundedInductive DEF Consistent
  <2>2. ASSUME NEW dets \in RegionInputs, NEW dt \in RegionSteps, RegionUpdate(dets, dt)
        PROVE  IsFiniteSet(DOMAIN states')
    <3>1. IsFiniteSet(DOMAIN states \cup SeenIds(dets))
      BY <1>2, SeenIdsFinite, FS_Union DEF Consistent
    <3> QED BY <2>2, <3>1, UpdatedStates, FS_Subset
  <2>3. RegionReset => IsFiniteSet(DOMAIN states')
    BY FS_EmptySet DEF RegionReset
  <2>4. UNCHANGED regionVars => IsFiniteSet(DOMAIN states')
    BY <1>2 DEF Consistent, regionVars
  <2>5. IsFiniteSet(DOMAIN states')
    BY <1>2, <2>2, <2>3, <2>4 DEF RegionNext
  <2> QED BY <2>1, <2>5 DEF Consistent
<1> QED BY <1>1, <1>2

(* The time an object is away never counts towards DWELL: whoever is        *)
(* reported as dwelling was inside the region and not missing, whatever the *)
(* detections and the times between them (RegionMonitor::update).           *)
THEOREM GapsDoNotCount == RegionSpec => NoDwellAfterGap
<1>1. ASSUME Consistent, NEW dets \in RegionInputs, NEW dt \in RegionSteps, RegionUpdate(dets, dt),
             NEW k \in DOMAIN events', events'[k].type = "DWELL", Dwell > 0
      PROVE  Inside(events'[k].id) /\ ~states[events'[k].id].missing
  <2>1. StatesOK /\ IsFiniteSet(DOMAIN states) /\ DOMAIN states \subseteq Ids
    BY <1>1 DEF Consistent, Bounded, StatesOK
  <2>2. ReportOf(events'[k], dets, dt)
    BY <1>1, <2>1, UpdateReports
  <2>3. \A i : Timeout(i).type = "EXIT"
    BY DEF Timeout
  <2>4. PICK m \in DOMAIN dets : events'[k] = EventOf(dets[m], dt)
    BY <1>1, <2>2, <2>3 DEF ReportOf
  <2> DEFINE d == dets[m]
  <2>5. EventType(d, dt) = "DWELL" /\ events'[k].id = d.id
    BY <1>1, <2>4 DEF EventOf
  <2>6. Dwells(d, dt)
    BY <2>5 DEF EventType
  <2> HIDE DEF d
  <2>7. /\ Inside(d.id) /\ d.id \in DOMAIN states /\ states[d.id].inside
        /\ ~states[d.id].dwelled /\ Visible(states[d.id], dt) >= Dwell
    BY <2>6 DEF Dwells, Stays, Inside, Known
  <2>8. states[d.id] \in TrackState /\ states[d.id].visible < Dwell
    BY <1>1, <2>1, <2>7 DEF StatesOK, StateOK
  <2>9. ~states[d.id].missing
    BY <2>7, <2>8, RegionAssumption DEF Visible, TrackState
  <2> QED BY <2>5, <2>7, <2>9
<1>2. ASSUME RegionReset PROVE DOMAIN events' = {}
  BY <1>2 DEF RegionReset
<1>3. Consistent /\ [RegionNext]_regionVars =>
        [\A k \in DOMAIN events' : events'[k].type = "DWELL" /\ Dwell > 0
           => Inside(events'[k].id) /\ ~states[events'[k].id].missing]_regionVars
  BY <1>1, <1>2 DEF RegionNext
<1> QED BY <1>3, ConsistentInductive, PTL DEF RegionSpec, NoDwellAfterGap

-----------------------------------------------------------------------------
(* The monitor implements RegionLifecycle.                                  *)

(* The name of a change of phase, and the changes there may be.             *)
There == {"in", "dwelling"}
ChangeOf(before, after) ==
  IF before \notin There /\ after = "in" THEN "ENTER"
  ELSE IF before \in There /\ after \notin There THEN "EXIT"
  ELSE IF before = "in" /\ after = "dwelling" THEN "DWELL" ELSE "none"
AllowedFrom(before, after) ==
  \/ after = before
  \/ before \notin There /\ after = "in"
  \/ before \in There /\ after \notin There
  \/ before = "in" /\ after = "dwelling"
  \/ before = "unknown" /\ after = "out"

(* The event that is due for one identity: that of its change, unless it is *)
(* the marked entry of an identity not known before.                        *)
DueType(i) ==
  IF ~Known(i) /\ i \in muted' /\ ChangeOf(Phase(i), Phase(i)') = "ENTER" THEN "none"
  ELSE ChangeOf(Phase(i), Phase(i)')

(* What one update does to one identity: an allowed change of phase, and    *)
(* the event that is due and no other.                                      *)
LEMMA OneIdentity ==
  ASSUME Consistent, NEW dets \in RegionInputs, NEW dt \in RegionSteps, RegionUpdate(dets, dt),
         NEW i \in Ids
  PROVE  LET event == [type |-> DueType(i), id |-> i]
         IN  /\ AllowedFrom(Phase(i), Phase(i)')
             /\ DueType(i) # "none" => ReportOf(event, dets, dt)
             /\ \A e : ReportOf(e, dets, dt) /\ e.id = i => DueType(i) # "none" /\ e = event
<1> DEFINE event == [type |-> DueType(i), id |-> i]
<1>1. /\ DOMAIN states' = (DOMAIN states \cup SeenIds(dets)) \ LostIds(dets, dt)
      /\ \A m \in DOMAIN dets : states'[dets[m].id] = Seen(dets[m], dt)
      /\ \A j \in (DOMAIN states \ SeenIds(dets)) \ LostIds(dets, dt) :
            states'[j] = Unseen(states[j], dt)
  BY UpdatedStates
<1>2. \A m, n \in DOMAIN dets : dets[m].id = dets[n].id => m = n
  BY DEF RegionInputs
<1>3. \A m \in DOMAIN dets : EventOf(dets[m], dt).id = dets[m].id
  BY DEF EventOf
<1>4. \A j : Timeout(j).id = j
  BY DEF Timeout
<1>5. \A m \in DOMAIN dets : dets[m].id \in SeenIds(dets)
  BY DEF SeenIds
<1>6. \A j \in LostIds(dets, dt) : j \in DOMAIN states \ SeenIds(dets) /\ states[j].inside
  BY DEF LostIds, TimedOut
<1>7. \A j \in DOMAIN states : states[j] \in TrackState
  BY DEF Consistent, Bounded, StatesOK, StateOK
<1>8. CASE i \in SeenIds(dets)
  <2>1. PICK m \in DOMAIN dets : dets[m].id = i
    BY <1>8 DEF SeenIds
  <2> DEFINE d == dets[m]
             type == EventType(d, dt)
  <2>2. \A e : ReportOf(e, dets, dt) /\ e.id = i => type # "none" /\ e = EventOf(d, dt)
    BY <1>2, <1>3, <1>4, <1>5, <1>6, <2>1 DEF ReportOf
  <2>3. type # "none" => ReportOf(EventOf(d, dt), dets, dt)
    BY <2>1 DEF ReportOf
  <2>4. i \in DOMAIN states' /\ states'[i] = Seen(d, dt) /\ d.id = i /\ d.inside \in BOOLEAN
    <3>1. d \in RegionDetections
      <4>1. PICK size \in Nat : dets \in [1 .. size -> RegionDetections]
        BY DEF RegionInputs
      <4> QED BY <4>1
    <3> QED BY <1>1, <1>6, <1>8, <2>1, <3>1 DEF RegionDetections
  <2>5. EventOf(d, dt) = [type |-> type, id |-> i]
    BY <2>1 DEF EventOf
  <2>6. i \in muted' <=> d.muted
    <3>1. muted' = {dets[k].id : k \in {l \in DOMAIN dets : dets[l].muted}}
      BY DEF RegionUpdate
    <3> QED BY <1>2, <2>1, <3>1
  <2>7. DueType(i) = type /\ AllowedFrom(Phase(i), Phase(i)')
    <3> HIDE DEF d
    <3>1. CASE Inside(i) /\ d.inside
      <4>1. Stays(d) /\ states[i] \in TrackState /\ i \in DOMAIN states /\ states[i].inside
        BY <1>7, <2>4, <3>1 DEF Stays, Inside, Known
      <4> DEFINE told == states[i].dwelled \/ Dwells(d, dt)
      <4>2. states'[i] = [states[i] EXCEPT !.missing = FALSE, !.since = 0,
                                          !.dwelled = told, !.visible = Visible(states[i], dt)]
        BY <2>4, <4>1 DEF Seen
      <4>3. told \in BOOLEAN
        OBVIOUS
      <4> HIDE DEF told
      <4>4. states'[i].inside /\ states'[i].dwelled = told
        BY <4>1, <4>2, <4>3 DEF TrackState
      <4>5. Phase(i)' = IF told THEN "dwelling" ELSE "in"
        BY <2>4, <4>4 DEF Phase, Inside, Known
      <4>6. Phase(i) = IF states[i].dwelled THEN "dwelling" ELSE "in"
        BY <3>1, <4>1 DEF Phase, Known
      <4>7. type = IF Dwells(d, dt) THEN "DWELL" ELSE "none"
        BY <2>4, <3>1 DEF EventType, Enters, Exits
      <4>8. Dwells(d, dt) => ~states[i].dwelled
        BY <2>4 DEF Dwells
      <4> HIDE DEF type
      <4>9. CASE Dwells(d, dt)
        <5>1. Phase(i) = "in" /\ Phase(i)' = "dwelling" /\ type = "DWELL"
          BY <4>5, <4>6, <4>7, <4>8, <4>9 DEF told
        <5> QED BY <5>1 DEF ChangeOf, DueType, AllowedFrom, There
      <4>10. CASE ~Dwells(d, dt)
        <5>1. Phase(i)' = Phase(i) /\ type = "none" /\ Phase(i) \in {"in", "dwelling"}
          BY <4>5, <4>6, <4>7, <4>10 DEF told
        <5> QED BY <5>1 DEF ChangeOf, DueType, AllowedFrom, There
      <4> QED BY <4>9, <4>10
    <3>2. CASE Inside(i) /\ ~d.inside
      <4>1. states'[i] = Fresh(d.inside)
        BY <2>4, <3>2 DEF Seen, Stays
      <4>2. Phase(i)' = "out"
        BY <2>4, <3>2, <4>1 DEF Phase, Inside, Known, Fresh
      <4>3. type = "EXIT"
        BY <2>4, <3>2 DEF EventType, Enters, Exits
      <4>4. Phase(i) \in {"in", "dwelling"}
        BY <3>2 DEF Phase, Inside
      <4> HIDE DEF type
      <4> QED BY <4>2, <4>3, <4>4 DEF ChangeOf, DueType, AllowedFrom, There
    <3>3. CASE ~Inside(i) /\ d.inside
      <4>1. states'[i] = Fresh(d.inside)
        BY <2>4, <3>3 DEF Seen, Stays
      <4>2. Phase(i)' = "in"
        BY <2>4, <3>3, <4>1 DEF Phase, Inside, Known, Fresh
      <4>3. type = IF Known(i) \/ ~d.muted THEN "ENTER" ELSE "none"
        BY <2>4, <3>3 DEF EventType, Enters, Exits, Dwells, Stays
      <4>4. Phase(i) \in {"unknown", "out"}
        BY <3>3 DEF Phase
      <4> HIDE DEF type
      <4>5. ChangeOf(Phase(i), Phase(i)') = "ENTER"
        BY <4>2, <4>4 DEF ChangeOf, There
      <4>6. DueType(i) = type
        BY <2>6, <4>3, <4>5 DEF DueType
      <4> QED BY <4>2, <4>4, <4>6 DEF AllowedFrom, There
    <3>4. CASE ~Inside(i) /\ ~d.inside
      <4>1. states'[i] = Fresh(d.inside)
        BY <2>4, <3>4 DEF Seen, Stays
      <4>2. Phase(i)' = "out"
        BY <2>4, <3>4, <4>1 DEF Phase, Inside, Known, Fresh
      <4>3. type = "none"
        BY <2>4, <3>4 DEF EventType, Enters, Exits, Dwells, Stays
      <4>4. Phase(i) \in {"unknown", "out"}
        BY <3>4 DEF Phase
      <4> HIDE DEF type
      <4> QED BY <4>2, <4>3, <4>4 DEF ChangeOf, DueType, AllowedFrom, There
    <3> QED BY <3>1, <3>2, <3>3, <3>4
  <2> HIDE DEF type, d
  <2> QED BY <2>2, <2>3, <2>5, <2>7
<1>9. CASE i \in LostIds(dets, dt)
  <2>1. Phase(i) \in {"in", "dwelling"} /\ Phase(i)' = "unknown" /\ Known(i)
    BY <1>1, <1>6, <1>9 DEF Phase, Inside, Known
  <2>2. DueType(i) = "EXIT" /\ event = Timeout(i)
    BY <2>1 DEF ChangeOf, DueType, Timeout, There
  <2>3. ReportOf(Timeout(i), dets, dt)
    BY <1>9 DEF ReportOf
  <2>4. \A e : ReportOf(e, dets, dt) /\ e.id = i => e = Timeout(i)
    BY <1>3, <1>4, <1>5, <1>6, <1>9 DEF ReportOf
  <2> QED BY <2>1, <2>2, <2>3, <2>4 DEF AllowedFrom, There
<1>10. CASE i \notin SeenIds(dets) /\ i \notin LostIds(dets, dt)
  <2>1. \A e : ReportOf(e, dets, dt) => e.id # i
    BY <1>3, <1>4, <1>5, <1>10 DEF ReportOf
  <2>2. Phase(i)' = Phase(i) /\ Phase(i) \in {"unknown", "out", "in", "dwelling"}
    <3>1. CASE i \in DOMAIN states
      <4>1. i \in DOMAIN states' /\ states'[i] = Unseen(states[i], dt) /\ states[i] \in TrackState
        BY <1>1, <1>7, <1>10, <3>1
      <4>2. states'[i].inside = states[i].inside /\ states'[i].dwelled = states[i].dwelled
        BY <4>1 DEF Unseen, TrackState
      <4> QED BY <3>1, <4>1, <4>2 DEF Phase, Inside, Known
    <3>2. CASE i \notin DOMAIN states
      BY <1>1, <1>10, <3>2 DEF Phase, Inside, Known
    <3> QED BY <3>1, <3>2
  <2>3. DueType(i) = "none"
    BY <2>2 DEF DueType, ChangeOf, There
  <2> QED BY <2>1, <2>2, <2>3 DEF AllowedFrom
<1> QED BY <1>8, <1>9, <1>10

(* Every update is an Update of RegionLifecycle.                            *)
LEMMA UpdateImplements ==
  ASSUME Consistent, NEW dets \in RegionInputs, NEW dt \in RegionSteps, RegionUpdate(dets, dt)
  PROVE  Lifecycle!Update
<1> DEFINE event(i) == [type |-> DueType(i), id |-> i]
           told == {events'[k] : k \in DOMAIN events'}
<1>1. \A i \in Ids :
        /\ AllowedFrom(Phase(i), Phase(i)')
        /\ DueType(i) # "none" => ReportOf(event(i), dets, dt)
        /\ \A e : ReportOf(e, dets, dt) /\ e.id = i => DueType(i) # "none" /\ e = event(i)
  BY OneIdentity
<1>2. IsFiniteSet(DOMAIN states) /\ DOMAIN states \subseteq Ids
  BY DEF Consistent, Bounded, StatesOK
<1>3. /\ \A k \in DOMAIN events' : ReportOf(events'[k], dets, dt)
      /\ \A e : ReportOf(e, dets, dt) => \E k \in DOMAIN events' : events'[k] = e
      /\ \A k, l \in DOMAIN events' : events'[k] = events'[l] => k = l
  BY <1>2, UpdateReports
<1>4. \A e : ReportOf(e, dets, dt) => e.id \in Ids
  <2>1. \A m \in DOMAIN dets : EventOf(dets[m], dt).id \in Ids
    BY SeenIdsFinite DEF EventOf, SeenIds
  <2>2. \A i \in LostIds(dets, dt) : Timeout(i).id \in Ids
    BY <1>2 DEF LostIds, Timeout
  <2> QED BY <2>1, <2>2 DEF ReportOf
<1>5. \A i \in Ids : /\ Phase(i) \in {"unknown", "out", "in", "dwelling"}
                     /\ Phase(i)' \in {"unknown", "out", "in", "dwelling"}
                     /\ Phase(i) = "unknown" <=> ~Known(i)
  BY DEF Phase
<1> DEFINE phase == [i \in Ids |-> Phase(i)]
           phasep == [i \in Ids |-> Phase(i)']
<1>6. \A i \in Ids : phase[i] = Phase(i) /\ phasep[i] = Phase(i)'
  OBVIOUS
<1>7. phasep \in [Ids -> Lifecycle!Phases]
  BY <1>5 DEF Lifecycle!Phases, Lifecycle!There
<1>8. muted' \subseteq Ids
  <2>1. muted' = {dets[k].id : k \in {l \in DOMAIN dets : dets[l].muted}}
    BY DEF RegionUpdate
  <2>2. \A m \in DOMAIN dets : dets[m].id \in Ids
    BY SeenIdsFinite DEF SeenIds
  <2> QED BY <2>1, <2>2
<1>9. \A i \in Ids : \/ phasep[i] = phase[i]
                     \/ Lifecycle!Enter(i) \/ Lifecycle!Exit(i)
                     \/ Lifecycle!Linger(i) \/ Lifecycle!Found(i)
  BY <1>1, <1>5 DEF AllowedFrom, There, Lifecycle!Enter, Lifecycle!Exit, Lifecycle!Linger,
     Lifecycle!Found, Lifecycle!There
<1>10. \A i \in Ids :
         /\ DueType(i) = "ENTER" <=> Lifecycle!Enter(i) /\ ~Lifecycle!Silent(i)
         /\ DueType(i) = "DWELL" <=> Lifecycle!Linger(i)
         /\ DueType(i) = "EXIT" <=> Lifecycle!Exit(i)
         /\ DueType(i) \in {"ENTER", "DWELL", "EXIT", "none"}
  BY <1>5 DEF DueType, ChangeOf, There, Lifecycle!Enter, Lifecycle!Exit, Lifecycle!Linger,
     Lifecycle!Silent, Lifecycle!There
<1>11. told = {event(i) : i \in {k \in Ids : DueType(k) # "none"}}
  <2>1. ASSUME NEW k \in DOMAIN events'
        PROVE  \E i \in Ids : DueType(i) # "none" /\ events'[k] = event(i)
    BY <1>1, <1>3, <1>4
  <2>2. ASSUME NEW i \in Ids, DueType(i) # "none"
        PROVE  \E k \in DOMAIN events' : events'[k] = event(i)
    BY <1>1, <1>3, <2>2
  <2> HIDE DEF event
  <2> QED BY <2>1, <2>2
<1>12. told = Lifecycle!Due
  <2>1. \A e : e \in Lifecycle!Due <=>
          \/ \E i \in Ids : DueType(i) = "ENTER" /\ e = [type |-> "ENTER", id |-> i]
          \/ \E i \in Ids : DueType(i) = "DWELL" /\ e = [type |-> "DWELL", id |-> i]
          \/ \E i \in Ids : DueType(i) = "EXIT" /\ e = [type |-> "EXIT", id |-> i]
    BY <1>10 DEF Lifecycle!Due, Lifecycle!Report
  <2>2. \A e : e \in told <=> \E i \in Ids : DueType(i) # "none" /\ e = [type |-> DueType(i), id |-> i]
    BY <1>11
  <2> HIDE DEF told
  <2>3. \A e : e \in told <=> e \in Lifecycle!Due
    BY <1>10, <2>1, <2>2
  <2> QED BY <2>3
<1> HIDE DEF event
<1> QED BY <1>3, <1>7, <1>8, <1>9, <1>12 DEF Lifecycle!Update

(* ENTER, DWELL and EXIT come in the order a listener expects, and each     *)
(* change is reported but the marked first entry of an identity, whatever   *)
(* the detections: RegionMonitor implements RegionLifecycle.                *)
THEOREM ImplementsLifecycle == RegionSpec => LifecycleSpec
<1>1. ASSUME RegionInit PROVE Lifecycle!Init
  BY <1>1 DEF RegionInit, Lifecycle!Init, Phase, Known
<1>2. ASSUME RegionReset PROVE Lifecycle!Reset
  <2>1. \A i \in Ids : Phase(i)' = "unknown"
    BY <1>2 DEF RegionReset, Phase, Known
  <2> QED BY <1>2, <2>1 DEF RegionReset, Lifecycle!Reset
<1>3. ASSUME UNCHANGED regionVars
      PROVE  UNCHANGED <<[i \in Ids |-> Phase(i)], muted, events>>
  BY <1>3 DEF regionVars, Phase, Inside, Known
<1>4. Consistent /\ [RegionNext]_regionVars
        => [Lifecycle!Next]_<<[i \in Ids |-> Phase(i)], muted, events>>
  BY <1>2, <1>3, UpdateImplements DEF RegionNext, Lifecycle!Next
<1> QED BY <1>1, <1>4, ConsistentInductive, PTL DEF RegionSpec, LifecycleSpec, Lifecycle!Spec

==============================================================================
