----------------------------- MODULE ListTheorems -----------------------------
(***************************************************************************)
(* Facts about numbers, finite sets and sequences that the proofs of the   *)
(* components need.  What takes an induction is proved from the least      *)
(* counterexample: a set of numbers that is not empty has a least element, *)
(* which the library states of well-founded relations (WFMin).             *)
(***************************************************************************)
EXTENDS Lists, SequenceTheorems, FiniteSetTheorems, FunctionTheorems, TLAPS

(* A set of numbers that is not empty has a least element ...               *)
THEOREM LeastNumber ==
  ASSUME NEW S \in SUBSET Nat, S # {}
  PROVE  \E x \in S : \A y \in S : x <= y
<1> DEFINE R == OpToRel(<, Nat)
<1>1. IsWellFoundedOn(R, Nat)
  BY NatLessThanWellFounded
<1>2. \A x, y \in Nat : <<y, x>> \in R <=> y < x
  BY DEF OpToRel
<1> HIDE DEF R
<1>3. PICK x \in S : \A y \in S : <<y, x>> \notin R
  BY <1>1, WFMin
<1>4. ASSUME NEW y \in S PROVE x <= y
  <2>1. x \in Nat /\ y \in Nat /\ ~(y < x)
    BY <1>2, <1>3
  <2> QED BY <2>1
<1> QED BY <1>4

(* ... and, if it is bounded, a greatest.                                   *)
THEOREM GreatestNumber ==
  ASSUME NEW n \in Nat, NEW S \in SUBSET (0 .. n), S # {}
  PROVE  \E x \in S : \A y \in S : x >= y
<1> DEFINE Above == {k \in 0 .. n : \A y \in S : y <= k}
<1>1. Above \in SUBSET Nat /\ n \in Above
  OBVIOUS
<1>2. PICK k \in Above : \A l \in Above : k <= l
  BY <1>1, LeastNumber
<1>3. CASE k \in S
  BY <1>2, <1>3
<1>4. CASE k \notin S
  <2>1. \A y \in S : y \in 0 .. n /\ y <= k - 1
    BY <1>2, <1>4
  <2>2. PICK y \in S : y \in 0 .. n /\ y <= k - 1
    BY <2>1
  <2>3. k - 1 \in 0 .. n
    BY <2>2
  <2>4. k - 1 \in Above
    BY <2>1, <2>3
  <2> QED BY <1>2, <2>4
<1> QED BY <1>3, <1>4

(* Induction over the numbers up to a bound, in the form of a set.          *)
THEOREM UpTo ==
  ASSUME NEW n \in Nat, NEW S, 0 \in S, \A k \in 0 .. n - 1 : k \in S => k + 1 \in S
  PROVE  0 .. n \subseteq S
<1> DEFINE Bad == {k \in 0 .. n : k \notin S}
<1>1. SUFFICES ASSUME Bad # {} PROVE FALSE
  OBVIOUS
<1>2. Bad \in SUBSET Nat
  OBVIOUS
<1>3. PICK k \in Bad : \A l \in Bad : k <= l
  BY <1>1, <1>2, LeastNumber
<1>4. k \in 1 .. n /\ k \notin S
  OBVIOUS
<1>5. k - 1 \in 0 .. n /\ k - 1 \notin Bad
  BY <1>3, <1>4
<1>6. k - 1 \in S /\ k - 1 \in 0 .. n - 1
  BY <1>4, <1>5
<1> QED BY <1>4, <1>6

(* The numbers up to n are finitely many, and there are n of them.          *)
THEOREM NumbersUpTo ==
  ASSUME NEW n \in Nat
  PROVE  IsFiniteSet(1 .. n) /\ Cardinality(1 .. n) = n
<1>1. Cardinality(1 .. n) = IF 1 > n THEN 0 ELSE n - 1 + 1
  BY FS_Interval
<1> QED BY <1>1, FS_Interval

-----------------------------------------------------------------------------
(* Orders on finite sets.                                                   *)

TotalOrder(R, S) ==
  /\ \A x \in S : <<x, x>> \notin R
  /\ \A x, y \in S : x # y => <<x, y>> \in R \/ <<y, x>> \in R
  /\ \A x, y, z \in S : <<x, y>> \in R /\ <<y, z>> \in R => <<x, z>> \in R

(* A finite set that is not empty has a last element.                       *)
THEOREM LastElement ==
  ASSUME NEW S, IsFiniteSet(S), S # {}, NEW R, TotalOrder(R, S)
  PROVE  \E x \in S : \A y \in S \ {x} : <<y, x>> \in R
<1> DEFINE Good(T) == \E x \in T : \A y \in T \ {x} : <<y, x>> \in R
           Bad == {k \in Nat : \E T \in SUBSET S : T # {} /\ Cardinality(T) = k /\ ~Good(T)}
<1>1. SUFFICES ASSUME ~Good(S) PROVE FALSE
  OBVIOUS
<1>2. Cardinality(S) \in Bad
  BY <1>1, FS_CardinalityType
<1>3. PICK k \in Bad : \A l \in Bad : k <= l
  <2>1. Bad \in SUBSET Nat /\ Bad # {}
    BY <1>2
  <2> QED BY <2>1, LeastNumber
<1>4. PICK T \in SUBSET S : T # {} /\ Cardinality(T) = k /\ ~Good(T)
  OBVIOUS
<1>5. PICK t : t \in T
  BY <1>4
<1> DEFINE U == T \ {t}
<1>6. IsFiniteSet(T) /\ IsFiniteSet(U) /\ Cardinality(U) = k - 1 /\ U \in SUBSET S
  <2>1. IsFiniteSet(T)
    BY FS_Subset
  <2> QED BY <1>4, <1>5, <2>1, FS_RemoveElement
<1>7. CASE U = {}
  BY <1>4, <1>5, <1>7
<1>8. CASE U # {}
  <2>1. k - 1 \in Nat
    BY <1>6, FS_CardinalityType
  <2>2. k - 1 \notin Bad
    BY <1>3, <2>1
  <2>3. Good(U)
    BY <1>6, <1>8, <2>1, <2>2
  <2>4. PICK x \in U : \A y \in U \ {x} : <<y, x>> \in R
    BY <2>3
  <2>5. CASE <<t, x>> \in R
    <3>1. x \in T /\ \A y \in T \ {x} : <<y, x>> \in R
      BY <2>4, <2>5
    <3> QED BY <1>4, <3>1
  <2>6. CASE <<x, t>> \in R
    <3>1. \A y \in T \ {t} : <<y, t>> \in R
      BY <1>5, <2>4, <2>6 DEF TotalOrder
    <3> QED BY <1>4, <1>5, <3>1
  <2> QED BY <1>5, <2>4, <2>5, <2>6 DEF TotalOrder
<1> QED BY <1>7, <1>8

InOrder(f, R) == \A i, j \in DOMAIN f : i < j => <<f[i], f[j]>> \in R

(* The elements of a finite set can be put in order.                        *)
THEOREM CanBeArranged ==
  ASSUME NEW S, IsFiniteSet(S), NEW R, TotalOrder(R, S)
  PROVE  \E f \in [1 .. Cardinality(S) -> S] : InOrder(f, R)
<1> DEFINE Good(T) == \E f \in [1 .. Cardinality(T) -> T] : InOrder(f, R)
           Bad == {k \in Nat : \E T \in SUBSET S : Cardinality(T) = k /\ ~Good(T)}
<1>1. SUFFICES ASSUME ~Good(S) PROVE FALSE
  OBVIOUS
<1>2. Cardinality(S) \in Bad
  BY <1>1, FS_CardinalityType
<1>3. PICK k \in Bad : \A l \in Bad : k <= l
  <2>1. Bad \in SUBSET Nat /\ Bad # {}
    BY <1>2
  <2> QED BY <2>1, LeastNumber
<1>4. PICK T \in SUBSET S : Cardinality(T) = k /\ ~Good(T)
  OBVIOUS
<1>5. IsFiniteSet(T)
  BY FS_Subset
<1>6. CASE T = {}
  <2>1. Cardinality(T) = 0
    BY <1>6, FS_EmptySet
  <2>2. [i \in 1 .. Cardinality(T) |-> i] \in [1 .. Cardinality(T) -> T]
    BY <2>1
  <2>3. InOrder([i \in 1 .. Cardinality(T) |-> i], R)
    BY <2>1 DEF InOrder
  <2> QED BY <1>4, <2>2, <2>3
<1>7. CASE T # {}
  <2>1. TotalOrder(R, T)
    BY DEF TotalOrder
  <2>2. PICK x \in T : \A y \in T \ {x} : <<y, x>> \in R
    BY <1>5, <1>7, <2>1, LastElement
  <2> DEFINE U == T \ {x}
  <2>3. Cardinality(U) = k - 1 /\ k - 1 \in Nat /\ U \in SUBSET S
    <3>1. IsFiniteSet(U) /\ Cardinality(U) = Cardinality(T) - 1
      BY <1>5, <2>2, FS_RemoveElement
    <3>2. Cardinality(U) \in Nat
      BY <3>1, FS_CardinalityType
    <3> QED BY <1>4, <3>1, <3>2
  <2>4. Good(U)
    <3>1. k - 1 \notin Bad
      BY <1>3, <2>3
    <3> QED BY <2>3, <3>1
  <2>5. PICK f \in [1 .. k - 1 -> U] : InOrder(f, R)
    BY <2>3, <2>4
  <2> DEFINE g == [i \in 1 .. k |-> IF i = k THEN x ELSE f[i]]
  <2>6. k \in Nat /\ k >= 1
    BY <2>3
  <2>7. g \in [1 .. k -> T]
    BY <2>2, <2>5, <2>6
  <2>8. ASSUME NEW i \in 1 .. k, NEW j \in 1 .. k, i < j
        PROVE  <<g[i], g[j]>> \in R
    <3>1. i \in 1 .. k - 1 /\ g[i] = f[i] /\ f[i] \in U
      BY <2>5, <2>6, <2>8
    <3>2. CASE j = k
      BY <2>2, <2>6, <3>1, <3>2
    <3>3. CASE j # k
      BY <2>5, <2>6, <2>8, <3>1, <3>3 DEF InOrder
    <3> QED BY <3>2, <3>3
  <2>9. InOrder(g, R)
    BY <2>7, <2>8 DEF InOrder
  <2> QED BY <1>4, <2>7, <2>9
<1> QED BY <1>6, <1>7

(* ... and the order then lists each of them, once.                         *)
ListsAll(f, S) ==
  /\ \A i, j \in 1 .. Cardinality(S) : f[i] = f[j] => i = j
  /\ \A x \in S : \E i \in 1 .. Cardinality(S) : f[i] = x

(* What is arranged is all of the set, each element once.                   *)
THEOREM InOrderListsAll ==
  ASSUME NEW S, NEW R, NEW f \in [1 .. Cardinality(S) -> S],
         IsFiniteSet(S), TotalOrder(R, S), InOrder(f, R)
  PROVE  ListsAll(f, S)
<1> DEFINE n == Cardinality(S)
<1>1. n \in Nat
  BY FS_CardinalityType
<1>2. ASSUME NEW i \in 1 .. n, NEW j \in 1 .. n, f[i] = f[j] PROVE i = j
  <2>1. ~(i < j) /\ ~(j < i)
    BY <1>2 DEF InOrder, TotalOrder
  <2> QED BY <1>1, <2>1
<1>3. f \in Injection(1 .. n, S)
  BY <1>2, Fun_IsInj
<1>4. IsFiniteSet(1 .. n) /\ Cardinality(1 .. n) = n
  BY <1>1, NumbersUpTo
<1>5. f \in Surjection(1 .. n, S)
  BY <1>3, <1>4, FS_Injection
<1> QED BY <1>2, <1>5 DEF Surjection, ListsAll

-----------------------------------------------------------------------------
(* Ascending and Picked.                                                    *)

Rising(f) == \A i, j \in DOMAIN f : i < j => f[i] < f[j]

(* The positions are listed from the least to the greatest, each once.      *)
THEOREM AscendingIs ==
  ASSUME NEW P \in SUBSET Nat, IsFiniteSet(P)
  PROVE  /\ Cardinality(P) \in Nat
         /\ Ascending(P) \in [1 .. Cardinality(P) -> P]
         /\ Rising(Ascending(P))
         /\ \A x \in P : \E i \in 1 .. Cardinality(P) : Ascending(P)[i] = x
<1> DEFINE n == Cardinality(P)
           R == {e \in P \X P : e[1] < e[2]}
           f == Ascending(P)
<1>1. n \in Nat
  BY FS_CardinalityType
<1>2. \A x, y \in P : <<x, y>> \in R <=> x < y
  OBVIOUS
<1> HIDE DEF R
<1>3. TotalOrder(R, P)
  BY <1>2 DEF TotalOrder
<1>4. PICK g \in [1 .. n -> P] : InOrder(g, R)
  BY <1>3, CanBeArranged
<1>5. \A i, j \in 1 .. n : i < j => g[i] < g[j]
  BY <1>2, <1>4 DEF InOrder
<1>6. f \in [1 .. n -> P] /\ \A i, j \in 1 .. n : i < j => f[i] < f[j]
  BY <1>5 DEF Ascending, Arranged
<1> HIDE DEF f
<1>7. Rising(f)
  BY <1>6 DEF Rising
<1>8. f \in Injection(1 .. n, P)
  <2>1. ASSUME NEW i \in 1 .. n, NEW j \in 1 .. n, f[i] = f[j] PROVE i = j
    <3>1. f[i] \in Nat /\ f[j] \in Nat
      BY <1>6
    <3> QED BY <1>1, <1>6, <2>1, <3>1
  <2> QED BY <1>6, <2>1, Fun_IsInj
<1>9. f \in Surjection(1 .. n, P)
  <2>1. IsFiniteSet(1 .. n) /\ Cardinality(1 .. n) = n
    BY <1>1, NumbersUpTo
  <2> QED BY <1>8, <2>1, FS_Injection
<1>10. \A x \in P : \E i \in 1 .. n : f[i] = x
  BY <1>9 DEF Surjection
<1> QED BY <1>1, <1>6, <1>7, <1>10 DEF f

(* No other function lists them so.                                         *)
THEOREM AscendingUnique ==
  ASSUME NEW P \in SUBSET Nat, NEW n \in Nat, NEW f \in [1 .. n -> P], Rising(f),
         \A x \in P : \E i \in 1 .. n : f[i] = x
  PROVE  IsFiniteSet(P) /\ Cardinality(P) = n /\ Ascending(P) = f
<1>1. f \in Injection(1 .. n, P)
  <2>1. ASSUME NEW i \in 1 .. n, NEW j \in 1 .. n, f[i] = f[j] PROVE i = j
    <3>1. f[i] \in Nat /\ f[j] \in Nat
      OBVIOUS
    <3> QED BY <2>1, <3>1 DEF Rising
  <2> QED BY <2>1, Fun_IsInj
<1>2. f \in Surjection(1 .. n, P)
  BY Fun_IsSurj
<1>3. IsFiniteSet(P) /\ Cardinality(P) = n
  <2>1. IsFiniteSet(1 .. n) /\ Cardinality(1 .. n) = n
    <3>1. Cardinality(1 .. n) = IF 1 > n THEN 0 ELSE n - 1 + 1
      BY FS_Interval
    <3> QED BY <3>1, FS_Interval
  <2> QED BY <1>1, <1>2, <2>1, FS_Surjection
<1> DEFINE g == Ascending(P)
           Bad == {i \in 1 .. n : f[i] # g[i]}
<1>4. g \in [1 .. n -> P] /\ Rising(g) /\ \A x \in P : \E i \in 1 .. n : g[i] = x
  BY <1>3, AscendingIs
<1> HIDE DEF g
<1>5. /\ \A i \in 1 .. n : f[i] \in P /\ g[i] \in P /\ f[i] \in Nat /\ g[i] \in Nat
      /\ \A i, j \in 1 .. n : i < j => f[i] < f[j] /\ g[i] < g[j]
  BY <1>4 DEF Rising
<1>6. Bad = {}
  <2>1. SUFFICES ASSUME Bad # {} PROVE FALSE
    OBVIOUS
  <2>2. PICK k \in Bad : \A l \in Bad : k <= l
    <3>1. Bad \in SUBSET Nat
      OBVIOUS
    <3> QED BY <2>1, <3>1, LeastNumber
  <2>3. \A l \in 1 .. n : l < k => f[l] = g[l]
    BY <2>2
  <2>4. f[k] \in P /\ g[k] \in P /\ f[k] # g[k]
    BY <1>4, <2>2
  <2>5. CASE f[k] < g[k]
    <3>1. PICK j \in 1 .. n : g[j] = f[k]
      BY <1>4, <2>4
    <3>2. j < k
      BY <1>5, <2>5, <3>1
    <3>3. f[j] = f[k] /\ f[j] < f[k] /\ f[k] \in Nat
      BY <1>5, <2>3, <3>1, <3>2
    <3> QED BY <3>3
  <2>6. CASE g[k] < f[k]
    <3>1. PICK j \in 1 .. n : f[j] = g[k]
      BY <2>4
    <3>2. j < k
      BY <1>5, <2>6, <3>1
    <3>3. g[j] = g[k] /\ g[j] < g[k] /\ g[k] \in Nat
      BY <1>5, <2>3, <3>1, <3>2
    <3> QED BY <3>3
  <2>7. f[k] \in Nat /\ g[k] \in Nat
    BY <2>4
  <2> QED BY <2>4, <2>5, <2>6, <2>7
<1>7. f = g
  BY <1>4, <1>6
<1> QED BY <1>3, <1>7 DEF g

(* What is picked: as many entries as positions, in the same order.         *)
THEOREM PickedIs ==
  ASSUME NEW T, NEW s \in Seq(T), NEW P \in SUBSET (1 .. Len(s))
  PROVE  /\ IsFiniteSet(P) /\ Cardinality(P) \in Nat
         /\ Picked(s, P) \in Seq(T) /\ Len(Picked(s, P)) = Cardinality(P)
         /\ Ascending(P) \in [1 .. Cardinality(P) -> P] /\ Rising(Ascending(P))
         /\ \A x \in P : \E i \in 1 .. Cardinality(P) : Ascending(P)[i] = x
         /\ Picked(s, P) = [i \in 1 .. Cardinality(P) |-> s[Ascending(P)[i]]]
<1>1. IsFiniteSet(P)
  <2>1. IsFiniteSet(1 .. Len(s))
    <3>1. 1 \in Int /\ Len(s) \in Int
      OBVIOUS
    <3> QED BY <3>1, FS_Interval
  <2> QED BY <2>1, FS_Subset
<1>2. P \in SUBSET Nat
  OBVIOUS
<1>3. /\ Cardinality(P) \in Nat
      /\ Ascending(P) \in [1 .. Cardinality(P) -> P] /\ Rising(Ascending(P))
      /\ \A x \in P : \E i \in 1 .. Cardinality(P) : Ascending(P)[i] = x
  BY <1>1, <1>2, AscendingIs
<1>4. Picked(s, P) = [i \in 1 .. Cardinality(P) |-> s[Ascending(P)[i]]]
  BY DEF Picked
<1>5. ASSUME NEW i \in 1 .. Cardinality(P) PROVE s[Ascending(P)[i]] \in T
  <2>1. Ascending(P)[i] \in 1 .. Len(s)
    BY <1>3
  <2> QED BY <2>1
<1>6. Picked(s, P) \in Seq(T) /\ Len(Picked(s, P)) = Cardinality(P)
  <2> DEFINE q == [i \in 1 .. Cardinality(P) |-> s[Ascending(P)[i]]]
  <2>1. q \in [1 .. Cardinality(P) -> T]
    BY <1>5
  <2> HIDE DEF q
  <2>2. q \in Seq(T) /\ Len(q) = Cardinality(P)
    BY <1>3, <2>1
  <2> QED BY <1>4, <2>2 DEF q
<1> QED BY <1>1, <1>3, <1>4, <1>6

(* Where nothing is picked, nothing is left.                                *)
THEOREM PickedNothing == ASSUME NEW s PROVE Picked(s, {}) = <<>>
BY FS_EmptySet DEF Picked

(* One more entry, not picked ...                                           *)
THEOREM PickedSkip ==
  ASSUME NEW T, NEW s \in Seq(T), NEW x \in T, NEW P \in SUBSET (1 .. Len(s))
  PROVE  Picked(Append(s, x), P) = Picked(s, P)
<1>1. Ascending(P) \in [1 .. Cardinality(P) -> P]
  BY PickedIs
<1>2. \A i \in 1 .. Cardinality(P) : Append(s, x)[Ascending(P)[i]] = s[Ascending(P)[i]]
  BY <1>1
<1> QED BY <1>2 DEF Picked

(* ... or picked.                                                           *)
THEOREM PickedAppend ==
  ASSUME NEW T, NEW s \in Seq(T), NEW x \in T, NEW P \in SUBSET (1 .. Len(s))
  PROVE  Picked(Append(s, x), P \cup {Len(s) + 1}) = Append(Picked(s, P), x)
<1> DEFINE n == Cardinality(P)
           at == Ascending(P)
           Q == P \cup {Len(s) + 1}
           t == Append(s, x)
           up == [i \in 1 .. n + 1 |-> IF i = n + 1 THEN Len(s) + 1 ELSE at[i]]
<1>1. /\ n \in Nat /\ at \in [1 .. n -> P] /\ Rising(at)
      /\ \A y \in P : \E i \in 1 .. n : at[i] = y
      /\ Picked(s, P) = [i \in 1 .. n |-> s[at[i]]]
      /\ Picked(s, P) \in Seq(T) /\ Len(Picked(s, P)) = n
  BY PickedIs
<1> HIDE DEF n, at
<1>2. /\ up \in [1 .. n + 1 -> Q] /\ DOMAIN up = 1 .. n + 1 /\ up[n + 1] = Len(s) + 1
      /\ \A i \in 1 .. n : up[i] = at[i] /\ at[i] \in 1 .. Len(s)
  <2>0. \A y \in P : y \in 1 .. Len(s)
    OBVIOUS
  <2>1. ASSUME NEW i \in 1 .. n PROVE at[i] \in P /\ at[i] \in 1 .. Len(s) /\ i # n + 1
    <3>1. at[i] \in P
      BY <1>1
    <3>2. i # n + 1
      BY <1>1
    <3> QED BY <2>0, <3>1, <3>2
  <2>2. \A i \in 1 .. n + 1 : i # n + 1 => i \in 1 .. n
    BY <1>1
  <2>3. up \in [1 .. n + 1 -> Q]
    BY <2>1, <2>2
  <2>4. n + 1 \in 1 .. n + 1 /\ \A i \in 1 .. n : i \in 1 .. n + 1
    BY <1>1
  <2> HIDE DEF Q
  <2> QED BY <2>1, <2>3, <2>4
<1> HIDE DEF up
<1>3. Rising(up)
  <2>1. SUFFICES ASSUME NEW i \in 1 .. n + 1, NEW j \in 1 .. n + 1, i < j PROVE up[i] < up[j]
    BY <1>2 DEF Rising
  <2>2. i \in 1 .. n
    BY <1>1, <2>1
  <2>3. CASE j = n + 1
    BY <1>2, <2>2, <2>3
  <2>4. CASE j # n + 1
    <3>1. j \in 1 .. n
      BY <1>1, <2>4
    <3> QED BY <1>1, <1>2, <2>1, <2>2, <3>1 DEF Rising
  <2> QED BY <2>3, <2>4
<1>4. \A y \in Q : \E i \in 1 .. n + 1 : up[i] = y
  <2>1. n + 1 \in 1 .. n + 1 /\ \A i \in 1 .. n : i \in 1 .. n + 1
    BY <1>1
  <2> QED BY <1>1, <1>2, <2>1
<1>5. Q \in SUBSET Nat /\ n + 1 \in Nat
  <2>1. Len(s) + 1 \in Nat /\ \A y \in P : y \in Nat
    OBVIOUS
  <2>2. Q \in SUBSET Nat
    BY <2>1
  <2> QED BY <1>1, <2>2
<1>6. Cardinality(Q) = n + 1 /\ Ascending(Q) = up
  BY <1>2, <1>3, <1>4, <1>5, AscendingUnique
<1>7. Picked(t, Q) = [i \in 1 .. n + 1 |-> t[up[i]]]
  BY <1>6 DEF Picked
<1>8. ASSUME NEW i \in 1 .. n + 1 PROVE t[up[i]] = Append(Picked(s, P), x)[i]
  <2>1. CASE i = n + 1
    BY <1>1, <1>2, <2>1
  <2>2. CASE i # n + 1
    <3>1. i \in 1 .. n
      BY <1>1, <2>2
    <3>2. t[up[i]] = s[at[i]]
      BY <1>2, <3>1
    <3> QED BY <1>1, <3>1, <3>2
  <2> QED BY <2>1, <2>2
<1>9. /\ DOMAIN Append(Picked(s, P), x) = 1 .. n + 1
      /\ Append(Picked(s, P), x) = [i \in 1 .. n + 1 |-> Append(Picked(s, P), x)[i]]
  BY <1>1
<1> QED BY <1>7, <1>8, <1>9

(* What is picked, followed by what f gives for the numbers in L ...        *)
Followed(s, P, f, L) == Picked(s, P) \o [k \in DOMAIN Ascending(L) |-> f[Ascending(L)[k]]]

(* ... holds those entries and no others.                                   *)
HoldsBoth(list, s, P, f, L) ==
  /\ \A k \in DOMAIN list : (\E m \in P : list[k] = s[m]) \/ (\E i \in L : list[k] = f[i])
  /\ \A m \in P : \E k \in DOMAIN list : list[k] = s[m]
  /\ \A i \in L : \E k \in DOMAIN list : list[k] = f[i]

(* Entries picked from one sequence followed by what a set lists:           *)
(* HoldsBoth.                                                               *)
THEOREM FollowedIs ==
  ASSUME NEW T, NEW s \in Seq(T), NEW P \in SUBSET (1 .. Len(s)),
         NEW L \in SUBSET Nat, IsFiniteSet(L), NEW f \in [L -> T]
  PROVE  HoldsBoth(Followed(s, P, f, L), s, P, f, L)
<1> DEFINE n == Cardinality(P)
           m == Cardinality(L)
           at == Ascending(P)
           late == Ascending(L)
           A == Picked(s, P)
           B == [k \in DOMAIN late |-> f[late[k]]]
           list == Followed(s, P, f, L)
<1>1. /\ IsFiniteSet(P) /\ n \in Nat
      /\ A \in Seq(T) /\ Len(A) = n
      /\ at \in [1 .. n -> P] /\ Rising(at)
      /\ \A x \in P : \E i \in 1 .. n : at[i] = x
      /\ A = [i \in 1 .. n |-> s[at[i]]]
  BY PickedIs
<1>2. /\ m \in Nat /\ late \in [1 .. m -> L]
      /\ \A x \in L : \E i \in 1 .. m : late[i] = x
  BY AscendingIs
<1>3. list = A \o B
  BY DEF Followed
<1> HIDE DEF n, m, at, late, A, B, list
<1>4. B \in [1 .. m -> T] /\ \A k \in 1 .. m : B[k] = f[late[k]]
  BY <1>2 DEF B
<1>5. B \in Seq(T) /\ Len(B) = m
  BY <1>2, <1>4
<1>6. /\ DOMAIN list = 1 .. n + m
      /\ \A k \in 1 .. n + m : list[k] = IF k <= n THEN A[k] ELSE B[k - n]
  <2>1. n \in Nat /\ A \in Seq(T) /\ Len(A) = n
    BY <1>1
  <2>2. m \in Nat
    BY <1>2
  <2>3. Len(A \o B) = n + m /\ A \o B \in Seq(T)
    BY <1>5, <2>1, <2>2
  <2>4. DOMAIN list = 1 .. n + m
    BY <1>3, <2>3
  <2>5. \A k \in 1 .. Len(A) + Len(B) :
          (A \o B)[k] = IF k <= Len(A) THEN A[k] ELSE B[k - Len(A)]
    BY <1>5, <2>1, ConcatProperties
  <2> QED BY <1>3, <1>5, <2>1, <2>4, <2>5
<1>7. \A k \in 1 .. n : k \in DOMAIN list /\ list[k] = s[at[k]] /\ at[k] \in P
  <2>1. \A k \in 1 .. n : k \in 1 .. n + m /\ k <= n
    BY <1>1, <1>2
  <2> QED BY <1>1, <1>6, <2>1
<1>8. \A k \in 1 .. m : n + k \in DOMAIN list /\ list[n + k] = f[late[k]] /\ late[k] \in L
  <2>1. \A k \in 1 .. m : n + k \in 1 .. n + m /\ ~(n + k <= n) /\ (n + k) - n = k
    BY <1>1, <1>2
  <2> QED BY <1>2, <1>4, <1>6, <2>1
<1>9. \A k \in DOMAIN list : k \in 1 .. n \/ (k - n \in 1 .. m /\ n + (k - n) = k)
  BY <1>1, <1>2, <1>6
<1>10. \A k \in DOMAIN list : (\E x \in P : list[k] = s[x]) \/ (\E i \in L : list[k] = f[i])
  <2> SUFFICES ASSUME NEW k \in DOMAIN list
               PROVE  (\E x \in P : list[k] = s[x]) \/ (\E i \in L : list[k] = f[i])
    OBVIOUS
  <2>1. CASE k \in 1 .. n
    BY <1>7, <2>1
  <2>2. CASE k - n \in 1 .. m /\ n + (k - n) = k
    <3>1. list[k] = f[late[k - n]] /\ late[k - n] \in L
      BY <1>8, <2>2
    <3> QED BY <3>1
  <2> QED BY <1>9, <2>1, <2>2
<1>11. \A x \in P : \E k \in DOMAIN list : list[k] = s[x]
  BY <1>1, <1>7
<1>12. \A i \in L : \E k \in DOMAIN list : list[k] = f[i]
  BY <1>2, <1>8
<1> QED BY <1>10, <1>11, <1>12 DEF HoldsBoth, list

-----------------------------------------------------------------------------
(* Sums.                                                                    *)

Summing(f, s) ==
  /\ f \in [0 .. Len(s) -> Int] /\ f[0] = 0
  /\ \A k \in 1 .. Len(s) : f[k] = f[k - 1] + s[k]

(* Every sequence of numbers has its partial sums, and the last is Total.   *)
LEMMA SumsExist ==
  ASSUME NEW s \in Seq(Int)
  PROVE  \E f : Summing(f, s)
<1> DEFINE Upto(n, f) == /\ f \in [0 .. n -> Int] /\ f[0] = 0
                         /\ \A k \in 1 .. n : f[k] = f[k - 1] + s[k]
           Ok == {n \in 0 .. Len(s) : \E f : Upto(n, f)}
<1>1. 0 \in Ok
  <2>1. \E f : Upto(0, f)
    <3>1. Upto(0, [k \in 0 .. 0 |-> 0])
      OBVIOUS
    <3> QED BY <3>1
  <2> HIDE DEF Upto
  <2> QED BY <2>1
<1>2. ASSUME NEW n \in 0 .. Len(s) - 1, n \in Ok PROVE n + 1 \in Ok
  <2>1. PICK f : Upto(n, f)
    BY <1>2
  <2> DEFINE g == [k \in 0 .. n + 1 |-> IF k = n + 1 THEN f[n] + s[n + 1] ELSE f[k]]
  <2>2. n + 1 \in 1 .. Len(s) /\ s[n + 1] \in Int /\ f[n] \in Int
    BY <2>1
  <2>3. g \in [0 .. n + 1 -> Int] /\ g[0] = 0
    BY <2>1, <2>2
  <2>4. ASSUME NEW k \in 1 .. n + 1 PROVE g[k] = g[k - 1] + s[k]
    <3>1. k - 1 \in 0 .. n /\ g[k - 1] = f[k - 1]
      OBVIOUS
    <3> QED BY <2>1, <3>1
  <2>5. Upto(n + 1, g)
    BY <2>3, <2>4
  <2> HIDE DEF Upto, g
  <2>6. n + 1 \in 0 .. Len(s)
    OBVIOUS
  <2> QED BY <2>5, <2>6
<1> HIDE DEF Ok
<1>3. 0 .. Len(s) \subseteq Ok
  <2>1. Len(s) \in Nat
    OBVIOUS
  <2> QED BY <1>1, <1>2, <2>1, UpTo
<1>4. Len(s) \in Ok
  BY <1>3
<1> QED BY <1>4 DEF Ok, Summing

(* The sum is the one of the partial sums.                                  *)
LEMMA TotalIs ==
  ASSUME NEW s \in Seq(Int), NEW f, Summing(f, s)
  PROVE  Total(s) = f[Len(s)] /\ Total(s) \in Int
<1> DEFINE Sum(g) == g = [n \in 0 .. Len(s) |-> IF n = 0 THEN 0 ELSE g[n - 1] + s[n]]
           h == CHOOSE g : Sum(g)
<1>1. Sum(f)
  BY DEF Summing
<1>2. Sum(h)
  BY <1>1
<1>3. Total(s) = h[Len(s)]
  BY DEF Total
<1> HIDE DEF h
<1> DEFINE Ok == {n \in 0 .. Len(s) : h[n] = f[n]}
<1>4. 0 \in Ok
  BY <1>2 DEF Summing
<1>5. ASSUME NEW n \in 0 .. Len(s) - 1, n \in Ok PROVE n + 1 \in Ok
  <2>1. n + 1 \in 1 .. Len(s) /\ n + 1 - 1 = n
    OBVIOUS
  <2>2. h[n + 1] = h[n] + s[n + 1] /\ f[n + 1] = f[n] + s[n + 1]
    BY <1>2, <2>1 DEF Summing
  <2> QED BY <1>5, <2>1, <2>2
<1> HIDE DEF Ok
<1>6. 0 .. Len(s) \subseteq Ok
  <2>1. Len(s) \in Nat
    OBVIOUS
  <2> QED BY <1>4, <1>5, <2>1, UpTo
<1>7. Len(s) \in 0 .. Len(s)
  OBVIOUS
<1> QED BY <1>3, <1>6, <1>7 DEF Ok, Summing

(* Nothing sums up to 0.                                                    *)
THEOREM TotalEmpty == Total(<<>>) = 0
<1>1. Summing([k \in 0 .. 0 |-> 0], <<>>)
  BY DEF Summing
<1> QED BY <1>1, TotalIs

(* The sum with one more at the end ...                                     *)
THEOREM TotalAppend ==
  ASSUME NEW s \in Seq(Int), NEW x \in Int
  PROVE  Total(Append(s, x)) = Total(s) + x /\ Total(s) \in Int
<1> DEFINE t == Append(s, x)
<1>1. PICK f : Summing(f, t)
  <2>1. t \in Seq(Int)
    OBVIOUS
  <2> QED BY <2>1, SumsExist
<1>2. /\ Len(t) = Len(s) + 1 /\ t \in Seq(Int) /\ t[Len(s) + 1] = x
      /\ \A k \in 1 .. Len(s) : t[k] = s[k]
  OBVIOUS
<1> HIDE DEF t
<1> DEFINE g == [k \in 0 .. Len(s) |-> f[k]]
<1>3. Summing(g, s)
  BY <1>1, <1>2 DEF Summing
<1>4. Total(s) = g[Len(s)] /\ Total(s) \in Int
  BY <1>3, TotalIs
<1>5. Total(t) = f[Len(s) + 1]
  BY <1>1, <1>2, TotalIs
<1>6. f[Len(s) + 1] = f[Len(s)] + x
  BY <1>1, <1>2 DEF Summing
<1> QED BY <1>4, <1>5, <1>6 DEF t

(* ... and without the first.                                               *)
THEOREM TotalTail ==
  ASSUME NEW s \in Seq(Int), s # <<>>
  PROVE  Total(Tail(s)) = Total(s) - Head(s)
<1> DEFINE t == Tail(s)
<1>1. PICK f : Summing(f, s)
  BY SumsExist
<1>2. /\ Len(s) \in Nat \ {0} /\ Len(t) = Len(s) - 1 /\ t \in Seq(Int)
      /\ Head(s) = s[1] /\ s[1] \in Int /\ \A k \in 1 .. Len(s) - 1 : t[k] = s[k + 1]
  OBVIOUS
<1> HIDE DEF t
<1> DEFINE g == [k \in 0 .. Len(s) - 1 |-> f[k + 1] - s[1]]
<1>3. g \in [0 .. Len(t) -> Int] /\ g[0] = 0
  BY <1>1, <1>2 DEF Summing
<1>4. ASSUME NEW k \in 1 .. Len(t) PROVE g[k] = g[k - 1] + t[k]
  <2>1. k \in 1 .. Len(s) - 1 /\ k + 1 \in 1 .. Len(s) /\ k \in 0 .. Len(s)
    BY <1>2
  <2>2. f[k + 1] = f[k] + s[k + 1] /\ f[k] \in Int /\ s[k + 1] \in Int
    BY <1>1, <2>1 DEF Summing
  <2>3. g[k] = f[k + 1] - s[1] /\ g[k - 1] = f[k] - s[1] /\ t[k] = s[k + 1]
    BY <1>2, <2>1
  <2>4. s[1] \in Int
    BY <1>2
  <2> HIDE DEF g
  <2> QED BY <2>2, <2>3, <2>4
<1>5. Summing(g, t)
  BY <1>3, <1>4 DEF Summing
<1>6. Total(t) = g[Len(t)] /\ Total(s) = f[Len(s)]
  BY <1>1, <1>2, <1>5, TotalIs
<1> QED BY <1>2, <1>6 DEF t

==============================================================================
