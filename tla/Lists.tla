-------------------------------- MODULE Lists --------------------------------
(***************************************************************************)
(* The elements of a finite set in the order of a relation, the entries of *)
(* a sequence that are selected from it, and their sum.  They say what     *)
(* SetToSortSeq, SelectSeq and FoldSeq compute; those rest on operators    *)
(* that have no definition a proof could expand.                           *)
(***************************************************************************)
EXTENDS Naturals, Sequences, FiniteSets

(* The elements of S, each after all that come before it.                   *)
Arranged(S, Before(_, _)) ==
  CHOOSE f \in [1 .. Cardinality(S) -> S] :
    \A i, j \in 1 .. Cardinality(S) : i < j => Before(f[i], f[j])

(* A set of numbers from the least to the greatest.                         *)
Ascending(S) == Arranged(S, <)

(* The entries of s at the positions in P, in their order.                  *)
Picked(s, P) == LET at == Ascending(P) IN [n \in 1 .. Cardinality(P) |-> s[at[n]]]

(* The sum of the entries of s.                                             *)
Total(s) ==
  LET sum[n \in 0 .. Len(s)] == IF n = 0 THEN 0 ELSE sum[n - 1] + s[n] IN sum[Len(s)]

==============================================================================
