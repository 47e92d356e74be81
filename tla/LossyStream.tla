----------------------------- MODULE LossyStream -----------------------------
(***************************************************************************)
(* What every hand-over between two threads of the program promises: the   *)
(* items of one producer, numbered in the order it produced them, reach    *)
(* the consumer in that order and at most once.  Items may be skipped (a   *)
(* bounded queue drops its oldest entry, a latest-value slot overwrites    *)
(* what was not taken in time, a disconnect discards a backlog), but an    *)
(* older item never follows a newer one.                                   *)
(***************************************************************************)
EXTENDS Naturals

VARIABLES
  produced,  (* number of the newest item produced             *)
  consumed,  (* number of the newest item the consumer has got *)
  delivered  (* how many items the consumer has got            *)

streamVars == <<produced, consumed, delivered>>

Init == produced = 0 /\ consumed = 0 /\ delivered = 0

Produce == produced' = produced + 1 /\ UNCHANGED <<consumed, delivered>>

Consume ==
  /\ consumed' \in (consumed + 1) .. produced
  /\ delivered' = delivered + 1
  /\ UNCHANGED produced

Next == Produce \/ Consume

Spec == Init /\ [][Next]_streamVars

==============================================================================
