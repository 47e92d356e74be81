------------------------------ MODULE ClassFusion ------------------------------
(***************************************************************************)
(* The class of one object (src/semantic_stabilizer.cpp,                   *)
(* update_class_fusion): every observation adds evidence for a class, all  *)
(* evidence fades with time, and another class replaces the stable one     *)
(* when it has been ahead by a ratio for a time.                           *)
(* Evidence is a whole number; how it fades is a parameter.                *)
(***************************************************************************)
EXTENDS Integers, FiniteSets

CONSTANTS
  FusionClasses, (* class ids                                                *)
  Faded(_, _),   (* what is left of an amount of evidence after a time       *)
  Weights,       (* evidence of one observation: its confidence, at least 1  *)
  Ratio,         (* class_switch_evidence_ratio, in tenths                   *)
  SwitchHold,    (* class_switch_hold_seconds, in ticks                      *)
  TableSize,     (* classes with evidence: three                             *)
  FusionSteps    (* bound: ticks between two updates                         *)

NoClass == -1

(* class ids are not negative, and time does not go backwards.              *)
ASSUME FusionAssumption ==
  FusionClasses \subseteq Nat /\ SwitchHold \in Nat /\ FusionSteps \subseteq Nat

VARIABLES
  evidence,  (* class_evidence                                               *)
  stable,    (* stable_class_id                                              *)
  rival,     (* pending_class_id                                             *)
  waited,    (* time since class_switch_started_at, held at SwitchHold       *)
  seenAs,    (* auxiliary: the class of the last observation                 *)
  parity,    (* auxiliary: whether observations were even in number          *)
  ahead      (* auxiliary: per class, how long it has been ahead at every    *)
             (* observation, held at SwitchHold; -1 if it is not             *)

fusionVars == <<evidence, stable, rival, waited, seenAs, parity, ahead>>

FusionInit ==
  /\ evidence = [c \in {} |-> 0] /\ stable = NoClass /\ rival = NoClass /\ waited = 0
  /\ seenAs = NoClass /\ parity = TRUE
  /\ ahead = [c \in FusionClasses |-> -1]

Held(t) == IF t < SwitchHold THEN t ELSE SwitchHold

-----------------------------------------------------------------------------
(* The entry a full table loses: the least, but never the stable class.     *)
Weakest(e) ==
  CHOOSE c \in DOMAIN e \ {stable} : \A d \in DOMAIN e \ {stable} : e[c] <= e[d]

Without(e, c) == [d \in DOMAIN e \ {c} |-> e[d]]

MutantWithObservation(c, weight, dt) ==  (* mutant: a full table takes no new class *)
  [d \in DOMAIN evidence \cup (IF Cardinality(DOMAIN evidence) < TableSize THEN {c} ELSE {}) |->
     (IF d \in DOMAIN evidence THEN Faded(evidence[d], dt) ELSE 0) + (IF d = c THEN weight ELSE 0)]
(* The table after an observation.                                          *)
WithObservation(c, weight, dt) ==
  LET added == [d \in DOMAIN evidence \cup {c} |->
                  (IF d \in DOMAIN evidence THEN Faded(evidence[d], dt) ELSE 0)
                  + (IF d = c THEN weight ELSE 0)]
  IN  IF Cardinality(DOMAIN added) > TableSize THEN Without(added, Weakest(added)) ELSE added

(* The class with the most evidence, the first of several, if it has enough *)
(* more than the stable one.                                                *)
Leader(e) ==
  LET leaders == {c \in DOMAIN e : /\ e[c] > e[stable] /\ 10 * e[c] >= Ratio * e[stable]
                                  /\ \A d \in DOMAIN e : e[d] <= e[c]}
  IN  IF stable = NoClass \/ leaders = {} THEN NoClass
      ELSE CHOOSE c \in leaders : \A d \in leaders : c <= d

MutantChallenge(c, dt) ==  (* mutant: the hold time goes on with another rival *)
  IF rival # NoClass /\ Held(waited + dt) >= SwitchHold
  THEN stable' = c /\ rival' = NoClass /\ waited' = 0
  ELSE rival' = c /\ waited' = (IF rival = NoClass THEN 0 ELSE Held(waited + dt))
       /\ UNCHANGED stable
(* The class c is ahead: it has to be for SwitchHold.                       *)
Challenge(c, dt) ==
  IF rival # c THEN rival' = c /\ waited' = 0 /\ UNCHANGED stable
  ELSE IF Held(waited + dt) >= SwitchHold
       THEN stable' = c /\ rival' = NoClass /\ waited' = 0
       ELSE waited' = Held(waited + dt) /\ UNCHANGED <<stable, rival>>

Observe(c, weight, dt) ==
  \E e \in {WithObservation(c, weight, dt)} : \E leader \in {Leader(e)} :
    /\ evidence' = e
    /\ IF stable = NoClass THEN stable' = c /\ rival' = NoClass /\ waited' = 0
       ELSE IF leader = NoClass THEN rival' = NoClass /\ waited' = 0 /\ UNCHANGED stable
       ELSE Challenge(leader, dt)
    /\ seenAs' = c /\ parity' = ~parity
    /\ ahead' = [d \in FusionClasses |->
                   IF d # leader THEN -1 ELSE IF ahead[d] < 0 THEN 0 ELSE Held(ahead[d] + dt)]

(* The object is missed: time passes, but no evidence fades.                *)
MissObject(dt) ==
  /\ stable # NoClass
  /\ waited' = (IF rival = NoClass THEN 0 ELSE Held(waited + dt))
  /\ ahead' = [d \in FusionClasses |-> IF ahead[d] < 0 THEN -1 ELSE Held(ahead[d] + dt)]
  /\ UNCHANGED <<evidence, stable, rival, seenAs, parity>>

ObserveAny == \E c \in FusionClasses, w \in Weights, dt \in FusionSteps : Observe(c, w, dt)
FusionNext == ObserveAny \/ \E dt \in FusionSteps : MissObject(dt)

FusionSpec == FusionInit /\ [][FusionNext]_fusionVars

-----------------------------------------------------------------------------
(* The stable class is never lost from the table, which stays small.        *)
FusionTypeOK ==
  /\ Cardinality(DOMAIN evidence) <= TableSize
  /\ \A c \in DOMAIN evidence : evidence[c] \in Nat
  /\ stable = NoClass \/ stable \in DOMAIN evidence
  /\ rival = NoClass \/ rival \in DOMAIN evidence \ {stable}
  /\ waited \in 0 .. SwitchHold /\ parity \in BOOLEAN /\ seenAs \in FusionClasses \cup {NoClass}
  /\ ahead \in [FusionClasses -> -1 .. SwitchHold]

(* A class becomes the stable one after it was ahead at every observation   *)
(* of a whole hold time: a flicker of classes does not add up.              *)
SwitchIsHeld ==
  [][stable # NoClass /\ stable' # stable => ahead'[stable'] >= SwitchHold]_fusionVars

(* An object that from some time on is always seen as one class gets it,    *)
(* whatever evidence was gathered before and however full the table is.     *)
SustainedClassWins ==
  \A c \in FusionClasses : <>[](seenAs = c) => <>[](stable = c)

==============================================================================
