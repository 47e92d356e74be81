---------------------------- MODULE RegionMonitor ----------------------------
(***************************************************************************)
(* RegionMonitor (src/region_monitor.cpp): the state of every identity     *)
(* relative to the region of interest, and the ENTER, DWELL and EXIT       *)
(* events of one update.                                                   *)
(*                                                                         *)
(* Time is counted in ticks.  A time point of the code is kept as its age, *)
(* and an update ages everything by the time dt since the one before.      *)
(* A detection is reduced to its identity, whether the centre of its box   *)
(* is inside the region, and suppress_enter; detections that update()      *)
(* skips (not ACTIVE, or without any identity) are left out of the input.  *)
(***************************************************************************)
EXTENDS Naturals, Sequences, FiniteSets, Lists

CONSTANTS
  Ids,        (* logical identities, numbers as in the code                 *)
  Dwell,      (* dwell_seconds_                                             *)
  RegionLost, (* max_lost_seconds_                                          *)
  MaxRecent,  (* max_recent_events_                                         *)
  RegionSteps       (* times that may pass between two updates                    *)

(* The constructor throws on anything else.                                 *)
ASSUME RegionAssumption ==
  /\ Ids \subseteq Nat /\ RegionSteps \subseteq Nat
  /\ Dwell \in Nat /\ RegionLost \in Nat \ {0} /\ MaxRecent \in Nat \ {0}

VARIABLES
  states,     (* states_: a function on the identities known                *)
  events,     (* new_events of the last update                              *)
  recent,     (* recent_events_                                             *)
  muted       (* auxiliary: identities with suppress_enter in that update   *)

regionVars == <<states, events, recent, muted>>

TrackState == [inside : BOOLEAN, missing : BOOLEAN, dwelled : BOOLEAN,
               since : Nat, visible : Nat]
Event == [type : {"ENTER", "DWELL", "EXIT"}, id : Ids]

RegionInit == states = <<>> /\ events = <<>> /\ recent = <<>> /\ muted = {}

-----------------------------------------------------------------------------

Known(i)  == i \in DOMAIN states
Inside(i) == Known(i) /\ states[i].inside

(* A state out of the region, or one that has just entered.                 *)
Fresh(inside) ==
  [inside |-> inside, missing |-> FALSE, dwelled |-> FALSE, since |-> 0, visible |-> 0]

(* Time seen inside: it grows between two updates that both saw the object, *)
(* not over a gap.  The count is held at Dwell, where it stops mattering.   *)
MutantVisible(s, dt) ==  (* mutant: the gap counts *)
  IF s.visible + s.since + dt > Dwell THEN Dwell ELSE s.visible + s.since + dt
Visible(s, dt) ==
  LET sum == IF s.missing THEN s.visible ELSE s.visible + s.since + dt
  IN  IF sum > Dwell THEN Dwell ELSE sum

Stays(d) == Inside(d.id) /\ d.inside

Dwells(d, dt) ==
  Stays(d) /\ ~states[d.id].dwelled /\ Visible(states[d.id], dt) >= Dwell

MutantEnters(d) == d.inside /\ ~Inside(d.id) /\ ~d.muted  (* mutant: a return is muted too *)
Enters(d) == d.inside /\ ~Inside(d.id) /\ (Known(d.id) \/ ~d.muted)
Exits(d)  == Inside(d.id) /\ ~d.inside

Seen(d, dt) ==
  IF Stays(d)
  THEN [states[d.id] EXCEPT !.missing = FALSE, !.since = 0,
                            !.dwelled = @ \/ Dwells(d, dt),
                            !.visible = Visible(states[d.id], dt)]
  ELSE Fresh(d.inside)

(* An object that is not seen keeps its lifecycle until the lost window is  *)
(* over; one that is outside keeps its entry for ever.                      *)
Unseen(s, dt) ==
  IF s.inside THEN [s EXCEPT !.missing = TRUE, !.since = @ + dt] ELSE s

MutantTimedOut(s, dt) == s.inside /\ s.since + dt > RegionLost  (* mutant: > for >= *)
TimedOut(s, dt) == s.inside /\ s.since + dt >= RegionLost

(* update(): the detections in their order, then the timeouts by identity.  *)
RegionUpdate(dets, dt) ==
  LET seen  == {dets[k].id : k \in DOMAIN dets}
      lost  == {i \in DOMAIN states \ seen : TimedOut(states[i], dt)}
      Det(i) == dets[CHOOSE k \in DOMAIN dets : dets[k].id = i]
      type(d) == IF Enters(d) THEN "ENTER" ELSE IF Exits(d) THEN "EXIT"
                 ELSE IF Dwells(d, dt) THEN "DWELL" ELSE "none"
      report == [k \in DOMAIN dets |-> [type |-> type(dets[k]), id |-> dets[k].id]]
      late   == Ascending(lost)
      all    == Picked(report, {k \in DOMAIN report : report[k].type # "none"})
                \o [k \in DOMAIN late |-> [type |-> "EXIT", id |-> late[k]]]
      history == recent \o all
  IN  /\ states' = [i \in (DOMAIN states \cup seen) \ lost |->
                      IF i \in seen THEN Seen(Det(i), dt) ELSE Unseen(states[i], dt)]
      /\ events' = all
      /\ recent' = IF Len(history) <= MaxRecent THEN history
                   ELSE SubSeq(history, Len(history) - MaxRecent + 1, Len(history))
      /\ muted' = {dets[k].id : k \in {l \in DOMAIN dets : dets[l].muted}}

(* reset(): it reports nothing.                                             *)
RegionReset == states' = <<>> /\ recent' = <<>> /\ events' = <<>> /\ muted' = {}

-----------------------------------------------------------------------------
(* The monitor on its own, fed with anything the stabilizer may return: at  *)
(* most one detection of each identity.                                     *)

RegionDetections == [id : Ids, inside : BOOLEAN, muted : BOOLEAN]
RegionInputs == {d \in UNION {[1 .. n -> RegionDetections] : n \in 0 .. Cardinality(Ids)} :
             \A k, l \in DOMAIN d : d[k].id = d[l].id => k = l}

RegionNext == (\E d \in RegionInputs, dt \in RegionSteps : RegionUpdate(d, dt)) \/ RegionReset

RegionSpec == RegionInit /\ [][RegionNext]_regionVars

-----------------------------------------------------------------------------
(* Properties.                                                              *)

(* Types, and the relations between the fields of a state: what is outside  *)
(* is neither missing nor dwelling, and what was not reported as dwelling   *)
(* has been seen inside for less than dwell_seconds_.                       *)
StateOK(s) ==
  /\ s \in TrackState
  /\ ~s.inside => s = Fresh(FALSE)
  /\ ~s.missing => s.since = 0
  /\ s.inside /\ ~s.dwelled /\ Dwell > 0 => s.visible < Dwell
StatesOK == DOMAIN states \subseteq Ids /\ \A i \in DOMAIN states : StateOK(states[i])
RegionTypeOK ==
  StatesOK /\ events \in Seq(Event) /\ recent \in Seq(Event) /\ Len(recent) <= MaxRecent

(* An object that vanished inside the region does not occupy it for ever:   *)
(* after every update, each object inside was seen less than                *)
(* max_lost_seconds_ ago.                                                   *)
NoStaleOccupant == \A i \in DOMAIN states : states[i].inside => states[i].since < RegionLost

(* ENTER, DWELL and EXIT of an identity come in the order a listener        *)
(* expects, one DWELL at most for each stay, and every change is reported   *)
(* but the first entry of an object marked as there from the start: one     *)
(* that comes back is reported although it still carries the mark.          *)
Phase(i) ==
  IF ~Known(i) THEN "unknown" ELSE IF ~Inside(i) THEN "out" ELSE IF states[i].dwelled THEN "dwelling" ELSE "in"
Lifecycle == INSTANCE RegionLifecycle WITH phase <- [i \in Ids |-> Phase(i)]
LifecycleSpec == Lifecycle!Spec

(* The time an object is away never counts towards DWELL: the update that   *)
(* sees an object again after a gap reports no DWELL for it.                *)
NoDwellAfterGap ==
  [][\A k \in DOMAIN events' : events'[k].type = "DWELL" /\ Dwell > 0
       => Inside(events'[k].id) /\ ~states[events'[k].id].missing]_regionVars

==============================================================================
