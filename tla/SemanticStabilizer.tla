-------------------------- MODULE SemanticStabilizer --------------------------
(***************************************************************************)
(* SemanticStabilizer (src/semantic_stabilizer.cpp): it gives the boxes of *)
(* the tracker, whose raw ids change at every miss, a lasting logical_id,  *)
(* and leads each logical object through CANDIDATE, ACTIVE, LOST_PENDING   *)
(* and EXITED by a presence score and by the time it was last seen.        *)
(*                                                                         *)
(* Time is counted in ticks and a time point of the code is kept as its    *)
(* age, which an update increases by the time dt since the one before; an  *)
(* age is held at the value from which no test tells it apart.  Scores     *)
(* count in steps of 1 / FullScore.  The place of a detection stands for   *)
(* its box and class: can_reassociate's geometric test holds at the same   *)
(* place and fails elsewhere.  The input is the list after the collapsing  *)
(* of near-duplicate boxes; class fusion and confidence smoothing change   *)
(* only the payload of the output and are not modelled.                    *)
(***************************************************************************)
EXTENDS Integers, Sequences, FiniteSets, Lists

CONSTANTS
  Raws, Places,     (* raw track ids, places                                 *)
  Gains,            (* presence_alpha * confidence of a detection, per tick  *)
  Decay,            (* presence_beta, per tick                               *)
  FullScore,        (* the score 1.0                                         *)
  EnterThreshold, ExitThreshold,
  EnterStability,   (* enter_stability_seconds                               *)
  Reassociation,    (* reassociation_window_seconds                          *)
  MaxLost,          (* max_lost_time_seconds                                 *)
  Retention,        (* exited_retention_seconds                              *)
  Mute,             (* bootstrap_mute_seconds                                *)
  MaxLive,          (* max_live_objects                                      *)
  Steps,            (* times that may pass between two updates               *)
  MaxIds            (* bound: logical ids given out                          *)

(* The constructor throws on anything else.                                 *)
ASSUME StabilizerAssumption ==
  /\ Gains \subseteq Nat /\ Decay \in Nat \ {0} /\ FullScore \in Nat
  /\ EnterThreshold \in 0 .. FullScore /\ ExitThreshold \in 0 .. EnterThreshold
  /\ Reassociation \in Nat \ {0} /\ MaxLost \in Nat /\ Reassociation <= MaxLost
  /\ EnterStability \in Nat /\ Mute \in Nat /\ Retention \in Nat \ {0}
  /\ MaxLive \in Nat \ {0} /\ Steps \subseteq Nat /\ MaxIds \in Nat

VARIABLES
  objects,    (* objects_                                                    *)
  nextId,     (* next_logical_id_                                            *)
  boot,       (* age of bootstrap_started_at_, Off before the first update   *)
  output      (* what the last update returned                               *)

stabilizerVars == <<objects, nextId, boot, output>>

Off == -1  (* a time point that is not set *)
Held(n, limit) == IF n > limit THEN limit ELSE n
Aged(timer, dt, limit) == IF timer = Off THEN Off ELSE Held(timer + dt, limit)

MuteOrStable == IF Mute > EnterStability THEN Mute ELSE EnterStability

(* The age of last_seen that is past both windows.                          *)
Forgotten == IF Reassociation < MaxLost THEN MaxLost ELSE MaxLost + 1

Detection == [raw : Raws, place : Places, gain : Gains]
LogicalObject ==
  [id : Nat, raw : Raws, place : Places,
   state : {"CANDIDATE", "ACTIVE", "LOST_PENDING", "EXITED"},
   score : 0 .. FullScore,
   unseen : Nat,                         (* age of last_seen                  *)
   timer : {Off} \cup 0 .. EnterStability,(* age of enter_threshold_reached_at *)
   age : 0 .. MuteOrStable,              (* age of first_seen                 *)
   gone : Nat,                           (* age of exited_at                  *)
   wasActive : BOOLEAN,                  (* active_before_loss                *)
   baseline : BOOLEAN,                   (* bootstrap_baseline                *)
   late : BOOLEAN,                       (* auxiliary: born after the mute    *)
   dipped : BOOLEAN,                     (* auxiliary: the score was below    *)
                                         (* EnterThreshold since timer began  *)
   exitedFor : 0 .. Retention]           (* auxiliary: time spent EXITED      *)

StabilizerInit ==
  objects = <<>> /\ nextId = 1 /\ boot = Off /\ output = <<>>

-----------------------------------------------------------------------------
(* One object in one update.                                                *)

Expired(o, dt) == o.state = "EXITED" /\ o.gone + dt >= Retention

Live(o, dt) == o.state # "EXITED" /\ o.unseen + dt <= Reassociation

MutantEnds(unseen, score) == score <= ExitThreshold  (* mutant: the time is not tested *)
Ends(unseen, score) == unseen >= MaxLost /\ score <= ExitThreshold

(* An object no detection was assigned to.  The two conditions of an exit   *)
(* are tested for an EXITED object as well, and set exited_at again.        *)
Missed(o, dt) ==
  LET score  == IF o.score > Decay * dt THEN o.score - Decay * dt ELSE 0
      unseen == Held(o.unseen + dt, Forgotten)
      over   == Ends(unseen, score)
  IN  [o EXCEPT !.score = score, !.unseen = unseen,
                !.wasActive = @ \/ o.state = "ACTIVE",
                !.state = IF over \/ @ = "EXITED" THEN "EXITED" ELSE "LOST_PENDING",
                !.gone = IF over \/ o.state # "EXITED" THEN 0 ELSE @ + dt,
                !.timer = Aged(@, dt, EnterStability),
                !.dipped = @ \/ (o.state # "ACTIVE" /\ ~o.wasActive /\ score < EnterThreshold),
                !.age = Held(@ + dt, MuteOrStable),
                !.exitedFor = IF o.state = "EXITED" THEN Held(@ + dt, Retention) ELSE 0]

MutantStart(timer) == IF timer = Off THEN EnterStability ELSE timer  (* mutant: no stability time *)
Start(timer) == IF timer = Off THEN 0 ELSE timer

MutantIsBaseline(age) == age < Mute  (* mutant: the global window is not tested *)
IsBaseline(age) == age < Mute /\ boot' < Mute

(* An object a detection was assigned to, dt after it was last updated.     *)
Observed(o, d, dt) ==
  LET score  == Held(o.score + d.gain * dt, FullScore)
      known  == o.state = "ACTIVE" \/ o.wasActive
      aged   == Aged(o.timer, dt, EnterStability)
      timer  == IF known THEN aged
                ELSE IF score >= EnterThreshold THEN Start(aged) ELSE Off
      age    == Held(o.age + dt, MuteOrStable)
      active == known \/ (score >= EnterThreshold /\ timer >= EnterStability)
  IN  [o EXCEPT !.raw = d.raw, !.place = d.place, !.score = score, !.unseen = 0,
                !.timer = timer, !.age = age, !.wasActive = FALSE,
                !.dipped = @ /\ timer # Off /\ aged # Off,
                !.state = IF active THEN "ACTIVE" ELSE "CANDIDATE",
                !.baseline = IF active /\ ~known THEN IsBaseline(age) ELSE @]

Newborn(d, id) ==
  [id |-> id, raw |-> d.raw, place |-> d.place, state |-> "CANDIDATE", score |-> 0,
   unseen |-> 0, timer |-> Off, age |-> 0, gone |-> 0, wasActive |-> FALSE,
   baseline |-> FALSE, late |-> boot' >= Mute, dipped |-> FALSE, exitedFor |-> 0]

-----------------------------------------------------------------------------
(* The assignment of detections to objects: 0 is none.                      *)

MutantSameSpot(objs, d, dt) ==  (* mutant: a raw id must not have moved *)
  {i \in DOMAIN objs : Live(objs[i], dt) /\ objs[i].raw = d.raw /\ objs[i].place = d.place}
MutantAnyAge(objs, d, dt) ==  (* mutant: neither state nor window are tested *)
  {i \in DOMAIN objs : objs[i].raw = d.raw}
RawOwners(objs, d, dt) == {i \in DOMAIN objs : Live(objs[i], dt) /\ objs[i].raw = d.raw}
Near(objs, d, dt) == {i \in DOMAIN objs : Live(objs[i], dt) /\ objs[i].place = d.place}

(* Objects the k-th detection finds matched: those with a raw id of this    *)
(* update, and those an earlier detection took by geometry.                 *)
Claimed(a, byRaw, k) == {a[l] : l \in byRaw \cup 1 .. k - 1}

(* First by raw id, then greedily by geometry; which of several objects in  *)
(* reach scores best is left open.                                          *)
Assignments(objs, dets, dt) ==
  LET owners == [k \in DOMAIN dets |-> RawOwners(objs, dets[k], dt)]
      byRaw  == {k \in DOMAIN dets : owners[k] # {}}
  IN  {a \in [DOMAIN dets -> 0 .. Len(objs)] :
         /\ \A k \in byRaw : a[k] \in owners[k] /\ \A i \in owners[k] : a[k] <= i
         /\ \A k \in DOMAIN dets \ byRaw :
              LET free == Near(objs, dets[k], dt) \ Claimed(a, byRaw, k)
              IN  IF free = {} THEN a[k] = 0 ELSE a[k] \in free}

Room(kept) == MaxLive - Len(kept)

Identity(n) == nextId + n - 1

(* update().  evict_for_capacity() finds nothing to do, because an update   *)
(* never leaves more than MaxLive objects (OneOwner).                       *)
StabilizerUpdate(dets, dt) ==
  LET kept == Picked(objects, {i \in DOMAIN objects : ~Expired(objects[i], dt)})
  IN  \E a \in Assignments(kept, dets, dt) :
        LET Of(i) == CHOOSE k \in DOMAIN dets : a[k] = i
            fresh == Ascending({k \in DOMAIN dets : a[k] = 0})
            news  == SubSeq(fresh, 1, Held(Len(fresh), Room(kept)))
            Index(k) == IF a[k] # 0 THEN a[k]
                        ELSE Len(kept) + Cardinality({l \in 1 .. k : a[l] = 0})
            Shows(i) == i <= Len(objects') /\ objects'[i].state = "ACTIVE"
            shown == Picked([k \in DOMAIN dets |-> Index(k)],
                            {k \in DOMAIN dets : Shows(Index(k))})
        IN  /\ nextId + Len(news) - 1 <= MaxIds
            /\ boot' = IF boot = Off THEN 0 ELSE Held(boot + dt, Mute)
            /\ objects' =
                 [i \in DOMAIN kept |->
                    IF \E k \in DOMAIN dets : a[k] = i
                    THEN Observed(kept[i], dets[Of(i)], dt) ELSE Missed(kept[i], dt)]
                 \o [n \in DOMAIN news |->
                       Observed(Newborn(dets[news[n]], Identity(n)), dets[news[n]], 0)]
            /\ nextId' = nextId + Len(news)
            /\ output' = [n \in DOMAIN shown |->
                            [id |-> objects'[shown[n]].id, place |-> objects'[shown[n]].place,
                             muted |-> objects'[shown[n]].baseline]]

(* The tracker never returns one raw id twice.                              *)
Inputs == {d \in UNION {[1 .. n -> Detection] : n \in 0 .. Cardinality(Raws)} :
             \A k, l \in DOMAIN d : d[k].raw = d[l].raw => k = l}

StabilizerReset ==
  objects' = <<>> /\ nextId' = 1 /\ boot' = Off /\ UNCHANGED output

StabilizerNext == (\E d \in Inputs, dt \in Steps : StabilizerUpdate(d, dt)) \/ StabilizerReset

StabilizerSpec == StabilizerInit /\ [][StabilizerNext]_stabilizerVars

-----------------------------------------------------------------------------
(* Properties.                                                              *)

StabilizerTypeOK ==
  /\ objects \in Seq(LogicalObject) /\ nextId \in Nat
  /\ boot \in {Off} \cup 0 .. Mute

(* An object is one object.  A raw id leads to one: two that could still be *)
(* reassociated never carry the same one.  No identity is in the table      *)
(* twice, or twice in an image, which is what RegionMonitor's one state per *)
(* identity relies on; and the table is bounded by max_live_objects, with   *)
(* no need of an eviction, however many have exited and are still kept.     *)
OneOwner ==
  /\ \A i, j \in DOMAIN objects :
       Live(objects[i], 0) /\ Live(objects[j], 0) /\ objects[i].raw = objects[j].raw => i = j
  /\ \A i, j \in DOMAIN objects : i < j => objects[i].id < objects[j].id
  /\ \A k, l \in DOMAIN output : output[k].id = output[l].id => k = l
  /\ Len(objects) <= MaxLive

(* A flash is never shown: an object that is or was ACTIVE was first seen   *)
(* at least enter_stability_seconds ago.                                    *)
NoFlash ==
  \A i \in DOMAIN objects :
    objects[i].state = "ACTIVE" \/ objects[i].wasActive => objects[i].age >= EnterStability

(* An EXITED identity is final, and an identity that left the table never   *)
(* comes back (reset() starts over).                                        *)
ExitIsFinal ==
  [][objects' # <<>> =>
       \A j \in DOMAIN output' :
         \/ output'[j].id >= nextId
         \/ \E i \in DOMAIN objects : objects[i].id = output'[j].id /\ objects[i].state # "EXITED"
       ]_stabilizerVars

(* What the design document says: an EXITED object is kept for              *)
(* exited_retention_seconds and no longer.                                  *)
ExitedExpires ==
  \A i \in DOMAIN objects : objects[i].state = "EXITED" => objects[i].exitedFor < Retention

(* What the header says: the threshold has to be kept for all of            *)
(* enter_stability_seconds, and a score that falls below it starts the time *)
(* again; so nothing becomes ACTIVE with a dip in between.                  *)
SteadyEntry ==
  \A i \in DOMAIN objects :
    objects[i].state = "ACTIVE" \/ objects[i].wasActive => ~objects[i].dipped

==============================================================================
