------------------------------ MODULE IouTracker ------------------------------
(***************************************************************************)
(* IouTracker (src/iou_tracker.cpp): the short-lived raw ids under which    *)
(* the detections of one image go on to the stabilizer.                    *)
(*                                                                         *)
(* tracks_ is in the order of the ids, because new tracks are appended and *)
(* erasing keeps the order; it is a set of records here and "earlier in    *)
(* tracks_" is "smaller id".  A box is a value of which only the overlap   *)
(* with another box matters.                                               *)
(***************************************************************************)
EXTENDS Naturals, Sequences, FiniteSets

CONSTANTS
  Boxes, Classes,
  Iou,         (* intersection_over_union, in steps: Iou[a, b]               *)
  Threshold,   (* config_.iou_threshold                                      *)
  MaxMissed,   (* config_.max_missed                                         *)
  MaxDets,     (* bound: detections in one image                             *)
  MaxRawIds       (* bound: ids given out                                       *)

ASSUME TrackerAssumption ==
  /\ Iou \in [Boxes \X Boxes -> Nat] /\ Threshold \in Nat
  /\ MaxMissed \in Nat /\ MaxDets \in Nat /\ MaxRawIds \in Nat

VARIABLES
  tracks,     (* tracks_                                                     *)
  nextRawId,     (* next_id_                                                    *)
  input       (* auxiliary: the detections of the last update                *)

trackerVars == <<tracks, nextRawId, input>>

DetectedBox == [box : Boxes, class : Classes]
Track == [id : Nat, box : Boxes, class : Classes, missed : 0 .. MaxMissed]

TrackerInit == tracks = {} /\ nextRawId = 1 /\ input = <<>>

-----------------------------------------------------------------------------

MutantMatches(t, d) == Iou[t.box, d.box] >= Threshold  (* mutant: class ignored *)
Matches(t, d) == t.class = d.class /\ Iou[t.box, d.box] >= Threshold

(* Detections left for track t by the tracks before it.                     *)
Open(a, t, dets) ==
  {k \in DOMAIN dets : Matches(t, dets[k]) /\ \A s \in tracks : s.id < t.id => a[s] # k}

(* A track takes the best box left, the last of equal ones; 0 is none.      *)
Chooses(a, t, dets) ==
  LET open == Open(a, t, dets)
  IN  IF open = {} THEN a[t] = 0
      ELSE /\ a[t] \in open
           /\ \A k \in open : \/ Iou[t.box, dets[k].box] < Iou[t.box, dets[a[t]].box]
                              \/ Iou[t.box, dets[k].box] = Iou[t.box, dets[a[t]].box] /\ k <= a[t]

Matchings(dets) ==
  {a \in [tracks -> 0 .. Len(dets)] : \A t \in tracks : Chooses(a, t, dets)}

Hit(t, d) == [id |-> t.id, box |-> d.box, class |-> d.class, missed |-> 0]
New(d, id) == [id |-> id, box |-> d.box, class |-> d.class, missed |-> 0]

Survives(t) == t.missed < MaxMissed

(* The id of detection k among the fresh ones, in their order.              *)
MutantFreshId(fresh, k) == nextRawId + k - 1  (* mutant: matched ones are counted *)
FreshId(fresh, k) == nextRawId + Cardinality({l \in fresh : l < k})

(* update().                                                                *)
TrackerUpdate(dets) ==
  \E a \in Matchings(dets) :
    LET fresh == {k \in DOMAIN dets : \A t \in tracks : a[t] # k}
        hit   == {t \in tracks : a[t] # 0}
    IN  /\ tracks' = {Hit(t, dets[a[t]]) : t \in hit}
                     \cup {[t EXCEPT !.missed = @ + 1] : t \in {s \in tracks \ hit : Survives(s)}}
                     \cup {New(dets[k], FreshId(fresh, k)) : k \in fresh}
        /\ nextRawId' = nextRawId + Cardinality(fresh)
        /\ nextRawId' <= MaxRawIds + 1
        /\ input' = dets

(* reset(): the ids start over.                                             *)
TrackerReset == tracks' = {} /\ nextRawId' = 1 /\ input' = <<>>

TrackerInputs == UNION {[1 .. n -> DetectedBox] : n \in 0 .. MaxDets}

TrackerNext == (\E dets \in TrackerInputs : TrackerUpdate(dets)) \/ TrackerReset

TrackerSpec == TrackerInit /\ [][TrackerNext]_trackerVars

-----------------------------------------------------------------------------
(* Properties.                                                              *)

(* Types: a track survives max_missed misses and no more, and every id was  *)
(* given out before.                                                        *)
TrackerTypeOK ==
  /\ tracks \subseteq Track /\ nextRawId \in Nat
  /\ \A t \in tracks : t.id < nextRawId

(* No raw id is carried by two tracks, which is what lets the stabilizer    *)
(* match a raw id with one object at most.                                  *)
RawIdsDistinct == \A t, u \in tracks : t.id = u.id => t = u

(* What update() returns: the tracks seen in this image.                    *)
Output == {t \in tracks : t.missed = 0}

(* The output of an update is its input, each detection once: none is lost, *)
(* doubled or changed by the matching.  And each goes on under the id of a  *)
(* track of its class that was still there, or under a new one: an id that  *)
(* was dropped never comes back.                                            *)
TracksContinue ==
  [][nextRawId' >= nextRawId =>
       /\ \A d \in DetectedBox :
            Cardinality({t \in Output' : t.box = d.box /\ t.class = d.class})
              = Cardinality({k \in DOMAIN input' : input'[k] = d})
       /\ \A u \in tracks' : u.id < nextRawId =>
            \E t \in tracks : t.id = u.id /\ t.class = u.class]_trackerVars

==============================================================================
