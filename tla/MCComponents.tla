----------------------------- MODULE MCComponents -----------------------------
(* TLC instance of the components that are functions of their input and of  *)
(* what they remember, each checked on its own against everything a         *)
(* neighbour may hand it: a behaviour picks one of them at its start and    *)
(* the others stand still.  Lifecycle composes two of them.                 *)
(*                                                                          *)
(* Detector: boxes in a row, of which neighbours are too close and only     *)
(* equal ones alike.  Tracker: the same row, so that two tracks may want    *)
(* one box and one track has two boxes to choose from.  Stabilizer: fewer   *)
(* objects than the identities that ask for room.  Region: a dwell longer   *)
(* than the lost window, updates one or two ticks apart.  Commands: two     *)
(* letters and reads of three bytes, so that one read may complete several  *)
(* lines and one line may need several reads.                               *)
EXTENDS YoloDecode, IouTracker, SemanticStabilizer, RegionMonitor, CommandFramer, TLC

VARIABLE part  (* the component of this behaviour *)

componentVars == <<part, decodeVars, trackerVars, stabilizerVars, regionVars, framerVars>>

Init ==
  /\ part \in {"detector", "tracker", "stabilizer", "region", "commands"}
  /\ DecodeInit /\ TrackerInit /\ StabilizerInit /\ RegionInit /\ FramerInit

DetectorStep ==
  /\ part = "detector" /\ DecodeNext
  /\ UNCHANGED <<part, trackerVars, stabilizerVars, regionVars, framerVars>>
TrackerStep ==
  /\ part = "tracker" /\ TrackerNext
  /\ UNCHANGED <<part, decodeVars, stabilizerVars, regionVars, framerVars>>
StabilizerStep ==
  /\ part = "stabilizer" /\ StabilizerNext
  /\ UNCHANGED <<part, decodeVars, trackerVars, regionVars, framerVars>>
RegionStep ==
  /\ part = "region" /\ RegionNext
  /\ UNCHANGED <<part, decodeVars, trackerVars, stabilizerVars, framerVars>>
CommandStep ==
  /\ part = "commands" /\ FramerNext
  /\ UNCHANGED <<part, decodeVars, trackerVars, stabilizerVars, regionVars>>

Next == DetectorStep \/ TrackerStep \/ StabilizerStep \/ RegionStep \/ CommandStep

Spec == Init /\ [][Next]_componentVars

InARow == [p \in Boxes \X Boxes |->
             IF p[1] = p[2] THEN 2 ELSE IF p[1] = p[2] + 1 \/ p[2] = p[1] + 1 THEN 1 ELSE 0]
Neighbours(f, g) == f - g \in -1 .. 1
Equal(f, g) == f = g

ComponentSymmetry == Permutations(Classes) \cup Permutations(Places) \cup Permutations(Letters)

==============================================================================
