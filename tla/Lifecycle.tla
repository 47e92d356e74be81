------------------------------ MODULE Lifecycle ------------------------------
(***************************************************************************)
(* The chain of SmoothAiWorker::run (src/application.cpp) behind the       *)
(* tracker: SemanticStabilizer gives every box its identity, and what it   *)
(* returns is the input of RegionMonitor in the same cycle, with the same  *)
(* capture time.  A place is inside the region of interest or outside.     *)
(* Neither component is ever reset by the application.                     *)
(***************************************************************************)
EXTENDS SemanticStabilizer

CONSTANTS
  InRoi,      (* places whose centre is inside the region                   *)
  Dwell,      (* dwell_seconds_                                             *)
  RegionLost, (* max_lost_seconds_ of RegionMonitor                         *)
  MaxRecent   (* max_recent_events_                                         *)

VARIABLES
  states, events, recent, muted   (* of RegionMonitor                       *)

chainVars == <<stabilizerVars, states, events, recent, muted>>

(* The application has both windows from the defaults (2.0 s and 4.0 s).    *)
ASSUME LifecycleAssumption ==
  /\ InRoi \subseteq Places /\ RegionLost <= MaxLost
  /\ Dwell \in Nat /\ RegionLost \in Nat \ {0} /\ MaxRecent \in Nat \ {0}

Region == INSTANCE RegionMonitor WITH Ids <- 1 .. MaxIds, RegionSteps <- Steps

ChainInit == StabilizerInit /\ Region!RegionInit

Reported(type) == {events'[k].id : k \in {l \in DOMAIN events' : events'[l].type = type}}

RegionInput ==
  [k \in DOMAIN output' |->
     [id |-> output'[k].id, inside |-> output'[k].place \in InRoi, muted |-> output'[k].muted]]

(* One cycle of the worker.                                                 *)
Cycle(dets, dt) ==
  /\ StabilizerUpdate(dets, dt)
  /\ Region!RegionUpdate(RegionInput, dt)

ChainNext == \E d \in Inputs, dt \in Steps : Cycle(d, dt)

ChainSpec == ChainInit /\ [][ChainNext]_chainVars

-----------------------------------------------------------------------------
(* Properties.                                                              *)

(* What occupies the region has an identity that is still alive: an object  *)
(* does not exit in the stabilizer with the listener left to believe it is  *)
(* in the region.                                                           *)
OccupantsHaveIdentity ==
  \A i \in DOMAIN states : states[i].inside =>
    \E j \in DOMAIN objects :
      /\ objects[j].id = i
      /\ objects[j].state \in {"ACTIVE", "LOST_PENDING"}
      /\ objects[j].wasActive <=> objects[j].state = "LOST_PENDING"

(* Silence is for the baseline only: the entry of an object first seen      *)
(* after the bootstrap window is always reported; the entry of one that     *)
(* becomes ACTIVE inside the region during it is not.                       *)
BaselineIsSilent ==
  [][/\ \A i \in DOMAIN states' :
          /\ states'[i].inside /\ ~Region!Inside(i)
          /\ \E j \in DOMAIN objects' : objects'[j].id = i /\ objects'[j].late
          => i \in Reported("ENTER")
     /\ \A j \in DOMAIN objects :
          objects[j].state = "CANDIDATE" /\ boot' < Mute
          => objects[j].id \notin Reported("ENTER")]_chainVars

(* What the design document says: a recovery with the same logical id does  *)
(* not emit a second ENTER.                                                 *)
RecoveryIsSilent ==
  [][\A j \in DOMAIN objects :
       LET o == objects[j]
       IN  o.state = "LOST_PENDING" /\ o.wasActive /\ o.place \in InRoi
             => o.id \notin Reported("ENTER")]_chainVars

==============================================================================
