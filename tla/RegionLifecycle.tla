--------------------------- MODULE RegionLifecycle ---------------------------
(***************************************************************************)
(* What a listener to the region events may rely on.  The monitor has not  *)
(* heard of an identity, or the identity is out of the region, in it, or   *)
(* in it and reported as dwelling.  An update moves any number of them and *)
(* reports every entry, dwell and exit with one event.  Only one change is *)
(* silent: the first entry of an identity the producer marked as having    *)
(* been there when the program started.                                    *)
(***************************************************************************)
EXTENDS Naturals, Sequences

CONSTANT Ids

VARIABLES
  phase,  (* phase of each identity                    *)
  muted,  (* identities marked in the last update      *)
  events  (* new_events of the last update             *)

There  == {"in", "dwelling"}
Phases == There \cup {"unknown", "out"}

Init == phase = [i \in Ids |-> "unknown"] /\ muted = {} /\ events = <<>>

Enter(i) == phase[i] \notin There /\ phase'[i] = "in"
Exit(i)  == phase[i] \in There /\ phase'[i] \notin There
Linger(i) == phase[i] = "in" /\ phase'[i] = "dwelling"
Found(i) == phase[i] = "unknown" /\ phase'[i] = "out"

Silent(i) == phase[i] = "unknown" /\ i \in muted'

Report(type, S) == {[type |-> type, id |-> i] : i \in S}
Due == Report("ENTER", {i \in Ids : Enter(i) /\ ~Silent(i)})
         \cup Report("DWELL", {i \in Ids : Linger(i)})
         \cup Report("EXIT", {i \in Ids : Exit(i)})

Update ==
  /\ phase' \in [Ids -> Phases] /\ muted' \subseteq Ids
  /\ \A i \in Ids : phase'[i] = phase[i] \/ Enter(i) \/ Exit(i) \/ Linger(i) \/ Found(i)
  /\ {events'[k] : k \in DOMAIN events'} = Due
  /\ \A k, l \in DOMAIN events' : events'[k] = events'[l] => k = l

(* reset(): every identity is forgotten, and nothing is reported.           *)
Reset == phase' = [i \in Ids |-> "unknown"] /\ muted' = {} /\ events' = <<>>

Next == Update \/ Reset

Spec == Init /\ [][Next]_<<phase, muted, events>>

==============================================================================
