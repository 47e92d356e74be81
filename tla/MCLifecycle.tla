----------------------------- MODULE MCLifecycle -----------------------------
(* TLC instance of Lifecycle: the windows in the order of the defaults      *)
(* (RegionLost < Reassociation < MaxLost), one place in the region and one  *)
(* outside, and two objects.                                                *)
EXTENDS Lifecycle

==============================================================================
