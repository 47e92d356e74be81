------------------------- MODULE MCSemanticStabilizer -------------------------
(* TLC instances of SemanticStabilizer: windows of a few ticks in the order *)
(* of the defaults, two places, and fewer objects than the identities that  *)
(* ask for room.                                                            *)
EXTENDS SemanticStabilizer, TLC

PlaceSymmetry == Permutations(Places)

==============================================================================
