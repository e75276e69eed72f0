---------------------------- MODULE MCMorphSystem ----------------------------
(* MorphSystem on small sets for TLC. *)
EXTENDS MorphSystem, TLC

MCHeaderID(c, t) == <<c, t>>

Symmetry == Permutations(ClientIDs) \cup Permutations(Remotes)
=============================================================================
