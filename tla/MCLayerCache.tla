---------------------------- MODULE MCLayerCache ----------------------------
(* LayerCache for TLC: few keys and callers, and a cap smaller than the keys. *)
EXTENDS LayerCache, TLC

\* Callers are alike, and so are keys with the refreshes named after them.
Symmetry == Permutations(Callers) \cup Permutations(Keys)
=============================================================================
