----------------------------- MODULE MCLifecycle -----------------------------
(* Instances of the request and handler lifecycle. *)
EXTENDS Lifecycle, TLC

Symmetry == Permutations(Callbacks) \cup Permutations(Objects)
=============================================================================
