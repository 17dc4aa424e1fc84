------------------------------ MODULE MCApcHandler ------------------------------
(* Instances of the APC storage handler. *)
EXTENDS ApcHandler, TLC

Symmetry == Permutations(Procs)
=============================================================================
