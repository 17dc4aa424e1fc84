---------------------------- MODULE MCConnections ----------------------------
(* Instances of the connection hooks. *)
EXTENDS Connections, TLC

MCResults == Contents

Symmetry == Permutations(Conns) \cup Permutations(Data)
=============================================================================
