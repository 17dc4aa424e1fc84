------------------------------ MODULE MCTraceLog ------------------------------
(* Two connections that keep both logs. *)
EXTENDS TraceLog, ConnectionsRefinement, TLC

MCResults == Contents

Symmetry == Permutations(Conns) \cup Permutations(Data)
=============================================================================
