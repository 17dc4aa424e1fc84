---------------------------- MODULE MCPreparedStmts ----------------------------
(* Instances of the prepared statement hooks. *)
EXTENDS PreparedStmts, TLC

CONSTANTS c1, c2, s1, s2, s3

MCResults == Contents

\* Two statements share a connection.
MCOwner == (s1 :> c1) @@ (s2 :> c1) @@ (s3 :> c2)

Symmetry == Permutations(Data)
=============================================================================
