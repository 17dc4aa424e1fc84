---------------------------- MODULE MCSqliteHandler ----------------------------
(* Instances of the SQLite storage handler. *)
EXTENDS SqliteHandler, TLC

MCAnswers1 == [k \in Keys |-> {k} \X {1}]

Symmetry == Permutations(Procs) \cup Permutations(Rowids)
=============================================================================
