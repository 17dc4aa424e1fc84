------------------------------ MODULE MCStdCache ------------------------------
(* Instances of the default handler and its clients. *)
EXTENDS StdCacheRefinement

MCResults1 == Keys \X {1}
MCAnswers1 == [k \in Keys |-> {k} \X {1}]
=============================================================================
