-------------------------- MODULE ConnectionsRefinement --------------------------
(***************************************************************************)
(* A connection that points to a container is a client of module StdCache: *)
(* it is recording under receive_record and replaying under                *)
(* receive_replay, and idle while it points to none.                       *)
(* A container that is being recorded counts as one that holds what the    *)
(* server will have answered: the connection alone sees it until then.     *)
(***************************************************************************)
EXTENDS Connections

pcBar ==
    [c \in Conns |-> IF conn[c].recorded = None THEN "idle"
                     ELSE IF conn[c].hook = "record" THEN "recording" ELSE "replaying"]

keyBar == [c \in Conns |-> IF conn[c].recorded = None THEN None ELSE conn[c].running]

heldBar == [c \in Conns |-> conn[c].recorded]

\* What the cache will hold of the answer to q, if it comes to that.
AnswerTo(q) == IF q \in ResultSets THEN FirstResult(q) ELSE <<>>

Recorders(d) == {c \in Conns : conn[c].hook = "record" /\ conn[c].recorded = d}

heapBar ==
    [d \in Data |-> IF heap[d] = None \/ Recorders(d) = {} THEN heap[d]
                    ELSE AnswerTo(conn[CHOOSE c \in Recorders(d) : TRUE].running)]

\* The module with the theorems about StdCache, so that they can be cited.
Std == INSTANCE StdCacheProofs WITH
    Clients <- Conns, Results <- {AnswerTo(q) : q \in Keys},
    Answers <- [q \in Keys |-> {AnswerTo(q)}], Ttls <- {Ttl}, RequestTimers <- {},
    reqTime <- [c \in Conns |-> 0], orphaned <- FALSE,
    heap <- heapBar, pc <- pcBar, key <- keyBar, held <- heldBar

\* Every behaviour of orderly connections is one of the protocol of StdCache.
ImplementsStdCache == Std!Init /\ [][Std!NextProtocol]_(Std!vars)
=============================================================================
