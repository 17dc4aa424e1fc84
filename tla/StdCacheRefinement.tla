-------------------------- MODULE StdCacheRefinement --------------------------
(***************************************************************************)
(* The default handler implements ResultCache: an entry is the content of  *)
(* its container, and what a client has in hand is the content of the      *)
(* container it points to (so memory freed under a client would show as a  *)
(* result that changes in its hands).                                      *)
(***************************************************************************)
EXTENDS StdCache

storeBar == [k \in Keys |-> IF Cached(k) THEN heap[cache[k].cached_query] ELSE None]

refreshingBar == [k \in Keys |-> Cached(k) /\ cache[k].in_refresh]

clientBar ==
    [c \in Clients |->
        [kind |-> pc[c], key |-> key[c],
         result |-> IF pc[c] = "idle" THEN None ELSE heap[held[c]]]]

Abstract == INSTANCE ResultCache WITH
    store <- storeBar, refreshing <- refreshingBar, client <- clientBar

\* Every behaviour of the default handler is one of the abstract cache: lookups,
\* returns and adds are its Serve, Fetch, GiveBack and Publish.  Nothing is
\* promised once clear_cache has removed a lent entry.
ImplementsResultCache ==
    Abstract!Init /\ [][orphaned' \/ Abstract!Next]_(Abstract!vars)
=============================================================================
