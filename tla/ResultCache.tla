------------------------------ MODULE ResultCache ------------------------------
(***************************************************************************)
(* What a storage handler promises to the clients of its protocol,         *)
(* whatever it stores results in: a client is served only what was         *)
(* published under its key and has it unchanged until it gives it back;    *)
(* an entry changes only by being published, dropped or cleared; under     *)
(* slam defense one client at a time is sent to fetch a cached query.      *)
(* Time, memory and reference counts are left to the implementations.      *)
(***************************************************************************)
CONSTANTS Keys, Clients, Answers, None, SlamDefense

VARIABLES
    store,       \* store[k]: result published under k, or None
    refreshing,  \* refreshing[k]: a client was sent to refresh k
    client       \* client[c]: what c has in hand

vars == <<store, refreshing, client>>

Idle == [kind |-> "idle", key |-> None, result |-> None]
Has(kind, k, r) == [kind |-> kind, key |-> k, result |-> r]

Init ==
    /\ store = [k \in Keys |-> None]
    /\ refreshing = [k \in Keys |-> FALSE]
    /\ client = [c \in Clients |-> Idle]

Hold(c, h) == client' = [client EXCEPT ![c] = h]

Forget(ks) ==
    /\ store' = [k \in Keys |-> IF k \in ks THEN None ELSE store[k]]
    /\ refreshing' = [k \in Keys |-> k \notin ks /\ refreshing[k]]

\* A handler may give up results at any time, but none that slam defense
\* still needs.
MayForget == ~SlamDefense /\ \E ks \in SUBSET Keys : Forget(ks)

Keep == UNCHANGED <<store, refreshing>>

SendToRefresh(k) ==
    /\ SlamDefense
    /\ store[k] # None
    /\ ~refreshing[k]
    /\ refreshing' = [refreshing EXCEPT ![k] = TRUE]
    /\ UNCHANGED store

Replace(k, r) ==
    /\ store[k] # None /\ SlamDefense => refreshing[k]
    /\ store' = [store EXCEPT ![k] = r]
    /\ refreshing' = [refreshing EXCEPT ![k] = FALSE]

Serve(c, k) ==
    /\ client[c] = Idle
    /\ store[k] # None
    /\ SlamDefense => refreshing[k]
    /\ Hold(c, Has("replaying", k, store[k]))
    /\ Keep

Fetch(c, k) ==
    /\ client[c] = Idle
    /\ \E r \in Answers[k] : Hold(c, Has("recording", k, r))
    /\ \/ SendToRefresh(k)
       \/ MayForget
       \/ Keep /\ (SlamDefense => store[k] = None)

GiveBack(c) ==
    /\ client[c].kind = "replaying"
    /\ Hold(c, Idle)
    /\ Keep \/ MayForget

Publish(c) ==
    /\ client[c].kind = "recording"
    /\ Hold(c, Idle)
    /\ Replace(client[c].key, client[c].result)

GiveUp(c) ==
    /\ client[c].kind = "recording"
    /\ Hold(c, Idle)
    /\ Keep

Maintain ==
    /\ \/ MayForget
       \/ \E k \in Keys : SendToRefresh(k)
       \/ \E k \in Keys : \E r \in Answers[k] : Replace(k, r)
    /\ UNCHANGED client

Clear == Forget(Keys) /\ UNCHANGED client

Next ==
    \/ Clear
    \/ Maintain
    \/ \E c \in Clients :
         \/ GiveBack(c) \/ Publish(c) \/ GiveUp(c)
         \/ \E k \in Keys : Serve(c, k) \/ Fetch(c, k)

Spec == Init /\ [][Next]_vars
=============================================================================
