------------------------------ MODULE Connections ------------------------------
(***************************************************************************)
(* The connection hooks of mysqlnd_qc.c in front of the default storage    *)
(* handler.  send_query looks a statement up and swaps the receive and     *)
(* send functions of the connection: "record" copies what the server sends *)
(* into recorded_data, "replay" reads from recorded_data and sends         *)
(* nothing.  reap_query, store_result and use_result decide from these     *)
(* functions, from query_active_with_cache and from recorded_data what     *)
(* becomes of the result.  A script may call the connection functions in   *)
(* any order; the constant Uses says which habits its scripts have.        *)
(*                                                                         *)
(* The server answers a statement with a sequence of parts: the header of  *)
(* a result (an OK or error packet ends there), its rows, and again for    *)
(* each further result of a multi statement.                               *)
(***************************************************************************)
EXTENDS StdHandler, Sequences

CONSTANTS
    Conns,        \* connections
    Cacheable,    \* statements query_is_select accepts (SQL hint)
    ResultSets,   \* statements the server answers with rows
    Multi,        \* result sets that are followed by a second one
    NoTable,      \* result sets with a column that has no table name
    Accepted,     \* result sets that meet one of the cache conditions
    Uses,         \* habits of the scripts
    Ttl, MaxClock, MaxSends

AllUses == {"async",       \* send again before the last result was read
            "unbuffered",  \* use_result
            "close",       \* close before the last result was read
            "reconnect",   \* connect on an open connection
            "conditions",  \* mysqlnd_qc_set_cache_condition()
            "faults"}      \* the server may go away

ASSUME ConnectionAssumption ==
    /\ Cacheable \subseteq Keys /\ ResultSets \subseteq Keys
    /\ Multi \subseteq ResultSets /\ NoTable \subseteq ResultSets
    /\ Accepted \subseteq ResultSets
    /\ Uses \subseteq AllUses
    /\ Ttl \in Nat /\ MaxClock \in Nat /\ MaxSends \in Nat
    /\ None \notin Seq(Keys \X Nat)

VARIABLES
    clock,  \* time(NULL)
    conditional,  \* a cache condition was set: should_cache_conditions is not empty
    conn,   \* conn[c]: the connection and the data the plugin keeps with it
    net,    \* net[c]: what the server has sent and c has not received
    stat    \* statistics of the process

environment == <<clock, conditional>>
vars == <<cache, heap, clock, conditional, conn, net, stat>>

Hooks == {"original", "record", "replay"}

\* The states of mysqlnd: "fetching" after the header of a result set, "rows"
\* while it is read unbuffered, "more" when another result follows, "gone" after
\* a network error, "crashed" when the process is.
States == {"closed", "ready", "sent", "fetching", "rows", "more", "gone", "crashed"}

Connection ==
    [state: States,
     running: Keys \cup {None},   \* history: the statement sent last
     hook: Hooks,                 \* net->data->m.receive_ex, send_ex
     recorded: Data \cup {None},  \* recorded_data
     pos: 0..2,                   \* recorded_data_current_position
     key: Keys \cup {None},       \* query_hash_key
     active: BOOLEAN,             \* query_active_with_cache
     should: BOOLEAN]             \* should_cache

Counters == {"should_cache", "should_not_cache", "not_cached", "found", "could_cache",
             "other", "no_table", "no_result", "use_result", "hit", "miss", "put"}

Closed == [state |-> "closed", running |-> None, hook |-> "original", recorded |-> None,
           pos |-> 0, key |-> None, active |-> FALSE, should |-> FALSE]

Connected == [Closed EXCEPT !.state = "ready"]

\* conn_data and net_data are allocated.
Open(c) == conn[c].state \notin {"closed", "crashed"}

Init ==
    /\ HandlerInit
    /\ clock = 0
    /\ conditional = FALSE
    /\ conn = [c \in Conns |-> Connected]
    /\ net = [c \in Conns |-> <<>>]
    /\ stat = [s \in Counters |-> 0]

-----------------------------------------------------------------------------
\* The wire

Parts(q) == IF q \in Multi THEN 4 ELSE IF q \in ResultSets THEN 2 ELSE 1

Answer(q) == [i \in 1..Parts(q) |-> <<q, i>>]

\* The part of its answer that store_result has recorded in full.
FirstResult(q) == SubSeq(Answer(q), 1, 2)

\* Waiting for a server that has nothing to send is not enabled; reading freed
\* memory is undefined, and the model goes no further.
MayReceive(c) ==
    IF conn[c].hook = "replay"
    THEN /\ heap[conn[c].recorded] # None
         /\ conn[c].pos < Len(heap[conn[c].recorded])
    ELSE net[c] # <<>>

NextPart(c) ==
    IF conn[c].hook = "replay" THEN heap[conn[c].recorded][conn[c].pos + 1]
    ELSE Head(net[c])

\* receive_replay, receive_record and the original receive function
ConnAfterReceive(c) ==
    IF conn[c].hook = "replay" THEN [conn[c] EXCEPT !.pos = @ + 1] ELSE conn[c]

HeapAfterReceive(c) ==
    IF conn[c].hook = "record"
    THEN [heap EXCEPT ![conn[c].recorded] = Append(@, NextPart(c))]
    ELSE heap

Receive(c) ==
    net' = IF conn[c].hook = "replay" THEN net ELSE [net EXCEPT ![c] = Tail(@)]

\* receive_replay fails when the data does not suffice; the network may fail.
ReceiveFails(c) ==
    IF conn[c].hook = "replay" THEN ~MayReceive(c) /\ heap[conn[c].recorded] # None
    ELSE "faults" \in Uses

\* Mutant: send_replay sends as well.
TransmitAlways(c, q, hook) == net' = [net EXCEPT ![c] = @ \o Answer(q)]

\* Mutant: send_record sends nothing.
TransmitOriginal(c, q, hook) ==
    net' = IF hook = "original" THEN [net EXCEPT ![c] = @ \o Answer(q)] ELSE net

\* send_replay sends nothing.
Transmit(c, q, hook) ==
    net' = IF hook = "replay" THEN net ELSE [net EXCEPT ![c] = @ \o Answer(q)]

NothingSent == UNCHANGED net

Update(c, r) == conn' = [conn EXCEPT ![c] = r]

Count(events) == stat' = [s \in Counters |-> stat[s] + IF s \in events THEN 1 ELSE 0]

\* A container and its contents are freed: FREE_SMART_STR_AND_CONTAINER_AND_NULL
\* and the code that does the same without the macro.
FreeRecorded(c) == heap' = Released({conn[c].recorded})

\* Mutant: the pointer to the container is kept.
UnhookedPointing(r) == [r EXCEPT !.hook = "original"]

\* MYSQLND_QC_NET_RESTORE_ORIGINAL, and recorded_data = NULL
Unhooked(r) == [r EXCEPT !.hook = "original", !.recorded = None]

Pointed(d) == \E c \in Conns : conn[c].recorded = d

Fresh == {d \in Data : /\ heap[d] = None
                       /\ ~Pointed(d)
                       /\ \A k \in Keys : Cached(k) => cache[k].cached_query # d}

-----------------------------------------------------------------------------
\* mysqlnd_qc_handle_query

Eligible(q) == q \in Cacheable \/ conditional

\* mysqlnd refuses a command unless the last one is finished.
InSync(c) == conn[c].state = "ready"

MaySend(c) ==
    /\ Open(c)
    /\ InSync(c) \/ conn[c].state = "gone" \/ "async" \in Uses
    /\ stat["should_cache"] + stat["should_not_cache"] < MaxSends

Classified(q) == IF q \in Cacheable THEN "should_cache" ELSE "should_not_cache"

Classify(c, q) == [conn[c] EXCEPT !.should = (q \in Cacheable), !.active = Eligible(q)]

Sent(r, q) == [r EXCEPT !.state = "sent", !.running = q]

\* The statement is not for the cache: the functions stay what they are.
SendPlain(c, q) ==
    /\ MaySend(c) /\ ~Eligible(q)
    /\ \/ /\ InSync(c)
          /\ Transmit(c, q, conn[c].hook)
          /\ Update(c, Sent(Classify(c, q), q))
       \/ /\ ~InSync(c)
          /\ NothingSent
          /\ Update(c, Classify(c, q))
    /\ Count({Classified(q), "not_cached"})
    /\ UNCHANGED <<cache, heap, environment>>

\* Found: replay it.  What recorded_data pointed to before is forgotten.
SendHit(c, q) ==
    /\ MaySend(c) /\ Eligible(q) /\ InSync(c)
    /\ \E d \in Data :
         /\ DataCopy => d \in Fresh
         /\ FindHit(q, clock, d)
         /\ Update(c, [Sent(Classify(c, q), q) EXCEPT
                           !.hook = "replay", !.recorded = d, !.pos = 0, !.key = q])
    /\ Transmit(c, q, "replay")
    /\ Count({Classified(q), "found"})
    /\ UNCHANGED environment

\* Found, but mysqlnd refuses to send: the container just lent is freed.
SendHitRefused(c, q) ==
    /\ MaySend(c) /\ Eligible(q) /\ ~InSync(c)
    /\ Servable(q, clock)
    /\ IF DataCopy THEN UNCHANGED <<cache, heap>>
       ELSE /\ cache' = Lent(q)
            /\ heap' = Released({cache[q].cached_query})
    /\ NothingSent
    /\ Update(c, Unhooked(Classify(c, q)))
    /\ Count({Classified(q), "found", "other"})
    /\ UNCHANGED environment

\* A connection that is recording already empties its container and goes on.
Recorder(c) == IF conn[c].hook = "record" THEN {conn[c].recorded} ELSE Fresh

\* Mutant: the container is not emptied.
SendMissDirty(c, q) ==
    /\ MaySend(c) /\ Eligible(q) /\ InSync(c)
    /\ FindMiss(q, clock)
    /\ \E d \in Recorder(c) :
         /\ heap' = [Released(FreedByLookup(q, clock)) EXCEPT
                        ![d] = IF @ = None THEN <<>> ELSE @]
         /\ Update(c, [Sent(Classify(c, q), q) EXCEPT
                           !.hook = "record", !.recorded = d, !.key = q])
    /\ Transmit(c, q, "record")
    /\ Count({Classified(q)})
    /\ UNCHANGED environment

SendMiss(c, q) ==
    /\ MaySend(c) /\ Eligible(q) /\ InSync(c)
    /\ FindMiss(q, clock)
    /\ \E d \in Recorder(c) :
         /\ heap' = [Released(FreedByLookup(q, clock)) EXCEPT ![d] = <<>>]
         /\ Update(c, [Sent(Classify(c, q), q) EXCEPT
                           !.hook = "record", !.recorded = d, !.key = q])
    /\ Transmit(c, q, "record")
    /\ Count({Classified(q)})
    /\ UNCHANGED environment

SendMissRefused(c, q) ==
    /\ MaySend(c) /\ Eligible(q) /\ ~InSync(c)
    /\ FindMiss(q, clock)
    /\ heap' = Released(FreedByLookup(q, clock)
                          \cup (IF conn[c].hook = "record" THEN {conn[c].recorded} ELSE {}))
    /\ NothingSent
    /\ Update(c, Unhooked(Classify(c, q)))
    /\ Count({Classified(q), "other"})
    /\ UNCHANGED environment

-----------------------------------------------------------------------------
\* reap_query

HasFields(c) == NextPart(c)[1] \in ResultSets

ReapResultSet(c) ==
    /\ conn[c].state = "sent"
    /\ MayReceive(c) /\ HasFields(c)
    /\ Receive(c)
    /\ heap' = HeapAfterReceive(c)
    /\ Update(c, [ConnAfterReceive(c) EXCEPT !.state = "fetching"])
    /\ Count(IF conn[c].active THEN {"could_cache"} ELSE {})
    /\ UNCHANGED <<cache, environment>>

\* What reap_query does without a result set, or after an error.
GiveUpRecording(c, r) ==
    /\ IF conn[c].active THEN FreeRecorded(c) ELSE heap' = HeapAfterReceive(c)
    /\ Update(c, IF conn[c].active THEN Unhooked(r) ELSE r)
    /\ Count(IF conn[c].active THEN {"other"} ELSE {})

ReapNoResult(c) ==
    /\ conn[c].state = "sent"
    /\ MayReceive(c) /\ ~HasFields(c)
    /\ Receive(c)
    /\ GiveUpRecording(c, [ConnAfterReceive(c) EXCEPT !.state = "ready"])
    /\ UNCHANGED <<cache, environment>>

ReapFails(c) ==
    /\ conn[c].state = "sent"
    /\ ReceiveFails(c)
    /\ net' = [net EXCEPT ![c] = <<>>]
    /\ IF conn[c].active THEN FreeRecorded(c) ELSE UNCHANGED heap
    /\ Update(c, IF conn[c].active THEN Unhooked([conn[c] EXCEPT !.state = "gone"])
                 ELSE [conn[c] EXCEPT !.state = "gone"])
    /\ Count(IF conn[c].active THEN {"other"} ELSE {})
    /\ UNCHANGED <<cache, environment>>

-----------------------------------------------------------------------------
\* store_result

AfterRows(c) == IF NextPart(c)[2] < Parts(NextPart(c)[1]) THEN "more" ELSE "ready"

RowsRead(c) == [ConnAfterReceive(c) EXCEPT !.state = AfterRows(c)]

\* Mutant: the functions stay what they are.
FinishedHooked(c) == [RowsRead(c) EXCEPT !.key = None]

Finished(c) == [Unhooked(RowsRead(c)) EXCEPT !.key = None]

MayStore(c) == conn[c].state = "fetching" /\ MayReceive(c)

\* The statement was not for the cache: nothing is put back.
StoreInactive(c) ==
    /\ MayStore(c) /\ ~conn[c].active
    /\ Receive(c)
    /\ heap' = HeapAfterReceive(c)
    /\ Update(c, RowsRead(c))
    /\ UNCHANGED <<cache, environment, stat>>

\* The functions are the original ones, e.g. for the second result of a multi
\* statement.
StoreUnhooked(c) ==
    /\ MayStore(c) /\ conn[c].active /\ conn[c].hook = "original"
    /\ Receive(c)
    /\ Update(c, Finished(c))
    /\ UNCHANGED <<cache, heap, environment, stat>>

\* Mutant: the container is not returned and the functions stay what they are.
StoreKept(c) ==
    /\ MayStore(c) /\ conn[c].active /\ conn[c].hook = "replay"
    /\ Receive(c)
    /\ Update(c, FinishedHooked(c))
    /\ Count({"hit"})
    /\ UNCHANGED <<cache, heap, environment>>

StoreReplayed(c) ==
    /\ MayStore(c) /\ conn[c].active /\ conn[c].hook = "replay"
    /\ Receive(c)
    /\ ReturnToCache(conn[c].key, conn[c].recorded, clock)
    /\ Update(c, Finished(c))
    /\ Count({"hit"})
    /\ UNCHANGED environment

StoreRecorded(c) ==
    /\ MayStore(c) /\ conn[c].active /\ conn[c].hook = "record"
    /\ Receive(c)
    /\ Update(c, Finished(c))
    /\ UNCHANGED environment

\* cache_no_table=0 and a column has no table name.
StoreNoTable(c) ==
    /\ StoreRecorded(c)
    /\ conn[c].running \in NoTable
    /\ FreeRecorded(c)
    /\ Count({"miss", "no_table"})
    /\ UNCHANGED cache

Wanted(c) == conn[c].should \/ (conditional /\ conn[c].running \in Accepted)

StoreAdded(c) ==
    /\ StoreRecorded(c)
    /\ conn[c].running \notin NoTable /\ Wanted(c)
    /\ AddQuery(conn[c].key, conn[c].recorded, Ttl, clock)
    /\ heap' = [d \in Data |-> IF d \in FreedByAdd(conn[c].key) THEN None
                               ELSE HeapAfterReceive(c)[d]]
    /\ Count({"miss", "put"})

\* Mutant: the hit is counted once.
CountOnce == stat' = [stat EXCEPT !["hit"] = @ + 1]

\* Somebody else was faster.  The hit is counted, and counted again.
CountRefused == stat' = [stat EXCEPT !["hit"] = @ + 1 + 1]

\* Mutant: the container is not freed.
StoreRefusedLeak(c) ==
    /\ StoreRecorded(c)
    /\ conn[c].running \notin NoTable /\ Wanted(c)
    /\ AddRefused(conn[c].key, clock)
    /\ heap' = HeapAfterReceive(c)
    /\ CountRefused

StoreRefused(c) ==
    /\ StoreRecorded(c)
    /\ conn[c].running \notin NoTable /\ Wanted(c)
    /\ AddRefused(conn[c].key, clock)
    /\ FreeRecorded(c)
    /\ CountRefused

\* No condition accepts the result: the container is forgotten, not freed.
StoreRejected(c) ==
    /\ StoreRecorded(c)
    /\ conn[c].running \notin NoTable /\ ~Wanted(c)
    /\ heap' = HeapAfterReceive(c)
    /\ UNCHANGED <<cache, stat>>

StoreFails(c) ==
    /\ conn[c].state = "fetching"
    /\ ReceiveFails(c)
    /\ net' = [net EXCEPT ![c] = <<>>]
    /\ Update(c, [conn[c] EXCEPT !.state = "gone"])
    /\ Count({"miss", "no_result"})
    /\ UNCHANGED <<cache, heap, environment>>

-----------------------------------------------------------------------------
\* use_result, and reading the rows that the script has not stored

\* Mutant: the functions stay what they are.
UseResultHooked(c) ==
    /\ "unbuffered" \in Uses
    /\ conn[c].state = "fetching"
    /\ Update(c, [conn[c] EXCEPT !.state = "rows", !.key = None])
    /\ IF conn[c].hook = "record" THEN FreeRecorded(c) ELSE UNCHANGED heap
    /\ Count({"miss", "use_result"})
    /\ UNCHANGED <<cache, environment, net>>

UseResult(c) ==
    /\ "unbuffered" \in Uses
    /\ conn[c].state = "fetching"
    /\ Update(c, [Unhooked(conn[c]) EXCEPT !.state = "rows", !.key = None])
    /\ IF conn[c].hook = "record" THEN FreeRecorded(c) ELSE UNCHANGED heap
    /\ Count({"miss", "use_result"})
    /\ UNCHANGED <<cache, environment, net>>

ReadRows(c) ==
    /\ conn[c].state = "rows"
    /\ MayReceive(c)
    /\ Receive(c)
    /\ Update(c, RowsRead(c))
    /\ UNCHANGED <<cache, heap, environment, stat>>

NextResult(c) ==
    /\ conn[c].state = "more"
    /\ MayReceive(c)
    /\ Receive(c)
    /\ heap' = HeapAfterReceive(c)
    /\ Update(c, [ConnAfterReceive(c) EXCEPT !.state = "fetching"])
    /\ UNCHANGED <<cache, environment, stat>>

-----------------------------------------------------------------------------
\* connect and free_contents

\* free_contents forgets recorded_data.
Close(c) ==
    /\ conn[c].state \in {"ready", "gone"} \/ (Open(c) /\ "close" \in Uses)
    /\ Update(c, Closed)
    /\ net' = [net EXCEPT ![c] = <<>>]
    /\ UNCHANGED <<cache, heap, environment, stat>>

Connect(c) ==
    /\ conn[c].state = "closed"
    /\ Update(c, Connected)
    /\ UNCHANGED <<cache, heap, environment, net, stat>>

\* connect on an open connection: mysqlnd calls free_contents, then shakes hands
\* through whatever functions the connection has.  receive_record and
\* receive_replay then use a NULL pointer, which ends the process.
Reconnect(c) ==
    /\ "reconnect" \in Uses
    /\ Open(c)
    /\ IF conn[c].hook = "original" THEN Update(c, Connected)
       ELSE conn' = [o \in Conns |-> [Closed EXCEPT !.state = "crashed"]]
    /\ net' = [net EXCEPT ![c] = <<>>]
    /\ UNCHANGED <<cache, heap, environment, stat>>

Tick ==
    /\ clock < MaxClock
    /\ clock' = clock + 1
    /\ UNCHANGED <<cache, heap, conditional, conn, net, stat>>

\* A condition applies to the statements sent from now on, and to the results
\* that are still to be stored.
SetCacheCondition ==
    /\ "conditions" \in Uses
    /\ conditional' = TRUE
    /\ UNCHANGED <<cache, heap, clock, conn, net, stat>>

-----------------------------------------------------------------------------

SendQuery(c, q) ==
    \/ SendPlain(c, q)
    \/ SendHit(c, q) \/ SendHitRefused(c, q)
    \/ SendMiss(c, q) \/ SendMissRefused(c, q)

ReapQuery(c) == ReapResultSet(c) \/ ReapNoResult(c) \/ ReapFails(c)

StoreResult(c) ==
    \/ StoreInactive(c) \/ StoreUnhooked(c) \/ StoreReplayed(c)
    \/ StoreNoTable(c) \/ StoreAdded(c) \/ StoreRefused(c) \/ StoreRejected(c)
    \/ StoreFails(c)

Next ==
    \/ Tick
    \/ SetCacheCondition
    \/ \E c \in Conns :
         \/ \E q \in Keys : SendQuery(c, q)
         \/ ReapQuery(c) \/ StoreResult(c)
         \/ UseResult(c) \/ ReadRows(c) \/ NextResult(c)
         \/ Close(c) \/ Connect(c) \/ Reconnect(c)

Spec == Init /\ [][Next]_vars
-----------------------------------------------------------------------------
(***************************************************************************)
(* Properties                                                              *)
(***************************************************************************)

Contents == {<<>>} \cup UNION {{SubSeq(Answer(q), 1, i) : i \in 1..Parts(q)} : q \in Keys}

\* Types; and recorded_data is set exactly as long as the functions are swapped.
TypeOK ==
    /\ cache \in [Keys -> Entry \cup {NoEntry}]
    /\ clock \in 0..MaxClock
    /\ conditional \in BOOLEAN
    /\ conn \in [Conns -> Connection]
    /\ \A c \in Conns : conn[c].hook = "original" <=> conn[c].recorded = None
    /\ stat \in [Counters -> Nat]

\* No connection records into, or replays from, memory that was freed, and no
\* entry of the cache points to it.
NoUseAfterFree ==
    /\ \A c \in Conns : conn[c].hook # "original" /\ Open(c) => heap[conn[c].recorded] # None
    /\ \A k \in Keys : Cached(k) => heap[cache[k].cached_query] # None

\* What a statement reads, from the network or from the cache, is the next part
\* of the answer to that statement and of no other.
ReadsOwnAnswer ==
    \A c \in Conns :
        LET q == conn[c].running
            Expects(i) == MayReceive(c) => NextPart(c) \in {<<q, i>>, <<q, i + 2>>}
        IN /\ conn[c].state = "sent" => Expects(1)
           /\ conn[c].state \in {"fetching", "rows"} => Expects(2)

\* An entry holds the whole first result of its own statement: a recording that
\* was cut short, mixed with another statement or kept under a stale hash key
\* never gets into the cache.
CachesWholeResult ==
    \A k \in Keys : Cached(k) /\ heap[cache[k].cached_query] # None
        => heap[cache[k].cached_query] = FirstResult(k)

\* A container being recorded belongs to one connection only.
RecordsPrivately ==
    \A c \in Conns : conn[c].hook = "record" /\ Open(c) =>
        /\ \A o \in Conns \ {c} : conn[o].recorded # conn[c].recorded
        /\ \A k \in Keys : Cached(k) => cache[k].cached_query # conn[c].recorded

\* A connection that waits for the network waits for something the server will
\* send.  ("The plugin-in operates transparent from a user perspective.")
AnswerOnItsWay ==
    \A c \in Conns :
        conn[c].state \in {"sent", "fetching", "rows", "more"} /\ conn[c].hook # "replay"
            => net[c] # <<>>

\* A statement that is not for the cache is sent to the server.
StatementsReachServer ==
    \A c \in Conns :
        conn[c].state = "sent" /\ ~Eligible(conn[c].running) => conn[c].hook # "replay"

Replays(k) == {c \in Conns : conn[c].hook = "replay" /\ conn[c].key = k}

\* The counter of an entry is the number of connections that replay it, so none
\* is lent for ever.
LentToReplays ==
    \A k \in Keys : Cached(k) =>
        cache[k].references = IF DataCopy THEN 0 ELSE Cardinality(Replays(k))

\* A container is in the cache, in the hands of a connection, or free.
NothingLeaks ==
    \A d \in Data : heap[d] # None =>
        Pointed(d) \/ \E k \in Keys : Cached(k) /\ cache[k].cached_query = d

Quiet == \A c \in Conns : conn[c].state \in {"ready", "closed"}

\* Every eligible statement ends in one of the outcomes of the statistics: it
\* has no result set, or it was replayed, put, had no table, was read unbuffered
\* or refused (the two hits of a refusal are one outcome).
OutcomesAddUp ==
    Quiet =>
        /\ stat["could_cache"] + stat["other"] + stat["not_cached"]
               = stat["should_cache"] + stat["should_not_cache"]
        /\ 2 * (stat["could_cache"] - stat["put"] - stat["no_table"] - stat["found"])
               = stat["hit"] - stat["found"]
        /\ stat["miss"] = stat["put"] + stat["no_table"]
=============================================================================
