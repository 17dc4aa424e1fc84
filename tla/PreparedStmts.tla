----------------------------- MODULE PreparedStmts -----------------------------
(***************************************************************************)
(* The prepared statement hooks (mysqlnd_qc_ps.c) on connections that run  *)
(* plain statements as well.  execute looks the statement up, through      *)
(* generate_execute_request, and swaps the functions of the connection     *)
(* before mysqlnd finds out whether it may send; store_result, or the      *)
(* fetch that finds no more rows, gives the container to the cache or      *)
(* back.  Statements share the functions and recorded_data of their        *)
(* connection with each other and with the plain statements.               *)
(*                                                                         *)
(* Left out: cursors, results that are freed unread, and connections that  *)
(* are closed or reconnected.  Where the code would go on with a NULL or   *)
(* freed container and nothing can be said of what it does, the model      *)
(* goes no further.                                                        *)
(***************************************************************************)
EXTENDS Connections

CONSTANTS
    Stmts,   \* statement handles
    Owner,   \* Owner[s]: the connection of s
    PsKeys   \* prepared queries, with their parameters

ASSUME StmtAssumption ==
    /\ Owner \in [Stmts -> Conns]
    /\ PsKeys \subseteq Keys
    /\ PsKeys \cap Multi = {}

VARIABLE
    stmt  \* stmt[s]: the statement and the data the plugin keeps with it

psVars == <<cache, heap, clock, conditional, conn, net, stat, stmt>>

\* "pending": executed, and the rows not read yet; "using": read unbuffered.
Statement ==
    [state: {"initted", "prepared", "pending", "using"},
     query: PsKeys \cup {None},
     plugin: BOOLEAN,        \* the plugin has data for the statement
     key: PsKeys \cup {None},
     record_mode: BOOLEAN]

Initted == [state |-> "initted", query |-> None, plugin |-> FALSE, key |-> None,
            record_mode |-> FALSE]

PsInit == Init /\ stmt = [s \in Stmts |-> Initted]

Assign(s, r) == stmt' = [stmt EXCEPT ![s] = r]

Unread(s) == stmt[s].state \in {"pending", "using"}

Alive(c) == conn[c].state # "crashed"

\* The process reads through functions that have nothing to read from.
Crash == conn' = [o \in Conns |-> [Closed EXCEPT !.state = "crashed"]]

\* recorded_data = NULL under receive_replay or receive_record
Dangling(c) == conn[c].hook # "original" /\ conn[c].recorded = None

\* The functions work on memory that is there.
Sound(c) == conn[c].hook # "original" =>
                conn[c].recorded # None /\ heap[conn[c].recorded] # None

CrashOnReceive(c) ==
    /\ conn[c].state = "sent" /\ Dangling(c)
    /\ Crash
    /\ UNCHANGED <<cache, heap, environment, net, stat, stmt>>

-----------------------------------------------------------------------------
\* prepare: the plugin forgets the statement and restores the functions, whoever
\* uses them; then mysqlnd refuses unless the connection is ready.

Prepared(q) == [Initted EXCEPT !.state = "prepared", !.query = q, !.plugin = (q \in Cacheable)]

MayPrepare(s) == Alive(Owner[s]) /\ ~Unread(s)

Prepare(s, q) ==
    /\ MayPrepare(s)
    /\ InSync(Owner[s])
    /\ Update(Owner[s], [conn[Owner[s]] EXCEPT !.hook = "original"])
    /\ Assign(s, Prepared(q))
    /\ UNCHANGED <<cache, heap, environment, net, stat>>

PrepareRefused(s) ==
    /\ MayPrepare(s)
    /\ ~InSync(Owner[s])
    /\ "async" \in Uses \/ conn[Owner[s]].hook = "original"
    /\ Update(Owner[s], [conn[Owner[s]] EXCEPT !.hook = "original"])
    /\ Assign(s, [stmt[s] EXCEPT !.plugin = FALSE, !.key = None, !.record_mode = FALSE])
    /\ UNCHANGED <<cache, heap, environment, net, stat>>

\* dtor and free_stmt_content forget the data of the statement, nothing else.
Forget(s) ==
    /\ Alive(Owner[s]) /\ ~Unread(s) /\ stmt[s].state # "initted"
    /\ Assign(s, Initted)
    /\ UNCHANGED <<cache, heap, environment, conn, net, stat>>

-----------------------------------------------------------------------------
\* execute

\* mysqlnd sends the statement and reads the header in the same call.
Executed(r, q) ==
    [r EXCEPT !.running = q, !.state = IF q \in ResultSets THEN "fetching" ELSE "ready"]

StateAfter(q) == IF q \in ResultSets THEN "pending" ELSE "prepared"

SentAndHeaderRead(c, q) == net' = [net EXCEPT ![c] = Tail(@ \o Answer(q))]

MayExecute(s) == Alive(Owner[s]) /\ stmt[s].state = "prepared"

\* A statement without plugin data goes through whatever functions there are.
ExecutePlain(s) ==
    LET c == Owner[s]
        q == stmt[s].query
    IN /\ MayExecute(s) /\ ~stmt[s].plugin /\ InSync(c)
       /\ Sound(c) /\ conn[c].hook # "replay"
       /\ SentAndHeaderRead(c, q)
       /\ heap' = IF conn[c].hook = "original" THEN heap
                  ELSE [heap EXCEPT ![conn[c].recorded] = Append(@, <<q, 1>>)]
       /\ Update(c, Executed(conn[c], q))
       /\ Assign(s, [stmt[s] EXCEPT !.state = StateAfter(q)])
       /\ UNCHANGED <<cache, environment, stat>>

ExecuteCrash(s) ==
    /\ MayExecute(s) /\ ~stmt[s].plugin
    /\ InSync(Owner[s]) /\ Dangling(Owner[s])
    /\ Crash
    /\ UNCHANGED <<cache, heap, environment, net, stat, stmt>>

\* generate_execute_request frees what the connection recorded or was lent.
Old(c) == {conn[c].recorded} \ {None}

\* Mutant: the functions are not swapped for a replay.
AttachedToNetwork(c, hook, d) ==
    [conn[c] EXCEPT !.hook = IF hook = "replay" THEN @ ELSE hook, !.recorded = d,
                    !.pos = IF hook = "replay" THEN 0 ELSE @]

Attached(c, hook, d) == [conn[c] EXCEPT !.hook = hook, !.recorded = d,
                                        !.pos = IF hook = "replay" THEN 0 ELSE @]

\* The statement is found.  A header was recorded, so there is one to replay.
ExecuteHit(s) ==
    LET c == Owner[s]
        q == stmt[s].query
        kept == Released(Old(c))
    IN /\ MayExecute(s) /\ stmt[s].plugin /\ Servable(q, clock)
       /\ InSync(c) \/ "async" \in Uses
       /\ \E d \in IF DataCopy THEN Fresh ELSE {cache[q].cached_query} :
            /\ cache' = IF DataCopy THEN cache ELSE Lent(q)
            /\ heap' = IF DataCopy THEN [kept EXCEPT ![d] = heap[cache[q].cached_query]]
                       ELSE kept
            /\ Update(c, IF InSync(c)
                         THEN [Executed(Attached(c, "replay", d), q) EXCEPT !.pos = 1]
                         ELSE Attached(c, "replay", d))
       /\ Assign(s, [stmt[s] EXCEPT !.key = q, !.record_mode = FALSE,
                                    !.state = IF InSync(c) THEN "pending" ELSE @])
       /\ IF InSync(c) THEN Transmit(c, q, "replay") ELSE NothingSent
       /\ UNCHANGED <<environment, stat>>

\* The statement is not found: a container of its own records the answer.
ExecuteMiss(s) ==
    LET c == Owner[s]
        q == stmt[s].query
        kept == Released(Old(c) \cup FreedByLookup(q, clock))
    IN /\ MayExecute(s) /\ stmt[s].plugin
       /\ InSync(c) \/ "async" \in Uses
       /\ FindMiss(q, clock)
       /\ \E d \in Fresh :
            /\ heap' = [kept EXCEPT ![d] = IF InSync(c) THEN <<<<q, 1>>>> ELSE <<>>]
            /\ Update(c, IF InSync(c) THEN Executed(Attached(c, "record", d), q)
                         ELSE Attached(c, "record", d))
       /\ IF InSync(c) THEN SentAndHeaderRead(c, q) ELSE NothingSent
       /\ Assign(s, [stmt[s] EXCEPT !.key = q, !.record_mode = TRUE,
                                    !.state = IF InSync(c) THEN StateAfter(q) ELSE @])
       /\ UNCHANGED <<environment, stat>>

-----------------------------------------------------------------------------
\* store_result, use_result and fetch: the rows, then
\* mysqlnd_qc_ps_use_or_store_result_handler

\* mysqli_stmt_store_result, or fetching until there are no more rows
EndsReading(s) ==
    LET c == Owner[s]
    IN /\ Unread(s) /\ Alive(c)
       /\ Sound(c) /\ MayReceive(c)
       /\ Receive(c)

UseStmtResult(s) ==
    /\ stmt[s].state = "pending" /\ Alive(Owner[s])
    /\ Update(Owner[s], [conn[Owner[s]] EXCEPT !.state = "rows"])
    /\ Assign(s, [stmt[s] EXCEPT !.state = "using"])
    /\ UNCHANGED <<cache, heap, environment, net, stat>>

Over(s) == [stmt[s] EXCEPT !.state = "prepared", !.record_mode = FALSE, !.key = None]

Emptied(c) == [RowsRead(c) EXCEPT !.recorded = None]

\* The plugin has no data for the statement.
ReadPlain(s) ==
    /\ ~stmt[s].plugin
    /\ EndsReading(s)
    /\ heap' = HeapAfterReceive(Owner[s])
    /\ Update(Owner[s], RowsRead(Owner[s]))
    /\ Assign(s, [stmt[s] EXCEPT !.state = "prepared"])
    /\ UNCHANGED <<cache, environment, stat>>

\* Mutant: the container is not returned.
ReadReplayedKept(s) ==
    /\ stmt[s].plugin /\ ~stmt[s].record_mode
    /\ EndsReading(s)
    /\ Update(Owner[s], Emptied(Owner[s]))
    /\ Assign(s, Over(s))
    /\ UNCHANGED <<cache, heap, environment, stat>>

\* A replay: the functions stay swapped.
ReadReplayed(s) ==
    /\ stmt[s].plugin /\ ~stmt[s].record_mode
    /\ EndsReading(s)
    /\ DataCopy => conn[Owner[s]].recorded # None
    /\ ReturnToCache(stmt[s].key, conn[Owner[s]].recorded, clock)
    /\ Update(Owner[s], Emptied(Owner[s]))
    /\ Assign(s, Over(s))
    /\ UNCHANGED <<environment, stat>>

ReadRecorded(s) ==
    /\ stmt[s].plugin /\ stmt[s].record_mode
    /\ conn[Owner[s]].recorded # None
    /\ EndsReading(s)
    /\ Update(Owner[s], Unhooked(RowsRead(Owner[s])))
    /\ Assign(s, Over(s))
    /\ UNCHANGED <<environment, stat>>

MayBeAdded(s) == stmt[s].query \notin NoTable

\* cache_no_table=0 and a column has no table name, or the add is refused: the
\* container is freed.
ReadDiscarded(s) ==
    /\ ReadRecorded(s)
    /\ ~MayBeAdded(s) \/ AddRefused(stmt[s].key, clock)
    /\ FreeRecorded(Owner[s])
    /\ UNCHANGED cache

\* Mutant: the container is added before the rows are in it.
ReadAddedEarly(s) ==
    LET c == Owner[s]
    IN /\ ReadRecorded(s) /\ MayBeAdded(s)
       /\ AddQuery(stmt[s].key, conn[c].recorded, Ttl, clock)
       /\ heap' = Released(FreedByAdd(stmt[s].key))

ReadAdded(s) ==
    LET c == Owner[s]
    IN /\ ReadRecorded(s) /\ MayBeAdded(s)
       /\ AddQuery(stmt[s].key, conn[c].recorded, Ttl, clock)
       /\ heap' = [d \in Data |-> IF d \in FreedByAdd(stmt[s].key) THEN None
                                  ELSE HeapAfterReceive(c)[d]]

-----------------------------------------------------------------------------

\* A plain statement on a connection, while none of its prepared statements has
\* rows to read, or (asynchronous use) to be refused by mysqlnd.  send_replay
\* sends nothing and needs no container.
PlainSend(c, q) ==
    /\ q \notin PsKeys
    /\ Sound(c) \/ conn[c].hook = "replay"
    /\ SendQuery(c, q)
    /\ UNCHANGED stmt

PlainAnswer(c) ==
    /\ conn[c].running \notin PsKeys
    /\ Sound(c)
    /\ ReapQuery(c) \/ StoreResult(c)
    /\ UNCHANGED stmt

Pause == Tick /\ UNCHANGED stmt

Execute(s) == ExecutePlain(s) \/ ExecuteCrash(s) \/ ExecuteHit(s) \/ ExecuteMiss(s)

ReadToEnd(s) == ReadPlain(s) \/ ReadReplayed(s) \/ ReadDiscarded(s) \/ ReadAdded(s)

PsNext ==
    \/ Pause
    \/ \E c \in Conns :
         \/ \E q \in Keys : PlainSend(c, q)
         \/ PlainAnswer(c) \/ CrashOnReceive(c)
    \/ \E s \in Stmts :
         \/ \E q \in PsKeys : Prepare(s, q)
         \/ PrepareRefused(s) \/ Forget(s)
         \/ Execute(s) \/ UseStmtResult(s) \/ ReadToEnd(s)

PsSpec == PsInit /\ [][PsNext]_psVars

-----------------------------------------------------------------------------
(***************************************************************************)
(* Properties                                                              *)
(***************************************************************************)

\* The rows a statement reads, from the network or from the cache, are its own.
PsReadsOwnAnswer ==
    \A s \in Stmts :
        LET c == Owner[s]
        IN Unread(s) /\ Alive(c) /\ MayReceive(c) => NextPart(c) = <<stmt[s].query, 2>>

\* No connection records into, or replays from, memory that was freed, and no
\* entry of the cache points to it.
PsNoUseAfterFree ==
    /\ \A c \in Conns : conn[c].recorded # None => heap[conn[c].recorded] # None
    /\ \A k \in Keys : Cached(k) => heap[cache[k].cached_query] # None

StmtReplays(k) ==
    {s \in Stmts : stmt[s].key = k /\ ~stmt[s].record_mode /\ Alive(Owner[s])}

PlainReplays(k) == {c \in Replays(k) : conn[c].recorded # None /\ conn[c].running = k}

NobodyCrashed == \A c \in Conns : Alive(c)

\* The counter of an entry is the number of statements, prepared or plain, that
\* replay it.
LentToStatements ==
    NobodyCrashed => \A k \in Keys : Cached(k) =>
        cache[k].references = IF DataCopy THEN 0
                              ELSE Cardinality(StmtReplays(k)) + Cardinality(PlainReplays(k))

\* Rows that are still to be read are on their way.
RowsOnTheirWay ==
    \A s \in Stmts : Unread(s) /\ Alive(Owner[s]) => MayReceive(Owner[s])
=============================================================================
