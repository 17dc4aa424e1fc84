----------------------------- MODULE SqliteHandler -----------------------------
(***************************************************************************)
(* The SQLite storage handler (mysqlnd_qc_sqlite_handler.c).  The threads  *)
(* of a process share one connection to a database whose table qcache has  *)
(* neither a key nor a transaction around two statements: LOCK_access      *)
(* alone excludes the threads from each other.  A function is one action   *)
(* unless time or failure can come between its parts: an add reads the     *)
(* clock before it waits for the lock, looks for the row and purges, and   *)
(* inserts.  Any statement may fail (a file locked by a process outside    *)
(* of the model, a full disk); most failures are ignored by the code.      *)
(*                                                                         *)
(* Left out: use_request_time, the times kept in a row (only its hits      *)
(* are), the quoting of keys, deadlines wider than sqlite3_column_int, the *)
(* methods of the PHP class, and several processes that write to a file.   *)
(***************************************************************************)
EXTENDS Integers, FiniteSets

CONSTANTS
    Keys,      \* query hash keys
    Procs,     \* threads of the process
    Answers,   \* Answers[k]: results the server may give for query k
    None,
    Rowids,    \* bound on the rows of the table
    Ttls,      \* times to live a query may ask for
    Faults,    \* statements may fail
    MaxClock,
    MaxHits    \* counters stop here

ASSUME SqliteAssumption ==
    /\ None \notin Keys \cup UNION {Answers[k] : k \in Keys}
    /\ Ttls \subseteq Nat
    /\ Faults \in BOOLEAN
    /\ MaxClock \in Nat /\ MaxHits \in Nat

VARIABLES
    clock,
    db_conn,  \* the database is open
    rows,     \* table qcache
    proc,     \* proc[p]: what p is doing, for which query, with which result
    failed,   \* history: the SELECT or the DELETE of an add has failed
    replays   \* history: replays[k], since the last row of k was inserted

vars == <<clock, db_conn, rows, proc, failed, replays>>

Results == UNION {Answers[k] : k \in Keys}

Row == [id: Rowids, qhash: Keys, qdata: Results, deadline: Nat, hits: Nat]

\* "adding": the deadline was computed.  "inserting": LOCK_access is held, the
\* row was not found or was purged.  "counting": a replay ended.
Places == {"idle", "recording", "replaying", "counting", "adding", "inserting"}

Process == [pc: Places, key: Keys \cup {None}, data: Results \cup {None}, deadline: Nat]

Idle == [pc |-> "idle", key |-> None, data |-> None, deadline |-> 0]

TypeOK ==
    /\ clock \in Nat
    /\ db_conn \in BOOLEAN
    /\ rows \subseteq Row
    /\ proc \in [Procs -> Process]
    /\ failed \in BOOLEAN
    /\ replays \in [Keys -> Nat]

Init ==
    /\ clock = 0
    /\ db_conn \in BOOLEAN
    /\ rows = {}
    /\ proc = [p \in Procs |-> Idle]
    /\ failed = FALSE
    /\ replays = [k \in Keys |-> 0]

-----------------------------------------------------------------------------
\* Statements

\* Mutant: there is no lock.
Unlocked == TRUE

LockFree == \A p \in Procs : proc[p].pc # "inserting"

\* Mutant: the SELECT has no WHERE, like that of update_cache_stats.
SelectedAny(k) == rows

\* select_exists_sql, select_row_sql: the first of these rows is looked at.
Selected(k) == {r \in rows : r.qhash = k}

Stale(r) == r.deadline < clock

\* purge_sql
Purged == {r \in rows : ~Stale(r)}

\* sqlite3_exec of purge_sql, whose failure is ignored.
Purge == rows' = Purged \/ (Faults /\ rows' = rows)

FindsNoRow(k) == ~db_conn \/ Selected(k) = {} \/ Faults

Become(p, state, k, r) ==
    proc' = [proc EXCEPT ![p] = [pc |-> state, key |-> k, data |-> r, deadline |-> 0]]

-----------------------------------------------------------------------------

\* find_query_in_cache
FindFresh(p, k) ==
    /\ proc[p].pc = "idle"
    /\ db_conn /\ LockFree
    /\ \E r \in Selected(k) : ~Stale(r) /\ Become(p, "replaying", k, r.qdata)
    /\ UNCHANGED <<clock, db_conn, rows, failed, replays>>

\* NULL is returned and the client records the answer of the server.
FindStale(p, k) ==
    /\ proc[p].pc = "idle"
    /\ db_conn /\ LockFree
    /\ \E r \in Selected(k) : Stale(r)
    /\ Purge
    /\ \E r \in Answers[k] : Become(p, "recording", k, r)
    /\ UNCHANGED <<clock, db_conn, failed, replays>>

FindNothing(p, k) ==
    /\ proc[p].pc = "idle"
    /\ LockFree
    /\ FindsNoRow(k)
    /\ \E r \in Answers[k] : Become(p, "recording", k, r)
    /\ UNCHANGED <<clock, db_conn, rows, failed, replays>>

\* return_to_cache
ReturnToCache(p) ==
    /\ proc[p].pc = "replaying"
    /\ Become(p, "counting", proc[p].key, None)
    /\ UNCHANGED <<clock, db_conn, rows, failed, replays>>

AtMost(n) == IF n < MaxHits THEN n ELSE MaxHits

\* update_stats_select names no key: the counter comes from the first row of the
\* table, and the result goes to the rows of the key.
UpdateStats(p) ==
    LET k == proc[p].key IN
    /\ proc[p].pc = "counting"
    /\ LockFree
    /\ \/ (~db_conn \/ rows = {} \/ Faults) /\ UNCHANGED rows
       \/ /\ db_conn
          /\ \E first \in rows :
               rows' = {IF r.qhash = k THEN [r EXCEPT !.hits = AtMost(first.hits + 1)] ELSE r
                         : r \in rows}
    /\ replays' = [replays EXCEPT ![k] = AtMost(@ + 1)]
    /\ Become(p, "idle", None, None)
    /\ UNCHANGED <<clock, db_conn, failed>>

\* A statement that was recorded but is not to be cached.
Abandon(p) ==
    /\ proc[p].pc = "recording"
    /\ Become(p, "idle", None, None)
    /\ UNCHANGED <<clock, db_conn, rows, failed, replays>>

\* add_query_to_cache_if_not_exists: the deadline is computed,
BeginAdd(p, ttl) ==
    /\ proc[p].pc = "recording"
    /\ proc' = [proc EXCEPT ![p].pc = "adding", ![p].deadline = clock + ttl]
    /\ UNCHANGED <<clock, db_conn, rows, failed, replays>>

AddWithoutDatabase(p) ==
    /\ proc[p].pc = "adding"
    /\ ~db_conn
    /\ Become(p, "idle", None, None)
    /\ UNCHANGED <<clock, db_conn, rows, failed, replays>>

\* the lock is taken; a fresh row ends the add,
AddRefused(p) ==
    /\ proc[p].pc = "adding"
    /\ db_conn /\ LockFree
    /\ \E r \in Selected(proc[p].key) : ~Stale(r)
    /\ Become(p, "idle", None, None)
    /\ UNCHANGED <<clock, db_conn, rows, failed, replays>>

\* a stale one is purged with all others,
AddPurges(p) ==
    /\ proc[p].pc = "adding"
    /\ db_conn /\ LockFree
    /\ \E r \in Selected(proc[p].key) : Stale(r)
    /\ Purge
    /\ failed' = (failed \/ rows' # Purged)
    /\ proc' = [proc EXCEPT ![p].pc = "inserting"]
    /\ UNCHANGED <<clock, db_conn, replays>>

\* and no row is as good as a SELECT that failed;
AddFindsNothing(p) ==
    /\ proc[p].pc = "adding"
    /\ db_conn /\ LockFree
    /\ FindsNoRow(proc[p].key)
    /\ failed' = (failed \/ Selected(proc[p].key) # {})
    /\ proc' = [proc EXCEPT ![p].pc = "inserting"]
    /\ UNCHANGED <<clock, db_conn, rows, replays>>

NewRow(p, i) ==
    [id |-> i, qhash |-> proc[p].key, qdata |-> proc[p].data, deadline |-> proc[p].deadline,
     hits |-> 0]

\* the row is inserted and the lock released.
Insert(p) ==
    /\ proc[p].pc = "inserting"
    /\ \E i \in Rowids \ {r.id : r \in rows} : rows' = rows \cup {NewRow(p, i)}
    /\ replays' = [replays EXCEPT ![proc[p].key] = 0]
    /\ Become(p, "idle", None, None)
    /\ UNCHANGED <<clock, db_conn, failed>>

\* FAIL is returned and the caller frees the result.
InsertFails(p) ==
    /\ proc[p].pc = "inserting"
    /\ Faults
    /\ Become(p, "idle", None, None)
    /\ UNCHANGED <<clock, db_conn, rows, failed, replays>>

\* query_is_cached purges unless it finds a fresh row.
QueryIsCached(p, k) ==
    /\ proc[p].pc = "idle"
    /\ db_conn /\ LockFree
    /\ FindsNoRow(k) \/ \E r \in Selected(k) : Stale(r)
    /\ Purge
    /\ UNCHANGED <<clock, db_conn, proc, failed, replays>>

\* clear_cache returns PASS whether the rows were deleted or not.
ClearCache(p) ==
    /\ proc[p].pc = "idle"
    /\ db_conn /\ LockFree
    /\ rows' = {}
    /\ UNCHANGED <<clock, db_conn, proc, failed, replays>>

Tick ==
    /\ clock < MaxClock
    /\ clock' = clock + 1
    /\ UNCHANGED <<db_conn, rows, proc, failed, replays>>

\* The process ends or crashes and MINIT opens the file again.  The rows stay: the
\* CREATE TABLE of a table that exists fails, which is ignored.
Restart ==
    /\ db_conn' \in BOOLEAN
    /\ proc' = [p \in Procs |-> Idle]
    /\ UNCHANGED <<clock, rows, failed, replays>>

-----------------------------------------------------------------------------

Find(p, k) == FindFresh(p, k) \/ FindStale(p, k) \/ FindNothing(p, k)

Add(p) ==
    \/ \E ttl \in Ttls : BeginAdd(p, ttl)
    \/ AddWithoutDatabase(p)
    \/ AddRefused(p)
    \/ AddPurges(p)
    \/ AddFindsNothing(p)
    \/ Insert(p)
    \/ InsertFails(p)

ThreadStep(p) ==
    \/ \E k \in Keys : Find(p, k) \/ QueryIsCached(p, k)
    \/ ReturnToCache(p)
    \/ UpdateStats(p)
    \/ Abandon(p)
    \/ Add(p)
    \/ ClearCache(p)

Next == Tick \/ Restart \/ \E p \in Procs : ThreadStep(p)

Spec == Init /\ [][Next]_vars

-----------------------------------------------------------------------------
(***************************************************************************)
(* Properties                                                              *)
(***************************************************************************)

\* fill_stats_hash: the number of entries it returns, and the keys of the array.
NumEntries == Cardinality(rows)
Listed == {r.qhash : r \in rows}

\* The table has no key and an add no transaction: the lock and the purge keep
\* two rows of one query from existing together, across expiry and restarts,
\* until a SELECT or DELETE fails under an add.
OneRow == ~failed => NumEntries = Cardinality(Listed)

\* The cache_hits of an entry in the result of fill_stats_hash never exceed the
\* replays of its query since the entry was added. Not so: update_stats_select
\* has no WHERE, and the first replay of a second query gives it the hits of the first.
HitsAreReplays == \A r \in rows : r.hits <= replays[r.qhash]

Holding == {"recording", "adding", "inserting"}

storeBar ==
    [k \in Keys |-> IF Selected(k) = {} THEN None ELSE (CHOOSE r \in Selected(k) : TRUE).qdata]

\* What a client in this state has in hand.
ClientOf(r) ==
    IF r.pc \in Holding \cup {"replaying"}
    THEN [kind |-> IF r.pc = "replaying" THEN "replaying" ELSE "recording",
          key |-> r.key, result |-> r.data]
    ELSE [kind |-> "idle", key |-> None, result |-> None]

clientBar == [p \in Procs |-> ClientOf(proc[p])]

Abstract == INSTANCE ResultCache WITH
    Clients <- Procs, SlamDefense <- FALSE,
    store <- storeBar, refreshing <- [k \in Keys |-> FALSE], client <- clientBar

\* The handler implements the abstract cache as long as no SELECT or DELETE fails
\* under an add: an add publishes, a purge forgets whole results, and a replay is
\* of what was last published for the query.
ImplementsResultCache ==
    Abstract!Init /\ [][failed' \/ Restart \/ Abstract!Next]_(Abstract!vars)
=============================================================================
