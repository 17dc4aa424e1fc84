# mysqlnd_qc: a TLA+ model of the client-side query cache

mysqlnd_qc is a PHP extension that plugs into mysqlnd, PHP's MySQL client
library. It records the wire image of a result when a statement is run for the
first time and replays it when the same statement is run again, without asking
the server. The scripts that use mysqli or PDO are not supposed to notice.

This directory models that program: what it does with the cache and its memory,
what its hooks do to a connection in every order a script may call them, and
which promises hold. `src/...` below is the repository.

## 1. Inventory

### Components, their state and operations

| Component | Code | State | Operations |
|---|---|---|---|
| Default ("std") storage handler | `mysqlnd_qc_std_handler.c` | the hash table `norm_query -> entry` (container, deadline, `in_refresh`, `references`, run time statistics), one lock `LOCK_QCACHE` | `query_is_cached`, `find_query_in_cache`, `return_to_cache`, `add_query_to_cache_if_not_exists`, `update_query_run_time_stats`, `fill_stats_hash`, `clear_cache`, the PHP class `mysqlnd_qc_handler_default` |
| Connection hooks | `mysqlnd_qc.c` | per connection: swapped `receive_ex`/`send_ex`, `recorded_data`, `recorded_data_current_position`, `query_hash_key`, `query_active_with_cache`, `should_cache`, TTL; per process: statistics | `connect`, `send_query` (`mysqlnd_qc_handle_query`), `reap_query`, `store_result`, `use_result`, `set_server_option`, `free_contents`, the four receive/send functions |
| Prepared statement hooks | `mysqlnd_qc_ps.c` | per statement: query, key, `recorded_data`, `record_mode`, `use_result`, times | `prepare`, `execute`, `generate_execute_request`, `store_result`, `use_result`, `fetch`, `dtor` |
| APC handler | `mysqlnd_qc_apc_handler.c` | entries in memory shared by the processes of a host; a lock of the threads of one process only | as std |
| Memcache, SQLite handlers | `mysqlnd_qc_memcache_handler.c`, `mysqlnd_qc_sqlite_handler.c` | an external store | as std |
| User and object handlers | `mysqlnd_qc_user_handler.c`, `mysqlnd_qc_object_handler.c` | script callbacks, the handler object and its reference count | as std, each calls back into the script |
| Lifecycle | `php_mysqlnd_qc.c` | the current handler, `query_is_select`, cache conditions, callback names | MINIT, RINIT, RSHUTDOWN, MSHUTDOWN, `set_storage_handler`, `set_is_select`, `set_cache_condition`, `clear_cache` |
| SQL hints and tokenizer | `mysqlnd_qc_tokenize.c` | none (pure) | hint recognition, comment stripping, normalisation |
| Trace logs | `mysqlnd_qc_logs.c`, part of `mysqlnd_qc.c` | the trace log of a request, the normalised log of the process | add, aggregate, free |
| Engine glue, web monitor, benchmark, tests | `mysqlnd_qc_classes.c`, `mysqlnd_qc_zval_util.c`, `web/`, `bench/`, `tests/` | none of the cache | |

### How they interact

A hook of a connection calls the *current* storage handler through the method
table `MYSQLND_QC_METHODS` (`mysqlnd_qc.h`). `find_query_in_cache` hands the
hook a container. With `std_data_copy=0` it is the container of the entry
itself, which is then shared by the table and all who replay it and guarded by
`references` alone; `return_to_cache` gives it back, by *key*, not by address.
With `std_data_copy=1` it is a copy the replayer owns. The hook then swaps two
function pointers of the connection's network layer, and from there on every
decision (`reap_query`, `store_result`, `use_result`) is taken by comparing
these pointers. In a thread-safe build several threads, and in any build
several connections of one thread, go through this protocol at the same time;
the lock is held within a handler function and never between two.

### What is hard

* *Interleaving.* Between the find and the return of one client, others find,
  return, expire, replace and clear the entry under the same key.
* *Ownership.* A container passes from a recorder to the table, to readers and
  back; it has to be freed once, by whoever is last.
* *Time.* Deadlines are compared with `<` in one function and `<=` in another,
  and with `use_request_time` every client has a clock of its own.
* *Order of calls.* mysqli lets a script send, read, stop reading, close and
  reconnect in almost any order; function pointers left swapped by one
  statement meet the next.
* *Partial failure.* A statement fails after its lookup, half way through its
  recording, or when the add is refused.

The list of places is `hazards` in `PROJECT.json`.

### What makes each component correct

* std handler: no use of freed memory, exact counters, no leak, no replacement
  of a valid or lent entry, only the right result is replayed, an expired lent
  entry goes away in the end, slam defense always has a refresher.
* Connection hooks: a statement reads its own answer; only whole results are
  cached; nothing waits for data nobody sends; a statement that is not for the
  cache reaches the server; everything lent is returned; the statistics add up.
* Prepared statements: the same, per statement on a shared connection; a
  replay leaves the connection usable.
* APC, memcache: the contract of `ResultCache` without the lock; SQLite: the
  same with a lock but without transactions.
* Lifecycle: a handler switch or request end leaves no callback or object that
  was freed; conditions and callbacks do not outlive their request.
* Tokenizer: a hint is recognised where it is one; equal keys mean equal
  queries; every text is read to its end.
* Trace logs: they agree with each other and with the statistics.

## 2. The modules

| Module | Models | Extends |
|---|---|---|
| `StdHandler` | the functions of the std handler, each as an action over `cache` and `heap` | |
| `StdCache` | clients that follow the lookup/replay/return and lookup/record/add protocol; scripts that call the handler class; `clear_cache`; time | `StdHandler` |
| `ResultCache` | the abstract specification: what any storage handler promises | |
| `StdCacheRefinement` | the mapping under which `StdCache` implements `ResultCache` | `StdCache` |
| `StdCacheProofs` | theorems and proofs about `StdCache`, and that it implements `ResultCache` | `StdCacheRefinement`, `TLAPS` |
| `Connections` | the connection hooks in front of the std handler | `StdHandler` |
| `ConnectionsRefinement` | the mapping under which the connections of orderly scripts are clients of `StdCache` | `Connections` |
| `ConnectionsProofs` | theorems and proofs about `Connections`, and about the connections of orderly scripts | `ConnectionsRefinement`, `TLAPS` |
| `TraceLog` | the query trace log and the normalized log, written by the hooks of `Connections` | `Connections` |
| `TraceLogProofs` | theorems and proofs about `TraceLog` | `TraceLog`, `ConnectionsProofs` |
| `PreparedStmts` | prepared statements on connections that run plain statements too | `Connections` |
| `PreparedProofs` | theorems and proofs about `PreparedStmts` | `PreparedStmts`, `ConnectionsProofs` |
| `ApcHandler` | the APC handler: processes or threads that interleave between the calls of APC | |
| `ApcProofs` | theorems and proofs about `ApcHandler` | `ApcHandler`, `TLAPS` |
| `SqliteHandler` | the SQLite handler: threads that interleave between the statements of an add, statements that fail, restarts on a file; with the mapping under which it implements `ResultCache` | |
| `SqliteProofs` | theorems and proofs about `SqliteHandler` | `SqliteHandler`, `TLAPS` |
| `Lifecycle` | requests, the current handler and what the plugin keeps of a script; the user, object, memcache and no-op handlers as far as they start, stop and free | |
| `LifecycleProofs` | theorems and proofs about `Lifecycle` | `Lifecycle`, `TLAPS` |
| `SqlText` | what is read out of the text of a statement: its part of the hash key, its hints, its normal form | |
| `SqlTextProofs` | theorems and proofs about `SqlText` | `SqlText`, `TLAPS` |
| `MCStdCache`, `MCConnections`, `MCTraceLog`, `MCPreparedStmts`, `MCApcHandler`, `MCSqliteHandler`, `MCLifecycle`, `MCSqlText` | instances for TLC | |

### State and actions against the code

**`StdHandler`.** `cache[k]` is the hash table entry of key `k`, or `NoEntry`;
its fields have the names of `MYSQLND_QC_CACHE_ENTRY`. `heap[d]` is the content
of container (`smart_str`) `d`, or `None` when it is not allocated, so *freeing*
is an assignment and a dangling pointer is a pointer `d` with `heap[d] = None`.
Each function is atomic because it runs under `LOCK_QCACHE` from start to end.
`find_query_in_cache` is split by its outcome: `FindNothing`,
`FindAskedToRefresh` (slam defense returns NULL to one caller), `FindShared`,
`FindCopied`. `return_to_cache` looks up by key and so may meet an entry that is
not the one that was lent; the model does as well. `references` is a `uint`
modulo `RefMod`. The current time is a parameter: it is `time(NULL)` or, with
`use_request_time`, the start of the caller's request. In the second case a
reader never finds expired what it was lent, so its `LastReturn` deletes nothing
and an expired entry waits for the next lookup.

**`StdCache`.** A client is `idle`, `recording` or `replaying`. `LookupHit` and
`LookupMiss` are the find in `mysqlnd_qc_handle_query`; `FinishReplay`,
`FinishRecord`, `FinishRefused` and `Abandon` are what `store_result` and the
error paths do with the container; `AskIsCached`, `ScriptFind` and `ScriptAdd`
are calls of the PHP functions and of the handler class; `Clear` is
`mysqlnd_qc_clear_cache()`. A recorded answer is chosen when the recording
starts and is complete at once; `Connections` has the recording part by part.
`use_request_time` is a setting of each script (`PHP_INI_ALL`), so clients with
and without it (`RequestTimers`) meet at one table; that a script changes it
while it runs is not modelled.
`Fresh` leaves out containers somebody still points to. `malloc` may reuse them;
leaving them out only makes a dangling pointer visible, it hides nothing that
would otherwise be reported.

`orphaned` is a history variable: `clear_cache` has removed an entry while it
was lent. From then on the reference counting of the code does not hold (see
the findings), and before it everything below does. The properties say exactly
that.

**`ResultCache`.** `Serve`, `Fetch`, `GiveBack`, `Publish`, `GiveUp`, and the
handler's own freedom to forget. No time, no memory, no counters. It is the
contract of all handlers; `StdCache` and `SqliteHandler` are proved to keep it. What `StdCache` implements is
`Init /\ [][orphaned' \/ Next]` of it: every step up to the one in which
`clear_cache` removes a lent entry. With `std_data_copy` nothing is lent.

**`Connections`.** `conn[c].hook` is which of the three pairs of functions the
network layer uses. The server answers with parts `<<statement, i>>`, so that
every part shows where it came from: header, rows, and twice that for a multi
statement. `SendPlain`, `SendHit`, `SendHitRefused`, `SendMiss` and
`SendMissRefused` are the paths of `mysqlnd_qc_handle_query`; `ReapResultSet`,
`ReapNoResult` and `ReapFails` those of `reap_query`; the `Store...` actions
those of `store_result`. `Uses` says what scripts do besides sending a statement
and reading its result to the end; a script that does none of it is *orderly*:

| Use | Calls |
|---|---|
| `async` | send a statement before the last result was read (mysqlnd itself refuses most of these, *after* the plugin has looked the statement up) |
| `unbuffered` | `use_result` |
| `close` | close the connection with a result pending |
| `reconnect` | `connect` on an open connection |
| `conditions` | `mysqlnd_qc_set_cache_condition()`, from then on `conditional` |
| `faults` | the server goes away while a result is awaited |

**`TraceLog`.** Every action is one of `Connections` and what the hook writes to
the logs in the same call. `trace[c]` is the list `query_trace_log` of the
request that has connection `c`, with the fields of its entries; `norm[q]` the
entry of the normalized log for the statements of the form of `q`, with the
occurrences and the least, average and greatest times; `data[c]` the pointer
`norm_qt_log_entry` and `multi_q_enabled`. `SendLogged` is
`mysqlnd_qc_handle_query`, together with the `set_server_option` that mysqli
calls for `multi_query` and for the next `query`; `ReapLogged` and `StoreLogged`
are `reap_query` and `store_result`. Times are what the clock happens to measure;
those of a replay differ from those of the server. What the properties compare
the normalized log with is the trace log, as the test
`tests/mysqlnd_qc_get_normalized_query_trace_log.phpt:108-172` does.
`past` is history: forms under which a statement was counted that is not for the
cache, and forms of which a statement was counted between the two hooks of
another, both of which the properties except.

**`PreparedStmts`.** `stmt[s]` has the fields of
`st_mysqlnd_pscache_stmt_data` that decide something: whether the plugin follows
the statement, its key, `record_mode`. `Prepare` and `PrepareRefused` are
`prepare` (which restores the functions before mysqlnd says whether it may
send); `ExecuteHit`, `ExecuteMiss` and `ExecutePlain` are `execute` with
`generate_execute_request`; `ReadReplayed`, `ReadAdded`, `ReadDiscarded` and
`ReadPlain` are the handler that `store_result` and the last `fetch` share.
`PlainSend` and `PlainAnswer` are the statements of `Connections` on the same
connection. Where the code goes on with a NULL container the connection is
`crashed`.

**`ApcHandler`.** `apc[k]` is the entry of APC: the array the handler stores and
the time at which APC stops finding it (`dies`, 0 for never). `proc[p].pc` is
where a process is: `entering` after it has read the time, `deleting` and
`storing` when it holds a copy to be written back. Between these steps other
processes do as they like; `Threads` says whether `LOCK_QC_APC` keeps them out.
`FindHit`, `FindRefresh`, `FindStaleHit`, `FindExpired`, `FindMiss` are the
outcomes of `find_query_in_cache`; `AddNew`, `AddProlongs`, `AddKeeps` those of
`add_query_to_cache_if_not_exists`. `StoreFails` is APC out of memory, `Evict`
APC that makes room, `Abandon` a result that is never stored or a process that
is killed between two calls. `data` stands for the recorded data by the time at
which it was added. `found` is a history variable that counts the lookups which
found the entry.

**`SqliteHandler`.** `rows` is the table `qcache`, which has no key, so two rows
of one query are possible; `db_conn` is NULL after a failed open. A lookup is
`FindFresh`, `FindStale` (which deletes what is stale) or `FindNothing`. An add
is three steps of `proc[p].pc`: `BeginAdd` computes the deadline before it waits
for `LOCK_access`; `AddRefused`, `AddPurges` and `AddFindsNothing` are the
SELECT and the DELETE; `Insert` and `InsertFails` end it and let go of the lock.
A failing SELECT looks like no row (`FindsNoRow`), a failing DELETE is logged and
ignored. `failed` is history: a SELECT or DELETE failed under an add. `replays`
counts the replays of a query. `Restart` is MSHUTDOWN and MINIT: a table in
memory is gone, one in a file is not. `UpdateStats` reads the counters of any
row, as the statement without WHERE does.

**`Lifecycle`.** `mem` has the globals of the plugin that point into the script
(`user_handlers_names`, `query_is_select`, `handler_object`,
`new_handler_object`) and the reference counts of the engine, so *destroyed* is a
count of 0 and `Alive` what a caller has to rely on. `ChangeShutdown` and
`ChangeInit` are the methods of that name of the handlers, as functions of
`mem`; `Refresh`, `Refuse`, `StartFails` and `Replace` are the ways through
`mysqlnd_qc_set_storage_handler`, of which the second and third are what a
`shutdown()` or `init()` that returns FALSE, or a memcached server that is
refused, lead to. `SetStorageHandler`, `SetHandlerObject`, `SetObjectByName`,
`SetUserHandlers` and `SetIsSelect` are the PHP functions; `EndRequest` is
RSHUTDOWN and `NextRequest` what the engine frees and RINIT. `statement` is what
a connection has in hand after `SendQuery`: a container of an entry (`shared`), a
copy, or a recording. `StoreReplayed`, `StoreRecorded` and `ReturnToStranger` ask
for the current handler again, as `store_result` does. `fault` says why the
process crashed; `past` and `lost` are history. A script may do anything the
functions accept, except run statements from within `init()` or `shutdown()`.

**`SqlText`.** `job` is the function that reads the statement: `hash_key` is
`mysqlnd_qc_query_strip_comments_and_fix_ws`, `is_select` the default
`query_is_select`, `normalize` is `mysqlnd_qc_query_tokenize`; the latter two are
loops around `mysqlnd_qc_get_token` (`TokenAt`). `p` and `out` are the pointers
of the code into the statement and its result, and one step is one round of the
loop, so a round that does not move `p` is a loop that does not end. A character
stands for all that the code treats alike. `Read` is not of the plugin: it says
how the server splits a text into words, from the lexer of MySQL, and the
properties compare what the server reads in the statement with what it reads in
the key and in the normal form. `HintsObeyed` says that the last hints decide;
with caching as the default that holds only of the statements `HintsLookedFor`
names, and without that condition TLC finds it violated (see the departures in 3).
"half" is the first byte of a character whose second is missing; it can only be the
last character of a statement. A word that ends in it takes `p` one character beyond
the end (`Len(query) + 2`), which is where `query_len` wraps.

mysqlnd's own state machine, malloc and the server are not in the repository;
they are modelled from what the hooks expect of them and marked external.

## 3. What is checked

| Run | Question | Answer |
|---|---|---|
| `StdCacheShared` | Two clients, one of which goes by the start of its request, two keys, scripts and `clear_cache`, shared data, no slam defense: is memory used after free, are counters exact, does anything leak, is a valid or lent entry replaced, is the contract kept, is an expired lent entry deleted in the end? | All as it should be, until `clear_cache` removes a lent entry. |
| `Traced` | Two connections under slam defense that read every result to its end and keep both trace logs: does each keep to the protocol of `StdCache` (`ImplementsStdCache`), nothing awaited in vain, everything returned, statistics add up, logs agree? | Yes, with the exceptions `LogsAgree` names. |
| `ConnAnyUse` | With `std_data_copy`, every use, a multi statement and conditions: can a wrong, partial or freed result be recorded, cached or replayed? | No. |
| `PreparedStmts` | Three prepared statements on two connections that run plain statements in between: own rows, whole results, counted and returned containers, nothing awaited in vain? | Yes. |
| `ApcProcesses` | Three processes without a lock, without slam defense: does a process that writes have its copy and key, is APC told no negative time, is anything replayed beyond its time to live? | Yes, yes, no. |
| `ApcThreads` | Three threads with the lock and slam defense: one refresher at a time, no lost update of `cache_hits`? | Yes. |
| `Lifecycle` | A script that changes the handler, its callbacks, its object and `is_select` at any time, over two requests: are the reference counts exact, what can crash the process, is an object started twice or forgotten, does what was lent come back to who lent it? | Exact, and only what the properties name (see the departures below) can; no; yes, unless the handler is changed with a result pending. |
| `Sqlite` | Two threads, two queries, statements that fail, restarts: one row per query, and does it implement `ResultCache`? | Yes, until a SELECT or DELETE fails under an add. |
| `SqlText` | All statements of a few characters, comments, hints and words: do the key and the normal form read like the statement, are the last hints obeyed, is every text read to its end? | Yes, within the preconditions of the properties (see the departures below). |
| `StdCacheClearReader` | `clear_cache` while an entry is lent. | Violation, finding 1. |
| `PsStuckReplay` | A statement that is not for the cache after a replayed prepared statement. | Violation, finding 2. |
| `ApcImmortal` | Does APC lose an entry that has expired? | Violation, finding 3. |

Every property of a passing run has a mutant in `PROJECT.json`: a plausible slip
in one definition with which TLC finds the property violated. The mutants stand
next to the definitions they replace and are marked `Mutant:`.

### Findings

1. `return_to_cache` (`mysqlnd_qc_std_handler.c:305`) decrements whatever entry
   is under the key now. After `clear_cache` and a new add it is another entry,
   which is then deleted while somebody reads it. When there is no entry at
   all, the branch that the comment at 316 describes is empty, and the data of
   the removed entry is never freed.
2. The handler of prepared results (`mysqlnd_qc_ps.c:314`) restores the
   functions of the connection after a recording, not after a replay. A
   statement that is not for the cache then goes through `send_replay` and is
   lost; reading its answer dereferences `recorded_data`, which is NULL.
   Without prepared statements the same happens after a replay that was not
   read (`mysqlnd_qc.c:469`).
3. A hit in the last second of an APC entry stores it with a time to live of 0
   (`mysqlnd_qc_apc_handler.c:406`), for APC: never to be dropped. Once it has
   expired no lookup serves it and no add replaces it.

### Known departures that no run singles out

Each was seen in a model, by dropping the restriction named in brackets or by a
property that was checked and not kept:

* `in_refresh` of a std entry is reset only by a replacement. After a refresh
  that came to nothing everybody is served the stale copy and nobody is asked
  again (`mysqlnd_qc_std_handler.c:227`).
* A hit whose `send_query` mysqlnd refuses frees the container of the entry
  itself (`mysqlnd_qc.c:538`) [`Traced` with the use `async`].
* `use_result` puts the original receive function back in the middle of a replay
  and waits for rows of a statement that was never sent (`mysqlnd_qc.c:831`)
  [`Traced` with the use `unbuffered`].
* A `prepare` that mysqlnd refuses switches the connection back while another
  statement records: the entry then holds the header of the result only
  (`mysqlnd_qc_ps.c:102`) [`PreparedStmts` with the use `async`].
* A prepared statement that is for the cache and has no result set (SELECT ...
  INTO, or one that fails) leaves its container and the recording functions on
  the connection. The next execute frees the container
  (`mysqlnd_qc_ps.c:200`), a plain hit forgets it [`NothingLeaks` in
  `PreparedStmts` with such a statement].
* A container lent to a connection that is closed, or that sends again, is never
  returned (`Close`, `SendHit`); a reconnect with swapped functions dereferences
  NULL (`Reconnect`); only the first result of a multi statement is recorded, so
  after a hit `next_result` waits in vain (`NextResult`); a refused add counts
  as two hits (`CountRefused`); a result no condition accepts is forgotten
  without being freed (`StoreRejected`).
* The SQLite handler: `update_cache_stats` gives the hits of the first row of the
  table to the query that was replayed (`mysqlnd_qc_sqlite_handler.c:329`)
  [`HitsAreReplays` on two queries]; a SELECT or DELETE that fails under an add
  leads to two rows of one query (line 297) [`OneRow` without `~failed`];
  `clear_cache` returns PASS when its DELETE has failed (line 472).
* With slam defense an add to APC that finds the entry prolongs it and frees the
  fresh data (`AddProlongs`, `mysqlnd_qc_apc_handler.c:529`), so the refresh of a
  stale entry keeps the stale data.
* The exceptions in the properties of `Lifecycle`, each reached by TLC when it is
  struck out: `query_is_select` outlives its request as a dangling pointer
  (`php_mysqlnd_qc.c:752`); `set_user_handlers` returns TRUE and keeps callbacks
  without a reference when the change is refused (line 310); a refused change
  leaves the object handler without its object, where no other handler can be
  set for the rest of the request, or the no-op handler, whose methods are NULL
  and are called by the next statement that may be cached (`mysqlnd_qc.c:470`);
  `new_handler_object` keeps an object whose `init()` failed, for the next
  `set_storage_handler("object")`; a result pending while the handler is changed
  is given to the new one (`mysqlnd_qc.c:689`), which frees or loses it unless
  the default handler copies (`std_data_copy`); the memcache handler leaves a
  recording that it added to nobody (`mysqlnd_qc_memcache_handler.c:205`).
* In a build with threads `new_handler_object`, `memc` and the callbacks are not
  initialised before the first request; `Lifecycle` models one without.
* A thread that read the time and then waited for `LOCK_QC_APC` for longer than
  the refresh may take becomes a second refresher [`ApcThreads` with `Prompt`
  FALSE]. Processes have no lock at all: they send two clients to refresh and
  lose updates of `cache_hits` [`ApcThreads` with `Threads` FALSE].
* With `use_request_time` nobody "else will kill" an expired entry that is lent
  (`mysqlnd_qc_std_handler.c:222`): its readers go by the time at which it was
  valid, so it stays until the next lookup [`ExpiredIsKilled` without its last
  line].
* Trace logs: a statement that is not for the cache is counted under the form of
  the one before it, whose pointer it leaves (`mysqlnd_qc.c:473`, 582) [`LogsAgree`
  without `strayed`]; the average of the store times divides by occurrences that
  other connections have counted meanwhile (line 670) [without `overlapped`].
  Read in the code only: a time of 0 is taken for "none yet" and resets the
  greatest time (333, 662); the hooks write to the last entry of the request,
  of whatever connection (577, 654), which two connections of one request that
  send before they read get wrong; `store_result` does not ask whether the list
  is empty (654).
* Hash keys [`KeyKeepsTokens` without `CommentsPlain`, `CommentsApart` or
  `KeyPlain`]: a comment ends for the key at its first `*` or before its
  first `/` (`mysqlnd_qc_tokenize.c:1488`), so the rest of it is in the key; `a/**/b`
  and `ab` have one key (1497); `--` starts a comment without the space MySQL asks
  for, so `5--3` is cut (1501); comments and runs of spaces inside of string
  literals are stripped (1441), so two statements that differ in a literal may
  share a result; a line comment in a comment for the server is kept with
  the rest of its text (1483), and may hide what follows.
  `mysqlnd_qc.ignore_sql_comments` (`php_mysqlnd_qc.c:146`, announced in `CHANGES:24`) is read nowhere.
* The scanner takes off the length of a character of several bytes without comparing
  it with what is left of the statement (`mysqlnd_qc_tokenize.c:1390`). A statement
  that ends in a word whose last character is cut (by `substr`, or because it is in
  another character set than the scanner is told) makes `query_len` wrap, and the
  loops go on behind the text [`TextIsTheLimit` without `Whole`]. The model follows
  such a scan to the character behind the end (`WordToken`, "half") and no further,
  and the properties of hints and normal forms are about statements without one.
* Hints: `query_is_select` looks for `qc=on`, `qc_ttl=` and `qc_sid=` only when
  `cache_by_default` is off (`mysqlnd_qc_std_handler.c:455`). When it is on,
  `/*qc=off*//*qc=on*/SELECT` is not cached: the first switch wins, where the
  test of the hints says that the "second SQL hint overrules first one"
  (`tests/mysqlnd_qc_sql_hint_enable.phpt:65`) and that a "SQL hint overrules ini
  setting" (82). A time to live or a server id is ignored, too, where
  `tests/mysqlnd_qc_sql_hint_ttl.phpt:100` has the second one overrule the first. The
  tests try two hints only with `cache_by_default` off [`HintsObeyed` without
  `HintsLookedFor`].
* More on hints: `/*!` before a SELECT is skipped as a comment and a keyword after two
  backticks is not seen [`HintsObeyed` without `PlainHints`]. A user's `is_select`
  that returns an array without a time to live, or with a negative one, but with
  a server id, is cached all the same (`mysqlnd_qc_user_handler.c:322-345`).
* Normal forms [`FormKeepsTokens` without the precondition that names them]: `~`
  and other characters the scanner does not know make `query_tokenize` loop for
  ever [`ScanEnds` without `Known`]; the second `<` of `<<` is read again (1260),
  `>` is compared with `<` (1274); `?` is written as `;`; minus and slash are
  written next to what follows, so that `a - -b` has the normal form `a --b`, most
  of which is a comment, and `a / *` opens one; `/*!` is dropped like any other
  comment; an escaped backslash before the closing quote and doubled quotes are
  read wrongly; a keyword between backticks keeps the closing one; spaces at the
  end give an empty word. Two of the preconditions are limits of the model and
  not of the code: `Read` takes `5.5` for two numbers (`NumbersApart`), and quotes and
  comment marks are told apart without looking whether they are in a comment or
  a string (`CommentsAside`).
* `query_is_cached` of the APC handler marks a stale entry as in refresh
  although its caller refreshes nothing (`IsCached`); until the mark is overdue
  everybody gets the stale copy.

### Bounds, and why they are enough

* Two clients and one key let one client act between two steps of another;
  three clients are needed for two readers and a writer, and for a refresher, a
  reader and a newcomer (`StdCacheClearReader`, both APC instances). For the
  default handler under slam defense the theorems stand in for a larger run. A second key
  is needed for the destructor of one entry to hit another's data
  (`StdCacheShared`).
* `Data` has as many containers as clients and entries can hold at once, and
  one or two to be orphaned. Where they run out, the lookups that need one are
  disabled and returns go on.
* `MaxClock` 2 or 3 with a TTL of 1 lets an entry be added, expire, be in its
  last second (`deadline = now`, treated differently by find and add) and be
  replaced. `MaxClock` bounds only `Tick`.
* `RefMod` is larger than the number of clients (`CounterAssumption`): 2^32
  connections do not exist. The counter still wraps if it is decremented once
  too often, which `TypeOK` and `ReferencesCountReaders` then show.
* `MaxSends` = 4 statements on all connections of `Traced`: record, refresh, a
  replay of the stale entry meanwhile, and one that meets what they left behind;
  one of them may be a `multi_query` (`MaxMulti`); 3 with every use; 1 plain statement next to any number of executions in `PreparedStmts`,
  where the second statement of the same connection is a prepared one.
* Two prepared statements on one connection and one on another: the first two
  meet in the functions and in `recorded_data`, the third in the entries.
* One key for APC: entries of different keys have nothing in common there but
  the lock and `clear_cache`, which takes any subset of the entries in any order.
  `MaxClock` 4 with both times to live 1 lets an entry expire, be marked, and
  the mark become overdue while a second refresher is sent; `ApcProcesses` needs
  2, one second to be overtaken by. `MaxHits` saturates `cache_hits` and `found`
  alike.
* `Prompt` (`ApcThreads`): no second passes while a thread is inside of the
  handler. It is an assumption about the scheduler, not about the code, and
  `OneRefresher` needs it, see above.
* `Sqlite`: two rows that two queries need and one more, so that a second row of
  a query has room; a time to live of 0 or 1 and three times let a row be stale
  when it is inserted, expire, and be replaced. Threads and queries are symmetric.
* `Traced`: a replay takes 1, the server 2, so that least, average and greatest
  times differ and a statement counted once too often moves the average. Each
  connection is the only one of its request.
* `SqlText`: up to five characters of thirteen alphabets of three to seven characters
  each, and up to four pieces (whole comments, hints, words) of four more. The code looks one
  or two characters ahead and keeps no memory but the end of `out`, so what it
  does wrong shows within a few; each alphabet has the characters whose branches
  meet (comments, operators, strings, backticks, numbers, multi-byte characters).
* `Lifecycle`: two callbacks and two objects, so that one replaces another that
  the script still holds or has dropped; the callback of the user handler and
  that of `is_select` may be the same. Two requests, since what is left over
  is left over to the next one.
* Containers and clients are symmetric in the runs that check only safety of
  the current state; runs with temporal properties other than `[][A]_vars` use
  no symmetry.

`CHECK_DEADLOCK FALSE` stands in the configurations of `ConnAnyUse` and of
`PreparedStmts`, where a script may really wait for ever (a server that went
away, a crashed process, a replay that is stuck, statements used up with every
connection in the middle of a result), of `Lifecycle`, where a process may crash
or have served its last request, of `SqlText`, where the loops end, and of
`ApcHandler`, where with `Prompt`
the last process may wait inside at the end of time.

### Fairness

`StdCacheShared` needs weak fairness of `FinishReplay(c)`. A
replay reads from memory; neither the network nor another thread can hold it
up, and `store_result` reads it in one call. Nothing is assumed of recordings
(the server may be slow for ever), of lookups, of the clock or of scripts. `SqlText` assumes weak fairness of `Next`:
it is one function that runs until it returns.

## 4. What is proved

### The default handler

`StdCacheProofs` proves, for any sets of keys, containers, answers and TTLs, any
finite set of clients smaller than `RefMod`, and every combination of
`slam_defense`, `std_data_copy` and `use_request_time`:

| Theorem | Property |
|---|---|
| `TypeCorrect` | `TypeOK` |
| `Counting` | `IInv`, the inductive invariant |
| `MemorySafety` | `SafeUnlessOrphaned` |
| `CounterCorrect` | `ReferencesCountReaders` |
| `NoLeak` | `NothingLeaksUnlessOrphaned` |
| `Privacy` | `PrivateData` |
| `RightAnswer` | `ReplaysOwnQuery` |
| `NoEarlyReplacementHolds` | `NoEarlyReplacement` |
| `Implementation` | `ImplementsResultCache` |

They rest on `HandlerAssumption`, `NoEntryAssumption` (`None` is not an entry, a
container, a key or a result), `CounterAssumption` and `ClientAssumption`.

*The argument.* That memory is safe is not inductive: nothing in it says that
the entry a client decrements is the one it was counted in. The missing fact is
`LentIsCached`: a client that replays shared data under key `k` replays the
container of the entry of `k`. It needs the counter to be exact
(`CountersAreReaders`), since an entry leaves the table only with a counter of
zero (`Killable`, `LastReturn`, `Replaceable`); the counter needs it in turn,
since a return decrements the right counter only if the entry is still there.
Freeing the data of one entry must not free another's (`EntriesAreDistinct`),
and a container offered to `add` must be in nobody else's hands
(`OwnDataIsPrivate`). With the contents (`EntriesHoldAnswers`,
`ClientsHoldAnswers`) and `NothingLeaks` these facts make `Consistent`, and

    IInv == TypeOK /\ ClientsWellFormed /\ (~orphaned => Consistent)

is inductive. The proof has one lemma per action of `Next`, with one step per
part of `Consistent`, over lemmas about `Readers`, the counter and the
destructor that the actions share.

`Implementation` maps the table to the abstract store and each client to an
abstract one. `IInv` says which entry a client replays, but the abstract
`Publish` also has to know that the mark of a refresh goes when the entry is
replaced and that no lent entry is: under slam defense an entry is lent only
while it is marked, that is after somebody was sent to refresh it. The invariant
is therefore `RInv == IInv /\ (~orphaned => LentIsRefreshed)`. One lemma per step of
the protocol shows that it maps to a step of `ResultCache` or to a stutter, over
lemmas on what each function of the handler leaves alone (`CounterOnly`,
`DeletedIsForgotten`, `LookupForgets`, ...).

`NoEarlyReplacement` is an action property: it uses the invariant on both sides
of a step, and that a request's time is not ahead of the clock.

### The APC handler

`ApcProofs` proves, for any sets of keys and processes and every setting, from
`ApcAssumption` alone:

| Theorem | Property |
|---|---|
| `ApcTypeCorrect` | `TypeOK` |
| `ApcServesWithinTtl` | `ServedWithinTtl` |

*The argument.* A process that works on its copy knows nothing of the entry any
more: it may be gone, or another's. So the invariant is not about the entry a
process has found but about every array there is, in APC or in a copy that is
still to be written: without slam defense it expires `Ttl` after its data was
added (`Dated`). What is written over what then does not matter. The second half
(`Honest`) says that a process holds on to what it served until it was replayed,
and reads the time again only after. With slam defense `AddProlongs` breaks
`Dated` (see the known departures).

For threads, what `LOCK_QC_APC` gives them, again for any sets of keys and
threads:

| Theorem | Property | Under |
|---|---|---|
| `ThreadsLoseNoHit` | `HitsCountFinds` | `Threads` |
| `ThreadsSendOne` | `OneRefresher` | `Threads /\ Prompt /\ SlamTtl <= Ttl` |

*The argument.* Every step of a thread takes nothing but entries away
(`QuietStep`), prepares a copy of the entry under the lock (`WriteStep`), or is
the `Delete` or `Store` that writes the copy (`StepIsOrderly`); one thread at a
time is at the latter three (`OneHolder`, in `Base`). So each of the two
arguments has four cases instead of one for each of the handler's actions.
That no hit is lost needs a word about the copy (`CopiesCount`): it counts the
lookups of the entry it replaces, and its own. That one thread refreshes needs
one about time: as long as somebody refreshes and is not overdue (`Active`), the
entry and any copy of it are valid or marked at least until then (`Covers`), so
no lookup sends a second one. Another client's add, say of a refresh that was
overdue, takes the mark away (`AddProlongs`) and covers by the time to live it
gives the entry, which must then not be shorter than the mark: with `Ttl` 0 and
`SlamTtl` 2 TLC finds two refreshers. The defaults, 30 seconds for both
(`php_mysqlnd_qc.c:121`, 131), satisfy the assumption; a hint with a shorter time
to live does not.

### The SQLite handler

`SqliteProofs` proves, for any sets of queries, threads, answers and times to
live and any number of rows, from `SqliteAssumption`:

| Theorem | Property |
|---|---|
| `OneRowForAQuery` | `OneRow` |
| `SqliteImplementation` | `ImplementsResultCache` |

*The argument.* The table has no key, so no statement keeps a second row out;
the critical section does. The inductive invariant `IInv` says that at most one
thread is between its SELECT and its INSERT (`OneInserts`), that until a
statement failed there is then no row of its query (`InsertsFirst`), and that
the rows are of distinct queries (`OneRowEach`), so that counting rows is counting
what `fill_stats_hash` lists. What other threads do without
the lock (a purge in a lookup, `clear_cache`, the counters of
`update_cache_stats`) adds no row of a query that had none. For the refinement
each action is shown to be a step of `ResultCache` or a stutter: `Insert`
publishes, because there was no row to be replaced, and a purge forgets. `Restart`
and the step in which a SELECT or DELETE fails are excepted in the property: a
new process has no clients to map, and after such a failure an abstract store
with one result for a query does not describe the table.

### The connection hooks

`ConnectionsProofs` proves, for any sets of statements, connections and
containers, with every use of `AllUses` or any part of them, with and without
slam defense, **under `std_data_copy`** and from `HandlerAssumption`,
`NoEntryAssumption` and `ConnectionAssumption` (the classes of statements are
sets of keys, `None` is not a sequence of parts):

| Theorem | Property |
|---|---|
| `NothingFreedInUse` | `NoUseAfterFree` |
| `AnswersBelong` | `ReadsOwnAnswer` |
| `EntriesAreWhole` | `CachesWholeResult` |
| `RecordingsArePrivate` | `RecordsPrivately` |

Without `std_data_copy` the first does not hold for all uses (a hit whose
statement is refused frees the container of the entry). What holds then is the
subject of the next part.

*The argument.* What goes into the cache is decided in `store_result` by three
variables that other calls set earlier, in any order: the functions of the
connection, `query_active_with_cache` and `query_hash_key`. The invariant says
what they mean together, for one connection at a time (`ConnectionOK`).
`Awaits`: the network holds the rest of the answer to the statement sent last,
from the part the state of the connection asks for, or nothing. `Records`: a
connection that records *and* is active is recording the statement whose key it
has, and the container is the part of the answer received so far. Once the
connection is not active any more (a statement that is not for the cache went
through the recording functions) or has lost the server, nothing is claimed of
the container, and `store_result` does not put it into the cache. `Replayed`: a
connection that replays has the first result of its key, read as far as its
state says, or to the end; so rows are never read with the replaying functions,
and the network is silent. `Owns` says that a container belongs to one
connection or one entry, which the actions of a connection cannot break for
others: `OwnStep` states once what a step of one connection may do to the table
and the memory, and all actions but two are an instance of it. The two are the
add, which turns the container of a connection into that of an entry and may
free the one it replaces, and the reconnect that ends the process. `EntriesAreResults`
then is `CachesWholeResult`, `Awaits` and `Replayed` give `ReadsOwnAnswer`.

### Orderly scripts

A script that reads each result to its end before it sends the next statement
has a better life. `ConnectionsProofs` also proves, for any sets of statements and
containers, with and without `std_data_copy` and slam defense, from the same
assumptions and under

    Orderly == Uses = {} /\ IsFiniteSet(Conns) /\ Cardinality(Conns) < RefMod

| Theorem | Property |
|---|---|
| `OrderlyConsistent` | `OrderlyInv`, the inductive invariant |
| `OrderlyRefinement` | `ImplementsStdCache` |
| `EntriesAreLentToReplays` | `LentToReplays` |
| `OrderlyLeaksNothing` | `NothingLeaks` |
| `OrderlyUsesNothingFreed` | `NoUseAfterFree` |
| `OrderlyAnswersBelong` | `ReadsOwnAnswer`, `CachesWholeResult`, `RecordsPrivately` |
| `PlainStatementsReachServer` | `StatementsReachServer` |
| `NobodyWaitsInVain` | `AnswerOnItsWay`, if no multi statement is for the cache |
| `StatisticsAddUp` | `OutcomesAddUp` |
| `OrderlyTypes` | `TypeOK` |

*The argument.* `ConnectionsRefinement` maps a connection to a client of
`StdCache`: idle as long as it points to no container, then recording or
replaying, as its functions do. `StdCache` chooses an answer when the recording
starts, the connection receives it part by part, so `heapBar` lets a container
that is being recorded hold what the server will have answered; nobody but its
recorder sees the difference. Every step of a connection is then a step of
`StdCache`'s protocol or a stutter (`OrderlyRefinement`), and the
assumptions of `StdCache` about its constants follow from those of `Connections`
(`StdAssumptions`). So the invariant of `StdCacheProofs` carries over:

    TableInv == WireInv /\ (\A c \in Conns : Proper(conn[c])) /\ Std!IInv
    OrderlyInv == TableInv /\ \A c \in Conns : Tidy(c)

`TableInv` is about the table and the containers: `Std!IInv` knows who owns a
container and what each counter counts, and `Proper` asks of a connection only
that it points to a container with swapped functions. `Tidy` knows of one
connection which functions it has, how far its answer has come over the network,
and that what it has recorded is exactly the part that was received. Each half
needs the other: that a step is one of `StdCache`'s follows from what the
functions mean for the connection, and that a replay has the right parts to read
follows from the ownership of the entry it reads. What a look-up, a return, an
add or a free does to the first half is proved once, whatever the state of the
connection (`MissStep`, `HitStep`, `ReturnStep`, `AddStep`, `FreeStep`,
`IdleStep`, `ReadingStep`); what another connection does leaves the second alone
(`TidyElsewhere`). Counters, leaks and freed memory are then read off
`Std!IInv`, the answers and the network off both.

`OutcomesAddUp` speaks of states without a statement under way. In between,
a statement is counted before its outcome is, so the invariant `Ledger` counts
the connections that are waiting (sent, with no outcome yet), replaying and
about to store, as sets whose cardinality a step changes by at most one
(`Balanced`).

### Prepared statements

`PreparedProofs` proves, for any sets of statements, handles, connections and
containers, with and without `std_data_copy` and slam defense, from the
assumptions of `Connections` and `StmtAssumption` (a handle has a connection,
and a prepared query is no multi statement) and under

    PsOrderly == Orderly /\ PsKeys \cap Cacheable \subseteq ResultSets

| Theorem | Property |
|---|---|
| `PsConsistent` | `PsInv`, the inductive invariant |
| `PreparedRefinement` | `ImplementsUntilCrash` |
| `StatementsReadTheirOwn` | `PsReadsOwnAnswer` |
| `RowsOfStatementsCome` | `RowsOnTheirWay` |
| `StatementsCacheWholeResults` | `CachesWholeResult` |
| `StatementsUseNothingFreed` | `PsNoUseAfterFree` |
| `EntriesAreLentToStatements` | `LentToStatements` |
| `StatementsLeakNothing` | `NobodyCrashed => NothingLeaks` |

The second half of `PsOrderly` says that what is prepared for the cache has rows.
The default `query_is_select` takes nothing but statements that begin with
SELECT (`mysqlnd_qc_std_handler.c:473`); what is excluded is a SELECT ... INTO and
one that fails when it is executed. The exclusion is needed: see the known
departures.

*The argument.* One connection has several statements, the functions and
`recorded_data` once, and no hook looks at what the other statements are doing.
The invariant says what keeps them apart: of the statements of a connection at
most one has rows to read (`ReadBy`), it has a container if and only if the
connection has one, and all others are `Resting`. A connection without such a
statement is as tidy as one that runs plain statements only (`Plainly`), or has
kept the functions of a replay without a container (`Replayless`), which is the
state finding 2 starts from. It is the only one that the invariant of the plain
statements does not know, and the reason why the mapping to `StdCache` asks for
the container and not for the functions. From there a look-up swaps the
functions again and all is well; a statement that is not for the cache is lost,
and reading its answer, or executing a prepared statement without data of the
plugin, ends the process (`Crashed`). So the connections implement `StdCache` up
to that step, and after it the cache is left alone, with whole results and
nothing freed in it.

`PsInv` has one lemma per action, and each shows no more than `Maps`: the tables
stay in order, the other connections and statements are left alone, the
connection is `Shared` in order again, and the step is one of `StdCache`'s
protocol or a stutter. The steps of the table are those proved for the plain
statements. `LentToStatements` counts statements where `StdCache` counts
clients: the owners of the statements that replay an entry are its readers, one
for one (`ReadersOf`).

### Trace logs

`TraceLogProofs` proves

| Theorem | Property | Under |
|---|---|---|
| `LogsOnlyWatch` | `Spec` of `Connections` | |
| `TracesMatch` | `TraceMatchesStatistics` | `Orderly` |
| `RunsStayLogged` | the half of `LogsAgree` about running a statement (`RunsLogged`) | `Orderly` |
| `LogsStayInAgreement` | `LogsAgree` | `Orderly` and no statement with several results (`Multi = {}`) |

The first says that what the hooks do for the logs changes nothing of what they do
for the connections; every theorem about `Connections` is one about `TraceLog`.
The second needs of each connection that the last entry of its list is the
statement it has sent, and has no outcome as long as the functions are swapped
(`Logged`): this is why it is right that `store_result` writes to the last
entry. The invariant `LogInv` adds that the entries with a flag, over all
connections, are as many as the statistics say, where a connection that replays has
already been counted as a hit and not yet been flagged.

The last two are about the normalized log: the entry of a form counts the answered
statements of that form, and its averages are those of their times. Their
invariant, `AgreeInv`, has these parts:

* `Points`: while a statement for the cache is run, the connection's pointer to the
  normalized log is to the form of that statement, the last in its own list; while one
  that is not for the cache is read, it is to a form that `strayed` names, or to none.
* `Counting`: the pointer is to an entry that exists, and while a result is read the
  entry has an occurrence, so no average is divided by zero.
* `RunsAgree`: the entry of a form counts and averages the set `Answered` of that form.
* `StoresAgree`: of the statements of a form at most one has a result that waits to
  be stored, and the averages of storing are those of all the others.

A hook changes at most one of these sets, by one element, and the average of its
form by one measurement. `SumsOneMore` says what that does to the sum of the times,
and `MeanOfOneMore` that the rounding of the n-th average takes at most n - 1 from the
sum, which is why `LogsAgree` allows an average to be too small by the sum of those and
never too large.
`Multi = {}` is needed for storing only: a second `store_result` for the same
statement writes over the time in the trace, while the normalized log has counted
both times (`mysqlnd_qc.c:654`, 670). TLC checked `AgreeInv` before it was proved.

`Total` is a fold, and no induction theorem of the library can be used for what it
computes. The proof goes by a least counterexample instead: the finite subsets
are well-founded under inclusion (`MinimalSubset`), and a smallest set whose total is
not the cardinality of its set of units (`RunTotalIs`, `StoreTotalIs`) has an element
to take away.

### The lifecycle

`LifecycleProofs` proves, for any sets of callbacks and objects and any number
of requests, from `LifecycleAssumption`:

| Theorem | Property |
|---|---|
| `CountsAreExact` | `OwnsWhatItKeeps` |
| `StartsOneObject` | `OneObjectStarted` |
| `SafeForScripts` | `SafeUnlessMisused` |
| `LentComesBack` | `DataComesBack` |

*The argument.* A reference count is the script's reference, plus the handler's,
plus that of `is_select` if it was set in this request (`Counts`). For objects
this holds always; for callbacks only until a change of the handler fails, after
which `set_user_handlers` keeps callbacks without a reference, so `past.failed`
guards that half. The pointer that `query_is_select` keeps from an earlier
request has no part in the count: `LeftIsDead` says that its value is destroyed
and that its memory is not handed out again while the pointer is there.
`UnlessFailed` ties the states in which a call ends the process (the no-op
handler, an object handler without an object, callbacks of no user handler) to
the failed change or the script's own choice that leads there, and is what
`SafeUnlessMisused` follows from; `OwnData` does the same for a handler that was
changed while a connection had data in hand. The lemmas about `ChangeShutdown`
and `ChangeInit` say of each handler what it takes from and gives back to the
counts; the lemmas about `Replace`, `Refuse` and `StartFails` are made of them.

### Texts

`SqlTextProofs` proves, for statements of any length, from `TextAssumption` (the
statements are made of the characters the model knows):

| Theorem | Property |
|---|---|
| `TextIsTheLimit` | `Whole => NeverBeyond`: no loop reads beyond a text of whole characters |
| `EveryRoundReadsOn` | `ReadsOn`: a round of a loop over such a text reads on or is the last |
| `HintsAreObeyed` | `HintsObeyed`: the last hints decide, under `HintsLookedFor` when caching is the default |
| `KeysKeepTokens` | `KeyKeepsTokens` |
| `FormsKeepTokens` | `FormKeepsTokens` |

`Whole` says that the scanner is given no half of a character: for hash keys it is
true of every statement, since they are made byte by byte, and without it `NeverBeyond` is
false. The code is right about the end of a text in all other cases, and
that is what the theorem says; the inductive invariant is `WholeRead`.

`ReadsOn` is the half of `ScanEnds` that is not about fairness. For keys and hints it
holds of every whole text; for normal forms of those that are `Scannable`, since the
scanner stands still before the characters of the departure above.

*The argument, for hints.* The first two need for every kind of token that the scanner goes
on and stops at the end (`TokenReadsOn`, `SkipIs`, `BodyEndIs`, `LineEndIs`). The
third relates two readers: the loop of `query_is_select`, which goes forward
over the text with the code's own idea of a comment, and the functions `Read` and
`LeadingComments`, which take what is left of a text apart as the server does. Their
meeting point is `Rest(p)`, the text from `p` on. The invariant, `HintInv`, is
that some comments, `done`, are behind: the hint is what they say (`HintIs`), and

    LeadingComments[query] = done \o LeadingComments[Rest(p)]
    Read[query] = Read[Rest(p)]

A round over a comment appends it to `done` (`CommentRead`, `HintFollows`: the last
switch, time to live and server id of one comment more). A round over a line
comment leaves `done` alone: for the server such a comment begins with a space, so it
is no hint (`PlainLine`, `NoHintFollows`). When what is next is no comment, it is the
keyword for the server just if it is for the scanner (`FirstTokenRead`), and no
comment is left. `CommentsPlain` is needed where the code's comment ends at any `*`
or before any `/`, `PlainHints` where the server reads what the scanner skips. The
invariant says what the code makes of `done` for either setting (`Obeyed`); that this is what the
last hints say needs `HintsLookedFor` when caching is the default (`DefaultSwitched`):
if nothing switches caching on again, the last switch is off just if one of them is.

*The argument, for keys.* Here one text is written while the other is read, and the
meeting point is what is written and then what is left, `out \o Rest(p)`. The
invariant, `KeyInv`, is `KeyAt(out, p)`: the server reads it as it reads the
statement; no string or comment begins in `out` (`Clean`); and `out` does not end
in half a comment mark whose other half is next, nor in a word where whitespace is
behind (`Blank`). Every round rests on one lemma about the server's reading,

    Clean(a) /\ Apart(a, b) => Read[a \o b] = Read[a] \o Read[b]     (PartsRead)

two parts between which no token lies are read one after the other: the shortest
counterexample would have a shorter one behind its first token (`FirstOfParts`). The
code drops a space only where one of its sides begins or ends no word (`SpacedIs`,
`GapRead`), a comment only between whitespace (`CommentStripped`, `LineStripped`,
which is what `CommentsApart` is for), and writes a space in front of the text of a
comment for the server (`ExecutableKept`, `KeptIs`). At the end nothing is left, and
`KeyAt` is the property. `KeyPlain` keeps `Clean` true: the code looks for
comments in strings, and a line comment inside of a comment for the server is kept
without its end, so that more of the key would be a comment.

*The argument, for normal forms.* The meeting point is the same, but the scanner
writes tokens, so what is behind is compared with what is left and not joined to
it: `FormInv` is, until the last round, `FormAt(out, p)`, that is

    Read[query] = Read[out] \o Read[Rest(p)]

with four facts beside it: no string or comment begins in `out` (`Clean`), it does not
end in half a word or half of `||` or `&&` (`Ends`), what comes next makes no comment
with what was written last, whatever whitespace was between them (`Fits`), and `p` is
neither in a string nor in a comment, nor in a word that goes on with digits
(`Between`). Every kind of token has a lemma that says what it writes, `Writes(v, t, i)`:
`v` is read as the token is, and can stand behind any such `out`. They are words with
and without backticks (`WordWritten`), numbers (`NumberWritten`), strings, whose end the
code and the server find in the same place (`StringCloses`, `StringRead`), punctuation
(a comma and a dot overwrite a space, which `WithoutSpaceIs` shows to be all
they overwrite), comparisons, which stand alone, and `||` and `&&`, which become
words. `FormGoesOn` joins `v` to `out` by `PartsRead`, and a comment leaves `out` as it is
(`CommentWritten`, `LineWritten`). `StringsPlain` counts the quotes from the start
of the statement; that the count turns at a quote and nowhere else (`QuoteTurns`,
`QuotedSame`) is all the proof needs of it.

`Read` and `LeadingComments` are recursive functions, and that a function with such an
equation exists is not given: without it, nothing could be said of their values. It
is shown once, for any equation whose value for a text depends on shorter ones
only (`Recursion`, from `Descends`): if no function solved the equation for the texts
up to some length, there would be a least such length, and a solution for one
less extends to it. `ReadIs` and `LeadingIs` are the equations.

### Only model-checked

* Liveness (`ExpiredIsKilled`, `ScanEnds`): the prover has no rules for fairness.

Every safety property a passing run checks is stated by a theorem.

## 5. What is not modelled, and the plan

Not modelled yet: the store of the memcache handler, callbacks that call the
plugin again, MINIT and MSHUTDOWN, the run time statistics of an entry and
`fill_stats_hash`, cursors and results of prepared statements that are freed
unread, failing allocations, several connections of one request in the trace
logs. Not to be modelled: the engine glue (`mysqlnd_qc_classes.c`,
`mysqlnd_qc_zval_util.c`), the generated keyword tables, the web monitor and the
benchmark; they keep no state of the cache.

In this order:

1. `EntryTimes`. The default handler averages over a count that includes the
   hit at hand (`mysqlnd_qc_std_handler.c:551`, 241).
2. `TraceLog` with several connections of a request and the end of requests.
3. `MemcacheHandler` against `ResultCache`.
4. `PreparedStmts`: cursors, results freed unread, close and reconnect.
5. Theorems about scripts that are not orderly, without `std_data_copy`: what of
   `NoUseAfterFree` is left when hits are refused.
