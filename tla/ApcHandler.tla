------------------------------- MODULE ApcHandler -------------------------------
(***************************************************************************)
(* The APC storage handler (mysqlnd_qc_apc_handler.c).  All processes of a *)
(* machine share the entries; each operation reads an entry with one call  *)
(* of APC, works on a copy, and writes the copy back with one or two more. *)
(* LOCK_QC_APC excludes the threads of one process from each other and     *)
(* does nothing between processes, nor in a build without threads.         *)
(*                                                                         *)
(* There are two clocks for an entry: valid_until, which the handler keeps *)
(* in it, and the time to live given to APC, after which APC no longer     *)
(* finds the entry (never, when it is 0).  Left out: the times and rows of *)
(* an entry, times to live that differ between queries, entries changed by *)
(* others than the handler, and what APC does inside of one call.          *)
(***************************************************************************)
EXTENDS Integers, FiniteSets

CONSTANTS
    Keys,         \* hash keys
    Procs,        \* processes, or threads
    None,
    SlamDefense,  \* mysqlnd_qc.slam_defense
    Threads,      \* Procs are threads of one process
    Prompt,       \* no second passes while a thread is inside of the handler
    Ttl, SlamTtl, \* mysqlnd_qc.ttl, slam_defense_ttl
    MaxClock,
    MaxHits       \* counters stop here

ASSUME ApcAssumption ==
    /\ SlamDefense \in BOOLEAN /\ Threads \in BOOLEAN /\ Prompt \in BOOLEAN
    /\ Ttl \in Nat /\ SlamTtl \in Nat
    /\ MaxClock \in Nat /\ MaxHits \in Nat

VARIABLES
    clock,
    apc,    \* apc[k]: the entry of APC's user cache
    proc,   \* proc[p]: where p is, and its local variables
    found   \* history: lookups that found the entry since it was added

vars == <<clock, apc, proc, found>>

NoEntry == [none |-> TRUE]

\* "data" stands for the recorded data, by the time at which it was added.
Array == [data: Nat, valid_until: Nat, in_refresh_until: Nat, cache_hits: Nat]

\* APC finds the entry until "dies", or for ever when that is 0.
Entry == [array: Array, dies: Nat]

Operations == {"find", "is_cached", "update_stats", "add", "clear"}

Outside == {"idle", "replaying", "recording"}

Locked == {"deleting", "storing", "clearing"}   \* LOCK_QC_APC is held

\* "entering": the time was read.
Places == Outside \cup Locked \cup {"entering"}

Process ==
    [pc: Places, op: Operations \cup {None}, key: Keys \cup {None}, now: Nat,
     served: Nat \cup {None},    \* the copy that is replayed
     copy: Array \cup {None},    \* zv_cache_entry
     ttl: Nat,                   \* of the copy, for APC
     next: Outside,              \* after the copy was stored
     refresher: BOOLEAN,         \* records because the entry is stale
     todo: SUBSET Keys]          \* identifiers listed by clear_cache

Idle == [pc |-> "idle", op |-> None, key |-> None, now |-> 0, served |-> None,
         copy |-> None, ttl |-> 0, next |-> "idle", refresher |-> FALSE, todo |-> {}]

Init ==
    /\ clock = 0
    /\ apc = [k \in Keys |-> NoEntry]
    /\ proc = [p \in Procs |-> Idle]
    /\ found = [k \in Keys |-> 0]

-----------------------------------------------------------------------------
\* APC

Present(k) == apc[k] # NoEntry

\* apc_cache_user_find at time t
Visible(k, t) == Present(k) /\ (apc[k].dies = 0 \/ t <= apc[k].dies)

Stored(array, ttl) == [array |-> array, dies |-> IF ttl = 0 THEN 0 ELSE clock + ttl]

\* APC makes room.
Evict(k) ==
    /\ Present(k)
    /\ apc' = [apc EXCEPT ![k] = NoEntry]
    /\ UNCHANGED <<clock, proc, found>>

Inside(p) == proc[p].pc \notin Outside

Tick ==
    /\ clock < MaxClock
    /\ Prompt => \A p \in Procs : ~Inside(p)
    /\ clock' = clock + 1
    /\ UNCHANGED <<apc, proc, found>>

-----------------------------------------------------------------------------
\* An operation reads the time, waits for the lock, and reads the entry.

Assign(p, r) == proc' = [proc EXCEPT ![p] = r]

Enter(p, op, k) ==
    /\ Assign(p, [proc[p] EXCEPT !.pc = "entering", !.op = op, !.key = k, !.now = clock,
                                 !.served = None, !.refresher = FALSE])
    /\ UNCHANGED <<clock, apc, found>>

EnterFind(p, k) == proc[p].pc = "idle" /\ Enter(p, "find", k)

EnterIsCached(p, k) == proc[p].pc = "idle" /\ Enter(p, "is_cached", k)

\* A replayed result was stored: return_to_cache frees the copy, then
\* update_query_run_time_stats.
EnterUpdateStats(p) == proc[p].pc = "replaying" /\ Enter(p, "update_stats", proc[p].key)

EnterAdd(p) == proc[p].pc = "recording" /\ Enter(p, "add", proc[p].key)

\* Mutant: there is no lock.
Unlocked == TRUE

LockFree ==
    Threads => \A p \in Procs : proc[p].pc \notin Locked

\* p runs op, has the lock, and finds the entry or not.
Finds(p, op) ==
    /\ proc[p].pc = "entering" /\ proc[p].op = op
    /\ LockFree
    /\ Visible(proc[p].key, proc[p].now)

FindsNot(p, op) ==
    /\ proc[p].pc = "entering" /\ proc[p].op = op
    /\ LockFree
    /\ ~Visible(proc[p].key, proc[p].now)

Array0(p) == apc[proc[p].key].array

\* Seconds until the entry expires, and until its refresh must have come.
Left(p) == Array0(p).valid_until - proc[p].now

RefreshLeft(p) == Array0(p).in_refresh_until - proc[p].now

InRefresh(p) == Array0(p).in_refresh_until # 0

Leave(p, place) ==
    /\ Assign(p, [Idle EXCEPT !.pc = place,
                              !.key = IF place = "idle" THEN None ELSE proc[p].key])
    /\ UNCHANGED <<clock, apc, found>>

\* The copy is to be written; "first" says whether the entry is deleted before.
WriteBack(p, first, copy, ttl, r) ==
    /\ Assign(p, [r EXCEPT !.pc = first, !.copy = copy, !.ttl = ttl])
    /\ UNCHANGED <<clock, apc, found>>

-----------------------------------------------------------------------------
\* find_query_in_cache

FindMiss(p) == FindsNot(p, "find") /\ Leave(p, "recording")

\* Counters stop at MaxHits.
Incremented(n) == IF n < MaxHits THEN n + 1 ELSE n

Hit(p) == [Array0(p) EXCEPT !.cache_hits = Incremented(@)]

Serving(p) == [proc[p] EXCEPT !.next = "replaying", !.served = Array0(p).data]

\* Mutant: an entry that has expired is a hit.
FindHitLate(p) ==
    /\ Finds(p, "find")
    /\ WriteBack(p, "deleting", Hit(p), IF SlamDefense THEN 0 ELSE Left(p), Serving(p))

\* Without slam defense APC is told how long the entry lives from now on: not
\* at all any more, or for ever, when it is in its last second.
FindHit(p) ==
    /\ Finds(p, "find") /\ Left(p) >= 0
    /\ WriteBack(p, "deleting", Hit(p), IF SlamDefense THEN 0 ELSE Left(p), Serving(p))

\* Mutant: the entry is not marked.
FindRefreshUnmarked(p) ==
    /\ Finds(p, "find") /\ SlamDefense /\ Left(p) < 0 /\ ~InRefresh(p)
    /\ WriteBack(p, "deleting", Hit(p), SlamTtl,
                 [proc[p] EXCEPT !.next = "recording", !.refresher = TRUE])

\* A stale entry: p is to refresh it.
FindRefresh(p) ==
    /\ Finds(p, "find") /\ SlamDefense /\ Left(p) < 0 /\ ~InRefresh(p)
    /\ WriteBack(p, "deleting",
                 [Hit(p) EXCEPT !.in_refresh_until = SlamTtl + proc[p].now], SlamTtl,
                 [proc[p] EXCEPT !.next = "recording", !.refresher = TRUE])

FindStaleHit(p) ==
    /\ Finds(p, "find") /\ SlamDefense /\ Left(p) < 0 /\ InRefresh(p)
    /\ RefreshLeft(p) >= 0
    /\ WriteBack(p, "deleting", Hit(p), RefreshLeft(p), Serving(p))

FindExpired(p) ==
    /\ Finds(p, "find") /\ Left(p) < 0
    /\ ~SlamDefense \/ (InRefresh(p) /\ RefreshLeft(p) < 0)
    /\ Leave(p, "recording")

\* update_cache_stats

UpdateStatsGone(p) == FindsNot(p, "update_stats") /\ Leave(p, "idle")

StatsTtl(p) == IF ~SlamDefense THEN Left(p)
               ELSE IF Left(p) >= 0 THEN 0 ELSE RefreshLeft(p)

UpdateStats(p) ==
    /\ Finds(p, "update_stats")
    /\ IF StatsTtl(p) < 0 \/ (SlamDefense /\ Left(p) < 0 /\ ~InRefresh(p))
       THEN Leave(p, "idle")
       ELSE WriteBack(p, "deleting", Array0(p), StatsTtl(p), [proc[p] EXCEPT !.next = "idle"])

\* add_query_to_cache_if_not_exists

NewArray(p) == [data |-> proc[p].now, valid_until |-> proc[p].now + Ttl,
                in_refresh_until |-> 0, cache_hits |-> 0]

AddNew(p) ==
    /\ FindsNot(p, "add")
    /\ WriteBack(p, "deleting", NewArray(p), IF SlamDefense THEN 0 ELSE Ttl,
                 [proc[p] EXCEPT !.next = "idle"])

\* Mutant: the entry is prolonged without slam defense, too.
AddProlongsAlways(p) ==
    /\ Finds(p, "add")
    /\ WriteBack(p, "storing",
                 [Array0(p) EXCEPT !.in_refresh_until = 0, !.valid_until = Ttl + proc[p].now],
                 0, [proc[p] EXCEPT !.next = "idle"])

\* The entry is there: slam defense prolongs it, with the data it has.
AddProlongs(p) ==
    /\ Finds(p, "add") /\ SlamDefense
    /\ WriteBack(p, "storing",
                 [Array0(p) EXCEPT !.in_refresh_until = 0, !.valid_until = Ttl + proc[p].now],
                 0, [proc[p] EXCEPT !.next = "idle"])

\* Without slam defense the handler reports success and does nothing.
AddKeeps(p) == Finds(p, "add") /\ ~SlamDefense /\ Leave(p, "idle")

\* query_is_cached

IsCachedMiss(p) == FindsNot(p, "is_cached") /\ Leave(p, "idle")

\* Asking for a stale entry marks it, too.
IsCachedMarks(p) == SlamDefense /\ Left(p) <= 0 /\ ~InRefresh(p)

IsCached(p) ==
    /\ Finds(p, "is_cached")
    /\ IF IsCachedMarks(p)
       THEN WriteBack(p, "storing",
                      [Array0(p) EXCEPT !.in_refresh_until = SlamTtl + proc[p].now], SlamTtl,
                      [proc[p] EXCEPT !.next = "idle"])
       ELSE Leave(p, "idle")

-----------------------------------------------------------------------------
\* apc_cache_user_delete and _apc_store

Delete(p) ==
    /\ proc[p].pc = "deleting"
    /\ apc' = [apc EXCEPT ![proc[p].key] = NoEntry]
    /\ Assign(p, [proc[p] EXCEPT !.pc = "storing"])
    /\ UNCHANGED <<clock, found>>

After(p, place) ==
    [Idle EXCEPT !.pc = place,
                 !.key = IF place = "idle" THEN None ELSE proc[p].key,
                 !.now = proc[p].now,
                 !.served = proc[p].served,
                 !.refresher = proc[p].refresher]

\* What r is to write was added by r.
IsNew(r) == r.op = "add" /\ r.copy.data = r.now /\ r.copy.cache_hits = 0

Store(p) ==
    LET k == proc[p].key
    IN /\ proc[p].pc = "storing"
       /\ apc' = [apc EXCEPT ![k] = Stored(proc[p].copy, proc[p].ttl)]
       /\ found' = [found EXCEPT ![k] = IF proc[p].op = "find" THEN Incremented(@)
                                       ELSE IF IsNew(proc[p]) THEN 0 ELSE @]
       /\ Assign(p, After(p, proc[p].next))
       /\ UNCHANGED clock

\* APC has no memory: a lookup gives its copy up and records, an add is refused.
StoreFails(p) ==
    /\ proc[p].pc = "storing"
    /\ Leave(p, IF proc[p].op = "find" THEN "recording" ELSE "idle")

-----------------------------------------------------------------------------
\* clear_cache lists the entries, and then looks each up and deletes it.

ListEntries(p) ==
    /\ proc[p].pc = "idle" /\ LockFree
    /\ Assign(p, [proc[p] EXCEPT !.pc = "entering", !.op = "clear", !.now = clock,
                                 !.todo = {k \in Keys : Present(k)}])
    /\ UNCHANGED <<clock, apc, found>>

BeginClear(p) ==
    /\ proc[p].pc = "entering" /\ proc[p].op = "clear" /\ LockFree
    /\ Assign(p, [proc[p] EXCEPT !.pc = "clearing"])
    /\ UNCHANGED <<clock, apc, found>>

ClearEntry(p, k) ==
    /\ proc[p].pc = "clearing" /\ k \in proc[p].todo
    /\ apc' = IF Visible(k, proc[p].now) THEN [apc EXCEPT ![k] = NoEntry] ELSE apc
    /\ Assign(p, [proc[p] EXCEPT !.todo = @ \ {k}])
    /\ UNCHANGED <<clock, found>>

EndClear(p) == proc[p].pc = "clearing" /\ proc[p].todo = {} /\ Leave(p, "idle")

\* An entry that was found is gone when clear_cache deletes it: it gives up.
ClearGivesUp(p) ==
    /\ proc[p].pc = "clearing" /\ proc[p].todo # {}
    /\ Leave(p, "idle")

\* The result is not stored in the end (an error, use_result), or the process
\* is killed; LOCK_QC_APC of a process goes with it.
Abandon(p) ==
    /\ proc[p].pc \in {"replaying", "recording"} \/ (~Threads /\ Inside(p))
    /\ Leave(p, "idle")

-----------------------------------------------------------------------------

Find(p) == FindMiss(p) \/ FindHit(p) \/ FindRefresh(p) \/ FindStaleHit(p) \/ FindExpired(p)

Add(p) == AddNew(p) \/ AddProlongs(p) \/ AddKeeps(p)

Clear(p) ==
    \/ ListEntries(p) \/ BeginClear(p) \/ EndClear(p) \/ ClearGivesUp(p)
    \/ \E k \in Keys : ClearEntry(p, k)

Next ==
    \/ Tick
    \/ \E k \in Keys : Evict(k)
    \/ \E p \in Procs :
         \/ \E k \in Keys : EnterFind(p, k) \/ EnterIsCached(p, k)
         \/ EnterUpdateStats(p) \/ EnterAdd(p)
         \/ Find(p) \/ Add(p) \/ Clear(p)
         \/ UpdateStatsGone(p) \/ UpdateStats(p)
         \/ IsCachedMiss(p) \/ IsCached(p)
         \/ Delete(p) \/ Store(p) \/ StoreFails(p)
         \/ Abandon(p)

Spec == Init /\ [][Next]_vars
-----------------------------------------------------------------------------
(***************************************************************************)
(* Properties                                                              *)
(***************************************************************************)

\* Types; a process that is to write an entry has the copy and the key for it.
TypeOK ==
    /\ clock \in 0..MaxClock
    /\ apc \in [Keys -> Entry \cup {NoEntry}]
    /\ proc \in [Procs -> Process]
    /\ found \in [Keys -> Nat]
    /\ \A p \in Procs :
         /\ proc[p].pc \in {"deleting", "storing"} => proc[p].copy \in Array
         /\ proc[p].pc \in {"deleting", "storing", "replaying", "recording"}
              => proc[p].key \in Keys
         /\ proc[p].pc = "entering" /\ proc[p].op # "clear" => proc[p].key \in Keys

\* Without slam defense, what is replayed was added no longer ago than its time
\* to live, whatever copies the processes write over each other's.
ServedWithinTtl ==
    ~SlamDefense => \A p \in Procs : proc[p].served # None =>
        proc[p].now - proc[p].served <= Ttl

\* With slam defense only one thread is sent to refresh an entry at a time.
Refreshers(k) ==
    {p \in Procs : /\ proc[p].refresher /\ proc[p].key = k /\ proc[p].pc = "recording"
                   /\ clock <= proc[p].now + SlamTtl}

OneRefresher == \A k \in Keys : Cardinality(Refreshers(k)) <= 1

\* No update of an entry is lost between threads: cache_hits is the number of
\* lookups that found it.
HitsCountFinds ==
    \A k \in Keys : Present(k) => apc[k].array.cache_hits = found[k]

\* APC does not find an entry that has expired.  ("cache entry has expired -
\* should not happen")
ExpiredIsGone ==
    ~SlamDefense => \A k \in Keys : Visible(k, clock) => apc[k].array.valid_until >= clock
=============================================================================
