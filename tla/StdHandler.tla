------------------------------ MODULE StdHandler ------------------------------
(***************************************************************************)
(* The default storage handler (mysqlnd_qc_std_handler.c): a hash table in *)
(* process memory that maps a query hash key to a recorded wire result.    *)
(* In a thread-safe build every thread of the process shares the table and *)
(* each handler function runs entirely under LOCK_QCACHE, so each function *)
(* is one atomic action here.  A caller passes its own notion of the       *)
(* current time (macro CURRENT_TIME), which may lag behind the clock.      *)
(*                                                                         *)
(* `heap` is the memory of the recorded results: what a data container     *)
(* holds, or None when the container is not allocated.  The actions leave  *)
(* the allocation of new containers to the caller, which knows the         *)
(* pointers that are still around.                                         *)
(***************************************************************************)
EXTENDS Integers, FiniteSets

CONSTANTS
    Keys,         \* query hash keys
    Data,         \* addresses of data containers (smart_str)
    Results,      \* contents a container may have
    None,         \* no entry, no pointer, no content
    SlamDefense,  \* ini setting mysqlnd_qc.slam_defense
    DataCopy,     \* ini setting mysqlnd_qc.std_data_copy
    RefMod        \* number of values of `uint references`

ASSUME HandlerAssumption ==
    /\ None \notin Data \cup Results \cup Keys
    /\ SlamDefense \in BOOLEAN
    /\ DataCopy \in BOOLEAN
    /\ RefMod \in Nat \ {0}

VARIABLES
    cache,  \* the hash table: cache[k] is the entry of key k, or None
    heap    \* heap[d] is the content of container d, or None

Entry == [cached_query: Data, deadline: Nat, in_refresh: BOOLEAN,
          references: 0..(RefMod - 1)]

NoEntry == None

ASSUME NoEntryAssumption == NoEntry \notin Entry

HandlerInit ==
    /\ cache = [k \in Keys |-> NoEntry]
    /\ heap = [d \in Data |-> None]

-----------------------------------------------------------------------------

Cached(k) == cache[k] # NoEntry

Expired(k, now) == cache[k].deadline <= now

\* Definitions whose comment begins with "Mutant" are faulty variants of the
\* definition that follows; they show that the properties notice the fault.

\* An entry no lookup may serve any more.
Dead(k, now) == Cached(k) /\ Expired(k, now) /\ ~SlamDefense

\* Mutant: a lookup deletes a dead entry though it is lent.
KillableLent(k, now) == Dead(k, now)

\* A lookup deletes a dead entry that is lent to nobody; "someone else will
\* kill it" when it is still lent.
Killable(k, now) == Dead(k, now) /\ cache[k].references = 0

\* Unsigned arithmetic on the counter of an entry.
Inc(n) == IF n = RefMod - 1 THEN 0 ELSE n + 1
Dec(n) == IF n = 0 THEN RefMod - 1 ELSE n - 1

Without(k) == [cache EXCEPT ![k] = NoEntry]

\* zend_hash_del and zend_hash_clean run the destructor of an entry: it frees
\* the data of an entry that is lent to nobody and forgets any other data.
DestroyedBy(ks) ==
    {cache[k].cached_query : k \in {x \in ks : Cached(x) /\ cache[x].references = 0}}

Released(ds) == [d \in Data |-> IF d \in ds THEN None ELSE heap[d]]

\* Containers freed by a lookup of k.
FreedByLookup(k, now) == IF Killable(k, now) THEN DestroyedBy({k}) ELSE {}

AfterLookup(k, now) == IF Killable(k, now) THEN Without(k) ELSE cache

-----------------------------------------------------------------------------
\* query_is_cached: the answer given to the caller and the effect on the table.

IsCachedAnswer(k, now) == Cached(k) /\ ~Dead(k, now)

QueryIsCached(k, now) ==
    /\ cache' = AfterLookup(k, now)
    /\ heap' = Released(FreedByLookup(k, now))

\* Slam defense asks one caller to refresh the entry.
AsksForRefresh(k, now) ==
    Cached(k) /\ ~Dead(k, now) /\ SlamDefense /\ ~cache[k].in_refresh

\* find_query_in_cache returns NULL.  The caller allocates and frees memory in
\* the same step: it adds FreedByLookup to what it frees.
FindNothing(k, now) ==
    /\ ~Cached(k) \/ Dead(k, now)
    /\ cache' = AfterLookup(k, now)

FindAskedToRefresh(k, now) ==
    /\ AsksForRefresh(k, now)
    /\ cache' = [cache EXCEPT ![k].in_refresh = TRUE]

FindMiss(k, now) == FindNothing(k, now) \/ FindAskedToRefresh(k, now)

Servable(k, now) == Cached(k) /\ ~Dead(k, now) /\ ~AsksForRefresh(k, now)

\* Mutant: the loan is not counted.
LentUncounted(k) == cache

\* The table after the entry of k was lent once more.
Lent(k) == [cache EXCEPT ![k].references = Inc(@)]

\* find_query_in_cache lends the cached container itself.
FindShared(k, now, d) ==
    /\ ~DataCopy
    /\ Servable(k, now)
    /\ d = cache[k].cached_query
    /\ cache' = Lent(k)
    /\ UNCHANGED heap

\* find_query_in_cache with std_data_copy lends the fresh copy d.
FindCopied(k, now, d) ==
    /\ DataCopy
    /\ Servable(k, now)
    /\ heap' = [heap EXCEPT ![d] = heap[cache[k].cached_query]]
    /\ UNCHANGED cache

FindHit(k, now, d) == FindShared(k, now, d) \/ FindCopied(k, now, d)

\* mysqlnd_qc_handler_default::find_query_in_cache: a copy is made, handed to
\* the script and freed whatever std_data_copy says.
PhpFind(k, now) ==
    \/ /\ FindMiss(k, now)
       /\ heap' = Released(FreedByLookup(k, now))
    \/ /\ Servable(k, now)
       /\ UNCHANGED <<cache, heap>>

\* Mutant: the counter is compared before it is decremented.
LateReturn(k, now) ==
    /\ cache[k].references = 0
    /\ Expired(k, now)
    /\ ~SlamDefense \/ ~cache[k].in_refresh

\* return_to_cache.  The entry found under k need not be the one that was lent.
LastReturn(k, now) ==
    /\ Dec(cache[k].references) = 0
    /\ Expired(k, now)
    /\ ~SlamDefense \/ ~cache[k].in_refresh

\* Mutant: the counter is signed.
ReturnSigned(k, now) ==
    /\ ~DataCopy
    /\ IF ~Cached(k) THEN UNCHANGED <<cache, heap>>
       ELSE IF LastReturn(k, now)
            THEN /\ cache' = Without(k)
                 /\ heap' = Released({cache[k].cached_query})
            ELSE /\ cache' = [cache EXCEPT ![k].references = @ - 1]
                 /\ UNCHANGED heap

ReturnShared(k, now) ==
    /\ ~DataCopy
    /\ IF ~Cached(k) THEN UNCHANGED <<cache, heap>>
       ELSE IF LastReturn(k, now)
            THEN /\ cache' = Without(k)
                 /\ heap' = Released({cache[k].cached_query})
            ELSE /\ cache' = [cache EXCEPT ![k].references = Dec(@)]
                 /\ UNCHANGED heap

ReturnCopied(d) ==
    /\ DataCopy
    /\ heap' = Released({d})
    /\ UNCHANGED cache

ReturnToCache(k, d, now) == ReturnShared(k, now) \/ ReturnCopied(d)

\* Mutant: a valid entry may be replaced.
ReplaceableValid(k, now) ==
    cache[k].references = 0 /\ (~SlamDefense \/ cache[k].in_refresh)

\* add_query_to_cache_if_not_exists
Replaceable(k, now) ==
    /\ cache[k].deadline < now
    /\ cache[k].references = 0
    /\ ~SlamDefense \/ cache[k].in_refresh

MayAdd(k, now) == Cached(k) => Replaceable(k, now)

\* Containers freed by an add that replaces the entry of k.
FreedByAdd(k) == DestroyedBy({k})

AddQuery(k, d, ttl, now) ==
    /\ MayAdd(k, now)
    /\ cache' = [cache EXCEPT ![k] = [cached_query |-> d, deadline |-> now + ttl,
                                      in_refresh |-> FALSE, references |-> 0]]

\* The caller keeps, and frees, the container when the add is refused.
AddRefused(k, now) == ~MayAdd(k, now) /\ UNCHANGED cache

\* clear_cache
ClearCache ==
    /\ cache' = [k \in Keys |-> NoEntry]
    /\ heap' = Released(DestroyedBy(Keys))

=============================================================================
