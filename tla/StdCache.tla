------------------------------- MODULE StdCache -------------------------------
(***************************************************************************)
(* The default storage handler and the clients of its protocol: threads    *)
(* (or connections of one thread) that look a query up, replay what they   *)
(* are lent and return it, or record a new result and offer it to the      *)
(* cache.  Each client follows the protocol of mysqlnd_qc.c to the end; a  *)
(* client that leaves it half way is the subject of module Connections.    *)
(***************************************************************************)
EXTENDS StdHandler

CONSTANTS
    Clients,         \* threads, or connections of one thread
    Answers,         \* Answers[k]: results the server may give for query k
    Ttls,            \* times to live a query may ask for
    RequestTimers,   \* clients with ini setting mysqlnd_qc.use_request_time
    MaxClock         \* bound on the clock

\* The counter of an entry cannot wrap: it has more values than there are clients.
ASSUME CounterAssumption == IsFiniteSet(Clients) /\ Cardinality(Clients) < RefMod

ASSUME ClientAssumption ==
    /\ Answers \in [Keys -> SUBSET Results]
    /\ Ttls \subseteq Nat
    /\ RequestTimers \subseteq Clients
    /\ MaxClock \in Nat

VARIABLES
    clock,     \* time(NULL)
    reqTime,   \* reqTime[c]: SG(global_request_time) of the client's request
    pc,        \* what the client is doing
    key,       \* query_hash_key of the running query
    held,      \* recorded_data of the running query
    orphaned   \* history: clear_cache has removed an entry that was lent

handlerVars == <<cache, heap>>
clientVars == <<pc, key, held>>
vars == <<cache, heap, clock, reqTime, pc, key, held, orphaned>>

ProgramCounters == {"idle", "recording", "replaying"}

TypeOK ==
    /\ cache \in [Keys -> Entry \cup {NoEntry}]
    /\ heap \in [Data -> Results \cup {None}]
    /\ clock \in Nat
    /\ reqTime \in [Clients -> Nat]
    /\ pc \in [Clients -> ProgramCounters]
    /\ key \in [Clients -> Keys \cup {None}]
    /\ held \in [Clients -> Data \cup {None}]
    /\ orphaned \in BOOLEAN

Init ==
    /\ HandlerInit
    /\ clock = 0
    /\ reqTime = [c \in Clients |-> 0]
    /\ pc = [c \in Clients |-> "idle"]
    /\ key = [c \in Clients |-> None]
    /\ held = [c \in Clients |-> None]
    /\ orphaned = FALSE

-----------------------------------------------------------------------------

\* CURRENT_TIME
Now(c) == IF c \in RequestTimers THEN reqTime[c] ELSE clock

\* Containers malloc may return.  A container somebody still points to is never
\* handed out again, so a dangling pointer shows as one to free memory.
Fresh ==
    {d \in Data : /\ heap[d] = None
                  /\ \A c \in Clients : held[c] # d
                  /\ \A k \in Keys : Cached(k) => cache[k].cached_query # d}

Become(c, state, k, d) ==
    /\ pc' = [pc EXCEPT ![c] = state]
    /\ key' = [key EXCEPT ![c] = k]
    /\ held' = [held EXCEPT ![c] = d]

Tick ==
    /\ clock < MaxClock
    /\ clock' = clock + 1
    /\ UNCHANGED <<cache, heap, reqTime, clientVars, orphaned>>

\* A new PHP request of the client starts.
NewRequest(c) ==
    /\ c \in RequestTimers
    /\ pc[c] = "idle"
    /\ reqTime' = [reqTime EXCEPT ![c] = clock]
    /\ UNCHANGED <<cache, heap, clock, clientVars, orphaned>>

\* The query is found: the client replays container d.
LookupHit(c, k) ==
    /\ pc[c] = "idle"
    /\ \E d \in Data :
         /\ DataCopy => d \in Fresh
         /\ FindHit(k, Now(c), d)
         /\ Become(c, "replaying", k, d)
    /\ UNCHANGED <<clock, reqTime, orphaned>>

\* The query is not found: the client runs it and records the server's answer
\* into a container of its own.
LookupMiss(c, k) ==
    /\ pc[c] = "idle"
    /\ FindMiss(k, Now(c))
    /\ \E d \in Fresh, r \in Answers[k] :
         /\ heap' = [Released(FreedByLookup(k, Now(c))) EXCEPT ![d] = r]
         /\ Become(c, "recording", k, d)
    /\ UNCHANGED <<clock, reqTime, orphaned>>

\* The replayed result is stored; the container goes back to the handler.
FinishReplay(c) ==
    /\ pc[c] = "replaying"
    /\ ReturnToCache(key[c], held[c], Now(c))
    /\ Become(c, "idle", None, None)
    /\ UNCHANGED <<clock, reqTime, orphaned>>

\* Mutant: the client keeps its pointer to the container.
FinishAndKeep(c, ttl) ==
    /\ pc[c] = "recording"
    /\ AddQuery(key[c], held[c], ttl, Now(c))
    /\ heap' = Released(FreedByAdd(key[c]))
    /\ Become(c, "idle", None, held[c])
    /\ UNCHANGED <<clock, reqTime, orphaned>>

\* The recorded result is stored and added to the cache.
FinishRecord(c, ttl) ==
    /\ pc[c] = "recording"
    /\ AddQuery(key[c], held[c], ttl, Now(c))
    /\ heap' = Released(FreedByAdd(key[c]))
    /\ Become(c, "idle", None, None)
    /\ UNCHANGED <<clock, reqTime, orphaned>>

\* The add is refused: the client frees what it recorded.
FinishRefused(c) ==
    /\ pc[c] = "recording"
    /\ AddRefused(key[c], Now(c))
    /\ heap' = Released({held[c]})
    /\ Become(c, "idle", None, None)
    /\ UNCHANGED <<clock, reqTime, orphaned>>

\* The query fails, has no table name or is read unbuffered: nothing is added.
Abandon(c) ==
    /\ pc[c] = "recording"
    /\ heap' = Released({held[c]})
    /\ Become(c, "idle", None, None)
    /\ UNCHANGED <<cache, clock, reqTime, orphaned>>

\* mysqlnd_qc_query_is_cached
AskIsCached(c, k) ==
    /\ pc[c] = "idle"
    /\ QueryIsCached(k, Now(c))
    /\ UNCHANGED <<clock, reqTime, clientVars, orphaned>>

\* A script calls the methods of class mysqlnd_qc_handler_default itself.
ScriptFind(c, k) ==
    /\ pc[c] = "idle"
    /\ PhpFind(k, Now(c))
    /\ UNCHANGED <<clock, reqTime, clientVars, orphaned>>

ScriptAdd(c, k, ttl) ==
    /\ pc[c] = "idle"
    /\ \/ \E d \in Fresh, r \in Answers[k] :
            /\ AddQuery(k, d, ttl, Now(c))
            /\ heap' = [Released(FreedByAdd(k)) EXCEPT ![d] = r]
       \/ AddRefused(k, Now(c)) /\ UNCHANGED heap
    /\ UNCHANGED <<clock, reqTime, clientVars, orphaned>>

Clear ==
    /\ ClearCache
    /\ orphaned' = (orphaned \/ \E k \in Keys : Cached(k) /\ cache[k].references # 0)
    /\ UNCHANGED <<clock, reqTime, clientVars>>

-----------------------------------------------------------------------------

\* What mysqlnd_qc.c does for the connections of the process.
ProtocolStep(c) ==
    \/ NewRequest(c)
    \/ FinishReplay(c)
    \/ FinishRefused(c)
    \/ Abandon(c)
    \/ \E ttl \in Ttls : FinishRecord(c, ttl)
    \/ \E k \in Keys : LookupHit(c, k) \/ LookupMiss(c, k)

\* What scripts do on their own.
ScriptStep(c) ==
    \E k \in Keys :
        \/ AskIsCached(c, k)
        \/ ScriptFind(c, k)
        \/ \E ttl \in Ttls : ScriptAdd(c, k, ttl)

NextProtocol == Tick \/ \E c \in Clients : ProtocolStep(c)

\* A process that never calls mysqlnd_qc_clear_cache().
NextNoClear == NextProtocol \/ \E c \in Clients : ScriptStep(c)

Next == NextNoClear \/ Clear

\* A replay reads from memory only: it ends without help from the network.
Fairness == \A c \in Clients : WF_vars(FinishReplay(c))

Spec == Init /\ [][Next]_vars

FairSpec == Spec /\ Fairness

-----------------------------------------------------------------------------
(***************************************************************************)
(* Safety                                                                  *)
(***************************************************************************)

\* The clients that replay a container lent from key k.
Readers(k) == {c \in Clients : pc[c] = "replaying" /\ key[c] = k}

\* No result is freed while a client reads or fills it, and no entry of the
\* table points to freed memory.
NoUseAfterFree ==
    /\ \A c \in Clients : pc[c] # "idle" => heap[held[c]] # None
    /\ \A k \in Keys : Cached(k) => heap[cache[k].cached_query] # None

\* As long as clear_cache has not removed a lent entry no client and no entry
\* ever uses freed memory (the reference counting of find_query_in_cache,
\* return_to_cache and the destructor).
SafeUnlessOrphaned == ~orphaned => NoUseAfterFree

CountersAreReaders ==
    \A k \in Keys : Cached(k) =>
        cache[k].references = IF DataCopy THEN 0 ELSE Cardinality(Readers(k))

\* ... the counter of each entry is exactly the number of clients that still
\* read it, so it cannot underflow,
ReferencesCountReaders == ~orphaned => CountersAreReaders

InUse(d) ==
    \/ \E k \in Keys : Cached(k) /\ cache[k].cached_query = d
    \/ \E c \in Clients : held[c] = d

\* every container allocated is in the table or in the hands of a client,
NothingLeaks == \A d \in Data : heap[d] # None => InUse(d)

NothingLeaksUnlessOrphaned == ~orphaned => NothingLeaks

OwnDataIsPrivate ==
    \A c \in Clients : (held[c] # None /\ (pc[c] = "replaying" => DataCopy)) =>
        /\ \A o \in Clients \ {c} : held[o] # held[c]
        /\ \A k \in Keys : Cached(k) => cache[k].cached_query # held[c]

\* and a container that was not lent by the cache is its client's own: no entry
\* and no other client has it.
PrivateData == ~orphaned => OwnDataIsPrivate

\* A client replays an answer to the query it asked, however the table changed
\* since the lookup.
ReplaysOwnQuery ==
    ~orphaned => \A c \in Clients : pc[c] = "replaying" => heap[held[c]] \in Answers[key[c]]

(***************************************************************************)
(* Action properties                                                       *)
(***************************************************************************)

\* An add never takes the place of an entry that is still valid or lent.
NoEarlyReplacement ==
    [][\A k \in Keys :
          (Cached(k) /\ Cached(k)' /\ cache[k].cached_query # cache'[k].cached_query)
              => cache[k].deadline < clock /\ cache[k].references = 0]_vars

(***************************************************************************)
(* Liveness                                                                *)
(***************************************************************************)

LentAndExpired(k, d) ==
    /\ Cached(k)
    /\ cache[k].cached_query = d
    /\ cache[k].references > 0
    /\ Expired(k, clock)

\* "Someone else will kill it": an expired entry that a lookup must leave
\* because it is lent is deleted once its readers have returned it, unless it is
\* lent to a client that goes by the start of its request, and takes the entry
\* for a valid one until it has returned it.
ExpiredIsKilled ==
    [](~orphaned) =>
        \A k \in Keys, d \in Data :
            LentAndExpired(k, d) ~>
                \/ ~(Cached(k) /\ cache[k].cached_query = d)
                \/ \E c \in RequestTimers : held[c] = d /\ ~Expired(k, Now(c))

-----------------------------------------------------------------------------
(***************************************************************************)
(* The inductive invariant behind the safety properties                    *)
(***************************************************************************)

ClientsWellFormed ==
    \A c \in Clients : IF pc[c] = "idle" THEN key[c] = None /\ held[c] = None
                       ELSE key[c] \in Keys /\ held[c] \in Data

EntriesHoldAnswers ==
    \A k \in Keys : Cached(k) => heap[cache[k].cached_query] \in Answers[k]

ClientsHoldAnswers ==
    \A c \in Clients : pc[c] # "idle" => heap[held[c]] \in Answers[key[c]]

EntriesAreDistinct ==
    \A j, k \in Keys : Cached(j) /\ Cached(k) /\ cache[j].cached_query = cache[k].cached_query
        => j = k

LentIsCached ==
    ~DataCopy => \A c \in Clients : pc[c] = "replaying" =>
        Cached(key[c]) /\ cache[key[c]].cached_query = held[c]

Consistent ==
    /\ EntriesHoldAnswers
    /\ ClientsHoldAnswers
    /\ EntriesAreDistinct
    /\ LentIsCached
    /\ OwnDataIsPrivate
    /\ CountersAreReaders
    /\ NothingLeaks

\* Until clear_cache removes a lent entry, a client that replays without a copy
\* replays the container of the entry of its key, whose counter counts it.
IInv == TypeOK /\ ClientsWellFormed /\ (~orphaned => Consistent)

=============================================================================
