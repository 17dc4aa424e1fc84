---------------------------- MODULE StdCacheProofs ----------------------------
(***************************************************************************)
(* Theorems about the default storage handler for every number of clients, *)
(* keys and containers and every setting of slam_defense, std_data_copy    *)
(* and use_request_time; and that it implements ResultCache.               *)
(***************************************************************************)
EXTENDS StdCacheRefinement, FiniteSetTheorems, TLAPS

\* The unsigned counter of an entry stays in its range.
LEMMA CounterRange ==
    ASSUME NEW n \in 0..(RefMod - 1)
    PROVE  Inc(n) \in 0..(RefMod - 1) /\ Dec(n) \in 0..(RefMod - 1)
BY HandlerAssumption DEF Inc, Dec

\* An entry is not the mark of an empty slot.
LEMMA EntryIsRecord ==
    ASSUME NEW e \in Entry
    PROVE  /\ e.cached_query \in Data /\ e.deadline \in Nat
           /\ e.in_refresh \in BOOLEAN /\ e.references \in 0..(RefMod - 1)
BY DEF Entry

\* Freeing containers leaves a heap.
LEMMA ReleasedType ==
    ASSUME heap \in [Data -> Results \cup {None}], NEW ds
    PROVE  Released(ds) \in [Data -> Results \cup {None}]
BY DEF Released

LEMMA WithoutType ==
    ASSUME cache \in [Keys -> Entry \cup {NoEntry}], NEW k \in Keys
    PROVE  Without(k) \in [Keys -> Entry \cup {NoEntry}]
BY DEF Without

\* A lookup leaves a table.
LEMMA LookupType ==
    ASSUME cache \in [Keys -> Entry \cup {NoEntry}], NEW k \in Keys, NEW now
    PROVE  AfterLookup(k, now) \in [Keys -> Entry \cup {NoEntry}]
BY WithoutType DEF AfterLookup

LEMMA FindMissType ==
    ASSUME cache \in [Keys -> Entry \cup {NoEntry}], NEW k \in Keys, NEW now, FindMiss(k, now)
    PROVE  cache' \in [Keys -> Entry \cup {NoEntry}]
<1>1. CASE FindNothing(k, now)
  BY <1>1, LookupType DEF FindNothing
<1>2. CASE FindAskedToRefresh(k, now)
  <2>1. cache[k] \in Entry
    BY <1>2 DEF FindAskedToRefresh, AsksForRefresh, Cached
  <2>2. [cache[k] EXCEPT !.in_refresh = TRUE] \in Entry
    BY <2>1 DEF Entry
  <2> QED BY <1>2, <2>2 DEF FindAskedToRefresh
<1> QED BY <1>1, <1>2 DEF FindMiss

LEMMA AddType ==
    ASSUME cache \in [Keys -> Entry \cup {NoEntry}],
           NEW k \in Keys, NEW d \in Data, NEW ttl \in Nat, NEW now \in Nat,
           AddQuery(k, d, ttl, now)
    PROVE  cache' \in [Keys -> Entry \cup {NoEntry}]
<1>1. [cached_query |-> d, deadline |-> now + ttl, in_refresh |-> FALSE, references |-> 0]
        \in Entry
  BY HandlerAssumption DEF Entry
<1> QED BY <1>1 DEF AddQuery

\* Every client's notion of the current time is a time.
LEMMA NowType == ASSUME TypeOK, NEW c \in Clients PROVE Now(c) \in Nat
BY DEF TypeOK, Now

\* What a client becomes is of the right type.
LEMMA BecomeType ==
    ASSUME TypeOK, NEW c \in Clients, NEW s \in ProgramCounters,
           NEW k \in Keys \cup {None}, NEW d \in Data \cup {None}, Become(c, s, k, d)
    PROVE  /\ pc' \in [Clients -> ProgramCounters]
           /\ key' \in [Clients -> Keys \cup {None}]
           /\ held' \in [Clients -> Data \cup {None}]
BY DEF TypeOK, Become

LEMMA InitTypeOK == Init => TypeOK
<1> SUFFICES ASSUME Init PROVE TypeOK
  OBVIOUS
<1>1. cache \in [Keys -> Entry \cup {NoEntry}] /\ heap \in [Data -> Results \cup {None}]
  BY DEF Init, HandlerInit
<1>2. pc \in [Clients -> ProgramCounters] /\ reqTime \in [Clients -> Nat]
  BY DEF Init, ProgramCounters
<1>3. key \in [Clients -> Keys \cup {None}] /\ held \in [Clients -> Data \cup {None}]
  BY DEF Init
<1> QED BY <1>1, <1>2, <1>3 DEF Init, TypeOK

LEMMA InitWellFormed == Init => ClientsWellFormed
BY DEF Init, ClientsWellFormed

\* A client's pointers are set while it is busy and cleared when it is idle.
LEMMA BecomeWellFormed ==
    ASSUME TypeOK, ClientsWellFormed, NEW c \in Clients, NEW s, NEW k, NEW d,
           Become(c, s, k, d),
           IF s = "idle" THEN k = None /\ d = None ELSE k \in Keys /\ d \in Data
    PROVE  ClientsWellFormed'
BY DEF TypeOK, ClientsWellFormed, Become

-----------------------------------------------------------------------------
(***************************************************************************)
(* Types                                                                   *)
(***************************************************************************)

\* Every step of a client keeps the types, and its pointers well formed.
LEMMA ClientStepType ==
    ASSUME TypeOK, ClientsWellFormed, NEW c \in Clients,
           ProtocolStep(c) \/ ScriptStep(c)
    PROVE  TypeOK' /\ ClientsWellFormed'
<1> USE ClientAssumption
<1>0. /\ cache \in [Keys -> Entry \cup {NoEntry}]
      /\ heap \in [Data -> Results \cup {None}]
      /\ Now(c) \in Nat
  BY NowType DEF TypeOK
<1>a. ASSUME cache' \in [Keys -> Entry \cup {NoEntry}], heap' \in [Data -> Results \cup {None}],
             UNCHANGED <<clock, reqTime, orphaned>>,
             NEW s \in ProgramCounters, NEW k, NEW d, Become(c, s, k, d),
             IF s = "idle" THEN k = None /\ d = None ELSE k \in Keys /\ d \in Data
      PROVE  TypeOK' /\ ClientsWellFormed'
  BY <1>a, BecomeType, BecomeWellFormed DEF TypeOK, ProgramCounters
<1>b. ASSUME cache' \in [Keys -> Entry \cup {NoEntry}], heap' \in [Data -> Results \cup {None}],
             UNCHANGED <<clock, reqTime, orphaned, clientVars>>
      PROVE  TypeOK' /\ ClientsWellFormed'
  BY <1>b DEF TypeOK, ClientsWellFormed, clientVars
<1>c. {"idle", "recording", "replaying"} \subseteq ProgramCounters
  BY DEF ProgramCounters
<1>d. pc[c] # "idle" => key[c] \in Keys /\ held[c] \in Data
  BY DEF ClientsWellFormed
<1>1. CASE NewRequest(c)
  BY <1>1 DEF NewRequest, TypeOK, ClientsWellFormed, clientVars
<1>2. ASSUME NEW k \in Keys, LookupHit(c, k) PROVE TypeOK' /\ ClientsWellFormed'
  <2>1. PICK d \in Data : FindHit(k, Now(c), d) /\ Become(c, "replaying", k, d)
    BY <1>2 DEF LookupHit
  <2>2. Cached(k) /\ cache[k] \in Entry
    BY <1>0, <2>1 DEF FindHit, FindShared, FindCopied, Servable, Cached
  <2>3. cache' \in [Keys -> Entry \cup {NoEntry}]
    <3>1. [cache[k] EXCEPT !.references = Inc(@)] \in Entry
      BY <2>2, CounterRange DEF Entry
    <3> QED BY <1>0, <2>1, <3>1 DEF FindHit, FindShared, FindCopied, Lent
  <2>4. heap' \in [Data -> Results \cup {None}]
    <3>1. heap[cache[k].cached_query] \in Results \cup {None}
      BY <1>0, <2>2, EntryIsRecord
    <3> QED BY <1>0, <2>1, <3>1 DEF FindHit, FindShared, FindCopied
  <2> QED BY <1>2, <1>a, <1>c, <2>1, <2>3, <2>4 DEF LookupHit
<1>3. ASSUME NEW k \in Keys, LookupMiss(c, k) PROVE TypeOK' /\ ClientsWellFormed'
  <2>1. cache' \in [Keys -> Entry \cup {NoEntry}]
    BY <1>0, <1>3, FindMissType DEF LookupMiss
  <2>2. PICK d \in Fresh, r \in Answers[k] :
            /\ heap' = [Released(FreedByLookup(k, Now(c))) EXCEPT ![d] = r]
            /\ Become(c, "recording", k, d)
    BY <1>3 DEF LookupMiss
  <2>3. d \in Data /\ r \in Results
    BY <2>2 DEF Fresh
  <2>4. heap' \in [Data -> Results \cup {None}]
    BY <1>0, <2>2, <2>3, ReleasedType
  <2> QED BY <1>3, <1>a, <1>c, <2>1, <2>2, <2>3, <2>4 DEF LookupMiss
<1>4. CASE FinishReplay(c)
  <2>1. key[c] \in Keys /\ held[c] \in Data
    BY <1>4, <1>d DEF FinishReplay
  <2>2. cache' \in [Keys -> Entry \cup {NoEntry}]
    <3>1. CASE Cached(key[c])
      <4>1. cache[key[c]] \in Entry
        BY <1>0, <2>1, <3>1 DEF Cached
      <4>2. [cache[key[c]] EXCEPT !.references = Dec(@)] \in Entry
        BY <4>1, CounterRange DEF Entry
      <4> QED BY <1>0, <1>4, <2>1, <3>1, <4>2, WithoutType
              DEF FinishReplay, ReturnToCache, ReturnShared, ReturnCopied
    <3>2. CASE ~Cached(key[c])
      BY <1>0, <1>4, <3>2 DEF FinishReplay, ReturnToCache, ReturnShared, ReturnCopied
    <3> QED BY <3>1, <3>2
  <2>3. heap' \in [Data -> Results \cup {None}]
    BY <1>0, <1>4, ReleasedType DEF FinishReplay, ReturnToCache, ReturnShared, ReturnCopied
  <2> QED BY <1>4, <1>a, <1>c, <2>2, <2>3 DEF FinishReplay
<1>5. ASSUME NEW ttl \in Ttls, FinishRecord(c, ttl) PROVE TypeOK' /\ ClientsWellFormed'
  <2>1. key[c] \in Keys /\ held[c] \in Data /\ ttl \in Nat
    BY <1>5, <1>d DEF FinishRecord
  <2>2. cache' \in [Keys -> Entry \cup {NoEntry}] /\ heap' \in [Data -> Results \cup {None}]
    BY <1>0, <1>5, <2>1, AddType, ReleasedType DEF FinishRecord
  <2> QED BY <1>5, <1>a, <1>c, <2>2 DEF FinishRecord
<1>6. CASE FinishRefused(c) \/ Abandon(c)
  <2>1. cache' \in [Keys -> Entry \cup {NoEntry}] /\ heap' \in [Data -> Results \cup {None}]
    BY <1>0, <1>6, ReleasedType DEF FinishRefused, Abandon, AddRefused
  <2> QED BY <1>6, <1>a, <1>c, <2>1 DEF FinishRefused, Abandon
<1>7. ASSUME NEW k \in Keys, AskIsCached(c, k) PROVE TypeOK' /\ ClientsWellFormed'
  BY <1>0, <1>7, <1>b, LookupType, ReleasedType DEF AskIsCached, QueryIsCached
<1>8. ASSUME NEW k \in Keys, ScriptFind(c, k) PROVE TypeOK' /\ ClientsWellFormed'
  <2>1. cache' \in [Keys -> Entry \cup {NoEntry}]
    BY <1>0, <1>8, FindMissType DEF ScriptFind, PhpFind
  <2>2. heap' \in [Data -> Results \cup {None}]
    BY <1>0, <1>8, ReleasedType DEF ScriptFind, PhpFind
  <2> QED BY <1>8, <1>b, <2>1, <2>2 DEF ScriptFind
<1>9. ASSUME NEW k \in Keys, NEW ttl \in Ttls, ScriptAdd(c, k, ttl)
      PROVE  TypeOK' /\ ClientsWellFormed'
  <2>1. CASE AddRefused(k, Now(c)) /\ UNCHANGED heap
    BY <1>0, <1>9, <1>b, <2>1 DEF ScriptAdd, AddRefused
  <2>2. CASE \E d \in Fresh, r \in Answers[k] :
               /\ AddQuery(k, d, ttl, Now(c))
               /\ heap' = [Released(FreedByAdd(k)) EXCEPT ![d] = r]
    <3>1. PICK d \in Fresh, r \in Answers[k] :
               /\ AddQuery(k, d, ttl, Now(c))
               /\ heap' = [Released(FreedByAdd(k)) EXCEPT ![d] = r]
      BY <2>2
    <3>2. d \in Data /\ r \in Results /\ ttl \in Nat
      BY <3>1 DEF Fresh
    <3>3. cache' \in [Keys -> Entry \cup {NoEntry}] /\ heap' \in [Data -> Results \cup {None}]
      BY <1>0, <3>1, <3>2, AddType, ReleasedType
    <3> QED BY <1>9, <1>b, <3>3 DEF ScriptAdd
  <2> QED BY <1>9, <2>1, <2>2 DEF ScriptAdd
<1> QED BY <1>1, <1>2, <1>3, <1>4, <1>5, <1>6, <1>7, <1>8, <1>9 DEF ProtocolStep, ScriptStep

LEMMA StepType == TypeOK /\ ClientsWellFormed /\ [Next]_vars => TypeOK' /\ ClientsWellFormed'
<1> SUFFICES ASSUME TypeOK, ClientsWellFormed, [Next]_vars PROVE TypeOK' /\ ClientsWellFormed'
  OBVIOUS
<1>1. CASE UNCHANGED vars
  BY <1>1 DEF vars, TypeOK, ClientsWellFormed
<1>2. CASE Tick
  BY <1>2 DEF Tick, TypeOK, ClientsWellFormed, clientVars
<1>3. CASE Clear
  <2>1. heap' \in [Data -> Results \cup {None}]
    BY <1>3, ReleasedType DEF Clear, ClearCache, TypeOK
  <2>2. orphaned' \in BOOLEAN
    BY <1>3 DEF Clear, TypeOK
  <2>3. cache' \in [Keys -> Entry \cup {NoEntry}]
    BY <1>3 DEF Clear, ClearCache
  <2> QED BY <1>3, <2>1, <2>2, <2>3 DEF Clear, TypeOK, ClientsWellFormed, clientVars
<1>4. CASE \E c \in Clients : ProtocolStep(c) \/ ScriptStep(c)
  BY <1>4, ClientStepType
<1> QED BY <1>1, <1>2, <1>3, <1>4 DEF Next, NextNoClear, NextProtocol

\* The variables always have their types, whatever clients and scripts do.
THEOREM TypeCorrect == Spec => []TypeOK
<1>1. Init => TypeOK /\ ClientsWellFormed
  BY InitTypeOK, InitWellFormed
<1>2. TypeOK /\ ClientsWellFormed /\ [Next]_vars => (TypeOK /\ ClientsWellFormed)'
  BY StepType
<1> QED BY <1>1, <1>2, PTL DEF Spec

-----------------------------------------------------------------------------
(***************************************************************************)
(* Reference counting                                                      *)
(***************************************************************************)

\* Readers of a key are finitely many, and fewer than the counter can count.
LEMMA ReadersFinite ==
    ASSUME NEW k
    PROVE  /\ IsFiniteSet(Readers(k))
           /\ Cardinality(Readers(k)) \in 0..(RefMod - 1)
<1>1. Readers(k) \subseteq Clients
  BY DEF Readers
<1>2. IsFiniteSet(Readers(k)) /\ Cardinality(Readers(k)) <= Cardinality(Clients)
  BY <1>1, FS_Subset, CounterAssumption
<1>3. Cardinality(Readers(k)) \in Nat /\ Cardinality(Clients) \in Nat
  BY <1>2, FS_CardinalityType, CounterAssumption
<1> QED BY <1>2, <1>3, CounterAssumption, HandlerAssumption

\* The container of an entry that is lent to nobody is in no client's hands.
LEMMA NotLent ==
    ASSUME TypeOK, ClientsWellFormed, Consistent,
           NEW k \in Keys, Cached(k), cache[k].references = 0
    PROVE  /\ \A c \in Clients : held[c] # cache[k].cached_query
           /\ ~DataCopy => \A c \in Clients : pc[c] = "replaying" => key[c] # k
<1>1. cache[k] \in Entry
  BY DEF TypeOK, Cached
<1>2. ASSUME ~DataCopy, NEW c \in Clients, pc[c] = "replaying", key[c] = k PROVE FALSE
  <2>1. Cardinality(Readers(k)) = 0
    BY <1>2 DEF Consistent, CountersAreReaders
  <2>2. Readers(k) = {}
    BY <2>1, ReadersFinite, FS_EmptySet
  <2> QED BY <1>2, <2>2 DEF Readers
<1>3. ASSUME NEW c \in Clients, held[c] = cache[k].cached_query PROVE FALSE
  <2>1. held[c] # None /\ pc[c] # "idle"
    BY <1>1, <1>3, HandlerAssumption, EntryIsRecord DEF ClientsWellFormed
  <2>2. pc[c] = "replaying" /\ ~DataCopy
    BY <1>3, <2>1 DEF Consistent, OwnDataIsPrivate
  <2>3. key[c] \in Keys /\ Cached(key[c]) /\ cache[key[c]].cached_query = held[c]
    BY <2>1, <2>2 DEF Consistent, LentIsCached, ClientsWellFormed
  <2>4. key[c] = k
    BY <1>3, <2>3 DEF Consistent, EntriesAreDistinct
  <2> QED BY <1>2, <2>2, <2>4
<1> QED BY <1>2, <1>3

\* A record with the fields of an entry is not the mark of an empty slot.
LEMMA DataNotEntry ==
    ASSUME NEW d \in Data, NEW t \in Nat
    PROVE  [cached_query |-> d, deadline |-> t, in_refresh |-> FALSE, references |-> 0] # NoEntry
<1>1. [cached_query |-> d, deadline |-> t, in_refresh |-> FALSE, references |-> 0] \in Entry
  BY HandlerAssumption DEF Entry
<1> QED BY <1>1, NoEntryAssumption

LEMMA UnchangedKeeps ==
    ASSUME Consistent, cache' = cache, heap' = heap, UNCHANGED clientVars
    PROVE  Consistent'
<1>1. pc' = pc /\ key' = key /\ held' = held
  BY DEF clientVars
<1>2. EntriesHoldAnswers' /\ EntriesAreDistinct'
  BY DEF Consistent, EntriesHoldAnswers, EntriesAreDistinct, Cached
<1>3. ClientsHoldAnswers' /\ LentIsCached' /\ OwnDataIsPrivate'
  BY <1>1 DEF Consistent, ClientsHoldAnswers, LentIsCached, OwnDataIsPrivate, Cached
<1>4. CountersAreReaders'
  <2>1. \A k : Readers(k)' = Readers(k)
    BY <1>1 DEF Readers
  <2> QED BY <2>1 DEF Consistent, CountersAreReaders, Cached
<1>5. NothingLeaks'
  BY <1>1 DEF Consistent, NothingLeaks, InUse, Cached
<1> QED BY <1>2, <1>3, <1>4, <1>5 DEF Consistent

\* What a lookup of k does to the table: it deletes the entry of k or leaves
\* every entry its container and its counter.
TableAfterLookup(k, now) ==
    \A j \in Keys :
        /\ Cached(j)' <=> Cached(j) /\ ~(j = k /\ Killable(k, now))
        /\ Cached(j)' => /\ cache'[j].cached_query = cache[j].cached_query
                         /\ cache'[j].references = cache[j].references

LEMMA AfterLookupTable ==
    ASSUME TypeOK, NEW k \in Keys, NEW now, cache' = AfterLookup(k, now)
    PROVE  TableAfterLookup(k, now)
BY DEF TypeOK, TableAfterLookup, AfterLookup, Without, Cached, Killable, Dead

LEMMA FindMissTable ==
    ASSUME TypeOK, NEW k \in Keys, NEW now, FindMiss(k, now)
    PROVE  TableAfterLookup(k, now)
<1>1. CASE FindNothing(k, now)
  BY <1>1, AfterLookupTable DEF FindNothing
<1>2. CASE FindAskedToRefresh(k, now)
  <2>1. cache[k] \in Entry /\ ~Dead(k, now)
    BY <1>2 DEF FindAskedToRefresh, AsksForRefresh, TypeOK, Cached
  <2>2. [cache[k] EXCEPT !.in_refresh = TRUE] \in Entry
    BY <2>1 DEF Entry
  <2>3. NoEntry \notin Entry
    BY NoEntryAssumption
  <2> QED BY <1>2, <2>1, <2>2, <2>3
          DEF FindAskedToRefresh, TableAfterLookup, TypeOK, Cached, Killable, Entry
<1> QED BY <1>1, <1>2 DEF FindMiss

\* Containers freed by a lookup: that of the entry it deletes.
LEMMA FreedByLookupIs ==
    ASSUME NEW k \in Keys, NEW now
    PROVE  FreedByLookup(k, now) = IF Killable(k, now) THEN {cache[k].cached_query} ELSE {}
BY DEF FreedByLookup, DestroyedBy, Killable, Dead, Cached

\* A lookup that changes nothing but the table and the memory it frees.
LEMMA LookupKeeps ==
    ASSUME TypeOK, ClientsWellFormed, Consistent, NEW k \in Keys, NEW now,
           TableAfterLookup(k, now), heap' = Released(FreedByLookup(k, now)),
           UNCHANGED clientVars
    PROVE  Consistent'
<1> DEFINE freed == IF Killable(k, now) THEN {cache[k].cached_query} ELSE {}
<1>1. heap' = [d \in Data |-> IF d \in freed THEN None ELSE heap[d]]
  BY FreedByLookupIs DEF Released
<1>2. \A c \in Clients : held[c] \notin freed
  BY NotLent DEF Killable, Dead
<1>3. \A j \in Keys : Cached(j)' => Cached(j) /\ cache[j].cached_query \in Data \ freed
                                    /\ cache'[j].cached_query = cache[j].cached_query
                                    /\ cache'[j].references = cache[j].references
  <2> SUFFICES ASSUME NEW j \in Keys, Cached(j)'
               PROVE  /\ Cached(j) /\ cache[j].cached_query \in Data \ freed
                      /\ cache'[j].cached_query = cache[j].cached_query
                      /\ cache'[j].references = cache[j].references
    OBVIOUS
  <2>1. Cached(j) /\ (Killable(k, now) => j # k)
    BY DEF TableAfterLookup
  <2>2. cache[j].cached_query \in Data
    BY <2>1 DEF TypeOK, Cached, Entry
  <2>3. cache[j].cached_query \notin freed
    BY <2>1 DEF Consistent, EntriesAreDistinct, Killable, Dead
  <2> QED BY <2>1, <2>2, <2>3 DEF TableAfterLookup
<1>4. pc' = pc /\ key' = key /\ held' = held
  BY DEF clientVars
<1> HIDE DEF freed
<1>5. EntriesHoldAnswers'
  BY <1>1, <1>3 DEF Consistent, EntriesHoldAnswers
<1>6. ClientsHoldAnswers'
  <2> SUFFICES ASSUME NEW c \in Clients, pc[c] # "idle" PROVE heap'[held[c]] \in Answers[key[c]]
    BY <1>4 DEF ClientsHoldAnswers
  <2>1. held[c] \in Data /\ held[c] \notin freed
    BY <1>2 DEF ClientsWellFormed
  <2> QED BY <1>1, <2>1 DEF Consistent, ClientsHoldAnswers
<1>7. EntriesAreDistinct'
  BY <1>3 DEF Consistent, EntriesAreDistinct
<1>8. LentIsCached'
  <2> SUFFICES ASSUME ~DataCopy, NEW c \in Clients, pc[c] = "replaying"
               PROVE  cache'[key[c]] # NoEntry /\ cache'[key[c]].cached_query = held[c]
    BY <1>4 DEF LentIsCached, Cached
  <2>1. key[c] \in Keys /\ Cached(key[c]) /\ cache[key[c]].cached_query = held[c]
    BY DEF Consistent, LentIsCached, ClientsWellFormed
  <2>2. Killable(k, now) => key[c] # k
    BY NotLent DEF Killable, Dead
  <2> QED BY <2>1, <2>2 DEF TableAfterLookup, Cached
<1>9. OwnDataIsPrivate'
  BY <1>3, <1>4 DEF Consistent, OwnDataIsPrivate
<1>10. CountersAreReaders'
  <2>1. \A j : Readers(j)' = Readers(j)
    BY <1>4 DEF Readers
  <2> QED BY <1>3, <2>1 DEF Consistent, CountersAreReaders
<1>11. NothingLeaks'
  <2> SUFFICES ASSUME NEW d \in Data, heap'[d] # None PROVE InUse(d)'
    BY DEF NothingLeaks
  <2>1. d \notin freed /\ heap[d] # None
    BY <1>1
  <2>2. CASE \E c \in Clients : held[c] = d
    BY <1>4, <2>2 DEF InUse
  <2>3. CASE \E j \in Keys : Cached(j) /\ cache[j].cached_query = d
    <3>1. PICK j \in Keys : Cached(j) /\ cache[j].cached_query = d
      BY <2>3
    <3>2. Cached(j)'
      BY <2>1, <3>1 DEF TableAfterLookup, freed
    <3> QED BY <1>3, <3>1, <3>2 DEF InUse
  <2> QED BY <2>1, <2>2, <2>3 DEF Consistent, NothingLeaks, InUse
<1> QED BY <1>5, <1>6, <1>7, <1>8, <1>9, <1>10, <1>11 DEF Consistent

\* A container malloc returns is in no client's hands and in no entry.
LEMMA FreshIs ==
    ASSUME NEW d \in Fresh
    PROVE  /\ d \in Data /\ d # None /\ heap[d] = None
           /\ \A c \in Clients : held[c] # d
           /\ \A k \in Keys : Cached(k) => cache[k].cached_query # d
BY HandlerAssumption DEF Fresh

\* Answers are contents, not the mark of free memory.
LEMMA AnswersAreContents == ASSUME NEW k \in Keys PROVE None \notin Answers[k]
BY HandlerAssumption, ClientAssumption

LEMMA LookupMissKeeps ==
    ASSUME TypeOK, ClientsWellFormed, Consistent, NEW c \in Clients, NEW k \in Keys,
           LookupMiss(c, k)
    PROVE  Consistent'
<1> DEFINE now == Now(c)
           freed == IF Killable(k, now) THEN {cache[k].cached_query} ELSE {}
<1>1. PICK d \in Fresh, r \in Answers[k] :
          /\ heap' = [Released(FreedByLookup(k, now)) EXCEPT ![d] = r]
          /\ Become(c, "recording", k, d)
  BY DEF LookupMiss
<1>2. /\ d \in Data /\ d # None /\ heap[d] = None
      /\ \A o \in Clients : held[o] # d
      /\ \A j \in Keys : Cached(j) => cache[j].cached_query # d
  BY <1>1, FreshIs
<1>3. heap' = [x \in Data |-> IF x = d THEN r ELSE IF x \in freed THEN None ELSE heap[x]]
  BY <1>1, FreedByLookupIs DEF Released
<1>4. TableAfterLookup(k, now)
  BY FindMissTable DEF LookupMiss
<1>5. \A o \in Clients : held[o] \notin freed
  BY NotLent DEF Killable, Dead
<1>6. \A j \in Keys : Cached(j)' => /\ Cached(j)
                                    /\ cache[j].cached_query \in Data \ freed
                                    /\ cache[j].cached_query # d
                                    /\ cache'[j].cached_query = cache[j].cached_query
                                    /\ cache'[j].references = cache[j].references
  <2> SUFFICES ASSUME NEW j \in Keys, Cached(j)'
               PROVE  /\ Cached(j) /\ cache[j].cached_query \in Data \ freed
                      /\ cache[j].cached_query # d
                      /\ cache'[j].cached_query = cache[j].cached_query
                      /\ cache'[j].references = cache[j].references
    OBVIOUS
  <2>1. Cached(j) /\ (Killable(k, now) => j # k)
    BY <1>4 DEF TableAfterLookup
  <2>2. cache[j].cached_query \in Data
    BY <2>1 DEF TypeOK, Cached, Entry
  <2>3. cache[j].cached_query \notin freed
    BY <2>1 DEF Consistent, EntriesAreDistinct, Killable, Dead
  <2> QED BY <1>2, <1>4, <2>1, <2>2, <2>3 DEF TableAfterLookup
<1>7. /\ \A o \in Clients : pc'[o] = IF o = c THEN "recording" ELSE pc[o]
      /\ \A o \in Clients : key'[o] = IF o = c THEN k ELSE key[o]
      /\ \A o \in Clients : held'[o] = IF o = c THEN d ELSE held[o]
  BY <1>1 DEF Become, TypeOK
<1>8. pc[c] = "idle"
  BY DEF LookupMiss
<1> HIDE DEF freed, now
<1>9. EntriesHoldAnswers'
  BY <1>3, <1>6 DEF Consistent, EntriesHoldAnswers
<1>10. ClientsHoldAnswers'
  <2> SUFFICES ASSUME NEW o \in Clients, pc'[o] # "idle" PROVE heap'[held'[o]] \in Answers[key'[o]]
    BY DEF ClientsHoldAnswers
  <2>1. CASE o = c
    BY <1>1, <1>2, <1>3, <1>7, <2>1
  <2>2. CASE o # c
    <3>1. held[o] \in Data /\ held[o] \notin freed /\ held[o] # d /\ pc[o] # "idle"
      BY <1>2, <1>5, <1>7, <2>2 DEF ClientsWellFormed
    <3> QED BY <1>3, <1>7, <2>2, <3>1 DEF Consistent, ClientsHoldAnswers
  <2> QED BY <2>1, <2>2
<1>11. EntriesAreDistinct'
  BY <1>6 DEF Consistent, EntriesAreDistinct
<1>12. LentIsCached'
  <2> SUFFICES ASSUME ~DataCopy, NEW o \in Clients, pc'[o] = "replaying"
               PROVE  cache'[key'[o]] # NoEntry /\ cache'[key'[o]].cached_query = held'[o]
    BY DEF LentIsCached, Cached
  <2>1. o # c /\ pc[o] = "replaying" /\ key'[o] = key[o] /\ held'[o] = held[o]
    BY <1>7
  <2>2. key[o] \in Keys /\ Cached(key[o]) /\ cache[key[o]].cached_query = held[o]
    BY <2>1 DEF Consistent, LentIsCached, ClientsWellFormed
  <2>3. Killable(k, now) => key[o] # k
    BY <2>1, NotLent DEF Killable, Dead
  <2> QED BY <1>4, <2>1, <2>2, <2>3 DEF TableAfterLookup, Cached
<1>13. OwnDataIsPrivate'
  <2> SUFFICES ASSUME NEW o \in Clients, held'[o] # None, pc'[o] = "replaying" => DataCopy
               PROVE  /\ \A x \in Clients \ {o} : held'[x] # held'[o]
                      /\ \A j \in Keys : Cached(j)' => cache'[j].cached_query # held'[o]
    BY DEF OwnDataIsPrivate
  <2>1. CASE o = c
    BY <1>2, <1>6, <1>7, <2>1
  <2>2. CASE o # c
    BY <1>2, <1>6, <1>7, <2>2 DEF Consistent, OwnDataIsPrivate
  <2> QED BY <2>1, <2>2
<1>14. CountersAreReaders'
  <2>1. \A j : Readers(j)' = Readers(j)
    BY <1>7, <1>8 DEF Readers
  <2> QED BY <1>6, <2>1 DEF Consistent, CountersAreReaders
<1>15. NothingLeaks'
  <2> SUFFICES ASSUME NEW x \in Data, heap'[x] # None PROVE InUse(x)'
    BY DEF NothingLeaks
  <2>1. CASE x = d
    BY <1>7, <2>1 DEF InUse
  <2>2. CASE x # d
    <3>1. x \notin freed /\ heap[x] # None
      BY <1>3, <2>2
    <3>2. CASE \E o \in Clients : held[o] = x
      <4>1. PICK o \in Clients : held[o] = x
        BY <3>2
      <4>2. o # c
        BY <1>8, <3>1, <4>1, HandlerAssumption DEF ClientsWellFormed
      <4> QED BY <1>7, <4>1, <4>2 DEF InUse
    <3>3. CASE \E j \in Keys : Cached(j) /\ cache[j].cached_query = x
      <4>1. PICK j \in Keys : Cached(j) /\ cache[j].cached_query = x
        BY <3>3
      <4>2. Cached(j)'
        BY <1>4, <3>1, <4>1 DEF TableAfterLookup, freed
      <4> QED BY <1>6, <4>1, <4>2 DEF InUse
    <3> QED BY <3>1, <3>2, <3>3 DEF Consistent, NothingLeaks, InUse
  <2> QED BY <2>1, <2>2
<1> QED BY <1>9, <1>10, <1>11, <1>12, <1>13, <1>14, <1>15 DEF Consistent

\* A client is lent the container of an entry, and the entry counts it.
LEMMA LookupSharedKeeps ==
    ASSUME TypeOK, ClientsWellFormed, Consistent, NEW c \in Clients, NEW k \in Keys,
           NEW d \in Data, pc[c] = "idle", FindShared(k, Now(c), d), Become(c, "replaying", k, d)
    PROVE  Consistent'
<1>1. /\ ~DataCopy /\ Cached(k) /\ d = cache[k].cached_query /\ heap' = heap
      /\ cache' = [cache EXCEPT ![k].references = Inc(@)]
  BY DEF FindShared, Servable, Lent
<1>2. cache[k] \in Entry /\ [cache[k] EXCEPT !.references = Inc(@)] \in Entry
  <2>1. cache[k] \in Entry
    BY <1>1 DEF TypeOK, Cached
  <2> QED BY <2>1, CounterRange DEF Entry
<1>3. \A j \in Keys : /\ Cached(j)' <=> Cached(j)
                      /\ cache'[j].cached_query = cache[j].cached_query
                      /\ j # k => cache'[j].references = cache[j].references
  BY <1>1, <1>2, NoEntryAssumption DEF TypeOK, Cached, Entry
<1>4. cache'[k].references = Inc(cache[k].references)
  BY <1>1, <1>2 DEF TypeOK, Entry
<1>5. /\ \A o \in Clients : pc'[o] = IF o = c THEN "replaying" ELSE pc[o]
      /\ \A o \in Clients : key'[o] = IF o = c THEN k ELSE key[o]
      /\ \A o \in Clients : held'[o] = IF o = c THEN d ELSE held[o]
  BY DEF Become, TypeOK
<1>6. EntriesHoldAnswers'
  BY <1>1, <1>3 DEF Consistent, EntriesHoldAnswers
<1>7. ClientsHoldAnswers'
  BY <1>1, <1>5 DEF Consistent, EntriesHoldAnswers, ClientsHoldAnswers
<1>8. EntriesAreDistinct'
  BY <1>3 DEF Consistent, EntriesAreDistinct
<1>9. LentIsCached'
  <2> SUFFICES ASSUME NEW o \in Clients, pc'[o] = "replaying"
               PROVE  cache'[key'[o]] # NoEntry /\ cache'[key'[o]].cached_query = held'[o]
    BY DEF LentIsCached, Cached
  <2>1. CASE o = c
    BY <1>1, <1>3, <1>5, <2>1 DEF Cached
  <2>2. CASE o # c
    <3>1. key[o] \in Keys /\ Cached(key[o]) /\ cache[key[o]].cached_query = held[o]
      BY <1>1, <1>5, <2>2 DEF Consistent, LentIsCached, ClientsWellFormed
    <3> QED BY <1>3, <1>5, <2>2, <3>1 DEF Cached
  <2> QED BY <2>1, <2>2
<1>10. OwnDataIsPrivate'
  <2> SUFFICES ASSUME NEW o \in Clients, held'[o] # None, pc'[o] # "replaying"
               PROVE  /\ \A x \in Clients \ {o} : held'[x] # held'[o]
                      /\ \A j \in Keys : Cached(j)' => cache'[j].cached_query # held'[o]
    BY <1>1 DEF OwnDataIsPrivate
  <2>1. o # c /\ pc[o] # "replaying" /\ held'[o] = held[o]
    BY <1>5
  <2> QED BY <1>1, <1>3, <1>5, <2>1 DEF Consistent, OwnDataIsPrivate
<1>11. CountersAreReaders'
  <2>1. /\ Readers(k)' = Readers(k) \cup {c} /\ c \notin Readers(k)
        /\ \A j \in Keys \ {k} : Readers(j)' = Readers(j)
    BY <1>5 DEF Readers
  <2>2. Cardinality(Readers(k)') = Cardinality(Readers(k)) + 1
    BY <2>1, ReadersFinite, FS_AddElement
  <2>3. Cardinality(Readers(k)') \in 0..(RefMod - 1)
    <3>1. Readers(k)' \subseteq Clients
      BY DEF Readers
    <3>2. Cardinality(Readers(k)') <= Cardinality(Clients) /\ IsFiniteSet(Readers(k)')
      BY <3>1, FS_Subset, CounterAssumption
    <3> QED BY <3>2, FS_CardinalityType, CounterAssumption, HandlerAssumption
  <2>4. cache[k].references = Cardinality(Readers(k))
    BY <1>1 DEF Consistent, CountersAreReaders
  <2>5. cache'[k].references = Cardinality(Readers(k)')
    BY <1>4, <2>2, <2>3, <2>4, ReadersFinite, HandlerAssumption DEF Inc
  <2> QED BY <1>1, <1>3, <2>1, <2>5 DEF Consistent, CountersAreReaders
<1>12. NothingLeaks'
  <2> SUFFICES ASSUME NEW x \in Data, heap[x] # None PROVE InUse(x)'
    BY <1>1 DEF NothingLeaks
  <2>1. CASE \E o \in Clients : held[o] = x
    <3>1. PICK o \in Clients : held[o] = x
      BY <2>1
    <3>2. o # c
      BY <3>1, HandlerAssumption DEF ClientsWellFormed
    <3> QED BY <1>5, <3>1, <3>2 DEF InUse
  <2>2. CASE \E j \in Keys : Cached(j) /\ cache[j].cached_query = x
    BY <1>3, <2>2 DEF InUse
  <2> QED BY <2>1, <2>2 DEF Consistent, NothingLeaks, InUse
<1> QED BY <1>6, <1>7, <1>8, <1>9, <1>10, <1>11, <1>12 DEF Consistent

\* A client is lent a copy of its own.
LEMMA LookupCopiedKeeps ==
    ASSUME TypeOK, ClientsWellFormed, Consistent, NEW c \in Clients, NEW k \in Keys,
           NEW d \in Fresh, pc[c] = "idle", FindCopied(k, Now(c), d), Become(c, "replaying", k, d)
    PROVE  Consistent'
<1>1. /\ DataCopy /\ Cached(k) /\ cache' = cache
      /\ heap' = [heap EXCEPT ![d] = heap[cache[k].cached_query]]
  BY DEF FindCopied, Servable
<1>2. /\ d \in Data /\ d # None /\ heap[d] = None
      /\ \A o \in Clients : held[o] # d
      /\ \A j \in Keys : Cached(j) => cache[j].cached_query # d
  BY FreshIs
<1>3. /\ \A o \in Clients : pc'[o] = IF o = c THEN "replaying" ELSE pc[o]
      /\ \A o \in Clients : key'[o] = IF o = c THEN k ELSE key[o]
      /\ \A o \in Clients : held'[o] = IF o = c THEN d ELSE held[o]
  BY DEF Become, TypeOK
<1>4. \A x : x \in Data /\ x # d => heap'[x] = heap[x]
  BY <1>1 DEF TypeOK
<1>5. heap'[d] \in Answers[k]
  BY <1>1, <1>2 DEF TypeOK, Consistent, EntriesHoldAnswers
<1>6. \A j \in Keys : Cached(j)' <=> Cached(j)
  BY <1>1 DEF Cached
<1>7. \A j \in Keys : Cached(j) => cache[j].cached_query \in Data
  BY DEF TypeOK, Cached, Entry
<1>8. EntriesHoldAnswers'
  BY <1>1, <1>2, <1>4, <1>6, <1>7 DEF Consistent, EntriesHoldAnswers
<1>9. ClientsHoldAnswers'
  <2> SUFFICES ASSUME NEW o \in Clients, pc'[o] # "idle" PROVE heap'[held'[o]] \in Answers[key'[o]]
    BY DEF ClientsHoldAnswers
  <2>1. CASE o = c
    BY <1>3, <1>5, <2>1
  <2>2. CASE o # c
    BY <1>2, <1>3, <1>4, <2>2 DEF Consistent, ClientsHoldAnswers, ClientsWellFormed
  <2> QED BY <2>1, <2>2
<1>10. EntriesAreDistinct' /\ LentIsCached'
  BY <1>1, <1>6 DEF Consistent, EntriesAreDistinct, LentIsCached
<1>11. OwnDataIsPrivate'
  BY <1>1, <1>2, <1>3, <1>6 DEF Consistent, OwnDataIsPrivate
<1>12. CountersAreReaders'
  BY <1>1, <1>6 DEF Consistent, CountersAreReaders
<1>13. NothingLeaks'
  <2> SUFFICES ASSUME NEW x \in Data, heap'[x] # None, x # d PROVE InUse(x)'
    BY <1>3 DEF NothingLeaks, InUse
  <2>1. CASE \E o \in Clients : held[o] = x
    <3>1. PICK o \in Clients : held[o] = x
      BY <2>1
    <3>2. o # c
      BY <3>1, HandlerAssumption DEF ClientsWellFormed
    <3> QED BY <1>3, <3>1, <3>2 DEF InUse
  <2>2. CASE \E j \in Keys : Cached(j) /\ cache[j].cached_query = x
    BY <1>1, <1>6, <2>2 DEF InUse
  <2> QED BY <1>4, <2>1, <2>2 DEF Consistent, NothingLeaks, InUse
<1> QED BY <1>8, <1>9, <1>10, <1>11, <1>12, <1>13 DEF Consistent

\* A client goes idle.
LEMMA BecomeIdle ==
    ASSUME TypeOK, NEW c \in Clients, Become(c, "idle", None, None)
    PROVE  /\ \A o \in Clients : pc'[o] = IF o = c THEN "idle" ELSE pc[o]
           /\ \A o \in Clients : key'[o] = IF o = c THEN None ELSE key[o]
           /\ \A o \in Clients : held'[o] = IF o = c THEN None ELSE held[o]
BY DEF Become, TypeOK

\* A client returns the container it was lent: the counter goes down, and the
\* last client to return an expired entry deletes it.
LEMMA ReturnSharedKeeps ==
    ASSUME TypeOK, ClientsWellFormed, Consistent, NEW c \in Clients, pc[c] = "replaying",
           ReturnShared(key[c], Now(c)), Become(c, "idle", None, None)
    PROVE  Consistent'
<1> PICK k : k = key[c]
  OBVIOUS
<1> PICK d : d = held[c]
  OBVIOUS
<1> PICK last \in BOOLEAN : last <=> LastReturn(k, Now(c))
  BY DEF LastReturn
<1>1. /\ ~DataCopy /\ k \in Keys /\ d \in Data
      /\ Cached(k) /\ cache[k].cached_query = d
  BY DEF ReturnShared, ClientsWellFormed, Consistent, LentIsCached
<1>2. /\ \A o \in Clients : pc'[o] = IF o = c THEN "idle" ELSE pc[o]
      /\ \A o \in Clients : key'[o] = IF o = c THEN None ELSE key[o]
      /\ \A o \in Clients : held'[o] = IF o = c THEN None ELSE held[o]
  BY BecomeIdle
<1>3. /\ cache[k] \in Entry
      /\ cache[k].references = Cardinality(Readers(k))
  BY <1>1 DEF TypeOK, Cached, Consistent, CountersAreReaders
<1>4. /\ c \in Readers(k) /\ Readers(k)' = Readers(k) \ {c}
      /\ \A j \in Keys \ {k} : Readers(j)' = Readers(j)
  BY <1>2 DEF Readers
<1>5. /\ Cardinality(Readers(k)') = Cardinality(Readers(k)) - 1
      /\ Cardinality(Readers(k)') \in Nat
  BY <1>4, ReadersFinite, FS_RemoveElement, FS_CardinalityType
<1>6. Dec(cache[k].references) = Cardinality(Readers(k)')
  BY <1>3, <1>5, ReadersFinite, HandlerAssumption DEF Dec
<1>7. last => \A o \in Clients \ {c} : held[o] # d
  <2> SUFFICES ASSUME last, NEW o \in Clients \ {c}, held[o] = d PROVE FALSE
    OBVIOUS
  <2>1. Readers(k)' = {}
    BY <1>4, <1>5, <1>6, ReadersFinite, FS_RemoveElement, FS_EmptySet DEF LastReturn
  <2>2. o \notin Readers(k)
    BY <1>4, <2>1
  <2>3. held[o] # None /\ pc[o] # "idle"
    BY <1>1, HandlerAssumption DEF ClientsWellFormed
  <2>4. pc[o] = "replaying"
    BY <1>1, <2>3 DEF Consistent, OwnDataIsPrivate
  <2>5. key[o] \in Keys /\ Cached(key[o]) /\ cache[key[o]].cached_query = d
    BY <1>1, <2>4 DEF Consistent, LentIsCached, ClientsWellFormed
  <2>6. key[o] = k
    BY <1>1, <2>5 DEF Consistent, EntriesAreDistinct
  <2> QED BY <2>2, <2>4, <2>6 DEF Readers
<1>8. /\ cache' = IF last THEN Without(k) ELSE [cache EXCEPT ![k].references = Dec(@)]
      /\ heap' = IF last THEN Released({d}) ELSE heap
  BY <1>1 DEF ReturnShared
<1>9. [cache[k] EXCEPT !.references = Dec(@)] \in Entry
  BY <1>3, CounterRange DEF Entry
<1>10. \A j \in Keys : /\ Cached(j)' <=> Cached(j) /\ ~(last /\ j = k)
                       /\ Cached(j)' => /\ cache'[j].cached_query = cache[j].cached_query
                                        /\ j # k => cache'[j].references = cache[j].references
  <2> SUFFICES ASSUME NEW j \in Keys
               PROVE  /\ Cached(j)' <=> Cached(j) /\ ~(last /\ j = k)
                      /\ Cached(j)' => /\ cache'[j].cached_query = cache[j].cached_query
                                       /\ j # k => cache'[j].references = cache[j].references
    OBVIOUS
  <2>1. CASE last
    BY <1>8, <2>1 DEF Without, TypeOK, Cached
  <2>2. CASE ~last /\ j # k
    BY <1>8, <2>2 DEF TypeOK, Cached
  <2>3. CASE ~last /\ j = k
    <3>1. cache'[k] = [cache[k] EXCEPT !.references = Dec(@)]
      BY <1>1, <1>8, <2>3 DEF TypeOK
    <3>2. cache'[k] \in Entry /\ cache'[k] # NoEntry
      BY <1>9, <3>1, NoEntryAssumption
    <3>3. cache'[k].cached_query = cache[k].cached_query
      BY <1>3, <3>1 DEF Entry
    <3> QED BY <1>1, <2>3, <3>2, <3>3 DEF Cached
  <2> QED BY <2>1, <2>2, <2>3
<1>11. ~last => cache'[k].references = Dec(cache[k].references)
  <2> SUFFICES ASSUME ~last PROVE cache'[k].references = Dec(cache[k].references)
    OBVIOUS
  <2>1. cache'[k] = [cache[k] EXCEPT !.references = Dec(@)]
    BY <1>1, <1>8 DEF TypeOK
  <2> QED BY <1>3, <2>1 DEF Entry
<1>12. \A x \in Data : heap'[x] = IF last /\ x = d THEN None ELSE heap[x]
  BY <1>8 DEF Released
<1>13. \A j \in Keys : Cached(j)' => /\ cache[j].cached_query \in Data
                                     /\ last => cache[j].cached_query # d
  BY <1>1, <1>10 DEF Consistent, EntriesAreDistinct, TypeOK, Cached, Entry
<1>14. EntriesHoldAnswers'
  BY <1>10, <1>12, <1>13 DEF Consistent, EntriesHoldAnswers
<1>15. ClientsHoldAnswers'
  <2> SUFFICES ASSUME NEW o \in Clients, pc'[o] # "idle" PROVE heap'[held'[o]] \in Answers[key'[o]]
    BY DEF ClientsHoldAnswers
  <2>1. o # c /\ held[o] \in Data /\ (last => held[o] # d)
    BY <1>2, <1>7 DEF ClientsWellFormed
  <2> QED BY <1>2, <1>12, <2>1 DEF Consistent, ClientsHoldAnswers
<1>16. EntriesAreDistinct'
  BY <1>10 DEF Consistent, EntriesAreDistinct
<1>17. LentIsCached'
  <2> SUFFICES ASSUME NEW o \in Clients, pc'[o] = "replaying"
               PROVE  cache'[key'[o]] # NoEntry /\ cache'[key'[o]].cached_query = held'[o]
    BY DEF LentIsCached, Cached
  <2>1. o # c /\ pc[o] = "replaying" /\ key'[o] = key[o] /\ held'[o] = held[o]
    BY <1>2
  <2>2. key[o] \in Keys /\ Cached(key[o]) /\ cache[key[o]].cached_query = held[o]
    BY <1>1, <2>1 DEF Consistent, LentIsCached, ClientsWellFormed
  <2>3. ~(last /\ key[o] = k)
    BY <1>1, <1>7, <2>1, <2>2
  <2> QED BY <1>10, <2>1, <2>2, <2>3 DEF Cached
<1>18. OwnDataIsPrivate'
  BY <1>2, <1>10 DEF Consistent, OwnDataIsPrivate
<1>19. CountersAreReaders'
  BY <1>1, <1>3, <1>4, <1>6, <1>10, <1>11 DEF Consistent, CountersAreReaders
<1>20. NothingLeaks'
  <2> SUFFICES ASSUME NEW x \in Data, heap'[x] # None PROVE InUse(x)'
    BY DEF NothingLeaks
  <2>1. heap[x] # None /\ ~(last /\ x = d)
    BY <1>12
  <2>2. CASE x = d
    <3>1. k \in Keys /\ Cached(k)' /\ cache'[k].cached_query = x
      BY <1>1, <1>10, <2>1, <2>2
    <3> QED BY <3>1 DEF InUse
  <2>3. CASE \E o \in Clients : held[o] = x /\ x # d
    BY <1>2, <2>3 DEF InUse
  <2>4. CASE x # d /\ \E j \in Keys : Cached(j) /\ cache[j].cached_query = x
    <3>1. PICK j \in Keys : Cached(j) /\ cache[j].cached_query = x
      BY <2>4
    <3>2. j # k
      BY <1>1, <2>4, <3>1
    <3> QED BY <1>10, <3>1, <3>2 DEF InUse
  <2> QED BY <2>1, <2>2, <2>3, <2>4 DEF Consistent, NothingLeaks, InUse
<1> QED BY <1>14, <1>15, <1>16, <1>17, <1>18, <1>19, <1>20 DEF Consistent

\* A client frees a container that is its own: a copy it has replayed, or a
\* recording the cache did not take.
LEMMA FreeOwnKeeps ==
    ASSUME TypeOK, ClientsWellFormed, Consistent, NEW c \in Clients, pc[c] # "idle",
           pc[c] = "replaying" => DataCopy,
           cache' = cache, heap' = Released({held[c]}), Become(c, "idle", None, None)
    PROVE  Consistent'
<1>1. /\ \A o \in Clients : pc'[o] = IF o = c THEN "idle" ELSE pc[o]
      /\ \A o \in Clients : key'[o] = IF o = c THEN None ELSE key[o]
      /\ \A o \in Clients : held'[o] = IF o = c THEN None ELSE held[o]
  BY BecomeIdle
<1>2. /\ held[c] \in Data /\ held[c] # None
      /\ \A o \in Clients \ {c} : held[o] # held[c]
      /\ \A j \in Keys : Cached(j) => cache[j].cached_query # held[c]
  BY HandlerAssumption DEF ClientsWellFormed, Consistent, OwnDataIsPrivate
<1>3. \A x \in Data : heap'[x] = IF x = held[c] THEN None ELSE heap[x]
  BY DEF Released
<1>4. \A j \in Keys : Cached(j)' <=> Cached(j)
  BY DEF Cached
<1>5. \A j \in Keys : Cached(j) => cache[j].cached_query \in Data
  BY DEF TypeOK, Cached, Entry
<1>6. EntriesHoldAnswers'
  BY <1>2, <1>3, <1>4, <1>5 DEF Consistent, EntriesHoldAnswers
<1>7. ClientsHoldAnswers'
  <2> SUFFICES ASSUME NEW o \in Clients, pc'[o] # "idle" PROVE heap'[held'[o]] \in Answers[key'[o]]
    BY DEF ClientsHoldAnswers
  <2>1. o # c /\ pc[o] # "idle"
    BY <1>1
  <2>2. held[o] \in Data /\ held[o] # held[c] /\ heap[held[o]] \in Answers[key[o]]
    BY <1>2, <2>1 DEF Consistent, ClientsHoldAnswers, ClientsWellFormed
  <2> QED BY <1>1, <1>3, <2>1, <2>2
<1>8. EntriesAreDistinct' /\ OwnDataIsPrivate'
  BY <1>1, <1>4 DEF Consistent, EntriesAreDistinct, OwnDataIsPrivate
<1>9. LentIsCached'
  <2> SUFFICES ASSUME ~DataCopy, NEW o \in Clients, pc'[o] = "replaying"
               PROVE  cache'[key'[o]] # NoEntry /\ cache'[key'[o]].cached_query = held'[o]
    BY DEF LentIsCached, Cached
  <2> QED BY <1>1 DEF Consistent, LentIsCached, Cached
<1>10. CountersAreReaders'
  <2>1. ~DataCopy => \A j \in Keys : Readers(j)' = Readers(j)
    BY <1>1 DEF Readers
  <2> QED BY <1>4, <2>1 DEF Consistent, CountersAreReaders
<1>11. NothingLeaks'
  <2> SUFFICES ASSUME NEW x \in Data, heap'[x] # None PROVE InUse(x)'
    BY DEF NothingLeaks
  <2>1. heap[x] # None /\ x # held[c]
    BY <1>3
  <2> QED BY <1>1, <1>4, <2>1 DEF Consistent, NothingLeaks, InUse
<1> QED BY <1>6, <1>7, <1>8, <1>9, <1>10, <1>11 DEF Consistent

\* An add puts container d in the table, in the place of an entry that is lent
\* to nobody.  The container comes from a client that gives it up, or is fresh.
LEMMA AddKeeps ==
    ASSUME TypeOK, ClientsWellFormed, Consistent,
           NEW k \in Keys, NEW d \in Data, NEW ttl \in Nat, NEW now \in Nat,
           AddQuery(k, d, ttl, now),
           \A j \in Keys : Cached(j) => cache[j].cached_query # d,
           \A x \in Data \ {d} : heap'[x] = Released(FreedByAdd(k))[x],
           heap'[d] \in Answers[k],
           \A o \in Clients :
               \/ /\ pc'[o] = pc[o] /\ key'[o] = key[o] /\ held'[o] = held[o]
                  /\ held[o] # d
               \/ /\ pc'[o] = "idle" /\ key'[o] = None /\ held'[o] = None
                  /\ held[o] = d /\ pc[o] # "replaying"
    PROVE  Consistent'
<1> DEFINE freed == {x \in Data : Cached(k) /\ x = cache[k].cached_query}
<1>1. Cached(k) => cache[k].references = 0
  BY DEF AddQuery, MayAdd, Replaceable
<1>2. /\ \A o \in Clients : held[o] \notin freed
      /\ ~DataCopy => \A o \in Clients : pc[o] = "replaying" => key[o] # k \/ ~Cached(k)
  BY <1>1, NotLent
<1>3. \A x \in Data \ {d} : heap'[x] = IF x \in freed THEN None ELSE heap[x]
  BY <1>1 DEF Released, FreedByAdd, DestroyedBy, Cached
<1>4. \A j \in Keys \ {k} : cache'[j] = cache[j]
  BY DEF AddQuery, TypeOK
<1>5. Cached(k)' /\ cache'[k].cached_query = d /\ cache'[k].references = 0
  <2>1. cache'[k] = [cached_query |-> d, deadline |-> now + ttl,
                     in_refresh |-> FALSE, references |-> 0]
    BY DEF AddQuery, TypeOK
  <2>2. cache'[k] # NoEntry
    BY <2>1, DataNotEntry
  <2> QED BY <2>1, <2>2 DEF Cached
<1>6. \A j \in Keys \ {k} :
          /\ Cached(j)' <=> Cached(j)
          /\ Cached(j) => /\ cache[j].cached_query \in Data \ freed
                          /\ cache[j].cached_query # d
  BY <1>4 DEF TypeOK, Cached, Entry, Consistent, EntriesAreDistinct
<1> HIDE DEF freed
<1>7. EntriesHoldAnswers'
  BY <1>3, <1>4, <1>5, <1>6 DEF Consistent, EntriesHoldAnswers
<1>8. ClientsHoldAnswers'
  <2> SUFFICES ASSUME NEW o \in Clients, pc'[o] # "idle" PROVE heap'[held'[o]] \in Answers[key'[o]]
    BY DEF ClientsHoldAnswers
  <2>1. pc'[o] = pc[o] /\ key'[o] = key[o] /\ held'[o] = held[o] /\ held[o] # d
    OBVIOUS
  <2>2. held[o] \in Data \ {d} /\ held[o] \notin freed
    BY <1>2, <2>1 DEF ClientsWellFormed
  <2> QED BY <1>3, <2>1, <2>2 DEF Consistent, ClientsHoldAnswers
<1>9. EntriesAreDistinct'
  BY <1>4, <1>5, <1>6 DEF Consistent, EntriesAreDistinct
<1>10. LentIsCached'
  <2> SUFFICES ASSUME ~DataCopy, NEW o \in Clients, pc'[o] = "replaying"
               PROVE  cache'[key'[o]] # NoEntry /\ cache'[key'[o]].cached_query = held'[o]
    BY DEF LentIsCached, Cached
  <2>1. pc[o] = "replaying" /\ key'[o] = key[o] /\ held'[o] = held[o]
    OBVIOUS
  <2>2. key[o] \in Keys /\ Cached(key[o]) /\ cache[key[o]].cached_query = held[o]
    BY <2>1 DEF Consistent, LentIsCached, ClientsWellFormed
  <2> QED BY <1>2, <1>4, <2>1, <2>2 DEF Cached
<1>11. OwnDataIsPrivate'
  BY <1>4, <1>5, <1>6 DEF Consistent, OwnDataIsPrivate
<1>12. CountersAreReaders'
  <2>1. \A j : Readers(j)' = Readers(j)
    BY DEF Readers
  <2>2. ~DataCopy => Cardinality(Readers(k)') = 0
    <3>1. CASE Cached(k)
      BY <1>1, <2>1, <3>1 DEF Consistent, CountersAreReaders
    <3>2. CASE ~Cached(k) /\ ~DataCopy
      <4>1. Readers(k)' = {}
        BY <2>1, <3>2 DEF Readers, Consistent, LentIsCached
      <4> QED BY <4>1, FS_EmptySet
    <3> QED BY <3>1, <3>2
  <2> QED BY <1>4, <1>5, <1>6, <2>1, <2>2 DEF Consistent, CountersAreReaders
<1>13. NothingLeaks'
  <2> SUFFICES ASSUME NEW x \in Data, heap'[x] # None, x # d PROVE InUse(x)'
    BY <1>5 DEF NothingLeaks, InUse
  <2>1. heap[x] # None /\ x \notin freed
    BY <1>3
  <2>2. CASE \E o \in Clients : held[o] = x
    BY <2>2 DEF InUse
  <2>3. CASE \E j \in Keys : Cached(j) /\ cache[j].cached_query = x
    <3>1. PICK j \in Keys : Cached(j) /\ cache[j].cached_query = x
      BY <2>3
    <3>2. j # k
      BY <2>1, <3>1 DEF freed
    <3> QED BY <1>4, <1>6, <3>1, <3>2 DEF InUse
  <2> QED BY <2>1, <2>2, <2>3 DEF Consistent, NothingLeaks, InUse
<1> QED BY <1>7, <1>8, <1>9, <1>10, <1>11, <1>12, <1>13 DEF Consistent

LEMMA FinishRecordKeeps ==
    ASSUME TypeOK, ClientsWellFormed, Consistent, NEW c \in Clients, NEW ttl \in Ttls,
           FinishRecord(c, ttl)
    PROVE  Consistent'
<1> PICK k : k = key[c]
  OBVIOUS
<1> PICK d : d = held[c]
  OBVIOUS
<1> PICK now \in Nat : now = Now(c)
  BY NowType
<1>1. /\ pc[c] = "recording" /\ AddQuery(k, d, ttl, now)
      /\ heap' = Released(FreedByAdd(k)) /\ Become(c, "idle", None, None)
  BY DEF FinishRecord
<1>2. k \in Keys /\ d \in Data /\ d # None
  BY <1>1, HandlerAssumption DEF ClientsWellFormed
<1>3. /\ \A o \in Clients \ {c} : held[o] # d
      /\ \A j \in Keys : Cached(j) => cache[j].cached_query # d
  BY <1>1, <1>2 DEF Consistent, OwnDataIsPrivate
<1>4. heap'[d] \in Answers[k]
  <2>1. d \notin FreedByAdd(k)
    BY <1>2, <1>3 DEF FreedByAdd, DestroyedBy
  <2> QED BY <1>1, <1>2, <2>1 DEF Released, Consistent, ClientsHoldAnswers
<1>5. /\ \A o \in Clients : pc'[o] = IF o = c THEN "idle" ELSE pc[o]
      /\ \A o \in Clients : key'[o] = IF o = c THEN None ELSE key[o]
      /\ \A o \in Clients : held'[o] = IF o = c THEN None ELSE held[o]
  BY <1>1, BecomeIdle
<1>6. ttl \in Nat /\ \A x \in Data \ {d} : heap'[x] = Released(FreedByAdd(k))[x]
  BY <1>1, ClientAssumption
<1> QED BY <1>1, <1>2, <1>3, <1>4, <1>5, <1>6, AddKeeps

LEMMA ScriptAddKeeps ==
    ASSUME TypeOK, ClientsWellFormed, Consistent, NEW c \in Clients, NEW k \in Keys,
           NEW ttl \in Ttls, ScriptAdd(c, k, ttl)
    PROVE  Consistent'
<1>1. CASE AddRefused(k, Now(c)) /\ UNCHANGED heap
  BY <1>1, UnchangedKeeps DEF ScriptAdd, AddRefused
<1>2. CASE \E d \in Fresh, r \in Answers[k] :
               /\ AddQuery(k, d, ttl, Now(c))
               /\ heap' = [Released(FreedByAdd(k)) EXCEPT ![d] = r]
  <2> PICK now \in Nat : now = Now(c)
    BY NowType
  <2>1. PICK d \in Fresh, r \in Answers[k] :
               /\ AddQuery(k, d, ttl, now)
               /\ heap' = [Released(FreedByAdd(k)) EXCEPT ![d] = r]
    BY <1>2
  <2>2. /\ d \in Data
        /\ \A o \in Clients : held[o] # d
        /\ \A j \in Keys : Cached(j) => cache[j].cached_query # d
    BY FreshIs
  <2>3. /\ heap'[d] \in Answers[k]
        /\ \A x \in Data \ {d} : heap'[x] = Released(FreedByAdd(k))[x]
    BY <2>1, <2>2 DEF Released
  <2>4. pc' = pc /\ key' = key /\ held' = held
    BY DEF ScriptAdd, clientVars
  <2>5. ttl \in Nat
    BY ClientAssumption
  <2> QED BY <2>1, <2>2, <2>3, <2>4, <2>5, AddKeeps
<1> QED BY <1>1, <1>2 DEF ScriptAdd

\* clear_cache frees every container of the table when none of them is lent.
LEMMA ClearKeeps ==
    ASSUME TypeOK, ClientsWellFormed, Consistent, Clear, ~orphaned'
    PROVE  Consistent'
<1>1. pc' = pc /\ key' = key /\ held' = held
  BY DEF Clear, clientVars
<1>2. \A k \in Keys : Cached(k) => cache[k].references = 0
  BY DEF Clear
<1>3. \A k \in Keys : ~Cached(k)'
  BY DEF Clear, ClearCache, Cached
<1>4. \A x \in Data : heap'[x] = IF \E k \in Keys : Cached(k) /\ cache[k].cached_query = x
                                 THEN None ELSE heap[x]
  BY <1>2 DEF Clear, ClearCache, Released, DestroyedBy
<1>5. EntriesHoldAnswers' /\ EntriesAreDistinct' /\ CountersAreReaders'
  BY <1>3 DEF EntriesHoldAnswers, EntriesAreDistinct, CountersAreReaders
<1>6. ClientsHoldAnswers'
  <2> SUFFICES ASSUME NEW o \in Clients, pc[o] # "idle" PROVE heap'[held[o]] \in Answers[key[o]]
    BY <1>1 DEF ClientsHoldAnswers
  <2>1. held[o] \in Data /\ heap[held[o]] \in Answers[key[o]]
    BY DEF ClientsWellFormed, Consistent, ClientsHoldAnswers
  <2>2. \A k \in Keys : Cached(k) => cache[k].cached_query # held[o]
    BY <1>2, NotLent
  <2> QED BY <1>4, <2>1, <2>2
<1>7. LentIsCached'
  <2> SUFFICES ASSUME ~DataCopy, NEW o \in Clients, pc[o] = "replaying" PROVE FALSE
    BY <1>1 DEF LentIsCached
  <2>1. key[o] \in Keys /\ Cached(key[o])
    BY DEF Consistent, LentIsCached, ClientsWellFormed
  <2> QED BY <1>2, <2>1, NotLent
<1>8. OwnDataIsPrivate'
  BY <1>1, <1>3 DEF Consistent, OwnDataIsPrivate
<1>9. NothingLeaks'
  <2> SUFFICES ASSUME NEW x \in Data, heap'[x] # None PROVE InUse(x)'
    BY DEF NothingLeaks
  <2> QED BY <1>1, <1>4 DEF Consistent, NothingLeaks, InUse
<1> QED BY <1>5, <1>6, <1>7, <1>8, <1>9 DEF Consistent

\* The end of a replay: what was lent is counted back, what was copied is freed.
LEMMA FinishReplayKeeps ==
    ASSUME TypeOK, ClientsWellFormed, Consistent, NEW c \in Clients, FinishReplay(c)
    PROVE  Consistent'
<1>1. CASE ReturnShared(key[c], Now(c))
  BY <1>1, ReturnSharedKeeps DEF FinishReplay
<1>2. CASE ReturnCopied(held[c])
  BY <1>2, FreeOwnKeeps DEF FinishReplay, ReturnCopied
<1> QED BY <1>1, <1>2 DEF FinishReplay, ReturnToCache

LEMMA LookupHitKeeps ==
    ASSUME TypeOK, ClientsWellFormed, Consistent, NEW c \in Clients, NEW k \in Keys,
           LookupHit(c, k)
    PROVE  Consistent'
<1>1. PICK d \in Data : /\ DataCopy => d \in Fresh
                        /\ FindHit(k, Now(c), d)
                        /\ Become(c, "replaying", k, d)
  BY DEF LookupHit
<1>2. CASE FindShared(k, Now(c), d)
  BY <1>1, <1>2, LookupSharedKeeps DEF LookupHit
<1>3. CASE FindCopied(k, Now(c), d)
  BY <1>1, <1>3, LookupCopiedKeeps DEF LookupHit, FindCopied
<1> QED BY <1>1, <1>2, <1>3 DEF FindHit

\* Every step of a client keeps what clients and table rely on.
LEMMA ClientStepKeeps ==
    ASSUME TypeOK, ClientsWellFormed, Consistent, NEW c \in Clients,
           ProtocolStep(c) \/ ScriptStep(c)
    PROVE  Consistent'
<1>1. CASE NewRequest(c)
  BY <1>1, UnchangedKeeps DEF NewRequest
<1>2. CASE FinishReplay(c)
  BY <1>2, FinishReplayKeeps
<1>3. CASE FinishRefused(c) \/ Abandon(c)
  BY <1>3, FreeOwnKeeps DEF FinishRefused, Abandon, AddRefused
<1>4. ASSUME NEW ttl \in Ttls, FinishRecord(c, ttl) PROVE Consistent'
  BY <1>4, FinishRecordKeeps
<1>5. ASSUME NEW k \in Keys, LookupHit(c, k) PROVE Consistent'
  BY <1>5, LookupHitKeeps
<1>6. ASSUME NEW k \in Keys, LookupMiss(c, k) PROVE Consistent'
  BY <1>6, LookupMissKeeps
<1>7. ASSUME NEW k \in Keys, AskIsCached(c, k) PROVE Consistent'
  BY <1>7, AfterLookupTable, LookupKeeps DEF AskIsCached, QueryIsCached
<1>8. ASSUME NEW k \in Keys, ScriptFind(c, k) PROVE Consistent'
  BY <1>8, FindMissTable, LookupKeeps, UnchangedKeeps DEF ScriptFind, PhpFind
<1>9. ASSUME NEW k \in Keys, NEW ttl \in Ttls, ScriptAdd(c, k, ttl) PROVE Consistent'
  BY <1>9, ScriptAddKeeps
<1> QED BY <1>1, <1>2, <1>3, <1>4, <1>5, <1>6, <1>7, <1>8, <1>9 DEF ProtocolStep, ScriptStep

LEMMA StepKeeps ==
    ASSUME TypeOK, ClientsWellFormed, ~orphaned => Consistent, [Next]_vars, ~orphaned'
    PROVE  Consistent'
<1>1. CASE UNCHANGED vars
  BY <1>1, UnchangedKeeps DEF vars, clientVars
<1>2. CASE Tick
  BY <1>2, UnchangedKeeps DEF Tick
<1>3. CASE Clear
  <2>1. ~orphaned
    BY <1>3 DEF Clear
  <2> QED BY <1>3, <2>1, ClearKeeps
<1>4. ASSUME NEW c \in Clients, ProtocolStep(c) \/ ScriptStep(c) PROVE Consistent'
  <2>1. ~orphaned
    BY <1>4 DEF ProtocolStep, ScriptStep, NewRequest, FinishReplay, FinishRefused, Abandon,
                FinishRecord, LookupHit, LookupMiss, AskIsCached, ScriptFind, ScriptAdd
  <2> QED BY <1>4, <2>1, ClientStepKeeps
<1> QED BY <1>1, <1>2, <1>3, <1>4 DEF Next, NextNoClear, NextProtocol

LEMMA InitConsistent == Init => Consistent
<1> SUFFICES ASSUME Init PROVE Consistent
  OBVIOUS
<1>1. /\ \A k \in Keys : ~Cached(k)
      /\ \A d \in Data : heap[d] = None
      /\ \A c \in Clients : pc[c] = "idle" /\ held[c] = None
  BY DEF Init, HandlerInit, Cached
<1> QED BY <1>1 DEF Consistent, EntriesHoldAnswers, ClientsHoldAnswers, EntriesAreDistinct,
                    LentIsCached, OwnDataIsPrivate, CountersAreReaders, NothingLeaks

LEMMA InitIInv == Init => IInv
BY InitTypeOK, InitWellFormed, InitConsistent DEF IInv

LEMMA StepIInv == IInv /\ [Next]_vars => IInv'
<1> SUFFICES ASSUME IInv, [Next]_vars PROVE IInv'
  OBVIOUS
<1>1. TypeOK' /\ ClientsWellFormed'
  BY StepType DEF IInv
<1>2. ~orphaned' => Consistent'
  BY StepKeeps DEF IInv
<1> QED BY <1>1, <1>2 DEF IInv

\* The reference counting of the handler: until clear_cache removes a lent
\* entry, a client that replays without a copy has the container of the entry
\* of its key, the entry's counter is the number of these clients, every other
\* container in a client's hands is its own, and no memory is lost.
THEOREM Counting == Spec => []IInv
BY InitIInv, StepIInv, PTL DEF Spec

\* No client and no entry uses freed memory until clear_cache removes a lent
\* entry: find_query_in_cache, add_query_to_cache_if_not_exists and
\* return_to_cache never free a result that is being read.
THEOREM MemorySafety == Spec => []SafeUnlessOrphaned
<1>1. IInv => SafeUnlessOrphaned
  <2> SUFFICES ASSUME IInv, ~orphaned PROVE NoUseAfterFree
    BY DEF SafeUnlessOrphaned
  <2>1. ClientsWellFormed /\ EntriesHoldAnswers /\ ClientsHoldAnswers
    BY DEF IInv, Consistent
  <2> QED BY <2>1, AnswersAreContents
          DEF NoUseAfterFree, ClientsWellFormed, EntriesHoldAnswers, ClientsHoldAnswers
<1> QED BY <1>1, Counting, PTL

\* The unsigned counter of an entry is the number of clients that read it, so
\* it never underflows and never overflows.
THEOREM CounterCorrect == Spec => []ReferencesCountReaders
<1>1. IInv => ReferencesCountReaders
  BY DEF IInv, Consistent, ReferencesCountReaders
<1> QED BY <1>1, Counting, PTL

\* No recorded result is lost: it is in the table or a client will free it.
THEOREM NoLeak == Spec => []NothingLeaksUnlessOrphaned
<1>1. IInv => NothingLeaksUnlessOrphaned
  BY DEF IInv, Consistent, NothingLeaksUnlessOrphaned
<1> QED BY <1>1, Counting, PTL

\* A client that records, or replays a copy, shares its container with nobody.
THEOREM Privacy == Spec => []PrivateData
<1>1. IInv => PrivateData
  BY DEF IInv, Consistent, PrivateData
<1> QED BY <1>1, Counting, PTL

\* What a client replays is an answer to the query it asked, whatever the other
\* clients did to the table since its lookup.
THEOREM RightAnswer == Spec => []ReplaysOwnQuery
<1>1. IInv => ReplaysOwnQuery
  BY DEF IInv, Consistent, ReplaysOwnQuery, ClientsHoldAnswers
<1> QED BY <1>1, Counting, PTL

-----------------------------------------------------------------------------
(***************************************************************************)
(* Replacement                                                             *)
(***************************************************************************)

\* No client's time is ahead of the clock.
TimesPast == \A c \in Clients : reqTime[c] <= clock

LEMMA TimesPastStep == TypeOK /\ TimesPast /\ [Next]_vars => TimesPast'
<1> SUFFICES ASSUME TypeOK, TimesPast, [Next]_vars PROVE TimesPast'
  OBVIOUS
<1>1. CASE UNCHANGED <<clock, reqTime>>
  BY <1>1 DEF TimesPast
<1>2. CASE Tick
  BY <1>2 DEF Tick, TimesPast, TypeOK
<1>3. ASSUME NEW c \in Clients, NewRequest(c) PROVE TimesPast'
  BY <1>3 DEF NewRequest, TimesPast, TypeOK
<1>4. ASSUME NEW c \in Clients, ProtocolStep(c) \/ ScriptStep(c), ~NewRequest(c)
      PROVE  UNCHANGED <<clock, reqTime>>
  BY <1>4 DEF ProtocolStep, ScriptStep, FinishReplay, FinishRefused, Abandon, FinishRecord,
              LookupHit, LookupMiss, AskIsCached, ScriptFind, ScriptAdd
<1> QED BY <1>1, <1>2, <1>3, <1>4 DEF vars, Next, NextNoClear, NextProtocol, Clear

\* Whatever is not an add leaves every entry of the table its container.
LEMMA LookupKeepsContainers ==
    ASSUME TypeOK, NEW k \in Keys, NEW now, TableAfterLookup(k, now), NEW j \in Keys, Cached(j)'
    PROVE  cache'[j].cached_query = cache[j].cached_query
BY DEF TableAfterLookup

\* An add changes the container of its key only, and only if it may.
LEMMA AddReplaces ==
    ASSUME TypeOK, TimesPast, NEW c \in Clients, NEW k \in Keys, NEW d, NEW ttl,
           AddQuery(k, d, ttl, Now(c)), NEW j \in Keys, Cached(j),
           cache[j].cached_query # cache'[j].cached_query
    PROVE  cache[j].deadline < clock /\ cache[j].references = 0
<1>1. j = k
  BY DEF AddQuery, TypeOK
<1>2. cache[j].deadline < Now(c) /\ cache[j].references = 0
  BY <1>1 DEF AddQuery, MayAdd, Replaceable
<1>3. Now(c) <= clock /\ Now(c) \in Nat /\ clock \in Nat
  BY NowType DEF Now, TimesPast, TypeOK
<1>4. cache[j].deadline \in Nat
  BY EntryIsRecord DEF TypeOK, Cached
<1> QED BY <1>2, <1>3, <1>4

LEMMA LentKeepsContainers ==
    ASSUME TypeOK, NEW k \in Keys, Cached(k), NEW n \in 0..(RefMod - 1), NEW j \in Keys,
           cache' = [cache EXCEPT ![k].references = n]
    PROVE  cache'[j].cached_query = cache[j].cached_query
<1>1. CASE j # k
  BY <1>1 DEF TypeOK
<1>2. CASE j = k
  <2>1. cache'[k] = [cache[k] EXCEPT !.references = n]
    BY DEF TypeOK
  <2>2. cache[k] \in Entry
    BY DEF TypeOK, Cached
  <2> QED BY <1>2, <2>1, <2>2 DEF Entry
<1> QED BY <1>1, <1>2

\* An entry that is still valid or lent is never replaced.
THEOREM NoEarlyReplacementHolds == Spec => NoEarlyReplacement
<1>1. Init => TimesPast
  BY DEF Init, TimesPast
<1>2. ASSUME TypeOK, ClientsWellFormed, TimesPast, [Next]_vars, NEW j \in Keys,
             Cached(j), Cached(j)', cache[j].cached_query # cache'[j].cached_query
      PROVE  cache[j].deadline < clock /\ cache[j].references = 0
  <2>1. CASE UNCHANGED cache
    BY <1>2, <2>1
  <2>2. CASE Clear
    BY <1>2, <2>2 DEF Clear, ClearCache, Cached
  <2>3. ASSUME NEW c \in Clients, FinishReplay(c) PROVE FALSE
    <3>1. key[c] \in Keys
      BY <1>2, <2>3 DEF FinishReplay, ClientsWellFormed
    <3>2. Cached(key[c]) => Dec(cache[key[c]].references) \in 0..(RefMod - 1)
      BY <1>2, <3>1, EntryIsRecord, CounterRange DEF TypeOK, Cached
    <3>3. CASE cache' = Without(key[c])
      BY <1>2, <3>1, <3>3 DEF Without, TypeOK, Cached
    <3>4. CASE Cached(key[c]) /\ cache' = [cache EXCEPT ![key[c]].references = Dec(@)]
      <4>1. PICK k \in Keys : k = key[c]
        BY <3>1
      <4>2. PICK n \in 0..(RefMod - 1) : n = Dec(cache[k].references)
        BY <3>2, <3>4, <4>1
      <4>3. cache' = [cache EXCEPT ![k].references = n]
        BY <3>4, <4>1, <4>2
      <4> QED BY <1>2, <3>4, <4>1, <4>3, LentKeepsContainers
    <3> QED BY <1>2, <2>3, <3>3, <3>4 DEF FinishReplay, ReturnToCache, ReturnShared, ReturnCopied
  <2>4. ASSUME NEW c \in Clients, NEW k \in Keys, LookupHit(c, k) PROVE FALSE
    <3>1. CASE cache' = cache
      BY <1>2, <3>1
    <3>2. CASE Cached(k) /\ cache' = Lent(k)
      <4>1. PICK n \in 0..(RefMod - 1) : n = Inc(cache[k].references)
        BY <1>2, <3>2, EntryIsRecord, CounterRange DEF TypeOK, Cached
      <4>2. cache' = [cache EXCEPT ![k].references = n]
        BY <3>2, <4>1 DEF Lent
      <4> QED BY <1>2, <3>2, <4>2, LentKeepsContainers
    <3> QED BY <2>4, <3>1, <3>2 DEF LookupHit, FindHit, FindShared, FindCopied, Servable
  <2>5. ASSUME NEW c \in Clients, NEW k \in Keys, NEW now, FindMiss(k, now) PROVE FALSE
    BY <1>2, <2>5, FindMissTable, LookupKeepsContainers
  <2>6. ASSUME NEW c \in Clients, NEW k \in Keys, AskIsCached(c, k) PROVE FALSE
    BY <1>2, <2>6, AfterLookupTable, LookupKeepsContainers DEF AskIsCached, QueryIsCached
  <2>7. ASSUME NEW c \in Clients, NEW ttl \in Ttls, FinishRecord(c, ttl)
        PROVE  cache[j].deadline < clock /\ cache[j].references = 0
    <3>1. PICK k \in Keys : k = key[c]
      BY <1>2, <2>7 DEF FinishRecord, ClientsWellFormed
    <3>2. PICK d : d = held[c]
      OBVIOUS
    <3>3. AddQuery(k, d, ttl, Now(c))
      BY <2>7, <3>1, <3>2 DEF FinishRecord
    <3> QED BY <1>2, <3>3, AddReplaces
  <2>8. ASSUME NEW c \in Clients, NEW k \in Keys, NEW ttl \in Ttls, ScriptAdd(c, k, ttl)
        PROVE  cache[j].deadline < clock /\ cache[j].references = 0
    BY <1>2, <2>8, AddReplaces DEF ScriptAdd, AddRefused
  <2>9. ASSUME NEW c \in Clients, NEW k \in Keys, LookupMiss(c, k) \/ ScriptFind(c, k)
        PROVE  cache[j].deadline < clock /\ cache[j].references = 0
    BY <1>2, <2>5, <2>9 DEF LookupMiss, ScriptFind, PhpFind
  <2>10. ASSUME NEW c \in Clients, NewRequest(c) \/ FinishRefused(c) \/ Abandon(c)
         PROVE  FALSE
    BY <1>2, <2>10 DEF NewRequest, FinishRefused, Abandon, AddRefused
  <2> QED BY <1>2, <2>1, <2>2, <2>3, <2>4, <2>6, <2>7, <2>8, <2>9, <2>10
          DEF Next, NextNoClear, NextProtocol, Tick, ProtocolStep, ScriptStep, vars
<1>3. TypeOK /\ ClientsWellFormed /\ TimesPast /\ [Next]_vars
        => [\A k \in Keys :
              (Cached(k) /\ Cached(k)' /\ cache[k].cached_query # cache'[k].cached_query)
                  => cache[k].deadline < clock /\ cache[k].references = 0]_vars
  BY <1>2
<1>4. TypeOK /\ ClientsWellFormed /\ TimesPast /\ [Next]_vars
        => (TypeOK /\ ClientsWellFormed /\ TimesPast)'
  BY StepType, TimesPastStep
<1>5. Init => TypeOK /\ ClientsWellFormed
  BY InitTypeOK, InitWellFormed
<1> QED BY <1>1, <1>3, <1>4, <1>5, PTL DEF Spec, NoEarlyReplacement

-----------------------------------------------------------------------------
(***************************************************************************)
(* The default handler implements ResultCache                              *)
(***************************************************************************)

\* Under slam defense only an entry somebody was asked to refresh is lent.
LentIsRefreshed ==
    SlamDefense /\ ~DataCopy =>
        \A c \in Clients : pc[c] = "replaying" => cache[key[c]].in_refresh

\* What the handler's data stand for, as long as clear_cache has removed no
\* lent entry.
Sound == TypeOK /\ ClientsWellFormed /\ Consistent /\ LentIsRefreshed

-----------------------------------------------------------------------------
(***************************************************************************)
(* Tables                                                                  *)
(***************************************************************************)

\* An entry whose counter changes is the same entry otherwise.
LEMMA CounterOnly ==
    ASSUME TypeOK, NEW k \in Keys, Cached(k), NEW n \in 0..(RefMod - 1),
           cache' = [cache EXCEPT ![k].references = n], NEW j \in Keys
    PROVE  /\ Cached(j)' <=> Cached(j)
           /\ Cached(j) => /\ cache'[j].cached_query = cache[j].cached_query
                           /\ cache'[j].in_refresh = cache[j].in_refresh
<1>1. cache[k] \in Entry /\ NoEntry \notin Entry
  BY NoEntryAssumption DEF TypeOK, Cached
<1>2. [cache[k] EXCEPT !.references = n] \in Entry
  BY <1>1 DEF Entry
<1>3. cache'[k] = [cache[k] EXCEPT !.references = n]
  BY DEF TypeOK
<1>4. CASE j = k
  BY <1>1, <1>2, <1>3, <1>4 DEF Cached, Entry
<1>5. CASE j # k
  BY <1>5 DEF TypeOK, Cached
<1> QED BY <1>4, <1>5

\* Lending changes the counter of one entry.
LEMMA LentOnly ==
    ASSUME TypeOK, NEW k \in Keys, Cached(k), cache' = Lent(k), NEW j \in Keys
    PROVE  /\ Cached(j)' <=> Cached(j)
           /\ Cached(j) => /\ cache'[j].cached_query = cache[j].cached_query
                           /\ cache'[j].in_refresh = cache[j].in_refresh
<1>1. PICK n \in 0..(RefMod - 1) : n = Inc(cache[k].references)
  BY EntryIsRecord, CounterRange DEF TypeOK, Cached
<1>2. cache' = [cache EXCEPT ![k].references = n]
  BY <1>1 DEF Lent
<1> QED BY <1>2, CounterOnly

\* A return that deletes nothing changes the counter of one entry.
LEMMA ReturnedOnly ==
    ASSUME TypeOK, NEW k \in Keys, Cached(k),
           cache' = [cache EXCEPT ![k].references = Dec(@)], NEW j \in Keys
    PROVE  /\ Cached(j)' <=> Cached(j)
           /\ Cached(j) => /\ cache'[j].cached_query = cache[j].cached_query
                           /\ cache'[j].in_refresh = cache[j].in_refresh
<1>1. PICK n \in 0..(RefMod - 1) : n = Dec(cache[k].references)
  BY EntryIsRecord, CounterRange DEF TypeOK, Cached
<1>2. cache' = [cache EXCEPT ![k].references = n]
  BY <1>1
<1> QED BY <1>2, CounterOnly

\* The deletion of one entry leaves the others alone.
LEMMA OthersStay ==
    ASSUME TypeOK, NEW k \in Keys, cache' = Without(k), NEW j \in Keys
    PROVE  /\ Cached(j)' <=> Cached(j) /\ j # k
           /\ j # k => cache'[j] = cache[j]
BY DEF TypeOK, Without, Cached

\* A mark for refresh leaves every entry its container.
LEMMA MarkOnly ==
    ASSUME TypeOK, NEW k \in Keys, NEW now, FindAskedToRefresh(k, now), NEW j \in Keys
    PROVE  /\ Cached(j)' <=> Cached(j)
           /\ Cached(j) => /\ cache'[j].cached_query = cache[j].cached_query
                           /\ cache'[j].in_refresh = (j = k \/ cache[j].in_refresh)
<1>1. cache[k] \in Entry /\ NoEntry \notin Entry
  BY NoEntryAssumption DEF TypeOK, Cached, FindAskedToRefresh, AsksForRefresh
<1>2. [cache[k] EXCEPT !.in_refresh = TRUE] \in Entry
  BY <1>1 DEF Entry
<1>3. cache' = [cache EXCEPT ![k] = [cache[k] EXCEPT !.in_refresh = TRUE]]
  BY DEF FindAskedToRefresh
<1>4. CASE j = k
  BY <1>1, <1>2, <1>3, <1>4 DEF TypeOK, Cached, Entry
<1>5. CASE j # k
  <2>1. cache'[j] = cache[j]
    BY <1>3, <1>5 DEF TypeOK
  <2>2. Cached(j) => cache[j].in_refresh \in BOOLEAN
    BY EntryIsRecord DEF TypeOK, Cached
  <2> QED BY <1>5, <2>1, <2>2 DEF Cached
<1> QED BY <1>4, <1>5

\* An add makes one entry and leaves the others alone.
LEMMA AddedOnly ==
    ASSUME TypeOK, NEW k \in Keys, NEW d \in Data, NEW ttl \in Nat, NEW now \in Nat,
           AddQuery(k, d, ttl, now), NEW j \in Keys
    PROVE  /\ j # k => cache'[j] = cache[j]
           /\ j = k => Cached(j)' /\ cache'[j].cached_query = d /\ ~cache'[j].in_refresh
<1>1. now + ttl \in Nat
  OBVIOUS
<1>2. [cached_query |-> d, deadline |-> now + ttl, in_refresh |-> FALSE, references |-> 0] # NoEntry
  BY <1>1, DataNotEntry
<1> QED BY <1>2 DEF AddQuery, TypeOK, Cached

-----------------------------------------------------------------------------
(***************************************************************************)
(* Loans under slam defense                                                *)
(***************************************************************************)

\* An add replaces no entry that is lent.
LEMMA AddMarked ==
    ASSUME Sound, SlamDefense, ~DataCopy, NEW k \in Keys, NEW d \in Data, NEW ttl \in Nat,
           NEW now \in Nat, AddQuery(k, d, ttl, now), NEW o \in Clients, pc[o] = "replaying"
    PROVE  cache'[key[o]].in_refresh = cache[key[o]].in_refresh
<1>1. key[o] \in Keys /\ Cached(key[o])
  BY DEF Sound, ClientsWellFormed, Consistent, LentIsCached
<1>2. key[o] # k
  <2> SUFFICES ASSUME key[o] = k PROVE FALSE
    OBVIOUS
  <2>1. Cached(k) /\ cache[k].references = 0
    BY <1>1 DEF AddQuery, MayAdd, Replaceable
  <2> QED BY <2>1, NotLent DEF Sound
<1> QED BY <1>1, <1>2, AddedOnly DEF Sound

\* No step of a client lends an unmarked entry, or unmarks a lent one.
LEMMA ClientStepMarked ==
    ASSUME Sound, NEW c \in Clients, ProtocolStep(c) \/ ScriptStep(c)
    PROVE  LentIsRefreshed'
<1> SUFFICES ASSUME SlamDefense, ~DataCopy PROVE LentIsRefreshed'
  BY DEF LentIsRefreshed
<1> USE DEF Sound
<1>a. \A o \in Clients : pc[o] = "replaying" => key[o] \in Keys /\ Cached(key[o]) /\ cache[key[o]].in_refresh
  BY DEF ClientsWellFormed, Consistent, LentIsCached, LentIsRefreshed
<1>b. ASSUME UNCHANGED clientVars,
             \A o \in Clients : pc[o] = "replaying" => cache'[key[o]].in_refresh
      PROVE  LentIsRefreshed'
  BY <1>b DEF LentIsRefreshed, clientVars
<1>c. ASSUME NEW s, NEW k, NEW d, Become(c, s, k, d), s = "replaying" => cache'[k].in_refresh,
             \A o \in Clients : pc[o] = "replaying" => o = c \/ cache'[key[o]].in_refresh
      PROVE  LentIsRefreshed'
  BY <1>c DEF LentIsRefreshed, Become, TypeOK
<1>1. CASE NewRequest(c)
  BY <1>1, <1>a, <1>b DEF NewRequest
<1>2. CASE FinishReplay(c)
  <2>1. PICK k \in Keys : k = key[c] /\ Cached(k) /\ cache[k].in_refresh
    BY <1>2, <1>a DEF FinishReplay
  <2>2. cache' = [cache EXCEPT ![k].references = Dec(@)]
    BY <1>2, <2>1 DEF FinishReplay, ReturnToCache, ReturnShared, ReturnCopied, LastReturn
  <2>3. \A j \in Keys : Cached(j) => cache'[j].in_refresh = cache[j].in_refresh
    BY <2>1, <2>2, ReturnedOnly
  <2> QED BY <1>2, <1>a, <1>c, <2>3 DEF FinishReplay
<1>3. CASE FinishRefused(c) \/ Abandon(c)
  BY <1>3, <1>a, <1>c DEF FinishRefused, Abandon, AddRefused
<1>4. ASSUME NEW ttl \in Ttls, FinishRecord(c, ttl) PROVE LentIsRefreshed'
  <2>1. PICK k \in Keys, d \in Data, now \in Nat : k = key[c] /\ d = held[c] /\ now = Now(c)
    BY <1>4, NowType DEF FinishRecord, ClientsWellFormed
  <2>2. ttl \in Nat /\ AddQuery(k, d, ttl, now)
    BY <1>4, <2>1, ClientAssumption DEF FinishRecord
  <2> QED BY <1>4, <1>a, <1>c, <2>2, AddMarked DEF FinishRecord
<1>5. ASSUME NEW k \in Keys, LookupHit(c, k) PROVE LentIsRefreshed'
  <2>1. PICK d \in Data : FindHit(k, Now(c), d) /\ Become(c, "replaying", k, d)
    BY <1>5 DEF LookupHit
  <2>2. Cached(k) /\ cache[k].in_refresh /\ cache' = Lent(k)
    BY <2>1 DEF FindHit, FindShared, FindCopied, Servable, AsksForRefresh
  <2>3. \A j \in Keys : Cached(j) => cache'[j].in_refresh = cache[j].in_refresh
    BY <2>2, LentOnly
  <2> QED BY <1>a, <1>c, <2>1, <2>2, <2>3
<1>d. ASSUME NEW k \in Keys, NEW now, FindMiss(k, now), NEW j \in Keys, Cached(j), cache[j].in_refresh
      PROVE  cache'[j].in_refresh
  <2>1. CASE FindNothing(k, now)
    BY <1>d, <2>1 DEF FindNothing, AfterLookup, Killable, Dead
  <2>2. CASE FindAskedToRefresh(k, now)
    BY <1>d, <2>2, MarkOnly
  <2> QED BY <1>d, <2>1, <2>2 DEF FindMiss
<1>6. ASSUME NEW k \in Keys, LookupMiss(c, k) PROVE LentIsRefreshed'
  <2>1. PICK d : Become(c, "recording", k, d)
    BY <1>6 DEF LookupMiss
  <2> QED BY <1>6, <1>a, <1>c, <1>d, <2>1 DEF LookupMiss
<1>7. ASSUME NEW k \in Keys, AskIsCached(c, k) PROVE LentIsRefreshed'
  <2>1. cache' = cache
    BY <1>7 DEF AskIsCached, QueryIsCached, AfterLookup, Killable, Dead
  <2> QED BY <1>7, <1>a, <1>b, <2>1 DEF AskIsCached
<1>8. ASSUME NEW k \in Keys, ScriptFind(c, k) PROVE LentIsRefreshed'
  BY <1>8, <1>a, <1>b, <1>d DEF ScriptFind, PhpFind
<1>9. ASSUME NEW k \in Keys, NEW ttl \in Ttls, ScriptAdd(c, k, ttl) PROVE LentIsRefreshed'
  <2>1. CASE AddRefused(k, Now(c))
    BY <1>9, <1>a, <1>b, <2>1 DEF ScriptAdd, AddRefused
  <2>2. CASE \E d \in Data : AddQuery(k, d, ttl, Now(c))
    <3>1. PICK d \in Data, now \in Nat : AddQuery(k, d, ttl, now)
      BY <2>2, NowType
    <3>2. ttl \in Nat
      BY ClientAssumption
    <3> QED BY <1>9, <1>a, <1>b, <3>1, <3>2, AddMarked DEF ScriptAdd
  <2> QED BY <1>9, <2>1, <2>2 DEF ScriptAdd, Fresh
<1> QED BY <1>1, <1>2, <1>3, <1>4, <1>5, <1>6, <1>7, <1>8, <1>9 DEF ProtocolStep, ScriptStep

LEMMA ClearMarked == ASSUME Sound, Clear, ~orphaned' PROVE LentIsRefreshed'
<1> SUFFICES ASSUME ~DataCopy, NEW c \in Clients, pc[c] = "replaying" PROVE FALSE
  BY DEF LentIsRefreshed, Clear, clientVars
<1>1. key[c] \in Keys /\ Cached(key[c])
  BY DEF Sound, Consistent, LentIsCached, ClientsWellFormed
<1>2. cache[key[c]].references = 0
  BY <1>1 DEF Clear
<1> QED BY <1>1, <1>2, NotLent DEF Sound

\* As long as clear_cache has removed no lent entry, the handler is sound.
RInv == IInv /\ (~orphaned => LentIsRefreshed)

LEMMA RInvSound == RInv /\ ~orphaned => Sound
BY DEF RInv, IInv, Sound

\* A step after which nothing is orphaned starts where nothing is.
LEMMA OrphanedStays == [Next]_vars /\ ~orphaned' /\ RInv => ~orphaned
BY DEF Next, NextNoClear, NextProtocol, vars, Tick, Clear, ProtocolStep, ScriptStep, NewRequest,
       FinishReplay, FinishRefused, Abandon, FinishRecord, LookupHit, LookupMiss, AskIsCached,
       ScriptFind, ScriptAdd

LEMMA RInvInit == Init => RInv
<1>1. Init => LentIsRefreshed
  BY DEF Init, LentIsRefreshed
<1> QED BY <1>1, InitIInv DEF RInv

LEMMA RInvStep == RInv /\ [Next]_vars => RInv'
<1> SUFFICES ASSUME RInv, [Next]_vars, ~orphaned' PROVE LentIsRefreshed'
  BY StepIInv DEF RInv
<1>1. Sound
  BY OrphanedStays, RInvSound
<1>2. CASE UNCHANGED vars
  BY <1>1, <1>2 DEF Sound, LentIsRefreshed, vars
<1>3. CASE Tick
  BY <1>1, <1>3 DEF Sound, LentIsRefreshed, Tick, clientVars
<1>4. CASE Clear
  BY <1>1, <1>4, ClearMarked
<1>5. ASSUME NEW c \in Clients, ProtocolStep(c) \/ ScriptStep(c) PROVE LentIsRefreshed'
  BY <1>1, <1>5, ClientStepMarked
<1> QED BY <1>2, <1>3, <1>4, <1>5 DEF Next, NextNoClear, NextProtocol

-----------------------------------------------------------------------------
(***************************************************************************)
(* The mapping                                                             *)
(***************************************************************************)

\* There is a result under a key exactly when there is an entry.
LEMMA StoreIs ==
    ASSUME Sound, NEW k \in Keys
    PROVE  /\ storeBar[k] # None <=> Cached(k)
           /\ Cached(k) => storeBar[k] = heap[cache[k].cached_query]
           /\ refreshingBar[k] <=> Cached(k) /\ cache[k].in_refresh
<1>1. Cached(k) => heap[cache[k].cached_query] # None
  BY AnswersAreContents DEF Sound, Consistent, EntriesHoldAnswers
<1> QED BY <1>1 DEF storeBar, refreshingBar

\* An idle client has nothing in hand.
LEMMA IdleIs ==
    ASSUME Sound, NEW c \in Clients, pc[c] = "idle"
    PROVE  clientBar[c] = Abstract!Idle
BY DEF Sound, ClientsWellFormed, clientBar, Abstract!Idle

LEMMA BusyIs ==
    ASSUME Sound, NEW c \in Clients, pc[c] # "idle"
    PROVE  clientBar[c] = Abstract!Has(pc[c], key[c], heap[held[c]])
BY DEF clientBar, Abstract!Has

\* The contents a step leaves to the clients that take no part in it.
LEMMA OthersKeep ==
    ASSUME Sound, NEW c \in Clients, NEW s, NEW k, NEW d, Become(c, s, k, d),
           \A o \in Clients : o # c /\ pc[o] # "idle" => heap'[held[o]] = heap[held[o]]
    PROVE  clientBar' = [clientBar EXCEPT ![c] =
               [kind |-> s, key |-> k, result |-> IF s = "idle" THEN None ELSE heap'[d]]]
BY DEF Sound, TypeOK, Become, clientBar

LEMMA AllKeep ==
    ASSUME Sound, UNCHANGED clientVars,
           \A o \in Clients : pc[o] # "idle" => heap'[held[o]] = heap[held[o]]
    PROVE  clientBar' = clientBar
BY DEF Sound, clientVars, clientBar

\* Steps that leave every entry its content.
LEMMA StoreStays ==
    ASSUME \A j \in Keys : /\ Cached(j)' <=> Cached(j)
                           /\ Cached(j) => heap'[cache'[j].cached_query] = heap[cache[j].cached_query]
    PROVE  storeBar' = storeBar
BY DEF storeBar

LEMMA MarksStay ==
    ASSUME \A j \in Keys : /\ Cached(j)' <=> Cached(j)
                           /\ Cached(j) => cache'[j].in_refresh = cache[j].in_refresh
    PROVE  refreshingBar' = refreshingBar
BY DEF refreshingBar

\* The container of an entry that is lent to nobody can be freed: no client has
\* it, and no other entry.
LEMMA FreeOfEntry ==
    ASSUME Sound, NEW k \in Keys, Cached(k), cache[k].references = 0,
           \A x \in Data : x # cache[k].cached_query => heap'[x] = heap[x]
    PROVE  /\ \A o \in Clients : pc[o] # "idle" => heap'[held[o]] = heap[held[o]]
           /\ \A j \in Keys : Cached(j) /\ j # k =>
                heap'[cache[j].cached_query] = heap[cache[j].cached_query]
<1>1. \A o \in Clients : pc[o] # "idle" => held[o] \in Data /\ held[o] # cache[k].cached_query
  BY NotLent DEF Sound, ClientsWellFormed
<1>2. \A j \in Keys : Cached(j) /\ j # k =>
         cache[j].cached_query \in Data /\ cache[j].cached_query # cache[k].cached_query
  BY EntryIsRecord DEF Sound, TypeOK, Cached, Consistent, EntriesAreDistinct
<1> QED BY <1>1, <1>2

\* A fresh container can be filled.
LEMMA FillFresh ==
    ASSUME Sound, NEW d \in Fresh, \A x \in Data : x # d => heap'[x] = heap[x]
    PROVE  /\ \A o \in Clients : pc[o] # "idle" => heap'[held[o]] = heap[held[o]]
           /\ \A j \in Keys : Cached(j) => heap'[cache[j].cached_query] = heap[cache[j].cached_query]
<1>1. \A o \in Clients : pc[o] # "idle" => held[o] \in Data /\ held[o] # d
  BY FreshIs DEF Sound, ClientsWellFormed
<1>2. \A j \in Keys : Cached(j) => cache[j].cached_query \in Data /\ cache[j].cached_query # d
  BY FreshIs, EntryIsRecord DEF Sound, TypeOK, Cached
<1> QED BY <1>1, <1>2

\* The deletion of an entry forgets its result.
LEMMA DeletedIsForgotten ==
    ASSUME Sound, NEW k \in Keys, cache' = Without(k),
           \A j \in Keys : Cached(j) /\ j # k =>
               heap'[cache[j].cached_query] = heap[cache[j].cached_query]
    PROVE  Abstract!Forget({k})
<1>1. \A j \in Keys : (Cached(j)' <=> Cached(j) /\ j # k) /\ (j # k => cache'[j] = cache[j])
  BY OthersStay DEF Sound
<1>2. storeBar' = [j \in Keys |-> IF j \in {k} THEN None ELSE storeBar[j]]
  BY <1>1 DEF storeBar
<1>3. refreshingBar' = [j \in Keys |-> j \notin {k} /\ refreshingBar[j]]
  BY <1>1 DEF refreshingBar
<1> QED BY <1>2, <1>3 DEF Abstract!Forget

\* A lookup forgets a dead result that is lent to nobody, or nothing.
LEMMA LookupForgets ==
    ASSUME Sound, NEW k \in Keys, NEW now, cache' = AfterLookup(k, now),
           \A j \in Keys : Cached(j)' =>
               heap'[cache[j].cached_query] = heap[cache[j].cached_query]
    PROVE  Abstract!Keep \/ Abstract!MayForget
<1>1. CASE Killable(k, now)
  <2>1. ~SlamDefense /\ cache' = Without(k)
    BY <1>1 DEF AfterLookup, Killable, Dead
  <2>2. Abstract!Forget({k})
    BY <2>1, DeletedIsForgotten, OthersStay DEF Sound
  <2> QED BY <2>1, <2>2 DEF Abstract!MayForget
<1>2. CASE ~Killable(k, now)
  <2>1. cache' = cache
    BY <1>2 DEF AfterLookup
  <2> QED BY <2>1, StoreStays, MarksStay DEF Cached, Abstract!Keep
<1> QED BY <1>1, <1>2

\* Asking for a refresh marks the result.
LEMMA AskedIsSent ==
    ASSUME Sound, NEW k \in Keys, NEW now, FindAskedToRefresh(k, now),
           \A j \in Keys : Cached(j) => heap'[cache[j].cached_query] = heap[cache[j].cached_query]
    PROVE  Abstract!SendToRefresh(k)
<1>1. \A j \in Keys : /\ Cached(j)' <=> Cached(j)
                      /\ Cached(j) => /\ cache'[j].cached_query = cache[j].cached_query
                                      /\ cache'[j].in_refresh = (j = k \/ cache[j].in_refresh)
  BY MarkOnly DEF Sound
<1>2. Cached(k) /\ SlamDefense /\ ~cache[k].in_refresh
  BY DEF FindAskedToRefresh, AsksForRefresh
<1>3. storeBar' = storeBar
  BY <1>1, StoreStays
<1>4. refreshingBar' = [refreshingBar EXCEPT ![k] = TRUE]
  BY <1>1, <1>2 DEF refreshingBar
<1> QED BY <1>2, <1>3, <1>4, StoreIs DEF Abstract!SendToRefresh

\* An add publishes its content in the place of what it may replace.
LEMMA AddedIsReplaced ==
    ASSUME Sound, NEW k \in Keys, NEW d \in Data, NEW ttl \in Nat, NEW now \in Nat,
           AddQuery(k, d, ttl, now),
           \A j \in Keys : Cached(j) /\ j # k =>
               heap'[cache[j].cached_query] = heap[cache[j].cached_query]
    PROVE  Abstract!Replace(k, heap'[d])
<1>1. \A j \in Keys : /\ j # k => cache'[j] = cache[j]
                      /\ j = k => Cached(j)' /\ cache'[j].cached_query = d /\ ~cache'[j].in_refresh
  BY AddedOnly DEF Sound
<1>2. storeBar' = [storeBar EXCEPT ![k] = heap'[d]]
  BY <1>1 DEF storeBar, Cached
<1>3. refreshingBar' = [refreshingBar EXCEPT ![k] = FALSE]
  BY <1>1 DEF refreshingBar, Cached
<1>4. storeBar[k] # None /\ SlamDefense => refreshingBar[k]
  BY StoreIs DEF AddQuery, MayAdd, Replaceable
<1> QED BY <1>2, <1>3, <1>4 DEF Abstract!Replace

-----------------------------------------------------------------------------
(***************************************************************************)
(* Every step is one of the abstract cache                                 *)
(***************************************************************************)

Simulated == Abstract!Next \/ UNCHANGED Abstract!vars

LEMMA NothingVisible ==
    ASSUME Sound, UNCHANGED <<cache, heap, clientVars>>
    PROVE  Simulated
<1>1. storeBar' = storeBar /\ refreshingBar' = refreshingBar /\ clientBar' = clientBar
  BY DEF storeBar, refreshingBar, clientBar, clientVars, Cached
<1> QED BY <1>1 DEF Simulated, Abstract!vars

\* A hit is Serve.
LEMMA HitSimulated ==
    ASSUME Sound, NEW c \in Clients, NEW k \in Keys, LookupHit(c, k)
    PROVE  Simulated
<1>1. PICK d \in Data : /\ DataCopy => d \in Fresh
                        /\ FindHit(k, Now(c), d)
                        /\ Become(c, "replaying", k, d)
  BY DEF LookupHit
<1>2. Cached(k) /\ (SlamDefense => cache[k].in_refresh)
  BY <1>1 DEF FindHit, FindShared, FindCopied, Servable, AsksForRefresh
<1>3. /\ \A o \in Clients : pc[o] # "idle" => heap'[held[o]] = heap[held[o]]
      /\ \A j \in Keys : Cached(j) => heap'[cache[j].cached_query] = heap[cache[j].cached_query]
      /\ heap'[d] = heap[cache[k].cached_query]
  <2>1. CASE FindShared(k, Now(c), d)
    BY <2>1 DEF FindShared
  <2>2. CASE FindCopied(k, Now(c), d)
    <3>1. d \in Fresh /\ heap' = [heap EXCEPT ![d] = heap[cache[k].cached_query]]
      BY <1>1, <2>2 DEF FindCopied
    <3>2. \A x \in Data : heap'[x] = IF x = d THEN heap[cache[k].cached_query] ELSE heap[x]
      BY <3>1 DEF Sound, TypeOK
    <3> QED BY <1>1, <3>1, <3>2, FillFresh
  <2> QED BY <1>1, <2>1, <2>2 DEF FindHit
<1>4. \A j \in Keys : /\ Cached(j)' <=> Cached(j)
                      /\ Cached(j) => /\ cache'[j].cached_query = cache[j].cached_query
                                      /\ cache'[j].in_refresh = cache[j].in_refresh
  BY <1>1, <1>2, LentOnly DEF Sound, FindHit, FindShared, FindCopied, Cached
<1>5. storeBar' = storeBar /\ refreshingBar' = refreshingBar
  BY <1>3, <1>4, StoreStays, MarksStay
<1>6. clientBar' = [clientBar EXCEPT ![c] = Abstract!Has("replaying", k, storeBar[k])]
  BY <1>1, <1>2, <1>3, OthersKeep, StoreIs DEF Abstract!Has
<1>7. clientBar[c] = Abstract!Idle
  BY IdleIs DEF LookupHit
<1>8. Abstract!Serve(c, k)
  BY <1>2, <1>5, <1>6, <1>7, StoreIs DEF Abstract!Serve, Abstract!Hold, Abstract!Keep
<1> QED BY <1>8 DEF Simulated, Abstract!Next

\* The containers a lookup frees are in nobody's hands and in no entry it leaves.
LEMMA LookupFrees ==
    ASSUME Sound, NEW k \in Keys, NEW now, NEW x \in Data, x \in FreedByLookup(k, now)
    PROVE  /\ \A o \in Clients : pc[o] # "idle" => held[o] # x
           /\ \A j \in Keys : Cached(j) /\ ~(j = k /\ Killable(k, now)) => cache[j].cached_query # x
<1>1. Killable(k, now) /\ x = cache[k].cached_query
  BY FreedByLookupIs
<1>2. Cached(k) /\ cache[k].references = 0
  BY <1>1 DEF Killable, Dead
<1>3. \A o \in Clients : held[o] # x
  BY <1>1, <1>2, NotLent DEF Sound
<1>4. \A j \in Keys : Cached(j) /\ j # k => cache[j].cached_query # x
  BY <1>1, <1>2 DEF Sound, Consistent, EntriesAreDistinct
<1> QED BY <1>1, <1>3, <1>4

\* A lookup that finds nothing leaves the contents of what it does not free.
LEMMA LookupKeepsContents ==
    ASSUME Sound, NEW k \in Keys, NEW now, NEW e,
           e = heap \/ e = Released(FreedByLookup(k, now))
    PROVE  /\ \A o \in Clients : pc[o] # "idle" => e[held[o]] = heap[held[o]]
           /\ \A j \in Keys : Cached(j) /\ ~(j = k /\ Killable(k, now)) =>
                e[cache[j].cached_query] = heap[cache[j].cached_query]
<1>1. \A o \in Clients : pc[o] # "idle" => held[o] \in Data
  BY DEF Sound, ClientsWellFormed
<1>2. \A j \in Keys : Cached(j) => cache[j].cached_query \in Data
  BY EntryIsRecord DEF Sound, TypeOK, Cached
<1> QED BY <1>1, <1>2, LookupFrees DEF Released

\* What find_query_in_cache does when it finds nothing, or asks for a refresh.
LEMMA FindMissForgets ==
    ASSUME Sound, NEW k \in Keys, NEW now, FindMiss(k, now),
           \A j \in Keys : Cached(j) /\ ~(j = k /\ Killable(k, now)) =>
               heap'[cache[j].cached_query] = heap[cache[j].cached_query]
    PROVE  \/ Abstract!SendToRefresh(k)
           \/ Abstract!MayForget
           \/ Abstract!Keep /\ (SlamDefense => storeBar[k] = None)
<1>1. CASE FindNothing(k, now)
  <2>1. SlamDefense => storeBar[k] = None
    BY <1>1, StoreIs DEF FindNothing, Dead
  <2>2. \A j \in Keys : Cached(j)' => Cached(j) /\ ~(j = k /\ Killable(k, now))
    BY <1>1, AfterLookupTable DEF FindNothing, TableAfterLookup, Sound
  <2>3. Abstract!Keep \/ Abstract!MayForget
    BY <1>1, <2>2, LookupForgets DEF FindNothing
  <2> QED BY <2>1, <2>3
<1>2. CASE FindAskedToRefresh(k, now)
  <2>1. ~Killable(k, now)
    BY <1>2 DEF FindAskedToRefresh, AsksForRefresh, Killable
  <2> QED BY <1>2, <2>1, AskedIsSent
<1> QED BY <1>1, <1>2 DEF FindMiss

\* A miss is Fetch.
LEMMA MissSimulated ==
    ASSUME Sound, NEW c \in Clients, NEW k \in Keys, LookupMiss(c, k)
    PROVE  Simulated
<1> DEFINE now == Now(c)
           left == Released(FreedByLookup(k, now))
<1> HIDE DEF now
<1>1. FindMiss(k, now)
  BY DEF LookupMiss, now
<1>2. PICK d \in Fresh, r \in Answers[k] :
             /\ heap' = [left EXCEPT ![d] = r]
             /\ Become(c, "recording", k, d)
  BY DEF LookupMiss, now
<1>3. \A x \in Data : heap'[x] = IF x = d THEN r ELSE left[x]
  BY <1>2 DEF Released
<1>4. /\ d \in Data
      /\ \A o \in Clients : pc[o] # "idle" => held[o] \in Data /\ held[o] # d
      /\ \A j \in Keys : Cached(j) => cache[j].cached_query \in Data /\ cache[j].cached_query # d
  BY <1>2, FreshIs, EntryIsRecord DEF Sound, ClientsWellFormed, TypeOK, Cached
<1>5. /\ \A o \in Clients : pc[o] # "idle" => heap'[held[o]] = heap[held[o]]
      /\ \A j \in Keys : Cached(j) /\ ~(j = k /\ Killable(k, now)) =>
           heap'[cache[j].cached_query] = heap[cache[j].cached_query]
  BY <1>3, <1>4, LookupKeepsContents
<1>6. clientBar' = [clientBar EXCEPT ![c] = Abstract!Has("recording", k, r)]
  BY <1>2, <1>3, <1>4, <1>5, OthersKeep DEF Abstract!Has
<1>7. clientBar[c] = Abstract!Idle
  BY IdleIs DEF LookupMiss
<1>8. \/ Abstract!SendToRefresh(k)
      \/ Abstract!MayForget
      \/ Abstract!Keep /\ (SlamDefense => storeBar[k] = None)
  BY <1>1, <1>5, FindMissForgets
<1>9. Abstract!Fetch(c, k)
  BY <1>6, <1>7, <1>8 DEF Abstract!Fetch, Abstract!Hold
<1> QED BY <1>9 DEF Simulated, Abstract!Next

\* mysqlnd_qc_query_is_cached forgets a dead result, or nothing.
LEMMA AskSimulated ==
    ASSUME Sound, NEW c \in Clients, NEW k \in Keys, AskIsCached(c, k)
    PROVE  Simulated
<1> DEFINE now == Now(c)
<1> HIDE DEF now
<1>1. cache' = AfterLookup(k, now) /\ heap' = Released(FreedByLookup(k, now)) /\ UNCHANGED clientVars
  BY DEF AskIsCached, QueryIsCached, now
<1>2. /\ \A o \in Clients : pc[o] # "idle" => heap'[held[o]] = heap[held[o]]
      /\ \A j \in Keys : Cached(j)' => heap'[cache[j].cached_query] = heap[cache[j].cached_query]
  BY <1>1, LookupKeepsContents, AfterLookupTable DEF TableAfterLookup, Sound
<1>3. clientBar' = clientBar
  BY <1>1, <1>2, AllKeep
<1>4. Abstract!Keep \/ Abstract!MayForget
  BY <1>1, <1>2, LookupForgets
<1> QED BY <1>3, <1>4 DEF Simulated, Abstract!Next, Abstract!Maintain, Abstract!Keep, Abstract!vars

\* A script's find_query_in_cache forgets, marks or leaves what it finds.
LEMMA ScriptFindSimulated ==
    ASSUME Sound, NEW c \in Clients, NEW k \in Keys, ScriptFind(c, k)
    PROVE  Simulated
<1> DEFINE now == Now(c)
<1> HIDE DEF now
<1>1. CASE Servable(k, now) /\ UNCHANGED <<cache, heap>>
  BY <1>1, NothingVisible DEF ScriptFind
<1>2. CASE FindMiss(k, now) /\ heap' = Released(FreedByLookup(k, now))
  <2>1. /\ \A o \in Clients : pc[o] # "idle" => heap'[held[o]] = heap[held[o]]
        /\ \A j \in Keys : Cached(j) /\ ~(j = k /\ Killable(k, now)) =>
             heap'[cache[j].cached_query] = heap[cache[j].cached_query]
    BY <1>2, LookupKeepsContents
  <2>2. clientBar' = clientBar
    BY <2>1, AllKeep DEF ScriptFind
  <2>3. Abstract!SendToRefresh(k) \/ Abstract!MayForget \/ Abstract!Keep
    BY <1>2, <2>1, FindMissForgets
  <2> QED BY <2>2, <2>3 DEF Simulated, Abstract!Next, Abstract!Maintain, Abstract!Keep, Abstract!vars
<1> QED BY <1>1, <1>2 DEF ScriptFind, PhpFind, now

\* The end of a replay is GiveBack.
LEMMA ReplaySimulated ==
    ASSUME Sound, NEW c \in Clients, FinishReplay(c)
    PROVE  Simulated
<1>1. PICK k \in Keys, d \in Data : k = key[c] /\ d = held[c]
  BY DEF FinishReplay, Sound, ClientsWellFormed
<1>2. Become(c, "idle", None, None) /\ clientBar[c].kind = "replaying"
  BY DEF FinishReplay, clientBar
<1>a. ASSUME \A o \in Clients : o # c /\ pc[o] # "idle" => heap'[held[o]] = heap[held[o]],
             Abstract!Keep \/ Abstract!MayForget
      PROVE  Simulated
  <2>1. clientBar' = [clientBar EXCEPT ![c] = Abstract!Idle]
    BY <1>2, <1>a, OthersKeep DEF Abstract!Idle
  <2>2. Abstract!GiveBack(c)
    BY <1>2, <1>a, <2>1 DEF Abstract!GiveBack, Abstract!Hold
  <2> QED BY <2>2 DEF Simulated, Abstract!Next
<1>3. CASE ReturnCopied(d)
  <2>1. DataCopy /\ cache' = cache /\ \A x \in Data : x # d => heap'[x] = heap[x]
    BY <1>3 DEF ReturnCopied, Released
  <2>2. /\ \A o \in Clients \ {c} : held[o] # d
        /\ \A j \in Keys : Cached(j) => cache[j].cached_query # d
    BY <1>1, <2>1, HandlerAssumption DEF Sound, Consistent, OwnDataIsPrivate
  <2>3. /\ \A o \in Clients : o # c /\ pc[o] # "idle" => heap'[held[o]] = heap[held[o]]
        /\ \A j \in Keys : Cached(j) => heap'[cache[j].cached_query] = heap[cache[j].cached_query]
    BY <2>1, <2>2, EntryIsRecord DEF Sound, ClientsWellFormed, TypeOK, Cached
  <2>4. Abstract!Keep
    BY <2>1, <2>3, StoreStays, MarksStay DEF Cached, Abstract!Keep
  <2> QED BY <1>a, <2>3, <2>4
<1>4. CASE ReturnShared(k, Now(c))
  <2>1. ~DataCopy /\ Cached(k) /\ cache[k].cached_query = d
    BY <1>1, <1>4 DEF ReturnShared, Sound, Consistent, LentIsCached, FinishReplay
  <2>2. CASE LastReturn(k, Now(c))
    <3>1. cache' = Without(k) /\ heap' = Released({d})
      BY <1>4, <2>1, <2>2 DEF ReturnShared
    <3>2. ~SlamDefense
      BY <1>1, <2>1, <2>2 DEF LastReturn, Sound, LentIsRefreshed, FinishReplay
    <3>3. Readers(k) = {c}
      <4>1. c \in Readers(k) /\ IsFiniteSet(Readers(k))
        BY <1>1, ReadersFinite DEF Readers, FinishReplay
      <4>2. cache[k].references = Cardinality(Readers(k))
        BY <2>1 DEF Sound, Consistent, CountersAreReaders
      <4>3. Cardinality(Readers(k)) # 0
        BY <4>1, FS_EmptySet
      <4>4. Cardinality(Readers(k)) = 1
        BY <2>2, <4>2, <4>3, ReadersFinite DEF LastReturn, Dec
      <4>5. Cardinality(Readers(k) \ {c}) = 0 /\ IsFiniteSet(Readers(k) \ {c})
        BY <4>1, <4>4, FS_RemoveElement
      <4> QED BY <4>1, <4>5, FS_EmptySet
    <3>4. \A o \in Clients : o # c /\ pc[o] # "idle" => held[o] \in Data /\ held[o] # d
      <4> SUFFICES ASSUME NEW o \in Clients, o # c, pc[o] # "idle", held[o] = d PROVE FALSE
        BY DEF Sound, ClientsWellFormed
      <4>1. pc[o] = "replaying"
        BY <2>1, HandlerAssumption DEF Sound, Consistent, OwnDataIsPrivate
      <4>2. key[o] \in Keys /\ Cached(key[o]) /\ cache[key[o]].cached_query = d
        BY <2>1, <4>1 DEF Sound, Consistent, LentIsCached, ClientsWellFormed
      <4>3. key[o] = k
        BY <2>1, <4>2 DEF Sound, Consistent, EntriesAreDistinct
      <4> QED BY <3>3, <4>1, <4>3 DEF Readers
    <3>5. \A j \in Keys : Cached(j) /\ j # k => cache[j].cached_query \in Data \ {d}
      BY <2>1, EntryIsRecord DEF Sound, Consistent, EntriesAreDistinct, TypeOK, Cached
    <3>6. /\ \A o \in Clients : o # c /\ pc[o] # "idle" => heap'[held[o]] = heap[held[o]]
          /\ \A j \in Keys : Cached(j) /\ j # k =>
               heap'[cache[j].cached_query] = heap[cache[j].cached_query]
      BY <3>1, <3>4, <3>5 DEF Released
    <3>7. Abstract!MayForget
      BY <3>1, <3>2, <3>6, DeletedIsForgotten DEF Abstract!MayForget
    <3> QED BY <1>a, <3>6, <3>7
  <2>3. CASE ~LastReturn(k, Now(c))
    <3>1. cache' = [cache EXCEPT ![k].references = Dec(@)] /\ heap' = heap
      BY <1>4, <2>1, <2>3 DEF ReturnShared
    <3>2. \A j \in Keys : /\ Cached(j)' <=> Cached(j)
                          /\ Cached(j) => /\ cache'[j].cached_query = cache[j].cached_query
                                          /\ cache'[j].in_refresh = cache[j].in_refresh
      BY <2>1, <3>1, ReturnedOnly DEF Sound
    <3>3. Abstract!Keep
      BY <3>1, <3>2, StoreStays, MarksStay DEF Abstract!Keep
    <3> QED BY <1>a, <3>1, <3>3
  <2> QED BY <2>2, <2>3
<1> QED BY <1>1, <1>3, <1>4 DEF FinishReplay, ReturnToCache

\* What a client recorded and frees is in nobody else's hands and in no entry.
LEMMA OwnIsFree ==
    ASSUME Sound, NEW c \in Clients, pc[c] = "recording"
    PROVE  /\ \A o \in Clients : o # c /\ pc[o] # "idle" => held[o] \in Data /\ held[o] # held[c]
           /\ \A j \in Keys : Cached(j) =>
                cache[j].cached_query \in Data /\ cache[j].cached_query # held[c]
<1>1. held[c] # None
  BY HandlerAssumption DEF Sound, ClientsWellFormed
<1> QED BY <1>1, EntryIsRecord DEF Sound, Consistent, OwnDataIsPrivate, ClientsWellFormed, TypeOK, Cached

\* A recording that is not added is GiveUp.
LEMMA GiveUpSimulated ==
    ASSUME Sound, NEW c \in Clients, FinishRefused(c) \/ Abandon(c)
    PROVE  Simulated
<1>1. /\ cache' = cache /\ pc[c] = "recording"
      /\ heap' = Released({held[c]}) /\ Become(c, "idle", None, None)
  BY DEF FinishRefused, Abandon, AddRefused
<1>2. /\ \A o \in Clients : o # c /\ pc[o] # "idle" => heap'[held[o]] = heap[held[o]]
      /\ \A j \in Keys : Cached(j) => heap'[cache[j].cached_query] = heap[cache[j].cached_query]
  BY <1>1, OwnIsFree DEF Released
<1>3. clientBar' = [clientBar EXCEPT ![c] = Abstract!Idle]
  BY <1>1, <1>2, OthersKeep DEF Abstract!Idle
<1>4. Abstract!Keep
  BY <1>1, <1>2, StoreStays, MarksStay DEF Cached, Abstract!Keep
<1>5. clientBar[c].kind = "recording"
  BY <1>1 DEF clientBar
<1>6. Abstract!GiveUp(c)
  BY <1>3, <1>4, <1>5 DEF Abstract!GiveUp, Abstract!Hold
<1> QED BY <1>6 DEF Simulated, Abstract!Next

\* An add frees nothing but the container of the entry it replaces.
LEMMA AddFrees ==
    ASSUME Sound, NEW k \in Keys, NEW d, NEW ttl, NEW now, AddQuery(k, d, ttl, now),
           NEW e, e = Released(FreedByAdd(k))
    PROVE  /\ \A o \in Clients : pc[o] # "idle" => e[held[o]] = heap[held[o]]
           /\ \A j \in Keys : Cached(j) /\ j # k =>
                e[cache[j].cached_query] = heap[cache[j].cached_query]
<1>1. \A o \in Clients : pc[o] # "idle" => held[o] \in Data
  BY DEF Sound, ClientsWellFormed
<1>2. \A j \in Keys : Cached(j) => cache[j].cached_query \in Data
  BY EntryIsRecord DEF Sound, TypeOK, Cached
<1>3. FreedByAdd(k) = IF Cached(k) THEN {cache[k].cached_query} ELSE {}
  BY DEF FreedByAdd, DestroyedBy, AddQuery, MayAdd, Replaceable
<1>4. Cached(k) => cache[k].references = 0
  BY DEF AddQuery, MayAdd, Replaceable
<1>5. Cached(k) => \A o \in Clients : held[o] # cache[k].cached_query
  BY <1>4, NotLent DEF Sound
<1>6. \A j \in Keys : Cached(j) /\ j # k /\ Cached(k) => cache[j].cached_query # cache[k].cached_query
  BY DEF Sound, Consistent, EntriesAreDistinct
<1> QED BY <1>1, <1>2, <1>3, <1>5, <1>6 DEF Released

\* The end of a recording is Publish.
LEMMA RecordSimulated ==
    ASSUME Sound, NEW c \in Clients, NEW ttl \in Ttls, FinishRecord(c, ttl)
    PROVE  Simulated
<1>1. PICK k \in Keys, d \in Data, now \in Nat : k = key[c] /\ d = held[c] /\ now = Now(c)
  BY NowType DEF FinishRecord, Sound, ClientsWellFormed
<1>2. /\ ttl \in Nat /\ AddQuery(k, d, ttl, now) /\ pc[c] = "recording"
      /\ heap' = Released(FreedByAdd(k)) /\ Become(c, "idle", None, None)
  BY <1>1, ClientAssumption DEF FinishRecord
<1>3. /\ \A o \in Clients : pc[o] # "idle" => heap'[held[o]] = heap[held[o]]
      /\ \A j \in Keys : Cached(j) /\ j # k =>
           heap'[cache[j].cached_query] = heap[cache[j].cached_query]
  BY <1>2, AddFrees
<1>4. clientBar[c] = Abstract!Has("recording", k, heap'[d])
  BY <1>1, <1>2, <1>3, BusyIs
<1>5. clientBar' = [clientBar EXCEPT ![c] = Abstract!Idle]
  BY <1>2, <1>3, OthersKeep DEF Abstract!Idle
<1>6. Abstract!Replace(k, heap'[d])
  BY <1>2, <1>3, AddedIsReplaced
<1>7. Abstract!Publish(c)
  BY <1>4, <1>5, <1>6 DEF Abstract!Publish, Abstract!Hold, Abstract!Has
<1> QED BY <1>7 DEF Simulated, Abstract!Next

\* A script's add replaces a result, or is refused.
LEMMA ScriptAddSimulated ==
    ASSUME Sound, NEW c \in Clients, NEW k \in Keys, NEW ttl \in Ttls, ScriptAdd(c, k, ttl)
    PROVE  Simulated
<1>1. CASE AddRefused(k, Now(c)) /\ UNCHANGED heap
  BY <1>1, NothingVisible DEF ScriptAdd, AddRefused
<1>2. CASE \E d \in Fresh, r \in Answers[k] :
             /\ AddQuery(k, d, ttl, Now(c))
             /\ heap' = [Released(FreedByAdd(k)) EXCEPT ![d] = r]
  <2>1. PICK d \in Fresh, r \in Answers[k], now \in Nat :
             /\ AddQuery(k, d, ttl, now)
             /\ heap' = [Released(FreedByAdd(k)) EXCEPT ![d] = r]
    BY <1>2, NowType DEF Sound
  <2>2. ttl \in Nat /\ UNCHANGED clientVars
    BY ClientAssumption DEF ScriptAdd
  <2>3. \A x \in Data : heap'[x] = IF x = d THEN r ELSE Released(FreedByAdd(k))[x]
    BY <2>1 DEF Released
  <2>4. /\ d \in Data
        /\ \A o \in Clients : pc[o] # "idle" => held[o] \in Data /\ held[o] # d
        /\ \A j \in Keys : Cached(j) => cache[j].cached_query \in Data /\ cache[j].cached_query # d
    BY <2>1, FreshIs, EntryIsRecord DEF Sound, ClientsWellFormed, TypeOK, Cached
  <2>5. /\ \A o \in Clients : pc[o] # "idle" => heap'[held[o]] = heap[held[o]]
        /\ \A j \in Keys : Cached(j) /\ j # k =>
             heap'[cache[j].cached_query] = heap[cache[j].cached_query]
    BY <2>1, <2>3, <2>4, AddFrees
  <2>6. clientBar' = clientBar
    BY <2>2, <2>5, AllKeep
  <2>7. Abstract!Replace(k, r)
    BY <2>1, <2>2, <2>3, <2>4, <2>5, AddedIsReplaced
  <2> QED BY <2>6, <2>7 DEF Simulated, Abstract!Next, Abstract!Maintain
<1> QED BY <1>1, <1>2 DEF ScriptAdd

\* clear_cache is Clear, as long as no entry is lent.
LEMMA ClearSimulated ==
    ASSUME Sound, Clear, ~orphaned'
    PROVE  Simulated
<1>1. \A j \in Keys : Cached(j) => cache[j].references = 0
  BY DEF Clear
<1>2. \A j \in Keys : ~Cached(j)'
  BY DEF Clear, ClearCache, Cached
<1>3. storeBar' = [j \in Keys |-> IF j \in Keys THEN None ELSE storeBar[j]]
  BY <1>2 DEF storeBar
<1>4. refreshingBar' = [j \in Keys |-> j \notin Keys /\ refreshingBar[j]]
  BY <1>2 DEF refreshingBar
<1>5. \A o \in Clients : pc[o] # "idle" => heap'[held[o]] = heap[held[o]]
  <2>1. \A o \in Clients : pc[o] # "idle" => held[o] \in Data
    BY DEF Sound, ClientsWellFormed
  <2>2. \A o \in Clients, j \in Keys : Cached(j) => held[o] # cache[j].cached_query
    BY <1>1, NotLent DEF Sound
  <2> QED BY <2>1, <2>2 DEF Clear, ClearCache, Released, DestroyedBy
<1>6. clientBar' = clientBar
  BY <1>5, AllKeep DEF Clear
<1> QED BY <1>3, <1>4, <1>6 DEF Simulated, Abstract!Next, Abstract!Clear, Abstract!Forget

LEMMA ClientStepSimulated ==
    ASSUME Sound, NEW c \in Clients, ProtocolStep(c) \/ ScriptStep(c)
    PROVE  Simulated
<1>1. CASE NewRequest(c)
  BY <1>1, NothingVisible DEF NewRequest
<1> QED BY <1>1, ReplaySimulated, GiveUpSimulated, RecordSimulated, HitSimulated, MissSimulated,
           AskSimulated, ScriptFindSimulated, ScriptAddSimulated DEF ProtocolStep, ScriptStep

LEMMA StepSimulated == RInv /\ [Next]_vars /\ ~orphaned' => Simulated
<1> SUFFICES ASSUME RInv, [Next]_vars, ~orphaned' PROVE Simulated
  OBVIOUS
<1>1. Sound
  BY OrphanedStays, RInvSound
<1>2. CASE UNCHANGED vars \/ Tick
  BY <1>1, <1>2, NothingVisible DEF vars, Tick, clientVars
<1>3. CASE Clear
  BY <1>1, <1>3, ClearSimulated
<1>4. ASSUME NEW c \in Clients, ProtocolStep(c) \/ ScriptStep(c) PROVE Simulated
  BY <1>1, <1>4, ClientStepSimulated
<1> QED BY <1>2, <1>3, <1>4 DEF Next, NextNoClear, NextProtocol

LEMMA InitSimulated == Init => Abstract!Init
BY DEF Init, HandlerInit, Cached, storeBar, refreshingBar, clientBar, Abstract!Init, Abstract!Idle

\* The default handler is a result cache: whatever its clients and scripts do,
\* until clear_cache removes a lent entry, a client gets what was published
\* under its key and keeps it unchanged until it gives it back, and under slam
\* defense one client at a time is sent to refresh a result.
THEOREM Implementation == Spec => ImplementsResultCache
<1>1. RInv /\ [Next]_vars => [orphaned' \/ Abstract!Next]_(Abstract!vars)
  BY StepSimulated DEF Simulated
<1> QED BY <1>1, RInvInit, RInvStep, InitSimulated, PTL DEF Spec, ImplementsResultCache

=============================================================================
