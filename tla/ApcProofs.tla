------------------------------- MODULE ApcProofs -------------------------------
(***************************************************************************)
(* The APC handler keeps its types, and without slam defense it replays no *)
(* result beyond its time to live, for any number of processes and keys,   *)
(* with or without the lock.                                               *)
(*                                                                         *)
(* Processes overwrite each other's entries, so nothing can be said of the *)
(* entry a process has read once it works on its copy.  The argument is    *)
(* about the arrays instead: wherever one is (in APC, or a copy that is    *)
(* still to be written) it expires Ttl after its data was added.           *)
(***************************************************************************)
EXTENDS ApcHandler, FiniteSetTheorems, TLAPS

\* TypeOK of one process
WellFormed(r) ==
    /\ r \in Process
    /\ r.pc \in {"deleting", "storing"} => r.copy \in Array
    /\ r.pc \in {"deleting", "storing", "replaying", "recording"} => r.key \in Keys
    /\ r.pc = "entering" /\ r.op # "clear" => r.key \in Keys

\* A step of p that assigns r to it and leaves the clock and the entries typed.
LEMMA StepOfOne ==
    ASSUME TypeOK, NEW p \in Procs, NEW r, WellFormed(r), Assign(p, r),
           clock' = clock, apc' \in [Keys -> Entry \cup {NoEntry}], found' \in [Keys -> Nat]
    PROVE  TypeOK'
  <1>1. proc' \in [Procs -> Process]
    BY DEF TypeOK, Assign, WellFormed
  <1>2. \A q \in Procs : proc'[q] = IF q = p THEN r ELSE proc[q]
    BY DEF TypeOK, Assign
  <1> QED BY <1>1, <1>2 DEF TypeOK, WellFormed

\* An array that is found is one.
LEMMA FoundIsArray ==
    ASSUME TypeOK, NEW p \in Procs, NEW op \in Operations \ {"clear"}, Finds(p, op)
    PROVE  /\ Array0(p) \in Array /\ proc[p].key \in Keys
           /\ apc[proc[p].key] \in Entry
  BY DEF TypeOK, Finds, Visible, Present, Array0, Entry, Operations

LEMMA ArrayFields ==
    ASSUME NEW a \in Array
    PROVE  /\ a.data \in Nat /\ a.valid_until \in Nat
           /\ a.in_refresh_until \in Nat /\ a.cache_hits \in Nat
  BY DEF Array

LEMMA ArrayUpdates ==
    ASSUME NEW a \in Array, NEW i \in Nat, NEW v \in Nat
    PROVE  /\ [a EXCEPT !.in_refresh_until = i] \in Array
           /\ [a EXCEPT !.in_refresh_until = i, !.valid_until = v] \in Array
  BY DEF Array

LEMMA ProcFields ==
    ASSUME TypeOK, NEW p \in Procs
    PROVE  WellFormed(proc[p])
  BY DEF TypeOK, WellFormed

LEMMA LeaveTypes ==
    ASSUME ApcAssumption, TypeOK, NEW p \in Procs, NEW place \in Outside, Leave(p, place),
           place # "idle" => proc[p].key \in Keys
    PROVE  TypeOK'
  <1> DEFINE r == [Idle EXCEPT !.pc = place,
                               !.key = IF place = "idle" THEN None ELSE proc[p].key]
  <1>1. WellFormed(r)
    BY DEF WellFormed, Process, Idle, Places, Outside, Locked
  <1> QED BY <1>1, StepOfOne DEF Leave, TypeOK

LEMMA WriteBackTypes ==
    ASSUME TypeOK, NEW p \in Procs, NEW r \in Process, r.key \in Keys,
           NEW first \in {"deleting", "storing"}, NEW copy \in Array, NEW ttl \in Nat,
           WriteBack(p, first, copy, ttl, r)
    PROVE  TypeOK'
  <1> DEFINE w == [r EXCEPT !.pc = first, !.copy = copy, !.ttl = ttl]
  <1>1. WellFormed(w)
    BY DEF WellFormed, Process, Places, Locked
  <1> QED BY <1>1, StepOfOne DEF WriteBack, TypeOK

-----------------------------------------------------------------------------
\* Types

LEMMA InitTypes == ASSUME ApcAssumption, Init PROVE TypeOK
  BY DEF ApcAssumption, Init, TypeOK, Process, Idle, Places, Outside, Locked, Entry, NoEntry

LEMMA EnterTypes ==
    ASSUME TypeOK, NEW p \in Procs, NEW op \in Operations, NEW k \in Keys, Enter(p, op, k)
    PROVE  TypeOK'
  <1> DEFINE r == [proc[p] EXCEPT !.pc = "entering", !.op = op, !.key = k, !.now = clock,
                                  !.served = None, !.refresher = FALSE]
  <1>1. proc[p] \in Process /\ clock \in Nat
    BY DEF TypeOK
  <1>2. WellFormed(r)
    BY <1>1 DEF WellFormed, Process, Places
  <1> QED BY <1>2, StepOfOne DEF Enter, TypeOK

\* What find_query_in_cache writes back, and what it tells APC.
LEMMA FindTypes ==
    ASSUME ApcAssumption, TypeOK, NEW p \in Procs, Find(p)
    PROVE  TypeOK'
  <1>1. CASE FindMiss(p)
    <2>1. proc[p].key \in Keys
      BY <1>1 DEF FindMiss, FindsNot, TypeOK
    <2> QED BY <1>1, <2>1, LeaveTypes DEF FindMiss, Outside
  <1>2. CASE FindExpired(p)
    <2>1. proc[p].key \in Keys
      BY <1>2, FoundIsArray DEF FindExpired, Operations
    <2> QED BY <1>2, <2>1, LeaveTypes DEF FindExpired, Outside
  <1>3. ASSUME Finds(p, "find")
        PROVE  /\ proc[p] \in Process /\ proc[p].now \in Nat /\ proc[p].key \in Keys
               /\ Array0(p) \in Array /\ Hit(p) \in Array
               /\ Serving(p) \in Process /\ Serving(p).key \in Keys
               /\ Left(p) \in Int /\ RefreshLeft(p) \in Int
    <2>1. Array0(p) \in Array /\ proc[p].key \in Keys
      BY <1>3, FoundIsArray DEF Operations
    <2>2. proc[p] \in Process /\ proc[p].now \in Nat
      BY DEF TypeOK, Process
    <2>3. Hit(p) \in Array
      BY <2>1, ArrayFields DEF Hit, Incremented, Array
    <2>4. Serving(p) \in Process /\ Serving(p).key \in Keys
      BY <2>1, <2>2, ArrayFields DEF Serving, Process, Outside
    <2>5. Left(p) \in Int /\ RefreshLeft(p) \in Int
      BY <2>1, <2>2, ArrayFields DEF Left, RefreshLeft
    <2> QED BY <2>1, <2>2, <2>3, <2>4, <2>5
  <1>4. CASE FindHit(p)
    <2>1. (IF SlamDefense THEN 0 ELSE Left(p)) \in Nat
      BY <1>3, <1>4 DEF FindHit
    <2> QED BY <1>3, <1>4, <2>1, WriteBackTypes DEF FindHit
  <1>5. CASE FindRefresh(p)
    <2> DEFINE a == [Hit(p) EXCEPT !.in_refresh_until = SlamTtl + proc[p].now]
               r == [proc[p] EXCEPT !.next = "recording", !.refresher = TRUE]
    <2>1. a \in Array /\ SlamTtl \in Nat
      BY <1>3, <1>5 DEF FindRefresh, Array, ApcAssumption
    <2>2. r \in Process /\ r.key \in Keys
      BY <1>3, <1>5 DEF FindRefresh, Process, Outside
    <2> QED BY <1>5, <2>1, <2>2, WriteBackTypes DEF FindRefresh
  <1>6. CASE FindStaleHit(p)
    <2>1. RefreshLeft(p) \in Nat
      BY <1>3, <1>6 DEF FindStaleHit
    <2> QED BY <1>3, <1>6, <2>1, WriteBackTypes DEF FindStaleHit
  <1> QED BY <1>1, <1>2, <1>4, <1>5, <1>6 DEF Find

LEMMA AddTypes ==
    ASSUME ApcAssumption, TypeOK, NEW p \in Procs, Add(p)
    PROVE  TypeOK'
  <1> DEFINE r == [proc[p] EXCEPT !.next = "idle"]
  <1>1. proc[p].key \in Keys /\ proc[p].now \in Nat /\ r \in Process /\ r.key \in Keys
    <2>1. proc[p] \in Process /\ proc[p].now \in Nat
      BY DEF TypeOK, Process
    <2>2. proc[p].key \in Keys
      BY DEF Add, AddNew, AddProlongs, AddKeeps, Finds, FindsNot, TypeOK
    <2>3. r \in Process /\ r.key \in Keys
      BY <2>1, <2>2 DEF Process, Outside
    <2> QED BY <2>1, <2>2, <2>3
  <1>2. CASE AddNew(p)
    <2>1. NewArray(p) \in Array /\ (IF SlamDefense THEN 0 ELSE Ttl) \in Nat
      BY <1>1 DEF NewArray, Array, ApcAssumption
    <2> QED BY <1>1, <1>2, <2>1, WriteBackTypes DEF AddNew
  <1>3. CASE AddProlongs(p)
    <2> DEFINE a == [Array0(p) EXCEPT !.in_refresh_until = 0, !.valid_until = Ttl + proc[p].now]
    <2>1. Array0(p) \in Array
      BY <1>3, FoundIsArray DEF AddProlongs, Operations
    <2>2. Ttl + proc[p].now \in Nat
      BY <1>1 DEF ApcAssumption
    <2>3. a \in Array
      BY <2>1, <2>2, ArrayUpdates
    <2> QED BY <1>1, <1>3, <2>3, WriteBackTypes DEF AddProlongs
  <1>4. CASE AddKeeps(p)
    BY <1>4, LeaveTypes DEF AddKeeps, Outside
  <1> QED BY <1>2, <1>3, <1>4 DEF Add

LEMMA UpdateStatsTypes ==
    ASSUME ApcAssumption, TypeOK, NEW p \in Procs, UpdateStats(p)
    PROVE  TypeOK'
  <1> DEFINE r == [proc[p] EXCEPT !.next = "idle"]
  <1>1. Array0(p) \in Array /\ proc[p].key \in Keys
    BY FoundIsArray DEF UpdateStats, Operations
  <1>2. r \in Process /\ r.key \in Keys /\ proc[p].now \in Nat
    BY <1>1 DEF TypeOK, Process, Outside
  <1>3. StatsTtl(p) \in Int
    BY <1>1, <1>2, ArrayFields DEF StatsTtl, Left, RefreshLeft
  <1>4. CASE Leave(p, "idle")
    BY <1>4, LeaveTypes DEF Outside
  <1>5. CASE StatsTtl(p) >= 0 /\ WriteBack(p, "deleting", Array0(p), StatsTtl(p), r)
    <2>1. StatsTtl(p) \in Nat
      BY <1>3, <1>5
    <2> QED BY <1>1, <1>2, <1>5, <2>1, WriteBackTypes
  <1> QED BY <1>3, <1>4, <1>5 DEF UpdateStats

LEMMA IsCachedTypes ==
    ASSUME ApcAssumption, TypeOK, NEW p \in Procs, IsCached(p)
    PROVE  TypeOK'
  <1> DEFINE r == [proc[p] EXCEPT !.next = "idle"]
             a == [Array0(p) EXCEPT !.in_refresh_until = SlamTtl + proc[p].now]
  <1>1. Array0(p) \in Array /\ proc[p].key \in Keys
    BY FoundIsArray DEF IsCached, Operations
  <1>2. r \in Process /\ r.key \in Keys /\ proc[p].now \in Nat
    BY <1>1 DEF TypeOK, Process, Outside
  <1>3. a \in Array /\ SlamTtl \in Nat
    BY <1>1, <1>2 DEF Array, ApcAssumption
  <1>4. CASE Leave(p, "idle")
    BY <1>4, LeaveTypes DEF Outside
  <1>5. CASE WriteBack(p, "storing", a, SlamTtl, r)
    BY <1>2, <1>3, <1>5, WriteBackTypes
  <1> QED BY <1>4, <1>5 DEF IsCached

LEMMA DeleteTypes ==
    ASSUME TypeOK, NEW p \in Procs, Delete(p)
    PROVE  TypeOK'
  <1> DEFINE r == [proc[p] EXCEPT !.pc = "storing"]
  <1>1. WellFormed(r)
    BY ProcFields DEF Delete, WellFormed, Process, Places, Locked
  <1>2. apc' \in [Keys -> Entry \cup {NoEntry}]
    BY DEF Delete, TypeOK
  <1> QED BY <1>1, <1>2, StepOfOne DEF Delete, TypeOK

LEMMA StoreTypes ==
    ASSUME ApcAssumption, TypeOK, NEW p \in Procs, Store(p)
    PROVE  TypeOK'
  <1>1. WellFormed(proc[p]) /\ proc[p].pc = "storing" /\ clock \in Nat
    BY ProcFields DEF Store, TypeOK
  <1>2. /\ proc[p].copy \in Array /\ proc[p].key \in Keys /\ proc[p].ttl \in Nat
        /\ proc[p].next \in Outside /\ proc[p].now \in Nat
        /\ proc[p].served \in Nat \cup {None} /\ proc[p].refresher \in BOOLEAN
    BY <1>1 DEF WellFormed, Process
  <1>3. Stored(proc[p].copy, proc[p].ttl) \in Entry
    BY <1>1, <1>2 DEF Stored, Entry
  <1>4. apc' \in [Keys -> Entry \cup {NoEntry}]
    BY <1>3 DEF Store, TypeOK
  <1>5. found' \in [Keys -> Nat]
    BY <1>2 DEF Store, TypeOK, Incremented
  <1>6. WellFormed(After(p, proc[p].next))
    BY <1>2 DEF WellFormed, After, Idle, Process, Places, Outside, Locked
  <1> QED BY <1>4, <1>5, <1>6, StepOfOne DEF Store, TypeOK

LEMMA StoreFailsTypes ==
    ASSUME ApcAssumption, TypeOK, NEW p \in Procs, StoreFails(p)
    PROVE  TypeOK'
  <1>1. proc[p].key \in Keys
    BY DEF StoreFails, TypeOK
  <1> DEFINE place == IF proc[p].op = "find" THEN "recording" ELSE "idle"
  <1>2. place \in Outside
    BY DEF Outside
  <1> QED BY <1>1, <1>2, LeaveTypes DEF StoreFails

LEMMA ClearTypes ==
    ASSUME ApcAssumption, TypeOK, NEW p \in Procs, Clear(p)
    PROVE  TypeOK'
  <1>1. CASE ListEntries(p)
    <2> DEFINE listed == {k \in Keys : Present(k)}
               r == [proc[p] EXCEPT !.pc = "entering", !.op = "clear", !.now = clock,
                                    !.todo = listed]
    <2>1. proc[p] \in Process /\ clock \in Nat /\ listed \in SUBSET Keys
      BY DEF TypeOK
    <2>2. Assign(p, r)
      BY <1>1 DEF ListEntries
    <2> HIDE DEF listed
    <2>3. WellFormed(r)
      BY <2>1 DEF WellFormed, Process, Places, Operations
    <2> QED BY <1>1, <2>2, <2>3, StepOfOne DEF ListEntries, TypeOK
  <1>2. CASE BeginClear(p)
    <2> DEFINE r == [proc[p] EXCEPT !.pc = "clearing"]
    <2>1. proc[p] \in Process
      BY DEF TypeOK
    <2>2. WellFormed(r)
      BY <2>1 DEF WellFormed, Process, Places, Locked
    <2> QED BY <1>2, <2>2, StepOfOne DEF BeginClear, TypeOK
  <1>3. ASSUME NEW k \in Keys, ClearEntry(p, k)
        PROVE  TypeOK'
    <2> DEFINE r == [proc[p] EXCEPT !.todo = @ \ {k}]
    <2>1. proc[p] \in Process /\ proc[p].pc = "clearing"
      BY <1>3 DEF TypeOK, ClearEntry
    <2>2. WellFormed(r)
      BY <2>1 DEF WellFormed, Process
    <2>3. apc' \in [Keys -> Entry \cup {NoEntry}]
      BY <1>3 DEF ClearEntry, TypeOK
    <2> QED BY <1>3, <2>2, <2>3, StepOfOne DEF ClearEntry, TypeOK
  <1>4. CASE EndClear(p) \/ ClearGivesUp(p)
    BY <1>4, LeaveTypes DEF EndClear, ClearGivesUp, Outside
  <1> QED BY <1>1, <1>2, <1>3, <1>4 DEF Clear

LEMMA NextTypes ==
    ASSUME ApcAssumption, TypeOK, [Next]_vars
    PROVE  TypeOK'
  <1>1. CASE Tick
    BY <1>1 DEF Tick, TypeOK, ApcAssumption
  <1>2. ASSUME NEW k \in Keys, Evict(k)
        PROVE  TypeOK'
    BY <1>2 DEF Evict, TypeOK
  <1>3. ASSUME NEW p \in Procs, NEW k \in Keys, EnterFind(p, k) \/ EnterIsCached(p, k)
        PROVE  TypeOK'
    BY <1>3, EnterTypes DEF EnterFind, EnterIsCached, Operations
  <1>4. ASSUME NEW p \in Procs, EnterUpdateStats(p) \/ EnterAdd(p)
        PROVE  TypeOK'
    <2>1. proc[p].key \in Keys
      BY <1>4 DEF EnterUpdateStats, EnterAdd, TypeOK
    <2> QED BY <1>4, <2>1, EnterTypes DEF EnterUpdateStats, EnterAdd, Operations
  <1>5. ASSUME NEW p \in Procs, Find(p) \/ Add(p) \/ Clear(p)
        PROVE  TypeOK'
    BY <1>5, FindTypes, AddTypes, ClearTypes
  <1>6. ASSUME NEW p \in Procs, UpdateStatsGone(p) \/ IsCachedMiss(p)
        PROVE  TypeOK'
    BY <1>6, LeaveTypes DEF UpdateStatsGone, IsCachedMiss, Outside
  <1>7. ASSUME NEW p \in Procs, UpdateStats(p) \/ IsCached(p)
        PROVE  TypeOK'
    BY <1>7, UpdateStatsTypes, IsCachedTypes
  <1>8. ASSUME NEW p \in Procs, Delete(p) \/ Store(p) \/ StoreFails(p)
        PROVE  TypeOK'
    BY <1>8, DeleteTypes, StoreTypes, StoreFailsTypes
  <1>9. ASSUME NEW p \in Procs, Abandon(p)
        PROVE  TypeOK'
    BY <1>9, LeaveTypes DEF Abandon, Outside
  <1>10. CASE UNCHANGED vars
    BY <1>10 DEF vars, TypeOK
  <1> QED BY <1>1, <1>2, <1>3, <1>4, <1>5, <1>6, <1>7, <1>8, <1>9, <1>10 DEF Next

\* The APC handler keeps its types: the times to live it passes to APC are never
\* negative, and a process that writes has an entry and a key.
THEOREM ApcTypeCorrect == Spec => []TypeOK
  <1>1. Init => TypeOK
    BY InitTypes, ApcAssumption
  <1>2. TypeOK /\ [Next]_vars => TypeOK'
    BY NextTypes, ApcAssumption
  <1> QED BY <1>1, <1>2, PTL DEF Spec

-----------------------------------------------------------------------------
\* Without slam defense nothing is replayed beyond its time to live.

\* The array expires Ttl after its data was added.
Dated(a) == a.valid_until = a.data + Ttl

DatedEntries == \A k \in Keys : Present(k) => Dated(apc[k].array)

\* A process holds on to what it served until it has replayed it, and does not
\* read the time again before.
Honest(r) ==
    /\ r.pc \in {"deleting", "storing"} => Dated(r.copy)
    /\ r.served # None =>
         /\ r.now - r.served <= Ttl
         /\ r.pc = "replaying" \/ (r.pc \in {"deleting", "storing"} /\ r.next = "replaying")

IServed == DatedEntries /\ \A p \in Procs : Honest(proc[p])

LEMMA HonestStepOfOne ==
    ASSUME TypeOK, IServed, NEW p \in Procs, NEW r, Honest(r), Assign(p, r), DatedEntries'
    PROVE  IServed'
  <1>1. \A q \in Procs : proc'[q] = IF q = p THEN r ELSE proc[q]
    BY DEF TypeOK, Assign
  <1> QED BY <1>1 DEF IServed, Honest, Dated

LEMMA LeaveServed ==
    ASSUME TypeOK, IServed, NEW p \in Procs, NEW place, Leave(p, place), place \in Outside
    PROVE  IServed'
  <1> DEFINE r == [Idle EXCEPT !.pc = place,
                               !.key = IF place = "idle" THEN None ELSE proc[p].key]
  <1>1. Honest(r)
    BY DEF Honest, Idle, Outside
  <1>2. DatedEntries'
    BY DEF Leave, IServed, DatedEntries, Present, Dated
  <1> QED BY <1>1, <1>2, HonestStepOfOne DEF Leave

\* A process that writes back an array that is dated, and serves it in time or
\* serves nothing.
LEMMA WriteBackServed ==
    ASSUME TypeOK, IServed, NEW p \in Procs, NEW r \in Process,
           NEW first \in {"deleting", "storing"}, NEW copy \in Array, NEW ttl,
           WriteBack(p, first, copy, ttl, r), Dated(copy),
           r.served # None => r.now - r.served <= Ttl /\ r.next = "replaying"
    PROVE  IServed'
  <1> DEFINE w == [r EXCEPT !.pc = first, !.copy = copy, !.ttl = ttl]
  <1>1. Honest(w)
    BY DEF Honest, Process
  <1>2. DatedEntries'
    BY DEF WriteBack, IServed, DatedEntries, Present, Dated
  <1> QED BY <1>1, <1>2, HonestStepOfOne DEF WriteBack

\* What a process that has just got the lock knows.
LEMMA EnteredServed ==
    ASSUME TypeOK, IServed, NEW p \in Procs, NEW op \in Operations \ {"clear"}, Finds(p, op)
    PROVE  /\ Dated(Array0(p)) /\ proc[p].served = None
           /\ proc[p] \in Process /\ proc[p].now \in Nat /\ Array0(p) \in Array
  <1>1. Array0(p) \in Array /\ proc[p].key \in Keys
    BY FoundIsArray
  <1>2. Dated(Array0(p))
    BY <1>1 DEF IServed, DatedEntries, Finds, Visible, Array0
  <1>3. proc[p].served = None
    BY DEF IServed, Honest, Finds
  <1> QED BY <1>1, <1>2, <1>3 DEF TypeOK, Process

LEMMA FindServed ==
    ASSUME ApcAssumption, ~SlamDefense, TypeOK, IServed, NEW p \in Procs, Find(p)
    PROVE  IServed'
  <1>1. CASE FindMiss(p) \/ FindExpired(p)
    BY <1>1, LeaveServed DEF FindMiss, FindExpired, Outside
  <1>2. CASE FindHit(p)
    <2>1. /\ Dated(Array0(p)) /\ Array0(p) \in Array
          /\ proc[p] \in Process /\ proc[p].now \in Nat
      BY <1>2, EnteredServed DEF FindHit, Operations
    <2>2. Hit(p) \in Array /\ Dated(Hit(p))
      BY <2>1, ArrayFields DEF Hit, Incremented, Array, Dated
    <2>3. /\ Serving(p) \in Process /\ Serving(p).next = "replaying"
          /\ Serving(p).served = Array0(p).data /\ Serving(p).now = proc[p].now
      BY <2>1, ArrayFields DEF Serving, Process, Outside
    <2>4. proc[p].now - Array0(p).data <= Ttl
      BY <1>2, <2>1, ArrayFields DEF FindHit, Left, Dated, ApcAssumption
    <2> QED BY <1>2, <2>2, <2>3, <2>4, WriteBackServed DEF FindHit
  <1> QED BY <1>1, <1>2 DEF Find, FindRefresh, FindStaleHit

LEMMA AddServed ==
    ASSUME ApcAssumption, ~SlamDefense, TypeOK, IServed, NEW p \in Procs, Add(p)
    PROVE  IServed'
  <1>1. CASE AddNew(p)
    <2> DEFINE r == [proc[p] EXCEPT !.next = "idle"]
    <2>1. proc[p] \in Process /\ proc[p].now \in Nat
      BY DEF TypeOK, Process
    <2>2. r \in Process /\ r.served = None
      BY <1>1, <2>1 DEF AddNew, FindsNot, IServed, Honest, Process, Outside
    <2>3. NewArray(p) \in Array /\ Dated(NewArray(p))
      BY <2>1 DEF NewArray, Array, Dated, ApcAssumption
    <2> QED BY <1>1, <2>2, <2>3, WriteBackServed DEF AddNew
  <1>2. CASE AddKeeps(p)
    BY <1>2, LeaveServed DEF AddKeeps, Outside
  <1> QED BY <1>1, <1>2 DEF Add, AddProlongs

LEMMA UpdateStatsServed ==
    ASSUME ~SlamDefense, TypeOK, IServed, NEW p \in Procs, UpdateStats(p)
    PROVE  IServed'
  <1> DEFINE r == [proc[p] EXCEPT !.next = "idle"]
  <1>1. /\ Dated(Array0(p)) /\ Array0(p) \in Array /\ proc[p].served = None
        /\ proc[p] \in Process
    BY EnteredServed DEF UpdateStats, Operations
  <1>2. r \in Process /\ r.served = None
    BY <1>1 DEF Process, Outside
  <1>3. CASE Leave(p, "idle")
    BY <1>3, LeaveServed DEF Outside
  <1>4. CASE WriteBack(p, "deleting", Array0(p), StatsTtl(p), r)
    BY <1>1, <1>2, <1>4, WriteBackServed
  <1> QED BY <1>3, <1>4 DEF UpdateStats

LEMMA ClearServed ==
    ASSUME TypeOK, IServed, NEW p \in Procs, Clear(p)
    PROVE  IServed'
  <1>1. CASE ListEntries(p)
    <2> DEFINE r == [proc[p] EXCEPT !.pc = "entering", !.op = "clear", !.now = clock,
                                    !.todo = {k \in Keys : Present(k)}]
    <2>1. proc[p] \in Process /\ proc[p].served = None
      BY <1>1 DEF ListEntries, TypeOK, IServed, Honest
    <2>2. Honest(r)
      BY <2>1 DEF Honest, Process
    <2>3. DatedEntries'
      BY <1>1 DEF ListEntries, IServed, DatedEntries, Present, Dated
    <2> QED BY <1>1, <2>2, <2>3, HonestStepOfOne DEF ListEntries
  <1>2. CASE BeginClear(p)
    <2> DEFINE r == [proc[p] EXCEPT !.pc = "clearing"]
    <2>1. proc[p] \in Process /\ proc[p].served = None
      BY <1>2 DEF BeginClear, TypeOK, IServed, Honest
    <2>2. Honest(r)
      BY <2>1 DEF Honest, Process
    <2>3. DatedEntries'
      BY <1>2 DEF BeginClear, IServed, DatedEntries, Present, Dated
    <2> QED BY <1>2, <2>2, <2>3, HonestStepOfOne DEF BeginClear
  <1>3. ASSUME NEW k \in Keys, ClearEntry(p, k)
        PROVE  IServed'
    <2> DEFINE r == [proc[p] EXCEPT !.todo = @ \ {k}]
    <2>1. proc[p] \in Process /\ proc[p].pc = "clearing" /\ proc[p].served = None
      BY <1>3 DEF ClearEntry, TypeOK, IServed, Honest
    <2>2. Honest(r)
      BY <2>1 DEF Honest, Process
    <2>3. DatedEntries'
      BY <1>3 DEF ClearEntry, IServed, DatedEntries, Present, Dated, TypeOK
    <2> QED BY <1>3, <2>2, <2>3, HonestStepOfOne DEF ClearEntry
  <1>4. CASE EndClear(p) \/ ClearGivesUp(p)
    BY <1>4, LeaveServed DEF EndClear, ClearGivesUp, Outside
  <1> QED BY <1>1, <1>2, <1>3, <1>4 DEF Clear

LEMMA EnterServed ==
    ASSUME TypeOK, IServed, NEW p \in Procs, NEW op, NEW k, Enter(p, op, k)
    PROVE  IServed'
  <1> DEFINE r == [proc[p] EXCEPT !.pc = "entering", !.op = op, !.key = k, !.now = clock,
                                  !.served = None, !.refresher = FALSE]
  <1>1. proc[p] \in Process
    BY DEF TypeOK
  <1>2. Honest(r)
    BY <1>1 DEF Honest, Process
  <1>3. DatedEntries'
    BY DEF Enter, IServed, DatedEntries, Present, Dated
  <1> QED BY <1>2, <1>3, HonestStepOfOne DEF Enter

LEMMA DeleteServed ==
    ASSUME TypeOK, IServed, NEW p \in Procs, Delete(p)
    PROVE  IServed'
  <1> DEFINE r == [proc[p] EXCEPT !.pc = "storing"]
  <1>1. proc[p] \in Process
    BY DEF TypeOK
  <1>2. Honest(r)
    BY <1>1 DEF Delete, IServed, Honest, Process, Dated
  <1>3. DatedEntries'
    BY DEF Delete, IServed, DatedEntries, Present, Dated, TypeOK
  <1> QED BY <1>2, <1>3, HonestStepOfOne DEF Delete

LEMMA StoreServed ==
    ASSUME TypeOK, IServed, NEW p \in Procs, Store(p)
    PROVE  IServed'
  <1> DEFINE r == After(p, proc[p].next)
  <1>1. proc[p] \in Process /\ Honest(proc[p]) /\ proc[p].pc = "storing" /\ proc[p].next \in Outside
    BY DEF Store, TypeOK, IServed, Process
  <1>2. Dated(proc[p].copy)
    BY <1>1 DEF Honest
  <1>3. /\ r.pc = proc[p].next /\ r.now = proc[p].now /\ r.served = proc[p].served
    BY DEF After, Idle
  <1>4. Honest(r)
    BY <1>1, <1>3 DEF Honest, Outside
  <1>5. DatedEntries'
    BY <1>2 DEF Store, Stored, IServed, DatedEntries, Present, Dated, TypeOK
  <1> QED BY <1>4, <1>5, HonestStepOfOne DEF Store

LEMMA NextServed ==
    ASSUME ApcAssumption, ~SlamDefense, TypeOK, IServed, [Next]_vars
    PROVE  IServed'
  <1>1. CASE Tick \/ UNCHANGED vars
    BY <1>1 DEF Tick, vars, IServed, DatedEntries, Present, Honest, Dated
  <1>2. ASSUME NEW k \in Keys, Evict(k)
        PROVE  IServed'
    BY <1>2 DEF Evict, TypeOK, IServed, DatedEntries, Present, Honest, Dated
  <1>3. ASSUME NEW p \in Procs, NEW k \in Keys, EnterFind(p, k) \/ EnterIsCached(p, k)
        PROVE  IServed'
    BY <1>3, EnterServed DEF EnterFind, EnterIsCached
  <1>4. ASSUME NEW p \in Procs, EnterUpdateStats(p) \/ EnterAdd(p)
        PROVE  IServed'
    BY <1>4, EnterServed DEF EnterUpdateStats, EnterAdd
  <1>5. ASSUME NEW p \in Procs, Find(p) \/ Add(p) \/ Clear(p) \/ UpdateStats(p)
        PROVE  IServed'
    BY <1>5, FindServed, AddServed, ClearServed, UpdateStatsServed
  <1>6. ASSUME NEW p \in Procs, UpdateStatsGone(p) \/ IsCachedMiss(p) \/ Abandon(p)
        PROVE  IServed'
    BY <1>6, LeaveServed DEF UpdateStatsGone, IsCachedMiss, Abandon, Outside
  <1>7. ASSUME NEW p \in Procs, IsCached(p)
        PROVE  IServed'
    BY <1>7, LeaveServed DEF IsCached, IsCachedMarks, Outside
  <1>8. ASSUME NEW p \in Procs, Delete(p) \/ Store(p)
        PROVE  IServed'
    BY <1>8, DeleteServed, StoreServed
  <1>9. ASSUME NEW p \in Procs, StoreFails(p)
        PROVE  IServed'
    <2> DEFINE place == IF proc[p].op = "find" THEN "recording" ELSE "idle"
    <2>1. place \in Outside /\ Leave(p, place)
      BY <1>9 DEF StoreFails, Outside
    <2> QED BY <2>1, LeaveServed
  <1> QED BY <1>1, <1>2, <1>3, <1>4, <1>5, <1>6, <1>7, <1>8, <1>9 DEF Next

\* Without slam defense no process replays a result that was added longer ago
\* than its time to live, although processes overwrite each other's entries
\* between reading and writing them.
THEOREM ApcServesWithinTtl == Spec => []ServedWithinTtl
  <1>1. CASE SlamDefense
    BY <1>1, PTL DEF ServedWithinTtl
  <1>2. CASE ~SlamDefense
    <2>1. Init => IServed
      BY DEF Init, IServed, DatedEntries, Present, Honest, Idle
    <2>2. TypeOK /\ IServed /\ [Next]_vars => IServed'
      BY <1>2, NextServed, ApcAssumption
    <2>3. IServed => ServedWithinTtl
      BY DEF IServed, Honest, ServedWithinTtl
    <2> QED BY <2>1, <2>2, <2>3, ApcTypeCorrect, PTL DEF Spec
  <1> QED BY <1>1, <1>2
-----------------------------------------------------------------------------
(***************************************************************************)
(* What LOCK_QC_APC does for the threads of one process, for any number of *)
(* threads and keys: no update of an entry is lost, and if no second       *)
(* passes inside of the handler and slam_defense_ttl is at most ttl, one   *)
(* thread is sent to refresh an entry at a time.                           *)
(***************************************************************************)

Writing == {"deleting", "storing"}   \* a copy is to be written

OneHolder ==
    \A p, q \in Procs : proc[p].pc \in Locked /\ proc[q].pc \in Locked => p = q

\* The step of p to state r takes the lock only if it is free.
Respects(p, r) == r.pc \in Locked => LockFree \/ proc[p].pc \in Locked

LEMMA PlacesDiffer ==
    /\ Writing \subseteq Locked
    /\ "clearing" \notin Writing /\ "clearing" \in Locked
    /\ "entering" \notin Locked
    /\ \A s \in Outside : s \notin Locked /\ s # "entering"
BY DEF Writing, Locked, Outside

LEMMA HolderStepOfOne ==
    ASSUME Threads, TypeOK, OneHolder, NEW p \in Procs, NEW r, Assign(p, r), Respects(p, r)
    PROVE  OneHolder'
<1>1. \A q \in Procs : proc'[q] = IF q = p THEN r ELSE proc[q]
  BY DEF TypeOK, Assign
<1>2. r.pc \in Locked => \A q \in Procs : proc[q].pc \in Locked => q = p
  BY DEF Respects, LockFree, OneHolder
<1> QED BY <1>1, <1>2 DEF OneHolder

\* The times of a thread, which is what Prompt is about.
Times ==
    \A p \in Procs : /\ proc[p].now <= clock
                     /\ Prompt /\ Inside(p) => proc[p].now = clock

\* Who was sent to refresh an entry records, or is about to.
RefreshersRecord ==
    \A p \in Procs : proc[p].refresher =>
        \/ proc[p].pc = "recording"
        \/ proc[p].pc \in Writing /\ proc[p].next = "recording"

Base == TypeOK /\ OneHolder /\ Times /\ RefreshersRecord

-----------------------------------------------------------------------------
(***************************************************************************)
(* The steps of a thread, by what they do to the entries                   *)
(***************************************************************************)

\* A time that was read in this second, if no second passes inside.
Read(r) == r.now <= clock /\ (Prompt /\ r.pc \notin Outside => r.now = clock)

\* Nothing is to be written, nobody is sent to refresh, and at most entries
\* disappear.
QuietStep(p, r) ==
    /\ Assign(p, r)
    /\ r.pc \notin Writing /\ ~r.refresher
    /\ Respects(p, r) /\ Read(r)
    /\ clock' = clock /\ found' = found
    /\ \A k \in Keys : apc'[k] = apc[k] \/ apc'[k] = NoEntry

\* A copy of the array a, changed by p; r is what p becomes.
SameCopy(a, r) ==
    r.copy.valid_until = a.valid_until /\ r.copy.in_refresh_until = a.in_refresh_until

MarkedCopy(a, r) ==
    /\ a.in_refresh_until = 0
    /\ r.copy.valid_until = a.valid_until /\ r.copy.in_refresh_until = SlamTtl + r.now

ProlongedCopy(r) == r.copy.valid_until = Ttl + r.now

CopyOf(a, r) ==
    /\ r.copy.cache_hits = IF r.op = "find" THEN Incremented(a.cache_hits) ELSE a.cache_hits
    /\ SameCopy(a, r) \/ MarkedCopy(a, r) \/ ProlongedCopy(r)
    /\ r.refresher =>
         MarkedCopy(a, r) /\ a.valid_until < r.now /\ r.next = "recording"

\* A thread has the lock, and what it is to write.
WriteStep(p, r) ==
    /\ Assign(p, r)
    /\ proc[p].pc = "entering" /\ LockFree
    /\ r.pc \in Writing
    /\ r.key = proc[p].key /\ r.key \in Keys /\ r.now = proc[p].now
    /\ UNCHANGED <<clock, apc, found>>
    /\ \/ Present(r.key) /\ CopyOf(apc[r.key].array, r)
       \/ IsNew(r) /\ ProlongedCopy(r) /\ ~r.refresher

ThreadStep(p) ==
    (\E r : QuietStep(p, r) \/ WriteStep(p, r)) \/ Delete(p) \/ Store(p)

LEMMA LeaveQuiet ==
    ASSUME TypeOK, NEW p \in Procs, NEW place \in Outside, Leave(p, place)
    PROVE  ThreadStep(p)
<1> DEFINE r == [Idle EXCEPT !.pc = place,
                             !.key = IF place = "idle" THEN None ELSE proc[p].key]
<1>1. r.pc = place /\ ~r.refresher /\ r.now = 0
  BY DEF Idle
<1>2. clock \in Nat
  BY DEF TypeOK
<1>3. Assign(p, r)
  BY DEF Leave
<1> HIDE DEF r
<1>4. QuietStep(p, r)
  BY <1>1, <1>2, <1>3, PlacesDiffer DEF QuietStep, Leave, Respects, Read
<1> QED BY <1>4 DEF ThreadStep

LEMMA EnterQuiet ==
    ASSUME TypeOK, NEW p \in Procs, NEW op, NEW k, Enter(p, op, k)
    PROVE  ThreadStep(p)
<1> DEFINE r == [proc[p] EXCEPT !.pc = "entering", !.op = op, !.key = k, !.now = clock,
                                !.served = None, !.refresher = FALSE]
<1>1. r.pc = "entering" /\ ~r.refresher /\ r.now = clock
  BY DEF TypeOK, Process
<1>2. clock \in Nat
  BY DEF TypeOK
<1>3. Assign(p, r)
  BY DEF Enter
<1> HIDE DEF r
<1>4. QuietStep(p, r)
  BY <1>1, <1>2, <1>3, PlacesDiffer DEF QuietStep, Enter, Respects, Read, Writing
<1> QED BY <1>4 DEF ThreadStep

LEMMA ClearQuiet ==
    ASSUME Base, NEW p \in Procs, Clear(p)
    PROVE  ThreadStep(p)
<1>0. TypeOK /\ clock \in Nat /\ proc[p] \in Process
  BY DEF Base, TypeOK
<1>1. CASE ListEntries(p)
  <2> DEFINE r == [proc[p] EXCEPT !.pc = "entering", !.op = "clear", !.now = clock,
                                  !.todo = {k \in Keys : Present(k)}]
  <2>1. r.pc = "entering" /\ r.refresher = proc[p].refresher /\ r.now = clock
    BY <1>0 DEF Process
  <2>2. ~proc[p].refresher
    BY <1>1 DEF ListEntries, Base, RefreshersRecord, Writing
  <2>3. Assign(p, r)
    BY <1>1 DEF ListEntries
  <2> HIDE DEF r
  <2>4. QuietStep(p, r)
    BY <1>0, <1>1, <2>1, <2>2, <2>3, PlacesDiffer
       DEF QuietStep, ListEntries, Respects, Read, Writing
  <2> QED BY <2>4 DEF ThreadStep
<1>2. CASE BeginClear(p)
  <2> DEFINE r == [proc[p] EXCEPT !.pc = "clearing"]
  <2>1. r.pc = "clearing" /\ r.refresher = proc[p].refresher /\ r.now = proc[p].now
    BY <1>0 DEF Process
  <2>2. ~proc[p].refresher
    BY <1>2 DEF BeginClear, Base, RefreshersRecord, Writing
  <2>3. Assign(p, r)
    BY <1>2 DEF BeginClear
  <2>4. Read(r)
    BY <1>2, <2>1 DEF BeginClear, Base, Times, Inside, Read, Outside
  <2> HIDE DEF r
  <2>5. QuietStep(p, r)
    BY <1>0, <1>2, <2>1, <2>2, <2>3, <2>4, PlacesDiffer
       DEF QuietStep, BeginClear, Respects, Writing
  <2> QED BY <2>5 DEF ThreadStep
<1>3. ASSUME NEW k \in Keys, ClearEntry(p, k) PROVE ThreadStep(p)
  <2> DEFINE r == [proc[p] EXCEPT !.todo = @ \ {k}]
  <2>1. r.pc = "clearing" /\ r.refresher = proc[p].refresher /\ r.now = proc[p].now
    BY <1>0, <1>3 DEF Process, ClearEntry
  <2>2. ~proc[p].refresher
    BY <1>3 DEF ClearEntry, Base, RefreshersRecord, Writing
  <2>3. Assign(p, r)
    BY <1>3 DEF ClearEntry
  <2>4. Read(r)
    BY <1>3, <2>1 DEF ClearEntry, Base, Times, Inside, Read, Outside
  <2>5. Respects(p, r)
    BY <1>3, PlacesDiffer DEF ClearEntry, Respects
  <2>6. \A j \in Keys : apc'[j] = apc[j] \/ apc'[j] = NoEntry
    BY <1>0, <1>3 DEF ClearEntry, TypeOK
  <2> HIDE DEF r
  <2>7. QuietStep(p, r)
    BY <1>3, <2>1, <2>2, <2>3, <2>4, <2>5, <2>6, PlacesDiffer DEF QuietStep, ClearEntry
  <2> QED BY <2>7 DEF ThreadStep
<1>4. CASE EndClear(p) \/ ClearGivesUp(p)
  BY <1>0, <1>4, LeaveQuiet DEF EndClear, ClearGivesUp, Outside
<1> QED BY <1>1, <1>2, <1>3, <1>4 DEF Clear

\* What WriteBack leaves of the state it is given.
LEMMA WriteBackAssigns ==
    ASSUME NEW p \in Procs, NEW r \in Process, NEW first \in Writing, NEW copy, NEW ttl,
           WriteBack(p, first, copy, ttl, r)
    PROVE  \E w : /\ Assign(p, w) /\ w.pc = first /\ w.copy = copy /\ w.next = r.next
                  /\ w.key = r.key /\ w.now = r.now /\ w.op = r.op
                  /\ w.refresher = r.refresher
                  /\ UNCHANGED <<clock, apc, found>>
<1> DEFINE w == [r EXCEPT !.pc = first, !.copy = copy, !.ttl = ttl]
<1>1. /\ w.pc = first /\ w.copy = copy /\ w.next = r.next
      /\ w.key = r.key /\ w.now = r.now /\ w.op = r.op
      /\ w.refresher = r.refresher
  BY DEF Process
<1>2. Assign(p, w) /\ UNCHANGED <<clock, apc, found>>
  BY DEF WriteBack
<1> QED BY <1>1, <1>2

\* A thread that has found the entry.
LEMMA FoundEntry ==
    ASSUME Base, NEW p \in Procs, NEW op \in Operations \ {"clear"}, Finds(p, op)
    PROVE  /\ proc[p] \in Process /\ proc[p].now \in Nat
           /\ proc[p].pc = "entering" /\ LockFree /\ proc[p].op = op /\ ~proc[p].refresher
           /\ proc[p].key \in Keys /\ Present(proc[p].key)
           /\ Array0(p) = apc[proc[p].key].array /\ Array0(p) \in Array
           /\ Array0(p).in_refresh_until \in Nat /\ Array0(p).valid_until \in Nat
<1>1. Array0(p) \in Array
  BY FoundIsArray DEF Base
<1>2. ~proc[p].refresher
  BY DEF Finds, Base, RefreshersRecord, Writing
<1> QED BY <1>1, <1>2, ArrayFields DEF Base, TypeOK, Process, Finds, Visible, Array0

LEMMA HitCounts ==
    ASSUME Base, NEW p \in Procs, Finds(p, "find")
    PROVE  /\ Hit(p).cache_hits = Incremented(Array0(p).cache_hits)
           /\ Hit(p).valid_until = Array0(p).valid_until
           /\ Hit(p).in_refresh_until = Array0(p).in_refresh_until
           /\ Hit(p) \in Array
<1>1. Array0(p) \in Array
  BY FoundEntry DEF Operations
<1>2. Incremented(Array0(p).cache_hits) \in Nat
  BY <1>1, ArrayFields DEF Incremented
<1> QED BY <1>1, <1>2 DEF Hit, Array

\* A hit is served, and its copy counts it.
LEMMA ServingWrites ==
    ASSUME Base, NEW p \in Procs, NEW ttl, Finds(p, "find"),
           WriteBack(p, "deleting", Hit(p), ttl, Serving(p))
    PROVE  ThreadStep(p)
<1>1. /\ proc[p] \in Process /\ proc[p].pc = "entering" /\ LockFree /\ proc[p].op = "find"
      /\ ~proc[p].refresher /\ Present(proc[p].key) /\ proc[p].key \in Keys
      /\ Array0(p) = apc[proc[p].key].array
      /\ Array0(p).data \in Nat
  BY FoundEntry, ArrayFields DEF Operations
<1>2. /\ Serving(p) \in Process /\ Serving(p).key = proc[p].key /\ Serving(p).now = proc[p].now
      /\ Serving(p).op = "find" /\ ~Serving(p).refresher
  BY <1>1 DEF Serving, Process, Outside
<1>3. PICK w : /\ Assign(p, w) /\ w.pc = "deleting" /\ w.copy = Hit(p)
               /\ w.key = proc[p].key /\ w.now = proc[p].now /\ w.op = "find" /\ ~w.refresher
               /\ UNCHANGED <<clock, apc, found>>
  BY <1>2, WriteBackAssigns DEF Writing
<1>4. CopyOf(apc[w.key].array, w)
  BY <1>1, <1>3, HitCounts DEF CopyOf, SameCopy
<1>5. WriteStep(p, w)
  BY <1>1, <1>3, <1>4 DEF WriteStep, Writing
<1> QED BY <1>5 DEF ThreadStep

LEMMA FindWrites ==
    ASSUME Base, NEW p \in Procs, Find(p)
    PROVE  ThreadStep(p)
<1>1. CASE FindMiss(p) \/ FindExpired(p)
  BY <1>1, LeaveQuiet DEF FindMiss, FindExpired, Outside, Base
<1>2. CASE FindHit(p) \/ FindStaleHit(p)
  BY <1>2, ServingWrites DEF FindHit, FindStaleHit
<1>3. CASE FindRefresh(p)
  <2> DEFINE a == [Hit(p) EXCEPT !.in_refresh_until = SlamTtl + proc[p].now]
             r == [proc[p] EXCEPT !.next = "recording", !.refresher = TRUE]
  <2>1. /\ proc[p] \in Process /\ proc[p].pc = "entering" /\ LockFree /\ proc[p].op = "find"
        /\ Present(proc[p].key) /\ proc[p].key \in Keys
        /\ Array0(p) = apc[proc[p].key].array
        /\ proc[p].now \in Nat /\ Array0(p).valid_until \in Nat
    BY <1>3, FoundEntry DEF FindRefresh, Operations
  <2>2. /\ r \in Process /\ r.key = proc[p].key /\ r.now = proc[p].now /\ r.op = "find"
        /\ r.refresher /\ r.next = "recording"
    BY <2>1 DEF Process, Outside
  <2>0. WriteBack(p, "deleting", a, SlamTtl, r)
    BY <1>3 DEF FindRefresh
  <2> HIDE DEF r, a
  <2>3. PICK w : /\ Assign(p, w) /\ w.pc = "deleting" /\ w.copy = a /\ w.next = "recording"
                 /\ w.key = proc[p].key /\ w.now = proc[p].now /\ w.op = "find"
                 /\ UNCHANGED <<clock, apc, found>>
    BY <2>2, <2>0, WriteBackAssigns DEF Writing
  <2>4. /\ a.cache_hits = Incremented(Array0(p).cache_hits)
        /\ a.valid_until = Array0(p).valid_until
        /\ a.in_refresh_until = SlamTtl + proc[p].now
    BY <1>3, HitCounts DEF FindRefresh, Array, a
  <2>5. Array0(p).in_refresh_until = 0 /\ Array0(p).valid_until < proc[p].now
    BY <1>3, <2>1 DEF FindRefresh, InRefresh, Left
  <2>6. MarkedCopy(apc[w.key].array, w)
    BY <2>1, <2>3, <2>4, <2>5 DEF MarkedCopy
  <2>7. CopyOf(apc[w.key].array, w)
    BY <2>1, <2>3, <2>4, <2>5, <2>6 DEF CopyOf
  <2>8. WriteStep(p, w)
    BY <2>1, <2>3, <2>7 DEF WriteStep, Writing
  <2> QED BY <2>8 DEF ThreadStep
<1> QED BY <1>1, <1>2, <1>3 DEF Find

\* An operation that writes the entry back for itself and is over then.
LEMMA IdleWrites ==
    ASSUME Base, NEW p \in Procs, NEW first \in Writing, NEW copy \in Array, NEW ttl,
           NEW op \in Operations \ {"clear", "find"}, Finds(p, op),
           WriteBack(p, first, copy, ttl, [proc[p] EXCEPT !.next = "idle"]),
           copy.cache_hits = Array0(p).cache_hits,
           \/ /\ copy.valid_until = Array0(p).valid_until
              /\ \/ copy.in_refresh_until = Array0(p).in_refresh_until
                 \/ /\ Array0(p).in_refresh_until = 0
                    /\ copy.in_refresh_until = SlamTtl + proc[p].now
           \/ copy.valid_until = Ttl + proc[p].now
    PROVE  ThreadStep(p)
<1> DEFINE r == [proc[p] EXCEPT !.next = "idle"]
<1>1. /\ proc[p] \in Process /\ proc[p].pc = "entering" /\ LockFree /\ proc[p].op = op
      /\ ~proc[p].refresher /\ Present(proc[p].key) /\ proc[p].key \in Keys
      /\ Array0(p) = apc[proc[p].key].array
  BY FoundEntry
<1>2. /\ r \in Process /\ r.key = proc[p].key /\ r.now = proc[p].now /\ r.op = op
      /\ ~r.refresher
  BY <1>1 DEF Process, Outside
<1>0. WriteBack(p, first, copy, ttl, r)
  OBVIOUS
<1> HIDE DEF r
<1>3. PICK w : /\ Assign(p, w) /\ w.pc = first /\ w.copy = copy
               /\ w.key = proc[p].key /\ w.now = proc[p].now /\ w.op = op /\ ~w.refresher
               /\ UNCHANGED <<clock, apc, found>>
  BY <1>2, <1>0, WriteBackAssigns
<1>4. CopyOf(apc[w.key].array, w)
  BY <1>1, <1>3 DEF CopyOf, SameCopy, MarkedCopy, ProlongedCopy
<1>5. WriteStep(p, w)
  BY <1>1, <1>3, <1>4 DEF WriteStep
<1> QED BY <1>5 DEF ThreadStep

LEMMA AddWrites ==
    ASSUME Base, NEW p \in Procs, Add(p)
    PROVE  ThreadStep(p)
<1>1. CASE AddNew(p)
  <2> DEFINE r == [proc[p] EXCEPT !.next = "idle"]
  <2>1. /\ proc[p] \in Process /\ proc[p].now \in Nat /\ proc[p].pc = "entering"
        /\ proc[p].key \in Keys /\ LockFree /\ proc[p].op = "add"
    BY <1>1 DEF AddNew, FindsNot, Base, TypeOK, Process
  <2>2. ~proc[p].refresher
    BY <2>1 DEF Base, RefreshersRecord, Writing
  <2>3. /\ r \in Process /\ r.key = proc[p].key /\ r.now = proc[p].now /\ r.op = "add"
        /\ ~r.refresher
    BY <2>1, <2>2 DEF Process, Outside
  <2>0. WriteBack(p, "deleting", NewArray(p), IF SlamDefense THEN 0 ELSE Ttl, r)
    BY <1>1 DEF AddNew
  <2> HIDE DEF r
  <2>4. PICK w : /\ Assign(p, w) /\ w.pc = "deleting" /\ w.copy = NewArray(p)
                 /\ w.key = proc[p].key /\ w.now = proc[p].now /\ w.op = "add" /\ ~w.refresher
                 /\ UNCHANGED <<clock, apc, found>>
    BY <2>3, <2>0, WriteBackAssigns DEF Writing
  <2>5. IsNew(w) /\ ProlongedCopy(w)
    BY <2>1, <2>4, ApcAssumption DEF IsNew, ProlongedCopy, NewArray, ApcAssumption
  <2>6. WriteStep(p, w)
    BY <2>1, <2>4, <2>5 DEF WriteStep, Writing
  <2> QED BY <2>6 DEF ThreadStep
<1>2. CASE AddProlongs(p)
  <2> DEFINE a == [Array0(p) EXCEPT !.in_refresh_until = 0, !.valid_until = Ttl + proc[p].now]
  <2>1. Array0(p) \in Array /\ Ttl + proc[p].now \in Nat
    BY <1>2, FoundEntry, ApcAssumption DEF AddProlongs, Operations, ApcAssumption
  <2>2. /\ a \in Array /\ a.cache_hits = Array0(p).cache_hits
        /\ a.valid_until = Ttl + proc[p].now
    BY <2>1 DEF Array
  <2> HIDE DEF a
  <2>3. Finds(p, "add") /\ WriteBack(p, "storing", a, 0, [proc[p] EXCEPT !.next = "idle"])
    BY <1>2 DEF AddProlongs, a
  <2> QED BY <2>2, <2>3, IdleWrites DEF Operations, Writing
<1>3. CASE AddKeeps(p)
  BY <1>3, LeaveQuiet DEF AddKeeps, Outside, Base
<1> QED BY <1>1, <1>2, <1>3 DEF Add

LEMMA StatsAndIsCachedWrite ==
    ASSUME Base, NEW p \in Procs, UpdateStats(p) \/ IsCached(p)
    PROVE  ThreadStep(p)
<1>1. CASE Leave(p, "idle")
  BY <1>1, LeaveQuiet DEF Outside, Base
<1>2. CASE /\ Finds(p, "update_stats")
           /\ WriteBack(p, "deleting", Array0(p), StatsTtl(p), [proc[p] EXCEPT !.next = "idle"])
  <2>1. Array0(p) \in Array
    BY <1>2, FoundEntry DEF Operations
  <2> QED BY <1>2, <2>1, IdleWrites DEF Operations, Writing
<1>3. CASE /\ Finds(p, "is_cached") /\ IsCachedMarks(p)
           /\ WriteBack(p, "storing",
                        [Array0(p) EXCEPT !.in_refresh_until = SlamTtl + proc[p].now], SlamTtl,
                        [proc[p] EXCEPT !.next = "idle"])
  <2> DEFINE a == [Array0(p) EXCEPT !.in_refresh_until = SlamTtl + proc[p].now]
  <2>1. Array0(p) \in Array /\ SlamTtl + proc[p].now \in Nat
    BY <1>3, FoundEntry, ApcAssumption DEF Operations, ApcAssumption
  <2>2. /\ a \in Array /\ a.cache_hits = Array0(p).cache_hits
        /\ a.valid_until = Array0(p).valid_until
        /\ a.in_refresh_until = SlamTtl + proc[p].now
    BY <2>1 DEF Array
  <2>3. Array0(p).in_refresh_until = 0
    BY <1>3 DEF IsCachedMarks, InRefresh
  <2>4. WriteBack(p, "storing", a, SlamTtl, [proc[p] EXCEPT !.next = "idle"])
    BY <1>3
  <2> HIDE DEF a
  <2> QED BY <1>3, <2>2, <2>3, <2>4, IdleWrites DEF Operations, Writing
<1> QED BY <1>1, <1>2, <1>3 DEF UpdateStats, IsCached

\* The steps of the handler.
LEMMA Steps ==
    ASSUME Threads, Base, [Next]_vars
    PROVE  \/ UNCHANGED vars \/ Tick \/ \E k \in Keys : Evict(k)
           \/ \E p \in Procs : ThreadStep(p)
<1>0. TypeOK
  BY DEF Base
<1>1. ASSUME NEW p \in Procs, NEW k \in Keys, EnterFind(p, k) \/ EnterIsCached(p, k)
      PROVE  ThreadStep(p)
  BY <1>0, <1>1, EnterQuiet DEF EnterFind, EnterIsCached
<1>2. ASSUME NEW p \in Procs, EnterUpdateStats(p) \/ EnterAdd(p) PROVE ThreadStep(p)
  BY <1>0, <1>2, EnterQuiet DEF EnterUpdateStats, EnterAdd
<1>3. ASSUME NEW p \in Procs, Find(p) \/ Add(p) \/ Clear(p) PROVE ThreadStep(p)
  BY <1>3, FindWrites, AddWrites, ClearQuiet
<1>4. ASSUME NEW p \in Procs, UpdateStatsGone(p) \/ IsCachedMiss(p) \/ Abandon(p)
      PROVE  ThreadStep(p)
  BY <1>0, <1>4, LeaveQuiet DEF UpdateStatsGone, IsCachedMiss, Abandon, Outside
<1>5. ASSUME NEW p \in Procs, UpdateStats(p) \/ IsCached(p) PROVE ThreadStep(p)
  BY <1>5, StatsAndIsCachedWrite
<1>6. ASSUME NEW p \in Procs, StoreFails(p) PROVE ThreadStep(p)
  <2> DEFINE place == IF proc[p].op = "find" THEN "recording" ELSE "idle"
  <2>1. place \in Outside /\ Leave(p, place)
    BY <1>6 DEF StoreFails, Outside
  <2> QED BY <1>0, <2>1, LeaveQuiet
<1> QED BY <1>1, <1>2, <1>3, <1>4, <1>5, <1>6 DEF Next, ThreadStep

-----------------------------------------------------------------------------
(***************************************************************************)
(* The lock, the times and the refreshers                                  *)
(***************************************************************************)

LEMMA StoreBecomes ==
    ASSUME Base, NEW p \in Procs, Store(p), NEW r, r = After(p, proc[p].next)
    PROVE  /\ Assign(p, r) /\ r.pc = proc[p].next /\ r.now = proc[p].now
           /\ r.refresher = proc[p].refresher /\ r.pc \in Outside
           /\ r.key = IF r.pc = "idle" THEN None ELSE proc[p].key
<1>1. proc[p].next \in Outside
  BY DEF Base, TypeOK, Process
<1>2. Assign(p, r)
  BY DEF Store
<1>3. /\ r.pc = proc[p].next /\ r.now = proc[p].now /\ r.refresher = proc[p].refresher
      /\ r.key = IF proc[p].next = "idle" THEN None ELSE proc[p].key
  BY DEF After, Idle
<1> QED BY <1>1, <1>2, <1>3

LEMMA DeleteBecomes ==
    ASSUME Base, NEW p \in Procs, Delete(p), NEW r, r = [proc[p] EXCEPT !.pc = "storing"]
    PROVE  /\ Assign(p, r) /\ r.pc = "storing" /\ r.now = proc[p].now
           /\ r.refresher = proc[p].refresher /\ r.next = proc[p].next
           /\ r.key = proc[p].key /\ r.copy = proc[p].copy /\ r.op = proc[p].op
<1>1. proc[p] \in Process
  BY DEF Base, TypeOK
<1> QED BY <1>1 DEF Delete, Process

\* What every step of a thread leaves it in.
OrderlyStep(p) ==
    /\ clock' = clock
    /\ \E r : /\ Assign(p, r) /\ Respects(p, r) /\ Read(r)
              /\ r.refresher => \/ r.pc = "recording"
                                \/ r.pc \in Writing /\ r.next = "recording"

LEMMA StepIsOrderly ==
    ASSUME Base, NEW p \in Procs, ThreadStep(p)
    PROVE  OrderlyStep(p)
<1> USE DEF OrderlyStep
<1>1. ASSUME NEW r, QuietStep(p, r) PROVE OrderlyStep(p)
  BY <1>1 DEF QuietStep
<1>2. ASSUME NEW r, WriteStep(p, r) PROVE OrderlyStep(p)
  <2>1. proc[p].now <= clock /\ (Prompt => proc[p].now = clock)
    BY <1>2 DEF WriteStep, Base, Times, Inside, Outside
  <2>2. r.refresher => r.next = "recording"
    BY <1>2 DEF WriteStep, CopyOf
  <2> QED BY <1>2, <2>1, <2>2 DEF WriteStep, Respects, Read
<1>3. CASE Delete(p)
  <2> DEFINE r == [proc[p] EXCEPT !.pc = "storing"]
  <2>1. /\ Assign(p, r) /\ r.pc = "storing" /\ r.now = proc[p].now
        /\ r.refresher = proc[p].refresher /\ r.next = proc[p].next
    BY <1>3, DeleteBecomes
  <2> HIDE DEF r
  <2>2. proc[p].pc = "deleting" /\ proc[p].now <= clock /\ (Prompt => proc[p].now = clock)
    BY <1>3 DEF Delete, Base, Times, Inside, Outside
  <2>3. proc[p].refresher => proc[p].next = "recording"
    BY <2>2 DEF Base, RefreshersRecord
  <2> QED BY <1>3, <2>1, <2>2, <2>3, PlacesDiffer DEF Delete, Respects, Read, Writing
<1>4. CASE Store(p)
  <2> DEFINE r == After(p, proc[p].next)
  <2>1. /\ Assign(p, r) /\ r.pc = proc[p].next /\ r.now = proc[p].now
        /\ r.refresher = proc[p].refresher /\ r.pc \in Outside
    BY <1>4, StoreBecomes
  <2> HIDE DEF r
  <2>2. proc[p].pc = "storing" /\ proc[p].now <= clock
    BY <1>4 DEF Store, Base, Times
  <2>3. proc[p].refresher => proc[p].next = "recording"
    BY <2>2 DEF Base, RefreshersRecord
  <2> QED BY <1>4, <2>1, <2>2, <2>3, PlacesDiffer DEF Store, Respects, Read
<1> QED BY <1>1, <1>2, <1>3, <1>4 DEF ThreadStep

LEMMA BaseInit == Init => Base
<1> SUFFICES ASSUME Init PROVE Base
  OBVIOUS
<1>1. TypeOK
  BY InitTypes, ApcAssumption
<1>2. \A p \in Procs : proc[p].pc = "idle" /\ proc[p].now = 0 /\ ~proc[p].refresher
  BY DEF Init, Idle
<1>3. OneHolder /\ Times /\ RefreshersRecord
  BY <1>2 DEF Init, OneHolder, Times, RefreshersRecord, Inside, Outside, Locked
<1> QED BY <1>1, <1>3 DEF Base

LEMMA BaseStep == Threads /\ Base /\ [Next]_vars => Base'
<1> SUFFICES ASSUME Threads, Base, [Next]_vars PROVE Base'
  OBVIOUS
<1>1. TypeOK'
  BY NextTypes, ApcAssumption DEF Base
<1>2. CASE UNCHANGED vars \/ \E k \in Keys : Evict(k)
  <2>1. proc' = proc /\ clock' = clock
    BY <1>2 DEF vars, Evict
  <2> QED BY <1>1, <2>1 DEF Base, OneHolder, Times, Inside, RefreshersRecord
<1>3. CASE Tick
  <2>1. proc' = proc /\ clock' = clock + 1 /\ clock \in Nat
    BY <1>3 DEF Tick, Base, TypeOK
  <2>2. \A p \in Procs : proc[p].now \in Nat /\ proc[p].now <= clock
    BY DEF Base, TypeOK, Process, Times
  <2>3. Prompt => \A p \in Procs : ~Inside(p)
    BY <1>3 DEF Tick
  <2>4. Times'
    BY <2>1, <2>2, <2>3 DEF Times, Inside
  <2> QED BY <1>1, <2>1, <2>4 DEF Base, OneHolder, RefreshersRecord
<1>4. ASSUME NEW p \in Procs, ThreadStep(p) PROVE Base'
  <2>1. PICK r : /\ Assign(p, r) /\ Respects(p, r) /\ Read(r)
                 /\ r.refresher => \/ r.pc = "recording"
                                   \/ r.pc \in Writing /\ r.next = "recording"
    BY <1>4, StepIsOrderly DEF OrderlyStep
  <2>2. \A q \in Procs : proc'[q] = IF q = p THEN r ELSE proc[q]
    BY <2>1 DEF Assign, Base, TypeOK
  <2>3. clock' = clock
    BY <1>4, StepIsOrderly DEF OrderlyStep
  <2>4. OneHolder'
    BY <2>1, HolderStepOfOne DEF Base
  <2>5. Times'
    BY <2>1, <2>2, <2>3 DEF Base, Times, Inside, Read
  <2>6. RefreshersRecord'
    BY <2>1, <2>2 DEF Base, RefreshersRecord
  <2> QED BY <1>1, <2>4, <2>5, <2>6 DEF Base
<1> QED BY <1>2, <1>3, <1>4, Steps

-----------------------------------------------------------------------------
(***************************************************************************)
(* No update is lost                                                       *)
(***************************************************************************)

\* What r is to write counts the lookups of its entry, n so far.
CopyCounts(r, n) ==
    /\ r.op = "find" => r.copy.cache_hits = Incremented(n)
    /\ r.op # "find" => IsNew(r) \/ r.copy.cache_hits = n

CopiesCount ==
    \A p \in Procs : proc[p].pc \in Writing => CopyCounts(proc[p], found[proc[p].key])

IHits == HitsCountFinds /\ CopiesCount

\* A step that writes nothing.
LEMMA KeepsCounts ==
    ASSUME TypeOK, IHits, NEW p \in Procs, NEW r, Assign(p, r), found' = found,
           r.pc \in Writing => CopyCounts(r, found[r.key]),
           \A k \in Keys : apc'[k] = apc[k] \/ apc'[k] = NoEntry
    PROVE  IHits'
<1>1. \A q \in Procs : proc'[q] = IF q = p THEN r ELSE proc[q]
  BY DEF TypeOK, Assign
<1>2. HitsCountFinds'
  BY DEF IHits, HitsCountFinds, Present
<1>3. CopiesCount'
  BY <1>1 DEF IHits, CopiesCount
<1> QED BY <1>2, <1>3 DEF IHits

LEMMA HitsStep == Threads /\ Base /\ IHits /\ [Next]_vars => IHits'
<1> SUFFICES ASSUME Threads, Base, IHits, [Next]_vars PROVE IHits'
  OBVIOUS
<1>0. TypeOK
  BY DEF Base
<1>1. CASE UNCHANGED vars \/ Tick \/ \E k \in Keys : Evict(k)
  <2>1. /\ proc' = proc /\ found' = found
        /\ \A k \in Keys : apc'[k] = apc[k] \/ apc'[k] = NoEntry
    BY <1>0, <1>1 DEF vars, Tick, Evict, TypeOK
  <2>2. HitsCountFinds'
    BY <2>1 DEF IHits, HitsCountFinds, Present
  <2>3. CopiesCount'
    BY <2>1 DEF IHits, CopiesCount
  <2> QED BY <2>2, <2>3 DEF IHits
<1>2. ASSUME NEW p \in Procs, NEW r, QuietStep(p, r) PROVE IHits'
  BY <1>0, <1>2, KeepsCounts DEF QuietStep
<1>3. ASSUME NEW p \in Procs, NEW r, WriteStep(p, r) PROVE IHits'
  <2>1. CASE Present(r.key) /\ CopyOf(apc[r.key].array, r)
    <3>1. r.key \in Keys
      BY <1>3 DEF WriteStep
    <3>2. CopyCounts(r, found[r.key])
      BY <2>1, <3>1 DEF CopyOf, CopyCounts, IHits, HitsCountFinds
    <3> QED BY <1>0, <1>3, <3>2, KeepsCounts DEF WriteStep
  <2>2. CASE IsNew(r)
    <3>1. CopyCounts(r, found[r.key])
      BY <2>2 DEF IsNew, CopyCounts
    <3> QED BY <1>0, <1>3, <3>1, KeepsCounts DEF WriteStep
  <2> QED BY <1>3, <2>1, <2>2 DEF WriteStep
<1>4. ASSUME NEW p \in Procs, Delete(p) PROVE IHits'
  <2> DEFINE r == [proc[p] EXCEPT !.pc = "storing"]
  <2>1. /\ Assign(p, r) /\ r.pc = "storing" /\ r.now = proc[p].now
        /\ r.key = proc[p].key /\ r.copy = proc[p].copy /\ r.op = proc[p].op
    BY <1>4, DeleteBecomes
  <2> HIDE DEF r
  <2>2. CopyCounts(r, found[r.key])
    BY <1>4, <2>1 DEF Delete, IHits, CopiesCount, CopyCounts, IsNew, Writing
  <2>3. found' = found /\ \A k \in Keys : apc'[k] = apc[k] \/ apc'[k] = NoEntry
    BY <1>0, <1>4 DEF Delete, TypeOK
  <2> QED BY <1>0, <2>1, <2>2, <2>3, KeepsCounts
<1>5. ASSUME NEW p \in Procs, Store(p) PROVE IHits'
  <2> DEFINE r == After(p, proc[p].next)
  <2>1. Assign(p, r) /\ r.pc \in Outside
    BY <1>5, StoreBecomes
  <2> HIDE DEF r
  <2>2. \A q \in Procs : proc'[q] = IF q = p THEN r ELSE proc[q]
    BY <1>0, <2>1 DEF TypeOK, Assign
  <2>3. proc[p].pc = "storing" /\ proc[p].key \in Keys
    BY <1>0, <1>5 DEF Store, TypeOK
  <2>4. \A q \in Procs : proc'[q].pc \notin Writing
    BY <2>1, <2>2, <2>3, PlacesDiffer DEF Base, OneHolder, Writing
  <2>5. CopyCounts(proc[p], found[proc[p].key])
    BY <2>3 DEF IHits, CopiesCount, Writing
  <2> DEFINE k == proc[p].key
  <2>6. found'[k] = proc[p].copy.cache_hits
    BY <1>0, <1>5, <2>3, <2>5 DEF Store, CopyCounts, IsNew, TypeOK
  <2>7. apc'[k].array = proc[p].copy
    BY <1>0, <1>5, <2>3 DEF Store, Stored, TypeOK
  <2>8. \A j \in Keys : j # k => apc'[j] = apc[j] /\ found'[j] = found[j]
    BY <1>0, <1>5, <2>3 DEF Store, TypeOK
  <2>9. HitsCountFinds'
    BY <2>6, <2>7, <2>8 DEF IHits, HitsCountFinds, Present
  <2> QED BY <2>4, <2>9 DEF IHits, CopiesCount
<1> QED BY <1>1, <1>2, <1>3, <1>4, <1>5, Steps DEF ThreadStep

\* Threads lose no update of an entry: its cache_hits are the lookups that found
\* it since it was added, whatever else the threads read and write in between
\* and however long they wait for the lock.
THEOREM ThreadsLoseNoHit == Threads => (Spec => []HitsCountFinds)
<1> SUFFICES ASSUME Threads PROVE Spec => []HitsCountFinds
  OBVIOUS
<1>1. Init => IHits
  BY DEF Init, Idle, IHits, HitsCountFinds, Present, CopiesCount, Writing
<1>2. Base /\ IHits /\ [Next]_vars => Base' /\ IHits'
  BY BaseStep, HitsStep
<1>3. IHits => HitsCountFinds
  BY DEF IHits
<1> QED BY <1>1, <1>2, <1>3, BaseInit, PTL DEF Spec

-----------------------------------------------------------------------------
(***************************************************************************)
(* One refresher at a time                                                 *)
(***************************************************************************)

\* r was sent to refresh an entry, and is not overdue.
Active(r) == r.refresher /\ r.pc = "recording" /\ clock <= r.now + SlamTtl

\* With the array a nobody else is sent to refresh until r is overdue.
Covers(a, r) == a.valid_until >= r.now + SlamTtl \/ a.in_refresh_until >= r.now + SlamTtl

NotAtFirst == \A p \in Procs : proc[p].refresher => proc[p].now >= 1

EntriesCover ==
    \A p \in Procs : Active(proc[p]) /\ Present(proc[p].key) =>
        Covers(apc[proc[p].key].array, proc[p])

CopiesCover ==
    \A p, q \in Procs :
        /\ Active(proc[p]) /\ proc[q].pc \in Writing /\ proc[q].key = proc[p].key
        => Covers(proc[q].copy, proc[p])

NoRival ==
    \A q \in Procs : proc[q].pc \in Writing /\ proc[q].refresher =>
        /\ Covers(proc[q].copy, proc[q])
        /\ \A p \in Procs : Active(proc[p]) => proc[p].key # proc[q].key

OneActive ==
    \A p, q \in Procs :
        Active(proc[p]) /\ Active(proc[q]) /\ proc[p].key = proc[q].key => p = q

IRefresh == NotAtFirst /\ EntriesCover /\ CopiesCover /\ NoRival /\ OneActive

\* A step of p that does not make it a refresher, and stores nothing.
LEMMA KeepsCover ==
    ASSUME TypeOK, IRefresh, NEW p \in Procs, NEW r, Assign(p, r), clock' = clock,
           \A k \in Keys : apc'[k] = apc[k] \/ apc'[k] = NoEntry,
           ~Active(r), r.refresher => r.now >= 1,
           r.pc \in Writing =>
             \A q \in Procs : Active(proc[q]) /\ proc[q].key = r.key => Covers(r.copy, proc[q]),
           r.pc \in Writing /\ r.refresher =>
             /\ Covers(r.copy, r)
             /\ \A q \in Procs : Active(proc[q]) => proc[q].key # r.key
    PROVE  IRefresh'
<1> USE DEF IRefresh
<1>1. \A q \in Procs : proc'[q] = IF q = p THEN r ELSE proc[q]
  BY DEF TypeOK, Assign
<1>2. \A q \in Procs : Active(proc[q])' => q # p /\ proc'[q] = proc[q] /\ Active(proc[q])
  BY <1>1 DEF Active
<1>3. \A q \in Procs : Active(proc[q]) => proc[q].key \in Keys
  BY DEF Active, TypeOK
<1>4. NotAtFirst'
  BY <1>1 DEF NotAtFirst
<1>5. EntriesCover'
  BY <1>2, <1>3 DEF EntriesCover, Covers, Present
<1>6. CopiesCover'
  BY <1>1, <1>2 DEF CopiesCover, Covers
<1>7. NoRival'
  BY <1>1, <1>2 DEF NoRival, Covers
<1>8. OneActive'
  BY <1>2 DEF OneActive
<1> QED BY <1>4, <1>5, <1>6, <1>7, <1>8

\* Whatever is written back covers the refreshers there are: the copy has the
\* times of the entry, or a time to live that begins now.
LEMMA CopyCovers ==
    ASSUME Prompt, SlamTtl <= Ttl, Base, IRefresh, NEW p \in Procs, NEW r, WriteStep(p, r),
           NEW q \in Procs, Active(proc[q]), proc[q].key = r.key
    PROVE  Covers(r.copy, proc[q]) /\ ~r.refresher
<1>1. /\ proc[q].now \in Nat /\ proc[q].now >= 1 /\ proc[q].now <= clock
      /\ SlamTtl \in Nat /\ Ttl \in Nat
  BY ApcAssumption DEF ApcAssumption, Base, TypeOK, Process, Times, IRefresh, NotAtFirst, Active
<1>2. r.now = clock /\ clock \in Nat
  BY DEF WriteStep, Base, TypeOK, Times, Inside, Outside
<1>3. clock <= proc[q].now + SlamTtl
  BY DEF Active
<1>4. CASE IsNew(r) /\ ProlongedCopy(r) /\ ~r.refresher
  BY <1>1, <1>2, <1>4 DEF ProlongedCopy, Covers
<1>5. CASE Present(r.key) /\ CopyOf(apc[r.key].array, r)
  <2> DEFINE a == apc[r.key].array
  <2>1. a \in Array
    BY <1>5 DEF WriteStep, Base, TypeOK, Present, Entry
  <2>2. a.valid_until \in Nat /\ a.in_refresh_until \in Nat
    BY <2>1, ArrayFields
  <2>3. Covers(a, proc[q])
    BY <1>5 DEF IRefresh, EntriesCover
  <2>4. SameCopy(a, r) \/ MarkedCopy(a, r) \/ ProlongedCopy(r)
    BY <1>5 DEF CopyOf
  <2>5. r.refresher => a.in_refresh_until = 0 /\ a.valid_until < r.now
    BY <1>5 DEF CopyOf, MarkedCopy
  <2> HIDE DEF a
  <2>6. ~r.refresher
    BY <1>1, <1>2, <1>3, <2>2, <2>3, <2>5 DEF Covers
  <2>7. CASE SameCopy(a, r)
    BY <2>3, <2>6, <2>7 DEF SameCopy, Covers
  <2>8. CASE MarkedCopy(a, r)
    BY <1>1, <2>2, <2>3, <2>6, <2>8 DEF MarkedCopy, Covers
  <2>9. CASE ProlongedCopy(r)
    BY <1>1, <1>2, <2>6, <2>9 DEF ProlongedCopy, Covers
  <2> QED BY <2>4, <2>7, <2>8, <2>9
<1> QED BY <1>4, <1>5 DEF WriteStep

LEMMA WriteCovers ==
    ASSUME Prompt, SlamTtl <= Ttl, Base, IRefresh, NEW p \in Procs, NEW r, WriteStep(p, r)
    PROVE  IRefresh'
<1>1. /\ Assign(p, r) /\ clock' = clock /\ r.pc \in Writing
      /\ \A k \in Keys : apc'[k] = apc[k] \/ apc'[k] = NoEntry
  BY DEF WriteStep
<1>2. ~Active(r)
  BY <1>1 DEF Active, Writing
<1>3. \A q \in Procs : Active(proc[q]) /\ proc[q].key = r.key =>
        Covers(r.copy, proc[q]) /\ ~r.refresher
  BY CopyCovers
<1>4. r.refresher => r.now >= 1 /\ Covers(r.copy, r)
  <2> SUFFICES ASSUME r.refresher PROVE r.now >= 1 /\ Covers(r.copy, r)
    OBVIOUS
  <2>1. Present(r.key) /\ CopyOf(apc[r.key].array, r)
    BY DEF WriteStep
  <2>2. apc[r.key].array \in Array
    BY <2>1 DEF WriteStep, Base, TypeOK, Present, Entry
  <2>3. apc[r.key].array.valid_until \in Nat
    BY <2>2, ArrayFields
  <2>4. r.now \in Nat
    BY DEF WriteStep, Base, TypeOK, Process
  <2>5. /\ apc[r.key].array.valid_until < r.now
        /\ r.copy.in_refresh_until = SlamTtl + r.now
    BY <2>1 DEF CopyOf, MarkedCopy
  <2> QED BY <2>3, <2>4, <2>5, ApcAssumption DEF Covers, ApcAssumption
<1> QED BY <1>1, <1>2, <1>3, <1>4, KeepsCover DEF Base

LEMMA StoreCovers ==
    ASSUME Threads, Base, IRefresh, NEW p \in Procs, Store(p)
    PROVE  IRefresh'
<1> DEFINE r == After(p, proc[p].next)
           k == proc[p].key
<1>0. TypeOK
  BY DEF Base
<1>1. /\ Assign(p, r) /\ r.now = proc[p].now /\ r.refresher = proc[p].refresher
      /\ r.pc \in Outside /\ r.key = IF r.pc = "idle" THEN None ELSE k
  BY StoreBecomes
<1> HIDE DEF r
<1>2. \A q \in Procs : proc'[q] = IF q = p THEN r ELSE proc[q]
  BY <1>0, <1>1 DEF TypeOK, Assign
<1>3. proc[p].pc = "storing" /\ k \in Keys /\ clock' = clock
  BY <1>0 DEF Store, TypeOK
<1>4. \A q \in Procs : proc'[q].pc \notin Writing
  BY <1>1, <1>2, <1>3, PlacesDiffer DEF Base, OneHolder, Writing
<1>5. apc'[k].array = proc[p].copy /\ \A j \in Keys : j # k => apc'[j] = apc[j]
  BY <1>0, <1>3 DEF Store, Stored, TypeOK
<1>6. \A q \in Procs : q # p /\ Active(proc[q])' => proc'[q] = proc[q] /\ Active(proc[q])
  BY <1>2, <1>3 DEF Active
<1>7. \A q \in Procs : Active(proc[q]) => proc[q].key \in Keys
  BY <1>0 DEF Active, TypeOK
<1>8. Active(proc[p])' => /\ proc'[p].now = proc[p].now /\ proc'[p].key = k
                          /\ Covers(proc[p].copy, proc[p])
                          /\ \A q \in Procs : Active(proc[q]) => proc[q].key # k
  BY <1>1, <1>2, <1>3 DEF Active, IRefresh, NoRival, Writing
<1>9. NotAtFirst'
  BY <1>1, <1>2 DEF IRefresh, NotAtFirst
<1>10. EntriesCover'
  <2> SUFFICES ASSUME NEW q \in Procs, Active(proc[q])', Present(proc[q].key)'
               PROVE  Covers(apc[proc[q].key].array, proc[q])'
    BY DEF EntriesCover
  <2>1. CASE q = p
    BY <1>5, <1>8, <2>1 DEF Covers
  <2>2. CASE q # p /\ proc[q].key = k
    <3>1. proc'[q] = proc[q] /\ Active(proc[q])
      BY <1>6, <2>2
    <3>2. Covers(proc[p].copy, proc[q])
      BY <1>3, <2>2, <3>1 DEF IRefresh, CopiesCover, Writing
    <3> QED BY <1>5, <2>2, <3>1, <3>2 DEF Covers
  <2>3. CASE q # p /\ proc[q].key # k
    <3>1. proc'[q] = proc[q] /\ Active(proc[q]) /\ proc[q].key \in Keys
      BY <1>6, <1>7, <2>3
    <3>2. apc'[proc[q].key] = apc[proc[q].key]
      BY <1>5, <2>3, <3>1
    <3> QED BY <3>1, <3>2 DEF IRefresh, EntriesCover, Covers, Present
  <2> QED BY <2>1, <2>2, <2>3
<1>11. CopiesCover' /\ NoRival'
  BY <1>4 DEF CopiesCover, NoRival
<1>12. OneActive'
  BY <1>6, <1>8 DEF IRefresh, OneActive
<1> QED BY <1>9, <1>10, <1>11, <1>12 DEF IRefresh

LEMMA RefreshStep ==
    Threads /\ Prompt /\ SlamTtl <= Ttl /\ Base /\ IRefresh /\ [Next]_vars => IRefresh'
<1> SUFFICES ASSUME Threads, Prompt, SlamTtl <= Ttl, Base, IRefresh, [Next]_vars
             PROVE  IRefresh'
  OBVIOUS
<1>0. TypeOK
  BY DEF Base
<1>1. CASE UNCHANGED vars \/ \E k \in Keys : Evict(k)
  <2>1. /\ proc' = proc /\ clock' = clock
        /\ \A k \in Keys : apc'[k] = apc[k] \/ apc'[k] = NoEntry
    BY <1>0, <1>1 DEF vars, Evict, TypeOK
  <2>2. \A q \in Procs : Active(proc[q])' <=> Active(proc[q])
    BY <2>1 DEF Active
  <2>3. \A q \in Procs : Active(proc[q]) => proc[q].key \in Keys
    BY <1>0 DEF Active, TypeOK
  <2>4. EntriesCover'
    BY <2>1, <2>2, <2>3 DEF IRefresh, EntriesCover, Covers, Present
  <2> QED BY <2>1, <2>2, <2>4
          DEF IRefresh, NotAtFirst, CopiesCover, NoRival, OneActive, Covers
<1>2. CASE Tick
  <2>1. proc' = proc /\ apc' = apc /\ clock' = clock + 1 /\ clock \in Nat
    BY <1>0, <1>2 DEF Tick, TypeOK
  <2>2. \A q \in Procs : Active(proc[q])' => Active(proc[q])
    <3>1. \A q \in Procs : proc[q].now + SlamTtl \in Nat
      BY <1>0, ApcAssumption DEF ApcAssumption, TypeOK, Process
    <3> QED BY <2>1, <3>1 DEF Active
  <2>3. \A q \in Procs : proc[q].pc \notin Writing
    BY <1>2, PlacesDiffer DEF Tick, Inside, Writing, Outside
  <2> QED BY <2>1, <2>2, <2>3
          DEF IRefresh, NotAtFirst, EntriesCover, CopiesCover, NoRival, OneActive, Covers, Present
<1>3. ASSUME NEW p \in Procs, NEW r, QuietStep(p, r) PROVE IRefresh'
  BY <1>0, <1>3, KeepsCover DEF QuietStep, Active
<1>4. ASSUME NEW p \in Procs, NEW r, WriteStep(p, r) PROVE IRefresh'
  BY <1>4, WriteCovers
<1>5. ASSUME NEW p \in Procs, Delete(p) PROVE IRefresh'
  <2> DEFINE r == [proc[p] EXCEPT !.pc = "storing"]
  <2>1. /\ Assign(p, r) /\ r.pc = "storing" /\ r.now = proc[p].now
        /\ r.refresher = proc[p].refresher /\ r.key = proc[p].key /\ r.copy = proc[p].copy
    BY <1>5, DeleteBecomes
  <2> HIDE DEF r
  <2>2. /\ clock' = clock /\ proc[p].pc \in Writing
        /\ \A k \in Keys : apc'[k] = apc[k] \/ apc'[k] = NoEntry
    BY <1>0, <1>5 DEF Delete, TypeOK, Writing
  <2>3. ~Active(r) /\ (r.refresher => r.now >= 1)
    BY <2>1 DEF Active, IRefresh, NotAtFirst
  <2>4. \A q \in Procs : Active(proc[q]) /\ proc[q].key = r.key => Covers(r.copy, proc[q])
    BY <2>1, <2>2 DEF IRefresh, CopiesCover
  <2>5. r.refresher => /\ Covers(r.copy, r)
                       /\ \A q \in Procs : Active(proc[q]) => proc[q].key # r.key
    BY <2>1, <2>2 DEF IRefresh, NoRival, Covers
  <2> QED BY <1>0, <2>1, <2>2, <2>3, <2>4, <2>5, KeepsCover
<1>6. ASSUME NEW p \in Procs, Store(p) PROVE IRefresh'
  BY <1>6, StoreCovers
<1> QED BY <1>1, <1>2, <1>3, <1>4, <1>5, <1>6, Steps DEF ThreadStep

LEMMA ActiveIsOne == IRefresh => OneRefresher
<1> SUFFICES ASSUME IRefresh, NEW k \in Keys PROVE Cardinality(Refreshers(k)) <= 1
  BY DEF OneRefresher
<1>1. CASE Refreshers(k) = {}
  BY <1>1, FS_EmptySet
<1>2. ASSUME NEW p \in Refreshers(k) PROVE Cardinality(Refreshers(k)) <= 1
  <2>1. Refreshers(k) = {p}
    BY <1>2 DEF IRefresh, OneActive, Refreshers, Active
  <2> QED BY <2>1, FS_Singleton
<1> QED BY <1>1, <1>2

\* Threads send one of them at a time to refresh an entry, until it is overdue:
\* if the lock is never held across a second, and if no entry lives for less
\* than slam_defense_ttl, or a refresh by somebody else could expire before the
\* first refresher is overdue.
THEOREM ThreadsSendOne == Threads /\ Prompt /\ SlamTtl <= Ttl => (Spec => []OneRefresher)
<1> SUFFICES ASSUME Threads, Prompt, SlamTtl <= Ttl PROVE Spec => []OneRefresher
  OBVIOUS
<1>1. Init => IRefresh
  BY DEF Init, Idle, IRefresh, NotAtFirst, EntriesCover, CopiesCover, NoRival, OneActive, Active,
         Writing
<1>2. Base /\ IRefresh /\ [Next]_vars => Base' /\ IRefresh'
  BY BaseStep, RefreshStep
<1>3. IRefresh => OneRefresher
  BY ActiveIsOne
<1> QED BY <1>1, <1>2, <1>3, BaseInit, PTL DEF Spec
=============================================================================
