------------------------------ MODULE SqliteProofs ------------------------------
(***************************************************************************)
(* The SQLite handler keeps one row for a query, and implements            *)
(* ResultCache, for any number of threads, queries, rows and results, as   *)
(* long as no SELECT or DELETE fails under an add.                         *)
(*                                                                         *)
(* No single statement keeps a second row out.  The argument is that of a  *)
(* critical section: at most one thread is between its SELECT and its      *)
(* INSERT, there is no row of its query while it is there, and what the    *)
(* other threads may still do to the table without the lock adds none.     *)
(***************************************************************************)
EXTENDS SqliteHandler, FiniteSetTheorems, TLAPS

\* A thread in the middle of something knows for which query, and one that
\* serves or holds a result has it.
WellFormed(r) ==
    /\ r \in Process
    /\ r.pc # "idle" => r.key \in Keys
    /\ r.pc \in Holding \cup {"replaying"} => r.data \in Results

ThreadsWellFormed == \A p \in Procs : WellFormed(proc[p])

OneInserts ==
    \A p, q \in Procs : proc[p].pc = "inserting" /\ proc[q].pc = "inserting" => p = q

OneRowEach == \A r, s \in rows : r.qhash = s.qhash => r = s

InsertsFirst ==
    \A p \in Procs : proc[p].pc = "inserting" => \A r \in rows : r.qhash # proc[p].key

\* The inductive invariant.
IInv ==
    /\ TypeOK
    /\ IsFiniteSet(rows)
    /\ ThreadsWellFormed
    /\ OneInserts
    /\ ~failed => OneRowEach /\ InsertsFirst

-----------------------------------------------------------------------------
(***************************************************************************)
(* The invariant                                                           *)
(***************************************************************************)

LEMMA IInvInit == Init => IInv
<1> SUFFICES ASSUME Init PROVE IInv
  OBVIOUS
<1>1. Idle \in Process /\ Idle.pc = "idle"
  BY DEF Idle, Process, Places
<1>2. \A p \in Procs : proc[p] = Idle
  BY DEF Init
<1>3. TypeOK
  BY <1>1 DEF Init, TypeOK
<1>4. IsFiniteSet(rows)
  BY FS_EmptySet DEF Init
<1>5. ThreadsWellFormed /\ OneInserts /\ OneRowEach /\ InsertsFirst
  BY <1>1, <1>2 DEF Init, ThreadsWellFormed, WellFormed, OneInserts, OneRowEach, InsertsFirst,
                    Holding
<1> QED BY <1>3, <1>4, <1>5 DEF IInv

\* A step of one thread that adds no row.
LEMMA NoNewRow ==
    ASSUME IInv, NEW p \in Procs, NEW r, WellFormed(r), proc' = [proc EXCEPT ![p] = r],
           rows' \in SUBSET rows, clock' = clock, db_conn' = db_conn,
           replays' \in [Keys -> Nat], failed' \in BOOLEAN, failed => failed',
           r.pc = "inserting" =>
             LockFree /\ (~failed' => \A x \in rows' : x.qhash # r.key)
    PROVE  IInv'
<1> USE DEF IInv
<1>1. \A q \in Procs : proc'[q] = IF q = p THEN r ELSE proc[q]
  BY DEF TypeOK
<1>2. TypeOK'
  BY DEF TypeOK, WellFormed
<1>3. IsFiniteSet(rows')
  BY FS_Subset
<1>4. ThreadsWellFormed'
  BY <1>1 DEF ThreadsWellFormed
<1>5. OneInserts'
  BY <1>1 DEF OneInserts, LockFree
<1>6. ~failed' => OneRowEach' /\ InsertsFirst'
  BY <1>1 DEF OneRowEach, InsertsFirst
<1> QED BY <1>2, <1>3, <1>4, <1>5, <1>6

LEMMA PlacesAre ==
    ASSUME NEW s \in Places, NEW k \in Keys \cup {None}, NEW d \in Results \cup {None}, NEW n \in Nat
    PROVE  [pc |-> s, key |-> k, data |-> d, deadline |-> n] \in Process
BY DEF Process

\* What Become leaves behind.
LEMMA BecomeWellFormed ==
    ASSUME NEW p \in Procs, NEW s \in Places, NEW k, NEW d, Become(p, s, k, d),
           \/ s = "idle" /\ k = None /\ d = None
           \/ s = "counting" /\ k \in Keys /\ d = None
           \/ s \in {"recording", "replaying"} /\ k \in Keys /\ d \in Results
    PROVE  \E r : WellFormed(r) /\ r.pc = s /\ proc' = [proc EXCEPT ![p] = r]
<1> DEFINE r == [pc |-> s, key |-> k, data |-> d, deadline |-> 0]
<1>1. r \in Process
  BY PlacesAre
<1>2. WellFormed(r)
  BY <1>1 DEF WellFormed, Holding
<1> QED BY <1>2 DEF Become

LEMMA PurgeShrinks == ASSUME Purge PROVE rows' \in SUBSET rows
BY DEF Purge, Purged

LEMMA AnswersAreResults == ASSUME NEW k \in Keys, NEW r \in Answers[k] PROVE r \in Results
BY DEF Results

LEMMA FindStep ==
    ASSUME IInv, NEW p \in Procs, NEW k \in Keys, Find(p, k)
    PROVE  IInv'
<1>0. TypeOK
  BY DEF IInv
<1>1. CASE FindFresh(p, k)
  <2>1. PICK r \in rows : Become(p, "replaying", k, r.qdata)
    BY <1>1 DEF FindFresh, Selected
  <2>2. r.qdata \in Results
    BY <1>0 DEF TypeOK, Row
  <2>3. \E r1 : WellFormed(r1) /\ r1.pc = "replaying" /\ proc' = [proc EXCEPT ![p] = r1]
    BY <2>1, <2>2, BecomeWellFormed DEF Places
  <2> QED BY <1>0, <1>1, <2>3, NoNewRow DEF FindFresh, TypeOK
<1>2. CASE FindStale(p, k) \/ FindNothing(p, k)
  <2>1. PICK r \in Answers[k] : Become(p, "recording", k, r)
    BY <1>2 DEF FindStale, FindNothing
  <2>2. \E r1 : WellFormed(r1) /\ r1.pc = "recording" /\ proc' = [proc EXCEPT ![p] = r1]
    BY <2>1, AnswersAreResults, BecomeWellFormed DEF Places
  <2>3. rows' \in SUBSET rows
    BY <1>2, PurgeShrinks DEF FindStale, FindNothing
  <2> QED BY <1>0, <1>2, <2>2, <2>3, NoNewRow DEF FindStale, FindNothing, TypeOK
<1> QED BY <1>1, <1>2 DEF Find

\* The steps that leave a thread idle.
LEMMA IdleStep ==
    ASSUME IInv, NEW p \in Procs,
           Abandon(p) \/ AddWithoutDatabase(p) \/ AddRefused(p) \/ InsertFails(p)
    PROVE  IInv'
<1>1. /\ Become(p, "idle", None, None)
      /\ UNCHANGED <<clock, db_conn, rows, failed, replays>>
  BY DEF Abandon, AddWithoutDatabase, AddRefused, InsertFails
<1>2. \E r : WellFormed(r) /\ r.pc = "idle" /\ proc' = [proc EXCEPT ![p] = r]
  BY <1>1, BecomeWellFormed DEF Places
<1> QED BY <1>1, <1>2, NoNewRow DEF IInv, TypeOK

LEMMA ReturnStep ==
    ASSUME IInv, NEW p \in Procs, ReturnToCache(p)
    PROVE  IInv'
<1>1. proc[p].key \in Keys
  BY DEF IInv, ThreadsWellFormed, WellFormed, ReturnToCache
<1>2. \E r : WellFormed(r) /\ r.pc = "counting" /\ proc' = [proc EXCEPT ![p] = r]
  BY <1>1, BecomeWellFormed DEF Places, ReturnToCache
<1> QED BY <1>2, NoNewRow DEF IInv, TypeOK, ReturnToCache

\* The thread moves on with what it has.
LEMMA MovedOn ==
    ASSUME IInv, NEW p \in Procs, proc[p].pc \in Holding, NEW s \in Holding, NEW n \in Nat
    PROVE  /\ WellFormed([proc[p] EXCEPT !.pc = s])
           /\ WellFormed([proc[p] EXCEPT !.pc = s, !.deadline = n])
           /\ [proc[p] EXCEPT !.pc = s].key = proc[p].key
           /\ [proc[p] EXCEPT !.pc = s].pc = s
           /\ [proc[p] EXCEPT !.pc = s, !.deadline = n].pc = s
<1>1. WellFormed(proc[p])
  BY DEF IInv, ThreadsWellFormed
<1> QED BY <1>1 DEF WellFormed, Process, Holding, Places

LEMMA BeginAddStep ==
    ASSUME IInv, NEW p \in Procs, NEW ttl \in Ttls, BeginAdd(p, ttl)
    PROVE  IInv'
<1>1. clock + ttl \in Nat
  BY SqliteAssumption DEF IInv, TypeOK
<1> DEFINE r == [proc[p] EXCEPT !.pc = "adding", !.deadline = clock + ttl]
<1>2. WellFormed(r) /\ r.pc = "adding"
  BY <1>1, MovedOn DEF BeginAdd, Holding
<1>3. proc' = [proc EXCEPT ![p] = r]
  BY DEF BeginAdd, IInv, TypeOK
<1> QED BY <1>2, <1>3, NoNewRow DEF IInv, TypeOK, BeginAdd

\* The lock is taken with no row of the query left, unless a statement failed.
LEMMA EnterStep ==
    ASSUME IInv, NEW p \in Procs, AddPurges(p) \/ AddFindsNothing(p)
    PROVE  IInv'
<1> DEFINE r == [proc[p] EXCEPT !.pc = "inserting"]
<1>1. WellFormed(r) /\ r.pc = "inserting" /\ r.key = proc[p].key
  BY MovedOn DEF AddPurges, AddFindsNothing, Holding
<1>2. proc' = [proc EXCEPT ![p] = r]
  BY DEF AddPurges, AddFindsNothing, IInv, TypeOK
<1>3. rows' \in SUBSET rows
  BY PurgeShrinks DEF AddPurges, AddFindsNothing
<1>4. ~failed' => \A x \in rows' : x.qhash # proc[p].key
  <2>1. CASE AddPurges(p)
    <3> SUFFICES ASSUME ~failed', NEW x \in rows', x.qhash = proc[p].key PROVE FALSE
      OBVIOUS
    <3>1. PICK s \in rows : s.qhash = proc[p].key /\ Stale(s)
      BY <2>1 DEF AddPurges, Selected
    <3>2. rows' = Purged /\ ~failed
      BY <2>1 DEF AddPurges, IInv, TypeOK
    <3>3. x \in rows /\ ~Stale(x)
      BY <3>2 DEF Purged
    <3> QED BY <3>1, <3>2, <3>3 DEF IInv, OneRowEach
  <2>2. CASE AddFindsNothing(p)
    BY <2>2 DEF AddFindsNothing, Selected, IInv, TypeOK
  <2> QED BY <2>1, <2>2
<1> QED BY <1>1, <1>2, <1>3, <1>4, NoNewRow DEF IInv, TypeOK, AddPurges, AddFindsNothing

\* update_stats_select changes the hits of rows, and nothing a row is found by.
Counted(r, s) == s.qhash = r.qhash /\ s.qdata = r.qdata /\ s.deadline = r.deadline

\* The new rows are an image of the old ones.
LEMMA StatsImage ==
    ASSUME TypeOK, NEW p \in Procs, UpdateStats(p)
    PROVE  \E f \in [rows -> Row] :
             /\ rows' = {f[r] : r \in rows}
             /\ \A r \in rows : Counted(r, f[r])
             /\ \A r \in rows : f[r].id = r.id
<1>1. CASE UNCHANGED rows
  <2> DEFINE f == [r \in rows |-> r]
  <2>1. f \in [rows -> Row] /\ rows' = {f[r] : r \in rows}
    BY <1>1 DEF TypeOK
  <2> QED BY <2>1 DEF Counted
<1>2. ASSUME NEW first \in rows,
             rows' = {IF r.qhash = proc[p].key THEN [r EXCEPT !.hits = AtMost(first.hits + 1)] ELSE r
                       : r \in rows}
      PROVE  \E f \in [rows -> Row] :
               /\ rows' = {f[r] : r \in rows}
               /\ \A r \in rows : Counted(r, f[r])
               /\ \A r \in rows : f[r].id = r.id
  <2> DEFINE n == AtMost(first.hits + 1)
             g(r) == IF r.qhash = proc[p].key THEN [r EXCEPT !.hits = n] ELSE r
             f == [r \in rows |-> g(r)]
  <2>1. n \in Nat
    BY SqliteAssumption DEF AtMost, TypeOK, Row
  <2>2. \A r \in Row : [r EXCEPT !.hits = n] \in Row /\ [r EXCEPT !.hits = n].id = r.id
                       /\ Counted(r, [r EXCEPT !.hits = n])
    BY <2>1 DEF Row, Counted
  <2>3. \A r \in rows : r \in Row
    BY DEF TypeOK
  <2>4. f \in [rows -> Row]
    BY <2>2, <2>3
  <2>5. rows' = {f[r] : r \in rows}
    BY <1>2
  <2>6. \A r \in rows : Counted(r, f[r]) /\ f[r].id = r.id
    BY <2>2, <2>3 DEF Counted
  <2> QED BY <2>4, <2>5, <2>6
<1> QED BY <1>1, <1>2 DEF UpdateStats

LEMMA StatsKeepOne ==
    ASSUME TypeOK, OneRowEach, NEW p \in Procs, UpdateStats(p)
    PROVE  OneRowEach'
<1>1. PICK f \in [rows -> Row] :
             /\ rows' = {f[r] : r \in rows}
             /\ \A r \in rows : Counted(r, f[r])
  BY StatsImage
<1> SUFFICES ASSUME NEW s \in rows', NEW t \in rows', s.qhash = t.qhash PROVE s = t
  BY DEF OneRowEach
<1>2. PICK x \in rows, y \in rows : s = f[x] /\ t = f[y]
  BY <1>1
<1>3. x.qhash = y.qhash
  BY <1>1, <1>2 DEF Counted
<1> QED BY <1>2, <1>3 DEF OneRowEach

LEMMA UpdateStatsStep ==
    ASSUME IInv, NEW p \in Procs, UpdateStats(p)
    PROVE  IInv'
<1> USE DEF IInv
<1>1. PICK f \in [rows -> Row] :
             /\ rows' = {f[r] : r \in rows}
             /\ \A r \in rows : Counted(r, f[r])
             /\ \A r \in rows : f[r].id = r.id
  BY StatsImage
<1>2. PICK r : WellFormed(r) /\ r.pc = "idle" /\ proc' = [proc EXCEPT ![p] = r]
  <2>1. Become(p, "idle", None, None)
    BY DEF UpdateStats
  <2> QED BY <2>1, BecomeWellFormed DEF Places
<1>3. \A q \in Procs : proc'[q] = IF q = p THEN r ELSE proc[q]
  BY <1>2 DEF TypeOK
<1>4. IsFiniteSet(rows')
  <2>1. f \in Surjection(rows, rows')
    BY <1>1 DEF Surjection
  <2> QED BY <2>1, FS_Surjection
<1>5. replays' \in [Keys -> Nat]
  <2>1. \A n \in Nat : AtMost(n) \in Nat
    BY SqliteAssumption DEF AtMost
  <2>2. \A k \in Keys : replays[k] + 1 \in Nat
    BY DEF TypeOK
  <2>3. replays' = [replays EXCEPT ![proc[p].key] = AtMost(@ + 1)]
    BY DEF UpdateStats
  <2> QED BY <2>1, <2>2, <2>3 DEF TypeOK
<1>6. TypeOK'
  BY <1>1, <1>2, <1>5 DEF TypeOK, WellFormed, UpdateStats
<1>7. ThreadsWellFormed' /\ OneInserts'
  BY <1>2, <1>3 DEF ThreadsWellFormed, OneInserts
<1>8. ~failed' => OneRowEach'
  BY StatsKeepOne DEF UpdateStats
<1>9. ~failed' => InsertsFirst'
  BY <1>2, <1>3 DEF InsertsFirst, UpdateStats, LockFree
<1> QED BY <1>4, <1>6, <1>7, <1>8, <1>9

LEMMA InsertStep ==
    ASSUME IInv, NEW p \in Procs, Insert(p)
    PROVE  IInv'
<1> USE DEF IInv
<1>1. PICK i \in Rowids : rows' = rows \cup {NewRow(p, i)}
  BY DEF Insert
<1>2. PICK r : WellFormed(r) /\ r.pc = "idle" /\ proc' = [proc EXCEPT ![p] = r]
  <2>1. Become(p, "idle", None, None)
    BY DEF Insert
  <2> QED BY <2>1, BecomeWellFormed DEF Places
<1>3. \A q \in Procs : proc'[q] = IF q = p THEN r ELSE proc[q]
  BY <1>2 DEF TypeOK
<1>4. NewRow(p, i) \in Row
  <2>1. WellFormed(proc[p]) /\ proc[p].pc = "inserting"
    BY DEF ThreadsWellFormed, Insert
  <2>2. proc[p].key \in Keys /\ proc[p].data \in Results /\ proc[p].deadline \in Nat
    BY <2>1 DEF WellFormed, Process, Holding
  <2> QED BY <2>2 DEF NewRow, Row
<1>5. TypeOK'
  BY <1>1, <1>2, <1>4 DEF TypeOK, WellFormed, Insert
<1>6. IsFiniteSet(rows')
  BY <1>1, FS_AddElement
<1>7. ThreadsWellFormed' /\ OneInserts'
  BY <1>2, <1>3 DEF ThreadsWellFormed, OneInserts
<1>8. ~failed' => OneRowEach'
  BY <1>1 DEF OneRowEach, InsertsFirst, Insert, NewRow
<1>9. \A q \in Procs : proc'[q].pc # "inserting"
  BY <1>2, <1>3 DEF OneInserts, Insert
<1> QED BY <1>5, <1>6, <1>7, <1>8, <1>9 DEF InsertsFirst

\* The steps that only take rows away, and those that take none.
LEMMA SameThreads ==
    ASSUME IInv, rows' \in SUBSET rows, clock' \in Nat, db_conn' \in BOOLEAN,
           UNCHANGED <<proc, failed, replays>>
    PROVE  IInv'
<1>1. IsFiniteSet(rows')
  BY FS_Subset DEF IInv
<1> QED BY <1>1 DEF IInv, TypeOK, ThreadsWellFormed, WellFormed, OneInserts, OneRowEach,
                    InsertsFirst

LEMMA RestartStep == ASSUME IInv, Restart PROVE IInv'
<1>1. Idle \in Process /\ Idle.pc = "idle" /\ \A p \in Procs : proc'[p] = Idle
  BY DEF Idle, Process, Places, Restart
<1>2. TypeOK'
  BY <1>1 DEF IInv, TypeOK, Restart
<1>3. ThreadsWellFormed' /\ OneInserts' /\ InsertsFirst'
  BY <1>1 DEF ThreadsWellFormed, WellFormed, Holding, OneInserts, InsertsFirst
<1> QED BY <1>2, <1>3 DEF IInv, Restart, OneRowEach

LEMMA IInvStep == IInv /\ [Next]_vars => IInv'
<1> SUFFICES ASSUME IInv, [Next]_vars PROVE IInv'
  OBVIOUS
<1>0. TypeOK
  BY DEF IInv
<1>1. CASE UNCHANGED vars
  BY <1>0, <1>1, SameThreads DEF vars, TypeOK
<1>2. CASE Tick
  BY <1>0, <1>2, SameThreads DEF Tick, TypeOK
<1>3. CASE Restart
  BY <1>3, RestartStep
<1>4. ASSUME NEW p \in Procs, ThreadStep(p) PROVE IInv'
  <2>1. ASSUME NEW k \in Keys, Find(p, k) PROVE IInv'
    BY <2>1, FindStep
  <2>2. ASSUME NEW k \in Keys, QueryIsCached(p, k) PROVE IInv'
    BY <1>0, <2>2, PurgeShrinks, SameThreads DEF QueryIsCached, TypeOK
  <2>3. CASE ReturnToCache(p)
    BY <2>3, ReturnStep
  <2>4. CASE UpdateStats(p)
    BY <2>4, UpdateStatsStep
  <2>5. CASE Add(p) \/ Abandon(p)
    BY <2>5, BeginAddStep, EnterStep, IdleStep, InsertStep DEF Add
  <2>6. CASE ClearCache(p)
    BY <1>0, <2>6, SameThreads DEF ClearCache, TypeOK
  <2> QED BY <1>4, <2>1, <2>2, <2>3, <2>4, <2>5, <2>6 DEF ThreadStep
<1> QED BY <1>1, <1>2, <1>3, <1>4 DEF Next

LEMMA Invariance == Spec => []IInv
BY IInvInit, IInvStep, PTL DEF Spec

-----------------------------------------------------------------------------
(***************************************************************************)
(* One row for a query                                                     *)
(***************************************************************************)

\* Where each query has one row, the rows and their queries are as many.
LEMMA RowsCountKeys == IInv => OneRow
<1> SUFFICES ASSUME IInv, ~failed PROVE NumEntries = Cardinality(Listed)
  BY DEF OneRow
<1> DEFINE f == [r \in rows |-> r.qhash]
<1>1. f \in Surjection(rows, Listed)
  BY DEF Surjection, Listed
<1>2. f \in Injection(rows, Listed)
  BY <1>1 DEF Injection, IsInjective, Surjection, IInv, OneRowEach
<1> QED BY <1>1, <1>2, FS_Surjection DEF IInv, NumEntries

\* The entries that fill_stats_hash counts are those of the array it fills,
\* whatever the threads do and whenever the process is restarted, until a SELECT
\* or a DELETE fails under an add.
THEOREM OneRowForAQuery == Spec => []OneRow
BY Invariance, RowsCountKeys, PTL

-----------------------------------------------------------------------------
(***************************************************************************)
(* The table as a result cache                                             *)
(***************************************************************************)

\* What the steps start from and end in, when no statement has failed.
Sound == IInv /\ OneRowEach /\ InsertsFirst

LEMMA IInvSound == IInv /\ ~failed => Sound
BY DEF IInv, Sound

\* A failure is remembered.
LEMMA FailedStays == IInv /\ [Next]_vars /\ ~failed' => ~failed
BY DEF IInv, TypeOK, Next, vars, Tick, Restart, ThreadStep, Find, FindFresh, FindStale,
       FindNothing, QueryIsCached, ReturnToCache, UpdateStats, Abandon, Add, BeginAdd,
       AddWithoutDatabase, AddRefused, AddPurges, AddFindsNothing, Insert, InsertFails, ClearCache

\* What the abstract cache has for a query is in the row of the query.
LEMMA StoreIsRow ==
    ASSUME OneRowEach, NEW r \in rows, r.qhash \in Keys
    PROVE  storeBar[r.qhash] = r.qdata
<1>1. \A s \in Selected(r.qhash) : s = r
  BY DEF OneRowEach, Selected
<1>2. r \in Selected(r.qhash)
  BY DEF Selected
<1> QED BY <1>1, <1>2 DEF storeBar

LEMMA StoreHasNone ==
    ASSUME NEW k \in Keys, \A r \in rows : r.qhash # k
    PROVE  storeBar[k] = None
BY DEF storeBar, Selected

LEMMA RowHasResult ==
    ASSUME TypeOK, NEW r \in rows
    PROVE  r.qhash \in Keys /\ r.qdata \in Results /\ r.qdata # None
<1>1. r.qhash \in Keys /\ r.qdata \in Results
  BY DEF TypeOK, Row
<1>2. None \notin Results
  BY SqliteAssumption DEF Results
<1> QED BY <1>1, <1>2

\* Rows of the same results are the same abstract store.
LEMMA StoreStays ==
    ASSUME OneRowEach, OneRowEach',
           \A r \in rows : \E s \in rows' : s.qhash = r.qhash /\ s.qdata = r.qdata,
           \A s \in rows' : \E r \in rows : s.qhash = r.qhash
    PROVE  storeBar' = storeBar
<1>1. ASSUME NEW k \in Keys, NEW r \in rows, r.qhash = k PROVE storeBar'[k] = storeBar[k]
  <2>1. PICK s \in rows' : s.qhash = k /\ s.qdata = r.qdata
    BY <1>1
  <2>2. storeBar[k] = r.qdata
    BY <1>1, StoreIsRow
  <2>3. storeBar'[k] = s.qdata
    <3>1. \A t \in Selected(k)' : t = s
      BY <2>1 DEF OneRowEach, Selected
    <3>2. s \in Selected(k)'
      BY <2>1 DEF Selected
    <3> QED BY <3>1, <3>2 DEF storeBar
  <2> QED BY <2>1, <2>2, <2>3
<1>2. ASSUME NEW k \in Keys, \A r \in rows : r.qhash # k PROVE storeBar'[k] = storeBar[k]
  <2>1. \A s \in rows' : s.qhash # k
    BY <1>2
  <2>2. Selected(k) = {} /\ Selected(k)' = {}
    BY <1>2, <2>1 DEF Selected
  <2> QED BY <2>2 DEF storeBar
<1>3. \A k \in Keys : storeBar'[k] = storeBar[k]
  BY <1>1, <1>2
<1> QED BY <1>3 DEF storeBar

\* Rows that go are results that are forgotten.
LEMMA FewerRows ==
    ASSUME TypeOK, OneRowEach, NEW ks \in SUBSET Keys,
           rows' = {r \in rows : r.qhash \notin ks}
    PROVE  Abstract!Forget(ks)
<1>1. \A k \in Keys : k \in ks => Selected(k)' = {}
  BY DEF Selected
<1>2. \A k \in Keys : k \notin ks => Selected(k)' = Selected(k)
  BY DEF Selected
<1>3. storeBar' = [k \in Keys |-> IF k \in ks THEN None ELSE storeBar[k]]
  <2>1. storeBar' = [k \in Keys |-> IF Selected(k)' = {} THEN None
                                    ELSE (CHOOSE r \in Selected(k)' : TRUE).qdata]
    BY DEF storeBar
  <2>2. ASSUME NEW k \in Keys PROVE storeBar'[k] = IF k \in ks THEN None ELSE storeBar[k]
    <3>1. CASE k \in ks
      BY <1>1, <2>1, <3>1
    <3>2. CASE k \notin ks
      <4>1. Selected(k)' = Selected(k)
        BY <1>2, <3>2
      <4> QED BY <2>1, <3>2, <4>1 DEF storeBar
    <3> QED BY <3>1, <3>2
  <2> QED BY <2>1, <2>2
<1> QED BY <1>3 DEF Abstract!Forget

\* purge_sql forgets the stale results, or nothing when it fails.
LEMMA PurgeForgets ==
    ASSUME TypeOK, OneRowEach, Purge
    PROVE  Abstract!Keep \/ Abstract!MayForget
<1>1. CASE rows' = rows
  BY <1>1 DEF Abstract!Keep, storeBar, Selected
<1>2. CASE rows' = Purged
  <2> DEFINE ks == {r.qhash : r \in {s \in rows : Stale(s)}}
  <2>1. ks \in SUBSET Keys
    BY RowHasResult
  <2>2. rows' = {r \in rows : r.qhash \notin ks}
    BY <1>2 DEF Purged, OneRowEach
  <2> HIDE DEF ks
  <2>3. Abstract!Forget(ks)
    BY <2>1, <2>2, FewerRows
  <2> QED BY <2>1, <2>3 DEF Abstract!MayForget
<1> QED BY <1>1, <1>2 DEF Purge

-----------------------------------------------------------------------------
(***************************************************************************)
(* The threads as clients                                                  *)
(***************************************************************************)

LEMMA ClientIs == \A p \in Procs : clientBar[p] = ClientOf(proc[p])
BY DEF clientBar

LEMMA ClientBecomes ==
    ASSUME TypeOK, NEW p \in Procs, NEW r, proc' = [proc EXCEPT ![p] = r]
    PROVE  clientBar' = [clientBar EXCEPT ![p] = ClientOf(r)]
BY DEF TypeOK, clientBar

\* No client changes as long as its thread moves on with what it has.
LEMMA ClientStays ==
    ASSUME TypeOK, NEW p \in Procs, NEW r, proc' = [proc EXCEPT ![p] = r],
           ClientOf(r) = ClientOf(proc[p])
    PROVE  clientBar' = clientBar
<1>1. clientBar' = [clientBar EXCEPT ![p] = ClientOf(r)]
  BY ClientBecomes
<1>2. clientBar[p] = ClientOf(r)
  BY ClientIs
<1> QED BY <1>1, <1>2 DEF clientBar

Simulated == Abstract!Next \/ UNCHANGED Abstract!vars

LEMMA NothingVisible == ASSUME Abstract!Keep, clientBar' = clientBar PROVE Simulated
BY DEF Simulated, Abstract!Keep, Abstract!vars

LEMMA KeptRows == ASSUME rows' = rows PROVE Abstract!Keep
BY DEF Abstract!Keep, storeBar, Selected

LEMMA IdleIs == ClientOf([pc |-> "idle", key |-> None, data |-> None, deadline |-> 0]) = Abstract!Idle
BY DEF ClientOf, Holding, Abstract!Idle

LEMMA CountingIs ==
    ASSUME NEW k
    PROVE  ClientOf([pc |-> "counting", key |-> k, data |-> None, deadline |-> 0]) = Abstract!Idle
BY DEF ClientOf, Holding, Abstract!Idle

LEMMA FreeIs ==
    ASSUME NEW p \in Procs, proc[p].pc \in {"idle", "counting"}
    PROVE  clientBar[p] = Abstract!Idle
BY ClientIs DEF ClientOf, Holding, Abstract!Idle

LEMMA BusyIs ==
    ASSUME NEW p \in Procs
    PROVE  /\ proc[p].pc = "replaying" =>
                clientBar[p] = Abstract!Has("replaying", proc[p].key, proc[p].data)
           /\ proc[p].pc \in Holding =>
                clientBar[p] = Abstract!Has("recording", proc[p].key, proc[p].data)
BY ClientIs DEF ClientOf, Holding, Abstract!Has

LEMMA KindIs ==
    ASSUME NEW kind, NEW k, NEW r
    PROVE  Abstract!Has(kind, k, r).kind = kind
BY DEF Abstract!Has

\* A lookup serves the row, or sends the client to fetch the result.
LEMMA FindSimulated ==
    ASSUME Sound, NEW p \in Procs, NEW k \in Keys, Find(p, k)
    PROVE  Simulated
<1>0. TypeOK /\ OneRowEach
  BY DEF Sound, IInv
<1>1. CASE FindFresh(p, k)
  <2>1. PICK r \in rows : r.qhash = k /\ Become(p, "replaying", k, r.qdata)
    BY <1>1 DEF FindFresh, Selected
  <2>2. storeBar[k] = r.qdata /\ r.qdata # None
    BY <1>0, <2>1, StoreIsRow, RowHasResult
  <2> DEFINE t == [pc |-> "replaying", key |-> k, data |-> r.qdata, deadline |-> 0]
  <2>3. ClientOf(t) = Abstract!Has("replaying", k, storeBar[k])
    BY <2>2 DEF ClientOf, Abstract!Has
  <2>4. clientBar' = [clientBar EXCEPT ![p] = ClientOf(t)]
    BY <1>0, <2>1, ClientBecomes DEF Become
  <2>5. clientBar[p] = Abstract!Idle
    BY <1>1, FreeIs DEF FindFresh
  <2>6. Abstract!Keep
    BY <1>1, KeptRows DEF FindFresh
  <2>7. Abstract!Serve(p, k)
    BY <2>2, <2>3, <2>4, <2>5, <2>6 DEF Abstract!Serve, Abstract!Hold
  <2> QED BY <2>7 DEF Simulated, Abstract!Next
<1>2. CASE FindStale(p, k) \/ FindNothing(p, k)
  <2>1. PICK r \in Answers[k] : Become(p, "recording", k, r)
    BY <1>2 DEF FindStale, FindNothing
  <2> DEFINE t == [pc |-> "recording", key |-> k, data |-> r, deadline |-> 0]
  <2>2. ClientOf(t) = Abstract!Has("recording", k, r)
    BY DEF ClientOf, Holding, Abstract!Has
  <2>3. clientBar' = [clientBar EXCEPT ![p] = ClientOf(t)]
    BY <1>0, <2>1, ClientBecomes DEF Become
  <2>4. clientBar[p] = Abstract!Idle
    BY <1>2, FreeIs DEF FindStale, FindNothing
  <2>5. Abstract!Keep \/ Abstract!MayForget
    BY <1>0, <1>2, KeptRows, PurgeForgets DEF FindStale, FindNothing
  <2>6. Abstract!Fetch(p, k)
    BY <2>2, <2>3, <2>4, <2>5 DEF Abstract!Fetch, Abstract!Hold
  <2> QED BY <2>6 DEF Simulated, Abstract!Next
<1> QED BY <1>1, <1>2 DEF Find

\* The end of a replay gives the result back.
LEMMA ReturnSimulated ==
    ASSUME Sound, NEW p \in Procs, ReturnToCache(p)
    PROVE  Simulated
<1>1. TypeOK
  BY DEF Sound, IInv
<1>2. clientBar' = [clientBar EXCEPT ![p] = Abstract!Idle]
  BY <1>1, ClientBecomes, CountingIs DEF ReturnToCache, Become
<1>3. clientBar[p].kind = "replaying"
  <2>1. clientBar[p] = Abstract!Has("replaying", proc[p].key, proc[p].data)
    BY BusyIs DEF ReturnToCache
  <2> QED BY <2>1, KindIs
<1>4. Abstract!Keep
  BY KeptRows DEF ReturnToCache
<1>5. Abstract!GiveBack(p)
  BY <1>2, <1>3, <1>4 DEF Abstract!GiveBack, Abstract!Hold
<1> QED BY <1>5 DEF Simulated, Abstract!Next

\* A result that is not cached in the end is given up.
LEMMA GiveUpSimulated ==
    ASSUME Sound, NEW p \in Procs,
           Abandon(p) \/ AddWithoutDatabase(p) \/ AddRefused(p) \/ InsertFails(p)
    PROVE  Simulated
<1>1. /\ Become(p, "idle", None, None) /\ UNCHANGED rows
      /\ proc[p].pc \in Holding
  BY DEF Abandon, AddWithoutDatabase, AddRefused, InsertFails, Holding
<1>2. clientBar' = [clientBar EXCEPT ![p] = Abstract!Idle]
  BY <1>1, ClientBecomes, IdleIs DEF Become, Sound, IInv
<1>3. clientBar[p].kind = "recording"
  <2>1. clientBar[p] = Abstract!Has("recording", proc[p].key, proc[p].data)
    BY <1>1, BusyIs
  <2> QED BY <2>1, KindIs
<1>4. Abstract!Keep
  BY <1>1, KeptRows
<1>5. Abstract!GiveUp(p)
  BY <1>2, <1>3, <1>4 DEF Abstract!GiveUp, Abstract!Hold
<1> QED BY <1>5 DEF Simulated, Abstract!Next

\* The counter of a row is not part of the result.
LEMMA StatsSimulated ==
    ASSUME Sound, NEW p \in Procs, UpdateStats(p)
    PROVE  Simulated
<1>0. TypeOK /\ OneRowEach
  BY DEF Sound, IInv
<1>1. PICK f \in [rows -> Row] :
             /\ rows' = {f[r] : r \in rows}
             /\ \A r \in rows : Counted(r, f[r])
  BY <1>0, StatsImage
<1>2. OneRowEach'
  BY <1>0, StatsKeepOne
<1>3. storeBar' = storeBar
  <2>1. \A r \in rows : f[r] \in rows' /\ f[r].qhash = r.qhash /\ f[r].qdata = r.qdata
    BY <1>1 DEF Counted
  <2>2. \A s \in rows' : \E r \in rows : s.qhash = r.qhash
    BY <1>1 DEF Counted
  <2> QED BY <1>0, <1>2, <2>1, <2>2, StoreStays
<1>4. clientBar' = clientBar
  <2> DEFINE r == [pc |-> "idle", key |-> None, data |-> None, deadline |-> 0]
  <2>1. proc' = [proc EXCEPT ![p] = r]
    BY DEF UpdateStats, Become
  <2>2. ClientOf(r) = ClientOf(proc[p])
    BY FreeIs, ClientIs, IdleIs DEF UpdateStats
  <2> QED BY <1>0, <2>1, <2>2, ClientStays
<1> QED BY <1>3, <1>4, NothingVisible DEF Abstract!Keep

\* A thread that adds holds its result until it has inserted the row.
LEMMA HoldsOn ==
    ASSUME TypeOK, NEW p \in Procs, proc[p].pc \in Holding, NEW s \in Holding, NEW n \in Nat,
           \/ proc' = [proc EXCEPT ![p].pc = s]
           \/ proc' = [proc EXCEPT ![p].pc = s, ![p].deadline = n]
    PROVE  clientBar' = clientBar
<1>1. proc[p] \in Process
  BY DEF TypeOK
<1>2. PICK r : /\ proc' = [proc EXCEPT ![p] = r]
               /\ r.pc = s /\ r.key = proc[p].key /\ r.data = proc[p].data
  BY <1>1 DEF TypeOK, Process
<1>3. ClientOf(r) = ClientOf(proc[p])
  BY <1>2 DEF ClientOf, Holding
<1> QED BY <1>2, <1>3, ClientStays

LEMMA BeginAddSimulated ==
    ASSUME Sound, NEW p \in Procs, NEW ttl \in Ttls, BeginAdd(p, ttl)
    PROVE  Simulated
<1>1. TypeOK /\ clock + ttl \in Nat
  BY SqliteAssumption DEF Sound, IInv, TypeOK
<1>2. clientBar' = clientBar
  BY <1>1, HoldsOn DEF BeginAdd, Holding
<1>3. Abstract!Keep
  BY KeptRows DEF BeginAdd
<1> QED BY <1>2, <1>3, NothingVisible

\* The purge of an add, and of query_is_cached, is the store's own business.
LEMMA MaintainSimulated ==
    ASSUME Sound, clientBar' = clientBar, Purge \/ rows' = rows
    PROVE  Simulated
<1>1. Abstract!Keep \/ Abstract!MayForget
  BY KeptRows, PurgeForgets DEF Sound, IInv
<1> QED BY <1>1, NothingVisible DEF Simulated, Abstract!Next, Abstract!Maintain

LEMMA EnterSimulated ==
    ASSUME Sound, NEW p \in Procs, AddPurges(p) \/ AddFindsNothing(p)
    PROVE  Simulated
<1>1. clientBar' = clientBar
  BY HoldsOn DEF AddPurges, AddFindsNothing, Holding, Sound, IInv
<1> QED BY <1>1, MaintainSimulated DEF AddPurges, AddFindsNothing

LEMMA AskSimulated ==
    ASSUME Sound, NEW p \in Procs, NEW k \in Keys, QueryIsCached(p, k)
    PROVE  Simulated
<1>1. clientBar' = clientBar
  BY DEF QueryIsCached, clientBar
<1> QED BY <1>1, MaintainSimulated DEF QueryIsCached

\* The row is the only one of its query, so what was recorded is published.
LEMMA InsertSimulated ==
    ASSUME Sound, NEW p \in Procs, Insert(p)
    PROVE  Simulated
<1>1. TypeOK /\ WellFormed(proc[p]) /\ proc[p].pc = "inserting"
  BY DEF Sound, IInv, ThreadsWellFormed, Insert
<1>2. PICK k \in Keys, d \in Results, n \in Row :
             /\ k = proc[p].key /\ d = proc[p].data /\ n.qhash = k /\ n.qdata = d
             /\ rows' = rows \cup {n}
  <2>1. PICK i \in Rowids : rows' = rows \cup {NewRow(p, i)}
    BY DEF Insert
  <2>2. proc[p].key \in Keys /\ proc[p].data \in Results /\ proc[p].deadline \in Nat
    BY <1>1 DEF WellFormed, Process, Holding
  <2>3. NewRow(p, i) \in Row
    BY <2>2 DEF NewRow, Row
  <2> QED BY <2>1, <2>2, <2>3 DEF NewRow
<1>3. \A r \in rows : r.qhash # k
  BY <1>1, <1>2 DEF Sound, InsertsFirst
<1>4. storeBar' = [storeBar EXCEPT ![k] = d]
  <2>1. storeBar' = [j \in Keys |-> IF Selected(j)' = {} THEN None
                                    ELSE (CHOOSE r \in Selected(j)' : TRUE).qdata]
    BY DEF storeBar
  <2>2. Selected(k)' = {n}
    BY <1>2, <1>3 DEF Selected
  <2>3. storeBar'[k] = d
    BY <1>2, <2>1, <2>2
  <2>4. ASSUME NEW j \in Keys, j # k PROVE storeBar'[j] = storeBar[j]
    <3>1. Selected(j)' = Selected(j)
      BY <1>2, <2>4 DEF Selected
    <3> QED BY <2>1, <3>1 DEF storeBar
  <2>5. \A j \in Keys : storeBar'[j] = IF j = k THEN d ELSE storeBar[j]
    BY <2>3, <2>4
  <2>6. storeBar = [j \in Keys |-> storeBar[j]] /\ storeBar' = [j \in Keys |-> storeBar'[j]]
    BY DEF storeBar
  <2> QED BY <2>5, <2>6
<1>5. Abstract!Replace(k, d)
  BY <1>4 DEF Abstract!Replace
<1>6. clientBar[p] = Abstract!Has("recording", k, d)
  BY <1>1, <1>2, BusyIs DEF Holding
<1>7. clientBar' = [clientBar EXCEPT ![p] = Abstract!Idle]
  BY <1>1, ClientBecomes, IdleIs DEF Insert, Become
<1>8. Abstract!Publish(p)
  BY <1>5, <1>6, <1>7 DEF Abstract!Publish, Abstract!Hold, Abstract!Has
<1> QED BY <1>8 DEF Simulated, Abstract!Next

LEMMA ClearSimulated ==
    ASSUME Sound, NEW p \in Procs, ClearCache(p)
    PROVE  Simulated
<1>1. rows' = {r \in rows : r.qhash \notin Keys}
  BY RowHasResult DEF ClearCache, Sound, IInv
<1>2. Abstract!Forget(Keys)
  BY <1>1, FewerRows DEF Sound, IInv
<1>3. clientBar' = clientBar
  BY DEF ClearCache, clientBar
<1> QED BY <1>2, <1>3 DEF Simulated, Abstract!Next, Abstract!Clear

LEMMA StepSimulated ==
    IInv /\ [Next]_vars /\ ~failed' => Restart \/ Simulated
<1> SUFFICES ASSUME IInv, [Next]_vars, ~failed', ~Restart PROVE Simulated
  OBVIOUS
<1>1. Sound
  BY FailedStays, IInvSound
<1>2. CASE UNCHANGED vars \/ Tick
  <2>1. rows' = rows /\ proc' = proc
    BY <1>2 DEF vars, Tick
  <2>2. clientBar' = clientBar /\ Abstract!Keep
    BY <2>1, KeptRows DEF clientBar
  <2> QED BY <2>2, NothingVisible
<1>3. ASSUME NEW p \in Procs, ThreadStep(p) PROVE Simulated
  BY <1>1, <1>3, FindSimulated, AskSimulated, ReturnSimulated, StatsSimulated, GiveUpSimulated,
     BeginAddSimulated, EnterSimulated, InsertSimulated, ClearSimulated DEF ThreadStep, Add
<1> QED BY <1>2, <1>3 DEF Next

LEMMA InitSimulated == Init => Abstract!Init
BY DEF Init, Idle, storeBar, Selected, clientBar, ClientOf, Holding, Abstract!Init, Abstract!Idle

\* The SQLite handler is a result cache, across the threads of a process: a
\* replay is of what was last published for the query, and results go only by a
\* purge or clear_cache.  Excepted are the steps after a SELECT or DELETE failed
\* under an add, and restarts, which keep the table and lose the clients.
THEOREM SqliteImplementation == Spec => ImplementsResultCache
<1>1. IInv /\ [Next]_vars => [failed' \/ Restart \/ Abstract!Next]_(Abstract!vars)
  BY StepSimulated DEF Simulated
<1> QED BY <1>1, Invariance, InitSimulated, PTL DEF Spec, ImplementsResultCache
=============================================================================
