----------------------------- MODULE TraceLogProofs -----------------------------
(***************************************************************************)
(* The trace logs beside the connections.  The logs only watch: with them  *)
(* the connections do what they do without them, so that what              *)
(* ConnectionsProofs says of the connections holds here.  And for orderly  *)
(* scripts the outcomes in the trace logs are those that the statistics    *)
(* count, and the normalized log agrees with the traces on how often each  *)
(* form was run and how long it took.                                      *)
(***************************************************************************)
EXTENDS TraceLog, ConnectionsProofs

-----------------------------------------------------------------------------
(***************************************************************************)
(* A step with logs is a step of the connections                           *)
(***************************************************************************)
LEMMA TraceNextIsNext == [TraceNext]_tvars => [Next]_vars
<1> SUFFICES ASSUME [TraceNext]_tvars PROVE [Next]_vars
  OBVIOUS
<1>1. ASSUME NEW c \in Conns,
             \/ \E q \in Keys : SendLogged(c, q)
             \/ ReapLogged(c) \/ StoreLogged(c) \/ CloseLogged(c) \/ Unlogged(c)
      PROVE  Next
  <2>1. ASSUME NEW q \in Keys, SendLogged(c, q) PROVE Next
    BY <2>1 DEF SendLogged, Next
  <2>2. ASSUME ReapLogged(c) PROVE Next
    BY <2>2 DEF ReapLogged, ReapQuery, Next
  <2>3. ASSUME StoreLogged(c) PROVE Next
    BY <2>3 DEF StoreLogged, Outcome, StoreResult, Next
  <2>4. ASSUME CloseLogged(c) PROVE Next
    BY <2>4 DEF CloseLogged, Next
  <2>5. ASSUME Unlogged(c) PROVE Next
    BY <2>5 DEF Unlogged, StoreResult, Next
  <2> QED BY <1>1, <2>1, <2>2, <2>3, <2>4, <2>5
<1>2. CASE UNCHANGED tvars
  BY <1>2 DEF tvars
<1> QED BY <1>1, <1>2 DEF TraceNext, Next

\* Collecting traces changes nothing of what the connections, the cache and the
\* statistics do: without the logs every behaviour is one of Connections.
THEOREM LogsOnlyWatch == TraceSpec => Spec
<1>1. TraceInit => Init
  BY DEF TraceInit
<1> QED BY <1>1, TraceNextIsNext, PTL DEF TraceSpec, Spec

-----------------------------------------------------------------------------
(***************************************************************************)
(* What the logs hold                                                      *)
(***************************************************************************)

LogEntry ==
    [query: Keys, run_time: Nat, store_time: Nat, flags: SUBSET Fields, counted: BOOLEAN]

\* What store_result writes of a statement.
Outcomes == {"no_table", "was_added", "was_already_in_cache"}

\* A statement that was sent is in the log, and until its result is stored its
\* entry, the last, has no outcome.
Logged(r, log) ==
    /\ r.state \in {"sent", "fetching", "more"} => log # <<>>
    /\ r.hook # "original" => log[Len(log)].flags \cap Outcomes = {}

LogTypes ==
    /\ trace \in [Conns -> Seq(LogEntry)]
    /\ stat \in [Counters -> Nat]
    /\ stat["should_cache"] + stat["should_not_cache"] <= MaxSends

LogInv ==
    /\ LogTypes
    /\ \A c \in Conns : /\ Len(trace[c]) <= stat["should_cache"] + stat["should_not_cache"]
                        /\ Logged(conn[c], trace[c])
    /\ Cardinality(Flagged("was_added")) = stat["put"]
    /\ Cardinality(Flagged("no_table")) = stat["no_table"]
    /\ 2 * Cardinality(Flagged("was_already_in_cache")) + Cardinality(ReplayingNow)
           = stat["hit"] + stat["found"]

LEMMA EntriesFinite ==
    ASSUME Orderly, LogTypes
    PROVE  \A f \in Fields : IsFiniteSet(Flagged(f))
<1>1. IsFiniteSet(Conns \X (1..MaxSends))
  <2>1. IsFiniteSet(1..MaxSends)
    BY FS_Interval, ConnectionAssumption DEF ConnectionAssumption
  <2> QED BY <2>1, FS_Product DEF Orderly
<1>2. \A f \in Fields : Flagged(f) \subseteq Conns \X (1..MaxSends)
  BY DEF Flagged, Entries
<1> QED BY <1>1, <1>2, FS_Subset

\* One log changes, and of it only the last entry.
LEMMA FlaggedStep ==
    ASSUME Orderly, LogTypes, NEW c \in Conns, NEW log \in Seq(LogEntry), log # <<>>,
           trace' = [trace EXCEPT ![c] = log], Len(log) <= MaxSends,
           Len(log) \in {Len(trace[c]), Len(trace[c]) + 1},
           \A i \in 1..Len(log) : i # Len(log) => log[i] = trace[c][i],
           NEW f \in Fields
    PROVE  /\ Cardinality(Flagged(f)) \in Nat
           /\ Cardinality(Flagged(f)') =
                 Cardinality(Flagged(f)) + Is(f \in log[Len(log)].flags)
                     - Is(Len(log) = Len(trace[c]) /\ f \in trace[c][Len(log)].flags)
<1> DEFINE n == Len(log)
           x == <<c, n>>
<1>1. n \in 1..MaxSends /\ MaxSends \in Nat
  BY LenProperties, ConnectionAssumption DEF ConnectionAssumption
<1>2. trace'[c] = log /\ \A o \in Conns \ {c} : trace'[o] = trace[o]
  BY DEF LogTypes
<1>3. trace[c] \in Seq(LogEntry) /\ Len(trace[c]) \in Nat
  BY LenProperties DEF LogTypes
<1>4. \A e : e # x => (e \in Flagged(f)' <=> e \in Flagged(f))
  <2> SUFFICES ASSUME NEW e \in Conns \X (1..MaxSends), e # x
               PROVE  e \in Flagged(f)' <=> e \in Flagged(f)
    BY DEF Flagged, Entries
  <2>1. CASE e[1] # c
    BY <1>2, <2>1 DEF Flagged, Entries, At
  <2>2. CASE e[1] = c
    <3>1. e[2] # n /\ e[2] \in 1..MaxSends /\ e[1] = c
      BY <2>2
    <3>2. e[2] <= n <=> e[2] <= Len(trace[c])
      BY <1>1, <1>3, <3>1
    <3>3. e[2] <= n => log[e[2]] = trace[c][e[2]]
      BY <1>1, <3>1
    <3> HIDE DEF n, x
    <3> QED BY <1>2, <3>1, <3>2, <3>3 DEF Flagged, Entries, At, n
  <2> QED BY <2>1, <2>2
<1>5. x \in Flagged(f)' <=> f \in log[n].flags
  BY <1>1, <1>2 DEF Flagged, Entries, At
<1>6. x \in Flagged(f) <=> n = Len(trace[c]) /\ f \in trace[c][n].flags
  BY <1>1, <1>3 DEF Flagged, Entries, At
<1>7. /\ Cardinality(Flagged(f)) \in Nat
      /\ Cardinality(Flagged(f)') =
             Cardinality(Flagged(f)) + Is(x \in Flagged(f)') - Is(x \in Flagged(f))
  <2>1. IsFiniteSet(Flagged(f))
    BY EntriesFinite
  <2> HIDE DEF Flagged, x
  <2> QED BY <1>4, <2>1, OneMoreOrLess
<1> HIDE DEF Flagged
<1> QED BY <1>5, <1>6, <1>7 DEF Is

\* Whether a hook wrote the flag f to the last entry.
Written(f, log, was) ==
    Is(f \in log[Len(log)].flags) - Is(Len(log) = Len(was) /\ f \in was[Len(log)].flags)

AddsUp(m, n, k, e, f) ==
    /\ m[e] + m[f] \in Nat /\ k[e] + k[f] \in Nat
    /\ k[e] + k[f] = (m[e] + m[f]) + (n[e] + n[f])

LEMMA CountersAdd ==
    ASSUME NEW m \in [Counters -> Nat], NEW n \in [Counters -> Nat],
           NEW k, k = [s \in Counters |-> m[s] + n[s]]
    PROVE  /\ k \in [Counters -> Nat] /\ \A s \in Counters : k[s] = m[s] + n[s]
           /\ \A e, f \in Counters : AddsUp(m, n, k, e, f)
<1>1. \A s \in Counters : m[s] \in Nat /\ n[s] \in Nat /\ m[s] + n[s] \in Nat
  OBVIOUS
<1>2. k \in [Counters -> Nat] /\ \A s \in Counters : k[s] = m[s] + n[s]
  BY <1>1
<1>3. \A a, b, c, d \in Nat :
          /\ a + b \in Nat /\ c + d \in Nat /\ (a + c) + (b + d) \in Nat
          /\ (a + c) + (b + d) = (a + b) + (c + d)
  OBVIOUS
<1> QED BY <1>1, <1>2, <1>3 DEF AddsUp

\* n counts what was written to a log; r is the connection after the step, q before.
Counts(n, log, was, r, q) ==
    /\ n["should_cache"] + n["should_not_cache"] = Len(log) - Len(was)
    /\ Written("was_added", log, was) = n["put"]
    /\ Written("no_table", log, was) = n["no_table"]
    /\ 2 * Written("was_already_in_cache", log, was) + Is(Replaying(r)) - Is(Replaying(q))
           = n["hit"] + n["found"]

Adds(n) == n \in [Counters -> Nat] /\ stat' = [s \in Counters |-> stat[s] + n[s]]

LEMMA BookedIs ==
    ASSUME NEW E, Count(E)
    PROVE  Adds(Booked(E))
BY DEF Adds, Booked, Count, Is

\* At most the last entry is another one.
Grows(log, was) ==
    /\ log # <<>> /\ Len(log) \in {Len(was), Len(was) + 1}
    /\ \A i \in 1..Len(log) : i # Len(log) => log[i] = was[i]

\* A step of one connection that sends, or writes to its last entry, and n counted
\* with it.
LEMMA LogStep ==
    ASSUME OrderlyInv, Orderly, LogInv, NEW c \in Conns, NEW r, conn' = [conn EXCEPT ![c] = r],
           NEW log \in Seq(LogEntry), Grows(log, trace[c]), trace' = [trace EXCEPT ![c] = log],
           r.hook # "original" => log[Len(log)].flags \cap Outcomes = {},
           NEW n, Adds(n),
           Counts(n, log, trace[c], r, conn[c]),
           stat'["should_cache"] + stat'["should_not_cache"] <= MaxSends
    PROVE  LogInv'
<1>1. conn'[c] = r /\ \A o \in Conns \ {c} : conn'[o] = conn[o]
  BY DEF OrderlyInv, TableInv, WireInv, TypesOK
<1>2. trace'[c] = log /\ \A o \in Conns \ {c} : trace'[o] = trace[o]
  BY DEF LogInv, LogTypes
<1> DEFINE old == stat["should_cache"] + stat["should_not_cache"]
           new == stat'["should_cache"] + stat'["should_not_cache"]
<1>3. stat \in [Counters -> Nat]
  BY DEF LogInv, LogTypes
<1>4. stat' \in [Counters -> Nat] /\ \A s \in Counters : stat'[s] = stat[s] + n[s]
  BY <1>3, CountersAdd DEF Adds
<1>5. \A o \in Conns : Len(trace[o]) \in Nat
  BY LenProperties DEF LogInv, LogTypes
<1>6. \A o \in Conns : Len(trace'[o]) <= new
  <2>1. old \in Nat /\ new = old + (n["should_cache"] + n["should_not_cache"])
    <3>1. "should_cache" \in Counters /\ "should_not_cache" \in Counters
      BY DEF Counters
    <3>2. AddsUp(stat, n, stat', "should_cache", "should_not_cache")
      BY <1>3, <3>1, CountersAdd DEF Adds
    <3> QED BY <3>2, Zenon DEF AddsUp
  <2>2. /\ new = old + (Len(log) - Len(trace[c])) /\ Len(log) \in Nat
        /\ Len(log) \in {Len(trace[c]), Len(trace[c]) + 1}
    BY <2>1, LenProperties DEF Counts, Grows
  <2>3. \A o \in Conns : Len(trace[o]) <= old
    BY DEF LogInv
  <2> HIDE DEF old, new
  <2> SUFFICES ASSUME NEW o \in Conns PROVE Len(trace'[o]) <= new
    OBVIOUS
  <2>4. CASE o = c
    <3>1. Len(trace[c]) <= old /\ Len(trace[c]) \in Nat
      BY <1>5, <2>3
    <3>2. Len(log) <= new
      BY <2>1, <2>2, <3>1
    <3> QED BY <1>2, <2>4, <3>2
  <2>5. CASE o # c
    <3>1. Len(trace[o]) <= old /\ Len(trace[o]) \in Nat
      BY <1>5, <2>3
    <3>2. old <= new
      BY <1>5, <2>1, <2>2
    <3>3. Len(trace[o]) <= new
      BY <2>1, <2>2, <3>1, <3>2, <1>5
    <3> QED BY <1>2, <2>5, <3>3
  <2> QED BY <2>4, <2>5
<1>7. \A o \in Conns : Logged(conn'[o], trace'[o])
  BY <1>1, <1>2 DEF LogInv, Logged, Grows
<1>8. \A f \in Fields :
        /\ Cardinality(Flagged(f)) \in Nat /\ Written(f, log, trace[c]) \in Int
        /\ Cardinality(Flagged(f)') = Cardinality(Flagged(f)) + Written(f, log, trace[c])
  <2> SUFFICES ASSUME NEW f \in Fields
               PROVE  /\ Cardinality(Flagged(f)) \in Nat /\ Written(f, log, trace[c]) \in Int
                      /\ Cardinality(Flagged(f)') =
                             Cardinality(Flagged(f)) + Written(f, log, trace[c])
    OBVIOUS
  <2>1. Len(log) <= MaxSends
    <3>1. new \in Nat
      <4>1. "should_cache" \in Counters /\ "should_not_cache" \in Counters
        BY DEF Counters
      <4>2. AddsUp(stat, n, stat', "should_cache", "should_not_cache")
        BY <1>3, <4>1, CountersAdd DEF Adds
      <4> QED BY <4>2 DEF AddsUp
    <3>2. Len(log) <= new /\ new <= MaxSends
      BY <1>2, <1>6
    <3> HIDE DEF new
    <3> QED BY <3>1, <3>2, LenProperties, ConnectionAssumption DEF ConnectionAssumption
  <2>2. LogTypes
    BY DEF LogInv
  <2>3. /\ Cardinality(Flagged(f)) \in Nat
        /\ Cardinality(Flagged(f)') =
              Cardinality(Flagged(f)) + Is(f \in log[Len(log)].flags)
                  - Is(Len(log) = Len(trace[c]) /\ f \in trace[c][Len(log)].flags)
    BY <2>1, <2>2, FlaggedStep DEF Grows
  <2> HIDE DEF Flagged
  <2> QED BY <2>3 DEF Written, Is
<1>9. /\ Cardinality(ReplayingNow) \in Nat
      /\ Cardinality(ReplayingNow') = Cardinality(ReplayingNow)
                                          + Is(Replaying(r)) - Is(Replaying(conn[c]))
  BY ReplayersStep
<1>10. /\ Cardinality(Flagged("was_added"))' = stat'["put"]
       /\ Cardinality(Flagged("no_table"))' = stat'["no_table"]
  BY <1>3, <1>4, <1>8 DEF LogInv, Fields, Counters, Counts
<1>11. 2 * Cardinality(Flagged("was_already_in_cache"))' + Cardinality(ReplayingNow')
           = stat'["hit"] + stat'["found"]
  <2> DEFINE a == Cardinality(Flagged("was_already_in_cache"))
             b == Cardinality(ReplayingNow)
             w == Written("was_already_in_cache", log, trace[c])
             x == Is(Replaying(r))
             y == Is(Replaying(conn[c]))
  <2>1. /\ a \in Nat /\ w \in Int /\ b \in Nat /\ x \in Int /\ y \in Int
        /\ Cardinality(Flagged("was_already_in_cache"))' = a + w
        /\ Cardinality(ReplayingNow') = b + x - y
    BY <1>8, <1>9 DEF Fields, Is
  <2>2. 2 * w + x - y = n["hit"] + n["found"]
    BY DEF Counts
  <2>3. 2 * a + b = stat["hit"] + stat["found"]
    BY DEF LogInv
  <2>4. stat'["hit"] + stat'["found"] = (stat["hit"] + stat["found"]) + (n["hit"] + n["found"])
    <3>1. "hit" \in Counters /\ "found" \in Counters
      BY DEF Counters
    <3>2. AddsUp(stat, n, stat', "hit", "found")
      BY <1>3, <3>1, CountersAdd DEF Adds
    <3> QED BY <3>2 DEF AddsUp
  <2> HIDE DEF a, b, w, x, y
  <2>5. 2 * (a + w) + (b + x - y) = stat'["hit"] + stat'["found"]
    <3>1. 2 * (a + w) + (b + x - y) = (2 * a + b) + (2 * w + x - y)
      BY <2>1
    <3> QED BY <2>2, <2>3, <2>4, <3>1
  <2> QED BY <2>1, <2>5
<1>12. LogTypes'
  BY <1>4 DEF LogInv, LogTypes
<1> QED BY <1>6, <1>7, <1>10, <1>11, <1>12 DEF LogInv

\* The log with e for its last entry.
Rewritten(c, e) == [trace[c] EXCEPT ![Last(c)] = e]

\* n counts the outcomes F, of a statement that was for the cache.
WriteCounts(n, F, r, q) ==
    /\ F # {} => q.hook # "original"
    /\ r.hook # "original" => q.hook # "original" /\ F = {}
    /\ n["should_cache"] = 0 /\ n["should_not_cache"] = 0
    /\ n["put"] = Is("was_added" \in F) /\ n["no_table"] = Is("no_table" \in F)
    /\ n["hit"] + n["found"] = 2 * Is("was_already_in_cache" \in F)
                                    + Is(Replaying(r)) - Is(Replaying(q))

\* A hook writes to the last entry, of a statement that was sent before.
LEMMA WriteStep ==
    ASSUME OrderlyInv, Orderly, LogInv, NEW c \in Conns, NEW r, conn' = [conn EXCEPT ![c] = r],
           conn[c].state \in {"sent", "fetching"},
           NEW e \in LogEntry,
           trace' = [trace EXCEPT ![c] = Rewritten(c, e)],
           NEW F \in SUBSET Outcomes, e.flags = trace[c][Last(c)].flags \cup F,
           NEW n, Adds(n),
           WriteCounts(n, F, r, conn[c])
    PROVE  LogInv'
<1> DEFINE log == Rewritten(c, e)
<1>1. trace[c] \in Seq(LogEntry) /\ trace[c] # <<>> /\ Last(c) = Len(trace[c])
  BY DEF LogInv, LogTypes, Logged, Last
<1>2. /\ Len(trace[c]) \in 1..Len(trace[c]) /\ Len(trace[c]) \in Nat
      /\ trace[c][Last(c)] \in LogEntry
  BY <1>1, LenProperties, ElementOfSeq
<1>3. /\ log \in Seq(LogEntry) /\ Len(log) = Len(trace[c]) /\ log[Len(log)] = e
      /\ \A i \in 1..Len(log) : i # Len(log) => log[i] = trace[c][i]
      /\ log # <<>>
  BY <1>1, <1>2, ExceptSeq DEF Rewritten
<1>4. \A f \in Outcomes : Written(f, log, trace[c]) = Is(f \in F)
  <2>1. conn[c].hook # "original" => trace[c][Last(c)].flags \cap Outcomes = {}
    BY <1>1 DEF LogInv, Logged
  <2>2. \A f \in Outcomes : Written(f, log, trace[c]) =
            Is(f \in trace[c][Last(c)].flags \cup F) - Is(f \in trace[c][Last(c)].flags)
    BY <1>1, <1>3 DEF Written, Is
  <2> HIDE DEF log
  <2> QED BY <2>1, <2>2 DEF Is, WriteCounts
<1>5. r.hook # "original" => log[Len(log)].flags \cap Outcomes = {}
  BY <1>1, <1>3 DEF LogInv, Logged, WriteCounts
<1>6. stat'["should_cache"] + stat'["should_not_cache"] <= MaxSends
  <2>1. stat \in [Counters -> Nat] /\ {"should_cache", "should_not_cache"} \subseteq Counters
    BY DEF LogInv, LogTypes, Counters
  <2>2. \A s \in {"should_cache", "should_not_cache"} : stat'[s] = stat[s]
    BY <2>1 DEF WriteCounts, Adds
  <2> QED BY <2>2 DEF LogInv, LogTypes
<1>7. n["should_cache"] + n["should_not_cache"] = Len(log) - Len(trace[c])
  BY <1>2, <1>3 DEF WriteCounts
<1>8. /\ Written("was_added", log, trace[c]) = n["put"]
      /\ Written("no_table", log, trace[c]) = n["no_table"]
      /\ 2 * Written("was_already_in_cache", log, trace[c])
             + Is(Replaying(r)) - Is(Replaying(conn[c])) = n["hit"] + n["found"]
  BY <1>4 DEF Outcomes, WriteCounts
<1>9. trace' = [trace EXCEPT ![c] = log]
  OBVIOUS
<1> HIDE DEF log
<1>10. Counts(n, log, trace[c], r, conn[c]) /\ Grows(log, trace[c])
  BY <1>3, <1>7, <1>8 DEF Counts, Grows
<1> QED BY <1>3, <1>5, <1>6, <1>9, <1>10, LogStep

\* send_query appends an entry.
LEMMA AppendStep ==
    ASSUME OrderlyInv, Orderly, LogInv, NEW c \in Conns, NEW r, conn' = [conn EXCEPT ![c] = r],
           MaySend(c), NEW e \in LogEntry, e.flags \cap Outcomes = {},
           trace' = [trace EXCEPT ![c] = Append(trace[c], e)],
           NEW n, Adds(n),
           n["should_cache"] + n["should_not_cache"] = 1, n["put"] = 0, n["no_table"] = 0,
           n["hit"] + n["found"] = Is(Replaying(r)) - Is(Replaying(conn[c]))
    PROVE  LogInv'
<1> DEFINE log == Append(trace[c], e)
<1>1. trace[c] \in Seq(LogEntry) /\ Len(trace[c]) \in Nat
  BY LenProperties DEF LogInv, LogTypes
<1>2. /\ log \in Seq(LogEntry) /\ Len(log) = Len(trace[c]) + 1 /\ log[Len(log)] = e
      /\ \A i \in 1..Len(log) : i # Len(log) => log[i] = trace[c][i]
      /\ log # <<>>
  BY <1>1, AppendProperties
<1>3. \A f \in Outcomes : Written(f, log, trace[c]) = 0
  <2>1. \A f \in Outcomes : f \notin log[Len(log)].flags
    BY <1>2
  <2>2. Len(log) # Len(trace[c])
    BY <1>1, <1>2
  <2> HIDE DEF log
  <2> QED BY <2>1, <2>2 DEF Written, Is
<1>4. stat'["should_cache"] + stat'["should_not_cache"] <= MaxSends
  <2>1. stat \in [Counters -> Nat] /\ {"should_cache", "should_not_cache"} \subseteq Counters
    BY DEF LogInv, LogTypes, Counters
  <2>2. AddsUp(stat, n, stat', "should_cache", "should_not_cache")
    BY <2>1, CountersAdd DEF Adds
  <2> DEFINE old == stat["should_cache"] + stat["should_not_cache"]
             new == stat'["should_cache"] + stat'["should_not_cache"]
  <2>3. old \in Nat /\ new = old + (n["should_cache"] + n["should_not_cache"])
    BY <2>2, Zenon DEF AddsUp
  <2>4. old < MaxSends /\ MaxSends \in Nat
    BY ConnectionAssumption DEF ConnectionAssumption, MaySend
  <2> HIDE DEF old, new
  <2>5. new <= MaxSends
    BY <2>3, <2>4
  <2> QED BY <2>5 DEF new
<1>5. n["should_cache"] + n["should_not_cache"] = Len(log) - Len(trace[c])
  BY <1>1, <1>2
<1>6. /\ Written("was_added", log, trace[c]) = n["put"]
      /\ Written("no_table", log, trace[c]) = n["no_table"]
      /\ 2 * Written("was_already_in_cache", log, trace[c])
             + Is(Replaying(r)) - Is(Replaying(conn[c])) = n["hit"] + n["found"]
  BY <1>3 DEF Outcomes, Is
<1>7. trace' = [trace EXCEPT ![c] = log] /\ log[Len(log)].flags \cap Outcomes = {}
  BY <1>2
<1> HIDE DEF log
<1>8. Counts(n, log, trace[c], r, conn[c]) /\ Grows(log, trace[c])
  BY <1>2, <1>5, <1>6 DEF Counts, Grows
<1> QED BY <1>2, <1>4, <1>7, <1>8, LogStep

-----------------------------------------------------------------------------
(***************************************************************************)
(* The steps                                                               *)
(***************************************************************************)

LEMMA EntryIs ==
    ASSUME NEW q \in Keys, NEW fl \in SUBSET Fields, NEW b \in BOOLEAN, NEW t \in Nat
    PROVE  LET e == [TraceEntry(q, fl, b) EXCEPT !.run_time = t]
           IN  e \in LogEntry /\ e.flags = fl
BY DEF TraceEntry, LogEntry

LEMMA SendLogs ==
    ASSUME OrderlyInv, Orderly, LogInv, NEW c \in Conns, NEW q \in Keys, SendLogged(c, q)
    PROVE  LogInv'
<1> DEFINE s == Sent(Classify(c, q), q)
           fl == IF Eligible(q) THEN {"eligible_for_caching"} ELSE {}
<1>1. PICK b \in BOOLEAN, t \in SendTime(c, q) :
        /\ SendQuery(c, q)
        /\ trace' = [trace EXCEPT ![c] =
                        Append(@, [TraceEntry(q, fl, b) EXCEPT !.run_time = t])]
  <2>1. PICK multi \in BOOLEAN, t \in SendTime(c, q) :
          /\ SendQuery(c, q)
          /\ trace' = [trace EXCEPT ![c] =
                          Append(@, [TraceEntry(q, fl, ~multi) EXCEPT !.run_time = t])]
    BY DEF SendLogged
  <2>2. (~multi) \in BOOLEAN
    OBVIOUS
  <2> HIDE DEF fl
  <2> QED BY <2>1, <2>2, Zenon
<1> DEFINE e == [TraceEntry(q, fl, b) EXCEPT !.run_time = t]
<1>2. e \in LogEntry /\ e.flags \cap Outcomes = {}
  <2>1. t \in Nat
    BY TraceAssumption DEF TraceAssumption, SendTime
  <2>2. fl \in SUBSET Fields /\ fl \cap Outcomes = {}
    BY DEF Fields, Outcomes
  <2> HIDE DEF fl
  <2>3. e \in LogEntry /\ e.flags = fl
    BY <2>1, <2>2, EntryIs
  <2> QED BY <2>2, <2>3
<1>3. trace' = [trace EXCEPT ![c] = Append(trace[c], e)]
  BY <1>1 DEF LogInv, LogTypes
<1> HIDE DEF e
<1>4. SendPlain(c, q) \/ SendHit(c, q) \/ SendMiss(c, q)
  BY <1>1, Disabled DEF OrderlyInv, SendQuery
<1>5. /\ conn[c].state = "ready" /\ conn[c].hook = "original" /\ MaySend(c)
      /\ conn[c] \in ConnectionData /\ ~Replaying(conn[c])
  BY <1>4, MaySendIs, ConnIs DEF SendPlain, SendHit, SendMiss, OrderlyInv, Idle, Replaying
<1>6. s \in ConnectionData /\ s.hook = "original"
  BY <1>5, SentFields DEF OrderlyInv, TableInv
<1>7. ASSUME NEW r, conn' = [conn EXCEPT ![c] = r], NEW x \in {"should_cache", "should_not_cache"},
             NEW E \in SUBSET {"found", "not_cached"}, Count({x} \cup E),
             Is("found" \in E) = Is(Replaying(r))
      PROVE  LogInv'
  <2> DEFINE n == Booked({x} \cup E)
  <2>1. Adds(n)
    BY <1>7, BookedIs
  <2>2. n["should_cache"] + n["should_not_cache"] = 1 /\ n["put"] = 0 /\ n["no_table"] = 0
    BY DEF Booked, Counters, Is
  <2>3. n["hit"] + n["found"] = Is(Replaying(r)) - Is(Replaying(conn[c]))
    <3>1. n["hit"] = 0 /\ n["found"] = Is("found" \in E)
      BY DEF Booked, Counters, Is
    <3> QED BY <1>5, <1>7, <3>1 DEF Is
  <2> HIDE DEF n
  <2> QED BY <1>2, <1>3, <1>5, <1>7, <2>1, <2>2, <2>3, AppendStep
<1>8. Classified(q) \in {"should_cache", "should_not_cache"}
  BY DEF Classified
<1>9. CASE SendPlain(c, q)
  <2>1. conn' = [conn EXCEPT ![c] = s] /\ Count({Classified(q), "not_cached"})
    BY <1>5, <1>9 DEF SendPlain, InSync, Update
  <2>2. ~Replaying(s) /\ {Classified(q), "not_cached"} = {Classified(q)} \cup {"not_cached"}
    BY <1>6 DEF Replaying
  <2>3. Is("found" \in {"not_cached"}) = Is(Replaying(s))
    BY <2>2 DEF Is
  <2> HIDE DEF s
  <2> QED BY <1>7, <1>8, <2>1, <2>2, <2>3
<1>10. CASE SendHit(c, q)
  <2>1. PICK d \in Data : conn' = [conn EXCEPT ![c] =
            [s EXCEPT !.hook = "replay", !.recorded = d, !.pos = 0, !.key = q]]
    BY <1>10 DEF SendHit, Update
  <2> DEFINE r == [s EXCEPT !.hook = "replay", !.recorded = d, !.pos = 0, !.key = q]
  <2>2. Count({Classified(q), "found"})
    BY <1>10 DEF SendHit
  <2> HIDE DEF s
  <2>3. Replaying(r) /\ {Classified(q), "found"} = {Classified(q)} \cup {"found"}
    BY <1>6 DEF Replaying, ConnectionData
  <2>4. conn' = [conn EXCEPT ![c] = r]
    BY <2>1
  <2>5. Is("found" \in {"found"}) = Is(Replaying(r))
    BY <2>3 DEF Is
  <2> HIDE DEF r
  <2> QED BY <1>7, <1>8, <2>2, <2>3, <2>4, <2>5
<1>11. CASE SendMiss(c, q)
  <2>1. PICK d : conn' = [conn EXCEPT ![c] =
            [s EXCEPT !.hook = "record", !.recorded = d, !.key = q]]
    BY <1>11 DEF SendMiss, Update
  <2> DEFINE r == [s EXCEPT !.hook = "record", !.recorded = d, !.key = q]
  <2>2. Count({Classified(q)} \cup {})
    BY <1>11 DEF SendMiss
  <2> HIDE DEF s
  <2>3. ~Replaying(r)
    BY <1>6 DEF Replaying, ConnectionData
  <2>4. conn' = [conn EXCEPT ![c] = r]
    BY <2>1
  <2>5. Is("found" \in {}) = Is(Replaying(r))
    BY <2>3 DEF Is
  <2> HIDE DEF r
  <2> QED BY <1>7, <1>8, <2>2, <2>4, <2>5
<1> QED BY <1>4, <1>9, <1>10, <1>11

LEMMA LastEntry ==
    ASSUME LogInv, NEW c \in Conns, conn[c].state \in {"sent", "fetching"}
    PROVE  trace[c] \in Seq(LogEntry) /\ trace[c][Last(c)] \in LogEntry
<1>1. trace[c] \in Seq(LogEntry) /\ trace[c] # <<>>
  BY DEF LogInv, LogTypes, Logged
<1>2. Len(trace[c]) \in 1..Len(trace[c])
  BY <1>1, LenProperties
<1> QED BY <1>1, <1>2, ElementOfSeq DEF Last

\* reap_query writes a time, and no outcome.
LEMMA ReapLogs ==
    ASSUME OrderlyInv, Orderly, LogInv, NEW c \in Conns, ReapLogged(c)
    PROVE  LogInv'
<1> DEFINE f == [ConnAfterReceive(c) EXCEPT !.state = "fetching"]
           s == [ConnAfterReceive(c) EXCEPT !.state = "ready"]
           g == IF conn[c].active THEN Unhooked(s) ELSE s
<1>1. PICK t \in Times(c) : TraceRunTime(c, t)
  BY DEF ReapLogged
<1>2. ReapResultSet(c) \/ ReapNoResult(c)
  BY Disabled DEF OrderlyInv, ReapLogged
<1>3. conn[c].state = "sent" /\ conn[c] \in ConnectionData
  BY <1>2, ConnIs DEF ReapResultSet, ReapNoResult, OrderlyInv
<1> DEFINE e == [trace[c][Last(c)] EXCEPT !.run_time = t]
<1>4. /\ e \in LogEntry /\ e.flags = trace[c][Last(c)].flags \cup {}
      /\ trace' = [trace EXCEPT ![c] = Rewritten(c, e)]
  <2>1. t \in Nat
    BY TraceAssumption DEF TraceAssumption, Times
  <2>2. trace[c] \in Seq(LogEntry) /\ trace[c][Last(c)] \in LogEntry
    BY <1>3, LastEntry
  <2>3. e \in LogEntry /\ e.flags = trace[c][Last(c)].flags
    BY <2>1, <2>2 DEF LogEntry
  <2> QED BY <1>1, <2>3 DEF TraceRunTime, Rewritten
<1> HIDE DEF e
<1>5. ASSUME NEW r, conn' = [conn EXCEPT ![c] = r], Replaying(r) <=> Replaying(conn[c]),
             r.hook # "original" => conn[c].hook # "original",
             NEW E \in SUBSET {"could_cache", "other"}, Count(E)
      PROVE  LogInv'
  <2> DEFINE n == Booked(E)
  <2>1. Adds(n)
    BY <1>5, BookedIs
  <2>2. /\ n["should_cache"] = 0 /\ n["should_not_cache"] = 0
        /\ n["put"] = 0 /\ n["no_table"] = 0 /\ n["hit"] = 0 /\ n["found"] = 0
    BY DEF Booked, Counters, Is
  <2> DEFINE F == {}
  <2>3. WriteCounts(n, F, r, conn[c])
    BY <1>5, <2>2 DEF WriteCounts, Is
  <2>4. /\ F \in SUBSET Outcomes /\ F = {}
        /\ e.flags = trace[c][Last(c)].flags \cup F
    BY <1>4
  <2> HIDE DEF n, F
  <2>5. conn' = [conn EXCEPT ![c] = r] /\ conn[c].state \in {"sent", "fetching"}
    BY <1>3, <1>5
  <2>6. e \in LogEntry /\ trace' = [trace EXCEPT ![c] = Rewritten(c, e)]
    BY <1>4
  <2> QED BY <2>1, <2>3, <2>4, <2>5, <2>6, WriteStep
<1>6. CASE ReapResultSet(c)
  <2> DEFINE E == IF conn[c].active THEN {"could_cache"} ELSE {}
  <2>1. conn' = [conn EXCEPT ![c] = f] /\ Count(E) /\ E \in SUBSET {"could_cache", "other"}
    BY <1>6 DEF ReapResultSet, Update
  <2>2. f.hook = conn[c].hook
    BY <1>3 DEF ConnAfterReceive, ConnectionData
  <2> HIDE DEF f, E
  <2>4. /\ Replaying(f) <=> Replaying(conn[c])
        /\ f.hook # "original" => conn[c].hook # "original"
    BY <2>2 DEF Replaying
  <2> QED BY <1>5, <2>1, <2>4
<1>7. CASE ReapNoResult(c)
  <2> DEFINE E == IF conn[c].active THEN {"other"} ELSE {}
  <2>1. conn' = [conn EXCEPT ![c] = g] /\ Count(E) /\ E \in SUBSET {"could_cache", "other"}
    BY <1>7 DEF ReapNoResult, GiveUpRecording, Update
  <2>2. conn[c].hook # "replay"
    BY <1>3, <1>7, NextFromCache DEF OrderlyInv, ReapNoResult, HasFields
  <2>3. g.hook \in {conn[c].hook, "original"}
    BY <1>3 DEF ConnAfterReceive, ConnectionData, Unhooked
  <2> HIDE DEF g, E
  <2>4. /\ Replaying(g) <=> Replaying(conn[c])
        /\ g.hook # "original" => conn[c].hook # "original"
    BY <2>2, <2>3 DEF Replaying
  <2> QED BY <1>5, <2>1, <2>4
<1> QED BY <1>2, <1>6, <1>7

SameRun(e, m) == e.query = m.query /\ e.run_time = m.run_time /\ e.counted = m.counted

\* What store_result writes to the last entry.
LEMMA StoreTimeIs ==
    ASSUME LogInv, NEW c \in Conns, conn[c].state \in {"sent", "fetching"},
           NEW t \in Nat, NEW F \in SUBSET Fields, TraceStoreTime(c, t, F)
    PROVE  \E e \in LogEntry : /\ e.flags = trace[c][Last(c)].flags \cup F
                              /\ e.store_time = t /\ SameRun(e, trace[c][Last(c)])
                              /\ trace' = [trace EXCEPT ![c] = Rewritten(c, e)]
<1> DEFINE m == trace[c][Last(c)]
           d == [m EXCEPT !.store_time = t]
           e == [d EXCEPT !.flags = m.flags \cup F]
<1>1. trace[c] \in Seq(LogEntry) /\ m \in LogEntry /\ trace \in [Conns -> Seq(LogEntry)]
  BY LastEntry DEF LogInv, LogTypes
<1>2. Last(c) \in 1..Len(trace[c])
  <2>1. trace[c] # <<>>
    BY DEF LogInv, Logged
  <2> QED BY <1>1, <2>1, LenProperties DEF Last
<1>3. d \in LogEntry /\ d.flags = m.flags /\ d.store_time = t /\ SameRun(d, m)
  BY <1>1 DEF LogEntry, SameRun
<1>4. e \in LogEntry /\ e.flags = m.flags \cup F /\ e.store_time = t /\ SameRun(e, m)
  <2>1. m.flags \cup F \in SUBSET Fields
    BY <1>1 DEF LogEntry
  <2> HIDE DEF d, m
  <2> QED BY <1>3, <2>1 DEF LogEntry, SameRun
<1>5. trace' = [trace EXCEPT ![c] = Rewritten(c, e)]
  <2> DEFINE one == [trace EXCEPT ![c] = [trace[c] EXCEPT ![Last(c)] = d]]
  <2>1. one[c][Last(c)] = d
    BY <1>1, <1>2, LenProperties
  <2>2. trace' = [one EXCEPT ![c][Last(c)].flags = d.flags \cup F]
    BY <2>1 DEF TraceStoreTime
  <2>3. trace' = [one EXCEPT ![c] = [one[c] EXCEPT ![Last(c)] = e]]
    BY <1>3, <2>1, <2>2
  <2>4. [one[c] EXCEPT ![Last(c)] = e] = Rewritten(c, e)
    BY <1>1 DEF Rewritten
  <2> HIDE DEF d, e
  <2> QED BY <1>1, <2>3, <2>4
<1> HIDE DEF d, e
<1> QED BY <1>4, <1>5

\* store_result writes the outcome that it counts.
LEMMA StoreLogs ==
    ASSUME OrderlyInv, Orderly, LogInv, NEW c \in Conns, StoreLogged(c)
    PROVE  LogInv'
<1> DEFINE r == Finished(c)
<1>1. PICK t \in Times(c), flags \in SUBSET Fields :
        Outcome(c, flags) /\ TraceStoreTime(c, t, flags)
  BY DEF StoreLogged
<1>2. conn[c].state = "fetching" /\ conn[c] \in ConnectionData
  BY <1>1, ConnIs DEF Outcome, StoreInactive, StoreUnhooked, StoreReplayed, StoreNoTable, StoreAdded,
                      StoreRefused, StoreRejected, StoreRecorded, MayStore, OrderlyInv
<1>3. PICK e \in LogEntry : /\ e.flags = trace[c][Last(c)].flags \cup flags
                           /\ trace' = [trace EXCEPT ![c] = Rewritten(c, e)]
  <2>1. t \in Nat
    BY TraceAssumption DEF TraceAssumption, Times
  <2> QED BY <1>1, <1>2, <2>1, StoreTimeIs
<1>4. AfterRows(c) \in States
  BY DEF AfterRows, States
<1>5. r.hook = "original" /\ RowsRead(c).hook = conn[c].hook
  BY <1>4, FinishedFields, RowsFields DEF OrderlyInv, TableInv
<1> HIDE DEF r
<1>6. ASSUME NEW x \in {r, RowsRead(c)}, conn' = [conn EXCEPT ![c] = x], flags \subseteq Outcomes,
             NEW n, Adds(n), WriteCounts(n, flags, x, conn[c])
      PROVE  LogInv'
  <2>1. conn[c].state \in {"sent", "fetching"}
    BY <1>2
  <2> QED BY <1>3, <1>6, <2>1, WriteStep
<1>7. CASE flags = {"was_already_in_cache"} /\ StoreReplayed(c)
  <2>1. conn[c].hook = "replay" /\ conn' = [conn EXCEPT ![c] = r] /\ Count({"hit"})
    BY <1>7 DEF StoreReplayed, Update, r
  <2>2. WriteCounts(Booked({"hit"}), flags, r, conn[c])
    BY <1>5, <1>7, <2>1 DEF WriteCounts, Booked, Counters, Is, Replaying
  <2> QED BY <1>6, <1>7, <2>1, <2>2, BookedIs DEF Outcomes
<1>8. CASE flags = {"was_already_in_cache"} /\ StoreRefused(c)
  <2> DEFINE n == [s \in Counters |-> IF s = "hit" THEN 2 ELSE 0]
  <2>1. conn[c].hook = "record" /\ conn' = [conn EXCEPT ![c] = r] /\ CountRefused
    BY <1>8 DEF StoreRefused, StoreRecorded, Update, r
  <2>2. WriteCounts(n, flags, r, conn[c])
    BY <1>5, <1>8, <2>1 DEF WriteCounts, Counters, Is, Replaying
  <2>3. Adds(n)
    <3>1. stat \in [Counters -> Nat] /\ "hit" \in Counters
      BY DEF LogInv, LogTypes, Counters
    <3>2. stat' = [stat EXCEPT !["hit"] = @ + 2]
      <4>1. stat["hit"] \in Nat /\ \A i \in Nat : i + 1 + 1 = i + 2
        BY <3>1
      <4>2. stat["hit"] + 1 + 1 = stat["hit"] + 2
        BY <4>1
      <4> QED BY <2>1, <4>2 DEF CountRefused
    <3>3. \A s \in Counters : stat'[s] = stat[s] + n[s]
      BY <3>1, <3>2
    <3>4. n \in [Counters -> Nat]
      OBVIOUS
    <3> HIDE DEF n
    <3> QED BY <3>1, <3>2, <3>3, <3>4 DEF Adds
  <2> HIDE DEF n
  <2> QED BY <1>6, <1>8, <2>1, <2>2, <2>3 DEF Outcomes
<1>9. CASE flags = {"no_table"} /\ StoreNoTable(c)
  <2>1. conn[c].hook = "record" /\ conn' = [conn EXCEPT ![c] = r] /\ Count({"miss", "no_table"})
    BY <1>9 DEF StoreNoTable, StoreRecorded, Update, r
  <2>2. WriteCounts(Booked({"miss", "no_table"}), flags, r, conn[c])
    BY <1>5, <1>9, <2>1 DEF WriteCounts, Booked, Counters, Is, Replaying
  <2> QED BY <1>6, <1>9, <2>1, <2>2, BookedIs DEF Outcomes
<1>10. CASE flags = {"was_added"} /\ StoreAdded(c)
  <2>1. conn[c].hook = "record" /\ conn' = [conn EXCEPT ![c] = r] /\ Count({"miss", "put"})
    BY <1>10 DEF StoreAdded, StoreRecorded, Update, r
  <2>2. WriteCounts(Booked({"miss", "put"}), flags, r, conn[c])
    BY <1>5, <1>10, <2>1 DEF WriteCounts, Booked, Counters, Is, Replaying
  <2> QED BY <1>6, <1>10, <2>1, <2>2, BookedIs DEF Outcomes
<1>11. CASE flags = {} /\ (StoreInactive(c) \/ StoreUnhooked(c))
  <2>1. conn[c].hook = "original" /\ stat' = stat
    BY <1>2, <1>11, ConnIs DEF OrderlyInv, Hooked, StoreInactive, StoreUnhooked
  <2>2. PICK x \in {r, RowsRead(c)} : conn' = [conn EXCEPT ![c] = x]
    BY <1>11 DEF StoreInactive, StoreUnhooked, Update, r
  <2>3. Adds(Booked({}))
    <3>1. Count({})
      BY <2>1 DEF Count, LogInv, LogTypes
    <3> QED BY <3>1, BookedIs
  <2>4. WriteCounts(Booked({}), flags, x, conn[c])
    BY <1>5, <1>11, <2>1, <2>2 DEF WriteCounts, Booked, Counters, Is, Replaying
  <2> QED BY <1>6, <1>11, <2>2, <2>3, <2>4
<1> QED BY <1>1, <1>7, <1>8, <1>9, <1>10, <1>11, Disabled DEF OrderlyInv, Outcome

\* Steps that write to no log.
LEMMA OtherLogs ==
    ASSUME OrderlyInv, Orderly, LogInv, NEW c \in Conns,
           NextResult(c) \/ Close(c) \/ Connect(c), trace' = trace
    PROVE  LogInv'
<1>1. stat' = stat /\ conn[c] \in ConnectionData
  BY ConnIs DEF NextResult, Close, Connect, environment, OrderlyInv
<1>2. conn[c].hook = "original"
  <2>1. conn[c].state \in {"more", "ready", "gone", "closed"}
    BY DEF NextResult, Close, Connect, Orderly
  <2> QED BY <2>1, ConnIs DEF OrderlyInv, Hooked
<1>3. PICK r : /\ conn' = [conn EXCEPT ![c] = r] /\ r.hook = "original"
               /\ r.state \in {"sent", "fetching", "more"} => conn[c].state = "more"
  <2>1. CASE NextResult(c)
    <3> DEFINE r == [ConnAfterReceive(c) EXCEPT !.state = "fetching"]
    <3>1. conn' = [conn EXCEPT ![c] = r] /\ conn[c].state = "more"
      BY <2>1 DEF NextResult, Update
    <3>2. r.hook = "original"
      BY <1>1, <1>2 DEF ConnAfterReceive, ConnectionData
    <3> HIDE DEF r
    <3> QED BY <3>1, <3>2
  <2>2. CASE Close(c) \/ Connect(c)
    BY <2>2 DEF Close, Connect, Update, Closed, Connected
  <2> QED BY <2>1, <2>2
<1>4. conn'[c] = r /\ \A o \in Conns \ {c} : conn'[o] = conn[o]
  BY <1>3 DEF OrderlyInv, TableInv, WireInv, TypesOK
<1>5. \A o \in Conns : Logged(conn'[o], trace'[o])
  BY <1>3, <1>4 DEF LogInv, Logged
<1>6. Cardinality(ReplayingNow') = Cardinality(ReplayingNow)
  <2>1. ~Replaying(r) /\ ~Replaying(conn[c])
    BY <1>2, <1>3 DEF Replaying
  <2>2. /\ Cardinality(ReplayingNow) \in Nat
        /\ Cardinality(ReplayingNow') = Cardinality(ReplayingNow)
                                            + Is(Replaying(r)) - Is(Replaying(conn[c]))
    BY <1>3, ReplayersStep
  <2> HIDE DEF ReplayingNow
  <2> QED BY <2>1, <2>2 DEF Is
<1>7. \A f \in Fields : Flagged(f)' = Flagged(f)
  BY DEF Flagged, Entries, At
<1> QED BY <1>1, <1>5, <1>6, <1>7 DEF LogInv, LogTypes, Fields

LEMMA LogStepKeeps == OrderlyInv /\ Orderly /\ LogInv /\ [TraceNext]_tvars => LogInv'
<1> SUFFICES ASSUME OrderlyInv, Orderly, LogInv, [TraceNext]_tvars PROVE LogInv'
  OBVIOUS
<1>1. ASSUME UNCHANGED <<conn, stat, trace>> PROVE LogInv'
  BY <1>1 DEF LogInv, LogTypes, Logged, Flagged, Entries, At, ReplayingNow, Replaying
<1>2. CASE UNCHANGED tvars
  BY <1>1, <1>2 DEF tvars, vars, logs
<1>3. CASE (Tick \/ SetCacheCondition) /\ UNCHANGED logs
  BY <1>1, <1>3 DEF Tick, SetCacheCondition, Orderly, logs
<1>4. ASSUME NEW c \in Conns, CloseLogged(c) \/ Unlogged(c)
      PROVE  LogInv'
  BY <1>4, OtherLogs, Disabled DEF OrderlyInv, CloseLogged, Unlogged, logs
<1> QED BY <1>2, <1>3, <1>4, SendLogs, ReapLogs, StoreLogs DEF TraceNext

LEMMA LogInvInit == Orderly /\ TraceInit => LogInv
<1> SUFFICES ASSUME Orderly, TraceInit PROVE LogInv
  OBVIOUS
<1>1. \A c \in Conns : /\ conn[c].state = "ready" /\ conn[c].hook = "original"
                       /\ trace[c] = <<>>
  BY DEF TraceInit, Init, Connected, Closed
<1>2. ReplayingNow = {} /\ \A f \in Fields : Flagged(f) = {}
  <2>1. Entries = {}
    BY <1>1 DEF Entries
  <2> QED BY <1>1, <2>1 DEF ReplayingNow, Replaying, Flagged
<1>3. Cardinality({}) = 0
  BY FS_EmptySet
<1>4. \A s \in Counters : stat[s] = 0
  BY DEF TraceInit, Init
<1>5. LogTypes
  <2>1. trace \in [Conns -> Seq(LogEntry)]
    BY EmptySeq DEF TraceInit
  <2> QED BY <1>4, <2>1, ConnectionAssumption
          DEF ConnectionAssumption, LogTypes, TraceInit, Init, Counters
<1>6. \A c \in Conns : /\ Len(trace[c]) <= stat["should_cache"] + stat["should_not_cache"]
                       /\ Logged(conn[c], trace[c])
  BY <1>1, <1>4 DEF Logged, Counters
<1>7. /\ Cardinality(Flagged("was_added")) = 0 /\ Cardinality(Flagged("no_table")) = 0
      /\ Cardinality(Flagged("was_already_in_cache")) = 0 /\ Cardinality(ReplayingNow) = 0
  BY <1>2, <1>3 DEF Fields
<1>8. stat["put"] = 0 /\ stat["no_table"] = 0 /\ stat["hit"] = 0 /\ stat["found"] = 0
  BY <1>4 DEF Counters
<1> HIDE DEF Flagged, ReplayingNow
<1> QED BY <1>5, <1>6, <1>7, <1>8 DEF LogInv

\* The outcomes that the trace logs note of the statements are those that the
\* statistics count: however many connections, whatever they send.
THEOREM TracesMatch == Orderly => (TraceSpec => []TraceMatchesStatistics)
<1> SUFFICES ASSUME Orderly PROVE TraceSpec => []TraceMatchesStatistics
  OBVIOUS
<1>1. TraceInit => LogInv
  BY LogInvInit
<1>2. OrderlyInv /\ LogInv /\ [TraceNext]_tvars => LogInv'
  BY LogStepKeeps
<1>3. OrderlyInv /\ LogInv => TraceMatchesStatistics
  <2> SUFFICES ASSUME OrderlyInv, LogInv, Quiet
               PROVE  2 * Cardinality(Flagged("was_already_in_cache")) = stat["hit"] + stat["found"]
    BY DEF TraceMatchesStatistics, LogInv
  <2>1. ReplayingNow = {}
    BY ConnIs DEF Quiet, OrderlyInv, Hooked, ReplayingNow, Replaying
  <2>2. Cardinality(ReplayingNow) = 0 /\ Cardinality(Flagged("was_already_in_cache")) \in Nat
    <3>1. IsFiniteSet(Flagged("was_already_in_cache"))
      BY EntriesFinite DEF LogInv, Fields
    <3> QED BY <2>1, <3>1, FS_EmptySet, FS_CardinalityType
  <2> QED BY <2>2 DEF LogInv
<1> QED BY <1>1, <1>2, <1>3, LogsOnlyWatch, OrderlyConsistent, PTL DEF TraceSpec

-----------------------------------------------------------------------------
(***************************************************************************)
(* Sums over finite sets of entries.  Total is a fold: that it is the      *)
(* cardinality of a set of units follows from a least set for which it is  *)
(* not.                                                                    *)
(***************************************************************************)
\* The sum of f over S as a count.
Units(f, S) == UNION {{e} \X (1..f[e]) : e \in S}

LEMMA UnitsOfOneMore ==
    ASSUME NEW S, NEW f, NEW x, x \in S, f[x] \in Nat, IsFiniteSet(Units(f, S \ {x}))
    PROVE  /\ IsFiniteSet(Units(f, S))
           /\ Cardinality(Units(f, S)) = f[x] + Cardinality(Units(f, S \ {x}))
<1> DEFINE A == {x} \X (1..f[x])
           B == Units(f, S \ {x})
<1>1. Units(f, S) = A \cup B /\ A \cap B = {}
  <2>1. \A u : u \in Units(f, S) <=> \E e \in S : u \in {e} \X (1..f[e])
    BY DEF Units
  <2>2. \A u : u \in B <=> \E e \in S \ {x} : u \in {e} \X (1..f[e])
    BY DEF Units
  <2> QED BY <2>1, <2>2
<1>2. IsFiniteSet(A) /\ Cardinality(A) = f[x]
  <2>1. IsFiniteSet(1..f[x]) /\ Cardinality(1..f[x]) = f[x]
    BY FS_Interval
  <2>2. IsFiniteSet({x}) /\ Cardinality({x}) = 1
    BY FS_Singleton
  <2>3. IsFiniteSet(A) /\ Cardinality(A) = Cardinality({x}) * Cardinality(1..f[x])
    BY <2>1, <2>2, FS_Product
  <2> QED BY <2>1, <2>2, <2>3
<1> HIDE DEF A, B
<1>3. /\ IsFiniteSet(A \cup B)
      /\ Cardinality(A \cup B) = Cardinality(A) + Cardinality(B) - Cardinality(A \cap B)
  BY <1>2, FS_Union DEF B
<1>4. Cardinality(A \cap B) = 0 /\ Cardinality(B) \in Nat
  <2>1. Cardinality(B) \in Nat
    BY FS_CardinalityType DEF B
  <2>2. A \cap B = {} /\ Cardinality({}) = 0
    BY <1>1, FS_EmptySet
  <2> QED BY <2>1, <2>2, Zenon
<1>5. Cardinality(A \cup B) = f[x] + Cardinality(B)
  <2> DEFINE i == Cardinality(A \cap B)
             u == Cardinality(A \cup B)
  <2>1. u = Cardinality(A) + Cardinality(B) - i /\ i = 0
    BY <1>3, <1>4
  <2> HIDE DEF i, u
  <2>2. u = f[x] + Cardinality(B)
    BY <1>2, <1>4, <2>1
  <2> QED BY <2>2 DEF u
<1>6. IsFiniteSet(Units(f, S)) /\ Cardinality(Units(f, S)) = f[x] + Cardinality(B)
  BY <1>1, <1>3, <1>5
<1> QED BY <1>6 DEF B

LEMMA MinimalSubset ==
    ASSUME NEW S, IsFiniteSet(S), NEW Bad \in SUBSET SUBSET S, Bad # {}
    PROVE  \E T \in Bad : \A U \in SUBSET T : U # T => U \notin Bad
<1>1. Bad \subseteq FiniteSubsetsOf(S)
  BY FS_FiniteSubsetsOfFinite
<1>2. PICK T \in Bad : \A U \in Bad : ~(<<U, T>> \in StrictSubsetOrdering(S))
  <2>1. IsWellFoundedOn(StrictSubsetOrdering(S), FiniteSubsetsOf(S))
    BY FS_StrictSubsetOrderingWellFounded
  <2> DEFINE R == StrictSubsetOrdering(S)
             F == FiniteSubsetsOf(S)
  <2> HIDE DEF R, F
  <2>2. IsWellFoundedOn(R, F) /\ Bad \subseteq F /\ Bad # {}
    BY <1>1, <2>1 DEF R, F
  <2>3. \E T \in Bad : \A U \in Bad : ~(<<U, T>> \in R)
    BY <2>2, WFMin
  <2> QED BY <2>3 DEF R
<1>3. \A U \in Bad : U \subseteq T /\ U # T => <<U, T>> \in StrictSubsetOrdering(S)
  BY DEF StrictSubsetOrdering
<1>4. \A U \in SUBSET T : U # T => U \notin Bad
  BY <1>2, <1>3
<1> QED BY <1>4

LEMMA UnitsFinite ==
    ASSUME NEW S, IsFiniteSet(S), NEW f, \A x \in S : f[x] \in Nat
    PROVE  \A T \in SUBSET S : IsFiniteSet(Units(f, T))
<1> DEFINE Bad == {T \in SUBSET S : ~IsFiniteSet(Units(f, T))}
<1> SUFFICES ASSUME Bad # {} PROVE FALSE
  OBVIOUS
<1>1. PICK T \in Bad : \A U \in SUBSET T : U # T => U \notin Bad
  <2>1. Bad \in SUBSET SUBSET S
    OBVIOUS
  <2> HIDE DEF Bad
  <2> QED BY <2>1, MinimalSubset
<1>2. T # {}
  <2>1. Units(f, {}) = {}
    BY DEF Units
  <2> QED BY <2>1, FS_EmptySet
<1>3. PICK x \in T : TRUE
  BY <1>2
<1>4. IsFiniteSet(Units(f, T \ {x}))
  BY <1>1, <1>3
<1> QED BY <1>3, <1>4, UnitsOfOneMore


\* The element that a fold over s takes next.
Pick(s) == CHOOSE x \in s : TRUE

\* h computes the sum of f over the subsets of S one element after the other.
Summing(h, f, S) ==
    h = [s \in SUBSET S |-> IF s = {} THEN 0 ELSE f[Pick(s)] + h[s \ {Pick(s)}]]

LEMMA PickIs == \A s : s # {} => Pick(s) \in s
BY DEF Pick

\* There is such a function, and whichever it is, it counts the units.
LEMMA SummingIs ==
    ASSUME NEW S, IsFiniteSet(S), NEW f, \A x \in S : f[x] \in Nat
    PROVE  /\ \E h : Summing(h, f, S)
           /\ \A h : Summing(h, f, S) => h[S] = Cardinality(Units(f, S))
<1> DEFINE g == [s \in SUBSET S |-> Cardinality(Units(f, s))]
<1>1. \A s \in SUBSET S : g[s] = IF s = {} THEN 0 ELSE f[Pick(s)] + g[s \ {Pick(s)}]
  <2> SUFFICES ASSUME NEW s \in SUBSET S
               PROVE  g[s] = IF s = {} THEN 0 ELSE f[Pick(s)] + g[s \ {Pick(s)}]
    OBVIOUS
  <2>1. CASE s = {}
    <3>1. Units(f, {}) = {}
      BY DEF Units
    <3> QED BY <2>1, <3>1, FS_EmptySet
  <2>2. CASE s # {}
    <3>1. IsFiniteSet(Units(f, s \ {Pick(s)}))
      BY UnitsFinite
    <3> QED BY <2>2, <3>1, PickIs, UnitsOfOneMore
  <2> QED BY <2>1, <2>2
<1>2. Summing(g, f, S)
  <2> HIDE DEF g
  <2>1. g = [s \in SUBSET S |-> g[s]]
    BY DEF g
  <2> QED BY <1>1, <2>1 DEF Summing
<1>3. ASSUME NEW h, Summing(h, f, S)
      PROVE  h[S] = g[S]
  <2>1. \A s \in SUBSET S : h[s] = IF s = {} THEN 0 ELSE f[Pick(s)] + h[s \ {Pick(s)}]
    BY <1>3 DEF Summing
  <2> HIDE DEF g
  <2> DEFINE Bad == {s \in SUBSET S : h[s] # g[s]}
  <2> SUFFICES ASSUME Bad # {} PROVE FALSE
    OBVIOUS
  <2>2. PICK T \in Bad : \A U \in SUBSET T : U # T => U \notin Bad
    <3>1. Bad \in SUBSET SUBSET S
      OBVIOUS
    <3> HIDE DEF Bad
    <3> QED BY <3>1, MinimalSubset
  <2>3. T # {} => h[T \ {Pick(T)}] = g[T \ {Pick(T)}]
    BY <2>2, PickIs
  <2> QED BY <1>1, <2>1, <2>2, <2>3
<1> QED BY <1>2, <1>3 DEF g

\* The fold of the entries' times counts them, for each of the two times.
LEMMA RunTotalIs ==
    ASSUME NEW S, IsFiniteSet(S), NEW f, \A x \in S : f[x] = At(x).run_time /\ f[x] \in Nat
    PROVE  Total(S, LAMBDA e : At(e).run_time) = Cardinality(Units(f, S))
<1> DEFINE Folds(h) == h = [s \in SUBSET S |-> IF s = {} THEN 0
                              ELSE At(Pick(s)).run_time + h[s \ {Pick(s)}]]
           i == CHOOSE h : Folds(h)
<1>1. Total(S, LAMBDA e : At(e).run_time) = i[S]
  BY DEF Total, MapThenSumSet, MapThenFoldSet, Pick
<1>2. \A h : Folds(h) <=> Summing(h, f, S)
  <2>1. \A s \in SUBSET S : s # {} => At(Pick(s)).run_time = f[Pick(s)]
    BY PickIs
  <2>2. ASSUME NEW h
        PROVE  [s \in SUBSET S |-> IF s = {} THEN 0 ELSE At(Pick(s)).run_time + h[s \ {Pick(s)}]]
             = [s \in SUBSET S |-> IF s = {} THEN 0 ELSE f[Pick(s)] + h[s \ {Pick(s)}]]
    BY <2>1
  <2> QED BY <2>2 DEF Summing
<1> HIDE DEF Folds
<1>3. Folds(i)
  BY <1>2, SummingIs
<1> QED BY <1>1, <1>2, <1>3, SummingIs

LEMMA StoreTotalIs ==
    ASSUME NEW S, IsFiniteSet(S), NEW f, \A x \in S : f[x] = At(x).store_time /\ f[x] \in Nat
    PROVE  Total(S, LAMBDA e : At(e).store_time) = Cardinality(Units(f, S))
<1> DEFINE Folds(h) == h = [s \in SUBSET S |-> IF s = {} THEN 0
                              ELSE At(Pick(s)).store_time + h[s \ {Pick(s)}]]
           i == CHOOSE h : Folds(h)
<1>1. Total(S, LAMBDA e : At(e).store_time) = i[S]
  BY DEF Total, MapThenSumSet, MapThenFoldSet, Pick
<1>2. \A h : Folds(h) <=> Summing(h, f, S)
  <2>1. \A s \in SUBSET S : s # {} => At(Pick(s)).store_time = f[Pick(s)]
    BY PickIs
  <2>2. ASSUME NEW h
        PROVE  [s \in SUBSET S |-> IF s = {} THEN 0 ELSE At(Pick(s)).store_time + h[s \ {Pick(s)}]]
             = [s \in SUBSET S |-> IF s = {} THEN 0 ELSE f[Pick(s)] + h[s \ {Pick(s)}]]
    BY <2>1
  <2> QED BY <2>2 DEF Summing
<1> HIDE DEF Folds
<1>3. Folds(i)
  BY <1>2, SummingIs
<1> QED BY <1>1, <1>2, <1>3, SummingIs

-----------------------------------------------------------------------------
(***************************************************************************)
(* What times say of a set of entries, one entry more                      *)
(***************************************************************************)

Measures == [min: Nat, avg: Nat, max: Nat]

\* Summarizes, for a function of the entries.
Sums(times, S, f) ==
    IF S = {} THEN times = NoTimes
    ELSE /\ \E e \in S : times.min = f[e]
         /\ \E e \in S : times.max = f[e]
         /\ \A e \in S : times.min <= f[e] /\ f[e] <= times.max
         /\ 2 * (Cardinality(Units(f, S)) - Cardinality(S) * times.avg)
                \in 0..(Cardinality(S) * (Cardinality(S) - 1))

\* The average loses less than one tick to each entry: with n entries in front, of
\* which total - n * avg is lost, rounding down loses at most n more.
LEMMA MeanOfOneMore ==
    ASSUME NEW n \in Nat, NEW avg \in Nat, NEW t \in Nat, NEW total \in Nat,
           2 * (total - n * avg) \in 0..(n * (n - 1)),
           NEW next, next = (avg * n + t) \div (n + 1)
    PROVE  /\ next \in Nat
           /\ 2 * ((total + t) - (n + 1) * next) \in 0..((n + 1) * n)
<1> DEFINE a == avg * n + t
           lost == total - n * avg
<1>1. a \in Nat /\ n * avg = avg * n /\ n * avg \in Nat
  OBVIOUS
<1>2. PICK r \in 0..n : a = (n + 1) * next + r /\ next \in Nat
  <2>1. \A x \in Nat, m \in Nat \ {0} :
            x \div m \in Nat /\ \E r \in 0..(m - 1) : x = m * (x \div m) + r
    OBVIOUS
  <2> HIDE DEF a
  <2> DEFINE k == n + 1
  <2>2. k \in Nat \ {0} /\ k - 1 = n /\ next = a \div k
    BY <1>1 DEF a
  <2>3. a \in Nat
    BY <1>1
  <2> HIDE DEF k
  <2>4. a \div k \in Nat /\ \E r \in 0..(k - 1) : a = k * (a \div k) + r
    BY <2>1, <2>2, <2>3, Zenon
  <2>5. next \in Nat /\ \E r \in 0..n : a = k * next + r
    BY <2>2, <2>4, Zenon
  <2> QED BY <2>5 DEF k
<1>3. (total + t) - (n + 1) * next = lost + r
  <2> DEFINE p == (n + 1) * next
             m == n * avg
  <2>1. p \in Nat /\ m \in Nat /\ m + t = p + r
    BY <1>1, <1>2
  <2> HIDE DEF p, m
  <2>2. (total + t) - p = (total - m) + r
    BY <2>1
  <2> QED BY <2>2 DEF p, m
<1>4. 2 * (lost + r) \in 0..((n + 1) * n)
  <2> DEFINE d == n * (n - 1)
  <2>1. (n + 1) * n = d + 2 * n /\ d \in Int /\ lost \in Int
    BY <1>1
  <2>2. 2 * lost \in 0..d
    OBVIOUS
  <2> HIDE DEF d, lost
  <2> QED BY <2>1, <2>2
<1> QED BY <1>2, <1>3, <1>4

\* One more time, measured as the hooks do it, sums up one more entry.
LEMMA SumsOneMore ==
    ASSUME NEW S, IsFiniteSet(S), NEW f, NEW g, NEW x, x \notin S,
           \A e \in S : f[e] \in Nat \ {0} /\ g[e] = f[e],
           g[x] \in Nat \ {0},
           NEW times \in Measures, Sums(times, S, f)
    PROVE  /\ Measured(times, g[x], Cardinality(S) + 1) \in Measures
           /\ Sums(Measured(times, g[x], Cardinality(S) + 1), S \cup {x}, g)
<1> DEFINE n == Cardinality(S)
           t == g[x]
           T == S \cup {x}
           m == Measured(times, t, n + 1)
           total == Cardinality(Units(f, S))
<1>1. n \in Nat /\ IsFiniteSet(T) /\ Cardinality(T) = n + 1 /\ (n = 0 <=> S = {})
  BY FS_CardinalityType, FS_AddElement, FS_EmptySet
<1>2. total \in Nat /\ Cardinality(Units(g, T)) = total + t
  <2>1. Units(g, S) = Units(f, S) /\ T \ {x} = S
    BY DEF Units
  <2>2. IsFiniteSet(Units(f, S))
    BY UnitsFinite
  <2>3. Cardinality(Units(g, T)) = t + total
    BY <2>1, <2>2, UnitsOfOneMore
  <2>4. total \in Nat
    BY <2>2, FS_CardinalityType
  <2> HIDE DEF total
  <2> QED BY <2>3, <2>4
<1>3. times.avg \in Nat /\ times.min \in Nat /\ times.max \in Nat
  BY DEF Measures
<1>4. 2 * (total - n * times.avg) \in 0..(n * (n - 1))
  <2>1. CASE S = {}
    <3>1. Units(f, S) = {} /\ times.avg = 0
      BY <2>1 DEF Units, Sums, NoTimes
    <3>2. total = 0 /\ n = 0
      BY <1>1, <2>1, <3>1, FS_EmptySet
    <3> QED BY <3>1, <3>2
  <2>2. CASE S # {}
    BY <2>2 DEF Sums
  <2> QED BY <2>1, <2>2
<1>5. m.avg \in Nat /\ 2 * ((total + t) - (n + 1) * m.avg) \in 0..((n + 1) * n)
  <2>1. m.avg = (times.avg * n + t) \div (n + 1)
    <3>1. (n + 1) - 1 = n
      BY <1>1
    <3> QED BY <3>1 DEF Measured
  <2> HIDE DEF m, n, total, t
  <2>2. n \in Nat /\ t \in Nat /\ total \in Nat /\ times.avg \in Nat
    BY <1>1, <1>2, <1>3 DEF t
  <2>3. 2 * (total - n * times.avg) \in 0..(n * (n - 1))
    BY <1>4
  <2> QED BY <2>1, <2>2, <2>3, MeanOfOneMore
<1>6. /\ m.min = IF times.min = 0 \/ t < times.min THEN t ELSE times.min
      /\ m.max = IF times.min = 0 \/ t > times.max THEN t ELSE times.max
  BY DEF Measured
<1>7. m \in Measures
  <2>1. m = [min |-> m.min, max |-> m.max, avg |-> m.avg]
    BY DEF Measured
  <2>2. m.min \in Nat /\ m.max \in Nat
    BY <1>3, <1>6
  <2> HIDE DEF m
  <2> QED BY <1>5, <2>1, <2>2 DEF Measures
<1>8. \A e \in S : f[e] \in Nat /\ f[e] > 0 /\ g[e] = f[e] /\ t \in Nat /\ t > 0
  OBVIOUS
<1>9. /\ \E e \in T : m.min = g[e]
      /\ \E e \in T : m.max = g[e]
      /\ \A e \in T : m.min <= g[e] /\ g[e] <= m.max
  <2> HIDE DEF m, t
  <2>1. t \in Nat /\ t = g[x]
    BY DEF t
  <2>2. CASE S = {}
    <3>1. times.min = 0 /\ T = {x}
      BY <2>2 DEF Sums, NoTimes
    <3> QED BY <1>6, <2>1, <3>1
  <2>3. CASE S # {}
    <3>1. /\ \E e \in S : times.min = f[e]
          /\ \E e \in S : times.max = f[e]
          /\ \A e \in S : times.min <= f[e] /\ f[e] <= times.max
      BY <2>3 DEF Sums
    <3>2. times.min # 0
      BY <1>8, <3>1
    <3>3. m.min \in {t, times.min} /\ m.max \in {t, times.max}
      BY <1>6
    <3>4. m.min <= times.min /\ m.min <= t /\ times.max <= m.max /\ t <= m.max
      BY <1>3, <1>6, <2>1, <3>2
    <3>5. m.min \in Nat /\ m.max \in Nat
      BY <1>3, <2>1, <3>3
    <3>6. \A e \in T : m.min <= g[e] /\ g[e] <= m.max
      BY <1>3, <1>8, <2>1, <3>1, <3>4, <3>5
    <3>7. (\E e \in T : m.min = g[e]) /\ \E e \in T : m.max = g[e]
      BY <1>8, <2>1, <3>1, <3>3
    <3> QED BY <3>6, <3>7
  <2> QED BY <2>2, <2>3
<1>10. Sums(m, T, g)
  <2>1. 2 * (Cardinality(Units(g, T)) - Cardinality(T) * m.avg)
            \in 0..(Cardinality(T) * (Cardinality(T) - 1))
    <3>1. Cardinality(T) - 1 = n
      BY <1>1
    <3> HIDE DEF m, n, t, T, total
    <3> QED BY <1>1, <1>2, <1>5, <3>1
  <2>2. T # {}
    OBVIOUS
  <2> HIDE DEF m, T
  <2> QED BY <1>9, <2>1, <2>2 DEF Sums
<1> QED BY <1>7, <1>10

\* Sums depends on the times of the entries it is about.
LEMMA SumsSame ==
    ASSUME NEW S, NEW f, NEW g, \A e \in S : f[e] = g[e], NEW times, Sums(times, S, f)
    PROVE  Sums(times, S, g)
<1>1. Units(f, S) = Units(g, S)
  BY DEF Units
<1> QED BY <1>1 DEF Sums

-----------------------------------------------------------------------------
(***************************************************************************)
(* The normalized log beside the traces                                    *)
(***************************************************************************)

RunTime == [e \in Entries |-> At(e).run_time]

StoreTime == [e \in Entries |-> At(e).store_time]

NormEntry == [occurences: Nat, run: Measures, store: Measures]

NormOf(q) == IF q \in DOMAIN norm THEN norm[q] ELSE NewNormEntry

Ptr(c) == data[c].norm_qt_log_entry

Newest(c) == trace[c][Last(c)]

NormTypes ==
    /\ DOMAIN norm \subseteq Keys /\ norm \in [DOMAIN norm -> NormEntry]
    /\ data \in [Conns -> [norm_qt_log_entry: Keys \cup {None}, multi_q_enabled: BOOLEAN]]
    /\ past \in [follows: [Conns -> Keys \cup {None}], strayed: SUBSET Keys,
                 overlapped: SUBSET Keys]

\* The connection r, the last entry e of its log, its pointer p to the normalized
\* log, the statement f that it counted last and the forms that went astray.
\* While a statement for the cache runs, the pointer is to its own form.  After
\* one that is not, it is still to the form of the statement before.
Points(r, e, p, f, strayed) ==
    /\ r.state \in {"sent", "fetching", "more"} =>
         /\ e.query = r.running
         /\ "eligible_for_caching" \in e.flags <=> r.active
         /\ r.state = "sent" <=> e.run_time = 0
         /\ r.state = "sent" => e.store_time = 0
         /\ r.active => p = IF e.counted THEN r.running ELSE None
         /\ r.state # "sent" /\ ~r.active => p \in strayed \cup {None}
    /\ r.state # "sent" \/ ~r.active => p = f

\* The pointer is to an entry, which has counted the statement that is read.
Counting(r, p) ==
    /\ p \in DOMAIN norm \cup {None}
    /\ r.state \in {"fetching", "more"} /\ p # None => norm[p].occurences > 0

\* The entry of q has the runs of the statement that are in the traces.
RunsAgree(q) ==
    /\ NormOf(q).occurences = Cardinality(Answered(q))
    /\ Sums(NormOf(q).run, Answered(q), RunTime)

\* Connections that are to store a result of the form q.
Storers(q) == {c \in Conns : conn[c].state = "fetching" /\ Ptr(c) = q}

\* At most one result of the form is to be stored, and all others have been.
StoresAgree(q) ==
    /\ Sums(NormOf(q).store, StoredEntries(q), StoreTime)
    /\ q \in ResultSets =>
           Answered(q) \ StoredEntries(q) = {<<c, Last(c)>> : c \in Storers(q)}
    /\ \A c, d \in Storers(q) : c = d

AgreeInv ==
    /\ NormTypes
    /\ \A c \in Conns : /\ Points(conn[c], Newest(c), Ptr(c), past.follows[c], past.strayed)
                        /\ Counting(conn[c], Ptr(c))
    /\ \A q \in Keys \ past.strayed : RunsAgree(q)
    /\ Multi = {} => \A q \in Keys \ (past.strayed \cup past.overlapped) : StoresAgree(q)

-----------------------------------------------------------------------------
\* The entries after a hook has written to the last of one log

Fits == \A c \in Conns : Len(trace[c]) \in Nat /\ Len(trace[c]) <= MaxSends

LEMMA LogsFit == LogInv => Fits
<1> SUFFICES ASSUME LogInv, NEW c \in Conns
             PROVE  Len(trace[c]) \in Nat /\ Len(trace[c]) <= MaxSends
  BY DEF Fits
<1> DEFINE sum == stat["should_cache"] + stat["should_not_cache"]
<1>1. Len(trace[c]) \in Nat
  BY LenProperties DEF LogInv, LogTypes
<1>2. sum \in Nat /\ sum <= MaxSends /\ Len(trace[c]) <= sum
  BY DEF LogInv, LogTypes, Counters
<1> HIDE DEF sum
<1> QED BY <1>1, <1>2, ConnectionAssumption DEF ConnectionAssumption

LEMMA LogsFitNext == LogInv' => Fits'
BY LogsFit, PTL

\* Of the entries only x is another one, which is m now and was o before, if it was.
Rewrites(x, m) ==
    /\ x \in Entries' /\ At(x)' = m
    /\ \A e : e # x => (e \in Entries' <=> e \in Entries)
    /\ \A e \in Entries : e # x => At(e)' = At(e)

LEMMA GrowthRewrites ==
    ASSUME LogInv, LogInv', NEW c \in Conns, NEW log, Grows(log, trace[c]),
           trace' = [trace EXCEPT ![c] = log]
    PROVE  /\ Rewrites(<<c, Len(log)>>, log[Len(log)])
           /\ Len(log) = Len(trace[c]) =>
                /\ <<c, Len(log)>> \in Entries
                /\ At(<<c, Len(log)>>) = trace[c][Len(log)]
           /\ Len(log) = Len(trace[c]) + 1 => <<c, Len(log)>> \notin Entries
<1> DEFINE n == Len(log)
           x == <<c, n>>
<1>1. trace'[c] = log /\ \A o \in Conns \ {c} : trace'[o] = trace[o]
  BY DEF LogInv, LogTypes
<1>2. Len(trace[c]) \in Nat /\ n \in Nat /\ n <= MaxSends /\ Len(trace[c]) <= MaxSends
  BY <1>1, LogsFit, LogsFitNext DEF Fits
<1>3. n \in 1..MaxSends /\ MaxSends \in Nat
  <2>1. n # 0
    <3>1. log \in Seq(LogEntry) /\ log # <<>>
      BY <1>1 DEF LogInv, LogTypes, Grows
    <3> QED BY <3>1, EmptySeq, LenProperties
  <2> QED BY <1>2, <2>1, ConnectionAssumption DEF ConnectionAssumption
<1>4. n \in {Len(trace[c]), Len(trace[c]) + 1} /\ \A i \in 1..n : i # n => log[i] = trace[c][i]
  BY DEF Grows
<1>5. x \in Entries' /\ At(x)' = log[n]
  BY <1>1, <1>3 DEF Entries, At
<1>6. \A e : e # x => (e \in Entries' <=> e \in Entries)
  <2> SUFFICES ASSUME NEW e \in Conns \X (1..MaxSends), e # x
               PROVE  e[2] <= Len(trace'[e[1]]) <=> e[2] <= Len(trace[e[1]])
    BY DEF Entries
  <2>1. CASE e[1] # c
    BY <1>1, <2>1
  <2>2. CASE e[1] = c
    <3>1. e[2] # n /\ e[2] \in Nat
      BY <2>2
    <3> HIDE DEF n
    <3> QED BY <1>1, <1>2, <1>4, <2>2, <3>1 DEF n
  <2> QED BY <2>1, <2>2
<1>7. \A e \in Entries : e # x => At(e)' = At(e)
  <2> SUFFICES ASSUME NEW e \in Entries, e # x PROVE At(e)' = At(e)
    OBVIOUS
  <2>1. e[1] \in Conns /\ e[2] \in 1..MaxSends /\ e[2] <= Len(trace[e[1]]) /\ e = <<e[1], e[2]>>
    BY DEF Entries
  <2>2. CASE e[1] # c
    BY <1>1, <2>1, <2>2 DEF At
  <2>3. CASE e[1] = c
    <3>1. e[2] # n /\ e[2] \in 1..n
      <4> HIDE DEF n
      <4> QED BY <1>2, <1>4, <2>1, <2>3 DEF x
    <3> QED BY <1>1, <1>4, <2>3, <3>1 DEF At
  <2> QED BY <2>2, <2>3
<1>8. n = Len(trace[c]) => x \in Entries /\ At(x) = trace[c][n]
  BY <1>2, <1>3 DEF Entries, At
<1>9. n = Len(trace[c]) + 1 => x \notin Entries
  BY <1>2 DEF Entries
<1> QED BY <1>5, <1>6, <1>7, <1>8, <1>9 DEF Rewrites

\* m is an entry of those that Answered(q) counts, or StoredEntries(q).
Answers(m, q) == /\ m.query = q /\ m.counted /\ m.run_time > 0
                 /\ "eligible_for_caching" \in m.flags

LEMMA EntriesCounted ==
    ASSUME NEW q
    PROVE  /\ \A e : e \in Answered(q) <=> e \in Entries /\ Answers(At(e), q)
           /\ \A e : e \in Answered(q)' <=> e \in Entries' /\ Answers(At(e)', q)
           /\ \A e : e \in StoredEntries(q) <=> e \in Answered(q) /\ At(e).store_time > 0
           /\ \A e : e \in StoredEntries(q)' <=> e \in Answered(q)' /\ At(e)'.store_time > 0
           /\ \A e \in Entries : RunTime[e] = At(e).run_time /\ StoreTime[e] = At(e).store_time
           /\ \A e \in Entries' : RunTime'[e] = At(e)'.run_time /\ StoreTime'[e] = At(e)'.store_time
<1>1. \A e : e \in Answered(q) <=> e \in Entries /\ Answers(At(e), q)
  BY DEF Answered, Answers
<1>2. \A e : e \in Answered(q)' <=> e \in Entries' /\ Answers(At(e)', q)
  BY DEF Answered, Answers
<1>3. \A e : e \in StoredEntries(q) <=> e \in Answered(q) /\ At(e).store_time > 0
  BY DEF StoredEntries
<1>4. \A e : e \in StoredEntries(q)' <=> e \in Answered(q)' /\ At(e)'.store_time > 0
  BY DEF StoredEntries
<1>5. /\ \A e \in Entries : RunTime[e] = At(e).run_time /\ StoreTime[e] = At(e).store_time
      /\ \A e \in Entries' : RunTime'[e] = At(e)'.run_time /\ StoreTime'[e] = At(e)'.store_time
  BY DEF RunTime, StoreTime
<1> QED BY <1>1, <1>2, <1>3, <1>4, <1>5

\* Of what the sets of q hold, and of the times, only x changes.
LEMMA RewrittenElsewhere ==
    ASSUME NEW x, NEW m, Rewrites(x, m), NEW q, NEW e, e # x
    PROVE  /\ e \in Answered(q)' <=> e \in Answered(q)
           /\ e \in StoredEntries(q)' <=> e \in StoredEntries(q)
           /\ e \in Answered(q) => RunTime'[e] = RunTime[e] /\ StoreTime'[e] = StoreTime[e]
<1>1. (e \in Entries' <=> e \in Entries) /\ (e \in Entries => At(e)' = At(e))
  BY DEF Rewrites
<1> QED BY <1>1, EntriesCounted

LEMMA RewrittenEntry ==
    ASSUME NEW x, NEW m, Rewrites(x, m), NEW q
    PROVE  /\ x \in Answered(q)' <=> Answers(m, q)
           /\ x \in StoredEntries(q)' <=> Answers(m, q) /\ m.store_time > 0
           /\ RunTime'[x] = m.run_time /\ StoreTime'[x] = m.store_time
<1>1. x \in Entries' /\ At(x)' = m
  BY DEF Rewrites
<1> QED BY <1>1, EntriesCounted

\* Nothing changes of the runs of q, or of its results, by what was written to x.
LEMMA RunsStay ==
    ASSUME NEW x, NEW m, Rewrites(x, m), NEW q, RunsAgree(q),
           x \in Answered(q)' <=> x \in Answered(q),
           x \in Answered(q) => m.run_time = At(x).run_time,
           NormOf(q)'.occurences = NormOf(q).occurences, NormOf(q)'.run = NormOf(q).run
    PROVE  RunsAgree(q)'
<1>1. Answered(q)' = Answered(q)
  <2>1. \A e : e # x => (e \in Answered(q)' <=> e \in Answered(q))
    BY RewrittenElsewhere
  <2> HIDE DEF Answered
  <2> QED BY <2>1
<1>2. \A e \in Answered(q) : RunTime[e] = RunTime'[e]
  <2>1. \A e \in Answered(q) : e # x => RunTime[e] = RunTime'[e]
    BY RewrittenElsewhere
  <2>2. x \in Answered(q) => RunTime[x] = RunTime'[x]
    BY EntriesCounted, RewrittenEntry
  <2> QED BY <2>1, <2>2
<1>3. Sums(NormOf(q).run, Answered(q), RunTime')
  BY <1>2, SumsSame DEF RunsAgree
<1> QED BY <1>1, <1>3 DEF RunsAgree

LEMMA StoresStay ==
    ASSUME NEW x, NEW m, Rewrites(x, m), NEW q, StoresAgree(q),
           x \in Answered(q)' <=> x \in Answered(q),
           x \in StoredEntries(q)' <=> x \in StoredEntries(q),
           x \in StoredEntries(q) => m.store_time = At(x).store_time,
           NormOf(q)'.store = NormOf(q).store,
           Storers(q)' = Storers(q), \A o \in Storers(q) : Last(o)' = Last(o)
    PROVE  StoresAgree(q)'
<1>1. Answered(q)' = Answered(q) /\ StoredEntries(q)' = StoredEntries(q)
  <2>1. \A e : e # x => /\ e \in Answered(q)' <=> e \in Answered(q)
                        /\ e \in StoredEntries(q)' <=> e \in StoredEntries(q)
    BY RewrittenElsewhere
  <2> HIDE DEF Answered, StoredEntries
  <2> QED BY <2>1
<1>2. \A e \in StoredEntries(q) : StoreTime[e] = StoreTime'[e]
  <2>1. \A e \in StoredEntries(q) : e # x => StoreTime[e] = StoreTime'[e]
    BY EntriesCounted, RewrittenElsewhere
  <2>2. x \in StoredEntries(q) => StoreTime[x] = StoreTime'[x]
    BY EntriesCounted, RewrittenEntry
  <2> QED BY <2>1, <2>2
<1>3. Sums(NormOf(q).store, StoredEntries(q), StoreTime')
  BY <1>2, SumsSame DEF StoresAgree
<1>4. {<<o, Last(o)'>> : o \in Storers(q)'} = {<<o, Last(o)>> : o \in Storers(q)}
  OBVIOUS
<1> HIDE DEF Storers, Last
<1> QED BY <1>1, <1>3, <1>4 DEF StoresAgree

\* The pointers after a step of one connection.
LEMMA PointersStep ==
    ASSUME OrderlyInv, LogInv, AgreeInv, NEW c \in Conns, NEW r, conn' = [conn EXCEPT ![c] = r],
           \A o \in Conns \ {c} : trace'[o] = trace[o],
           NEW v, data' = [data EXCEPT ![c] = v],
           \A o \in Conns \ {c} : past'.follows[o] = past.follows[o],
           past.strayed \subseteq past'.strayed,
           DOMAIN norm \subseteq DOMAIN norm', NormTypes',
           \A k \in DOMAIN norm : norm'[k].occurences >= norm[k].occurences,
           Points(r, Newest(c)', v.norm_qt_log_entry, past'.follows[c], past'.strayed),
           v.norm_qt_log_entry \in DOMAIN norm' \cup {None},
           r.state \in {"fetching", "more"} /\ v.norm_qt_log_entry # None
               => norm'[v.norm_qt_log_entry].occurences > 0
    PROVE  \A o \in Conns :
              /\ Points(conn[o], Newest(o), Ptr(o), past.follows[o], past.strayed)'
              /\ Counting(conn[o], Ptr(o))'
<1>1. conn'[c] = r /\ \A o \in Conns \ {c} : conn'[o] = conn[o]
  BY DEF OrderlyInv, TableInv, WireInv, TypesOK
<1>2. data'[c] = v /\ \A o \in Conns \ {c} : data'[o] = data[o]
  BY DEF AgreeInv, NormTypes
<1>3. /\ Points(conn[c], Newest(c), Ptr(c), past.follows[c], past.strayed)'
      /\ Counting(conn[c], Ptr(c))'
  BY <1>1, <1>2 DEF Ptr, Counting
<1>4. ASSUME NEW o \in Conns \ {c}
      PROVE  /\ Points(conn[o], Newest(o), Ptr(o), past.follows[o], past.strayed)'
             /\ Counting(conn[o], Ptr(o))'
  <2>1. /\ Points(conn[o], Newest(o), Ptr(o), past.follows[o], past.strayed)
        /\ Counting(conn[o], Ptr(o))
    BY DEF AgreeInv
  <2>2. conn'[o] = conn[o] /\ Newest(o)' = Newest(o) /\ Ptr(o)' = Ptr(o)
    BY <1>1, <1>2 DEF Newest, Last, Ptr
  <2>3. Points(conn[o], Newest(o), Ptr(o), past.follows[o], past.strayed)'
    <3> HIDE DEF Newest, Ptr
    <3> QED BY <2>1, <2>2 DEF Points
  <2>4. Counting(conn[o], Ptr(o))'
    <3>1. Ptr(o) \in DOMAIN norm' \cup {None}
      BY <2>1 DEF Counting
    <3>2. ASSUME conn[o].state \in {"fetching", "more"}, Ptr(o) # None
          PROVE  norm'[Ptr(o)].occurences > 0
      <4>1. Ptr(o) \in DOMAIN norm /\ norm[Ptr(o)].occurences > 0
        BY <2>1, <3>2 DEF Counting
      <4>2. norm[Ptr(o)].occurences \in Nat /\ norm'[Ptr(o)].occurences \in Nat
        BY <4>1 DEF AgreeInv, NormTypes, NormEntry
      <4>3. norm'[Ptr(o)].occurences >= norm[Ptr(o)].occurences
        BY <4>1
      <4> QED BY <4>1, <4>2, <4>3
    <3> HIDE DEF Ptr
    <3> QED BY <2>2, <3>1, <3>2 DEF Counting
  <2> QED BY <2>3, <2>4
<1> QED BY <1>3, <1>4

-----------------------------------------------------------------------------
\* send_query

LEMMA SendIs ==
    ASSUME OrderlyInv, Orderly, NEW c \in Conns, NEW q \in Keys, SendQuery(c, q)
    PROVE  /\ conn[c].state = "ready" /\ InSync(c)
           /\ \E r : /\ conn' = [conn EXCEPT ![c] = r]
                     /\ r.state = "sent" /\ r.running = q /\ (r.active <=> Eligible(q))
<1> DEFINE s == Sent(Classify(c, q), q)
<1>1. SendPlain(c, q) \/ SendHit(c, q) \/ SendMiss(c, q)
  BY Disabled DEF OrderlyInv, SendQuery
<1>2. conn[c].state = "ready" /\ InSync(c)
  BY <1>1, MaySendIs DEF SendPlain, SendHit, SendMiss, OrderlyInv, Idle, InSync
<1>3. /\ s \in ConnectionData /\ s.state = "sent" /\ s.running = q
      /\ (s.active <=> Eligible(q))
  BY SentFields DEF OrderlyInv, TableInv, WireInv, Eligible
<1>4. \E h, d, p, k : conn' = [conn EXCEPT ![c] =
          [s EXCEPT !.hook = h, !.recorded = d, !.pos = p, !.key = k]]
  <2>1. s = [s EXCEPT !.hook = s.hook, !.recorded = s.recorded, !.pos = s.pos, !.key = s.key]
    <3> HIDE DEF s
    <3> QED BY <1>3 DEF ConnectionData
  <2>2. \A h, d, k : [s EXCEPT !.hook = h, !.recorded = d, !.key = k] =
            [s EXCEPT !.hook = h, !.recorded = d, !.pos = s.pos, !.key = k]
    <3> HIDE DEF s
    <3> QED BY <1>3 DEF ConnectionData
  <2>3. CASE SendPlain(c, q)
    <3>1. conn' = [conn EXCEPT ![c] = s]
      BY <1>2, <2>3 DEF SendPlain, Update
    <3>2. conn' = [conn EXCEPT ![c] = [s EXCEPT !.hook = s.hook, !.recorded = s.recorded,
                                                !.pos = s.pos, !.key = s.key]]
      <4> HIDE DEF s
      <4> QED BY <2>1, <3>1, Zenon
    <3> HIDE DEF s
    <3> QED BY <3>2, Zenon
  <2>4. CASE SendHit(c, q)
    <3>1. \E d : conn' = [conn EXCEPT ![c] =
              [s EXCEPT !.hook = "replay", !.recorded = d, !.pos = 0, !.key = q]]
      BY <2>4 DEF SendHit, Update
    <3> HIDE DEF s
    <3> QED BY <3>1
  <2>5. CASE SendMiss(c, q)
    <3>1. PICK d : conn' = [conn EXCEPT ![c] =
              [s EXCEPT !.hook = "record", !.recorded = d, !.key = q]]
      BY <2>5 DEF SendMiss, Update
    <3> HIDE DEF s
    <3>2. conn' = [conn EXCEPT ![c] = [s EXCEPT !.hook = "record", !.recorded = d,
                                                !.pos = s.pos, !.key = q]]
      BY <2>2, <3>1, Zenon
    <3> QED BY <3>2, Zenon
  <2> QED BY <1>1, <2>3, <2>4, <2>5
<1> HIDE DEF s
<1>5. PICK h, d, p, k : conn' = [conn EXCEPT ![c] =
          [s EXCEPT !.hook = h, !.recorded = d, !.pos = p, !.key = k]]
  BY <1>4
<1> DEFINE r == [s EXCEPT !.hook = h, !.recorded = d, !.pos = p, !.key = k]
<1>6. r.state = "sent" /\ r.running = q /\ (r.active <=> Eligible(q))
  BY <1>3 DEF ConnectionData
<1>7. conn' = [conn EXCEPT ![c] = r]
  BY <1>5
<1> HIDE DEF r
<1> QED BY <1>2, <1>6, <1>7

LEMMA AppendGrows ==
    ASSUME LogInv, NEW c \in Conns, NEW e \in LogEntry
    PROVE  /\ Grows(Append(trace[c], e), trace[c])
           /\ Len(Append(trace[c], e)) = Len(trace[c]) + 1
           /\ Append(trace[c], e)[Len(trace[c]) + 1] = e
<1> DEFINE log == Append(trace[c], e)
<1>1. trace[c] \in Seq(LogEntry) /\ Len(trace[c]) \in Nat
  BY LenProperties DEF LogInv, LogTypes
<1>2. /\ log \in Seq(LogEntry) /\ Len(log) = Len(trace[c]) + 1 /\ log[Len(log)] = e
      /\ \A i \in 1..Len(log) : i # Len(log) => log[i] = trace[c][i]
      /\ log # <<>>
  BY <1>1, AppendProperties
<1> HIDE DEF log
<1> QED BY <1>1, <1>2 DEF Grows, log

LEMMA SendAgrees ==
    ASSUME OrderlyInv, Orderly, LogInv, LogInv', AgreeInv,
           NEW c \in Conns, NEW q \in Keys, SendLogged(c, q)
    PROVE  AgreeInv'
<1> DEFINE fl == IF Eligible(q) THEN {"eligible_for_caching"} ELSE {}
           E(b, t) == [TraceEntry(q, fl, ~b) EXCEPT !.run_time = t]
<1>1. PICK b \in BOOLEAN, t \in SendTime(c, q) :
        /\ SendQuery(c, q)
        /\ trace' = [trace EXCEPT ![c] = Append(@, E(b, t))]
        /\ norm' = NormAdded(q, b)
        /\ data' = [data EXCEPT ![c] = [norm_qt_log_entry |-> Pointer(c, q, b),
                                        multi_q_enabled |-> b]]
        /\ past' = past
  BY DEF SendLogged
<1> DEFINE e == E(b, t)
           p == Pointer(c, q, b)
           v == [norm_qt_log_entry |-> p, multi_q_enabled |-> b]
           n == Len(trace[c]) + 1
           x == <<c, n>>
<1>2. PICK r : /\ conn' = [conn EXCEPT ![c] = r]
               /\ r.state = "sent" /\ r.running = q /\ (r.active <=> Eligible(q))
  BY <1>1, SendIs
<1>3. conn[c].state = "ready" /\ InSync(c)
  BY <1>1, SendIs
<1>4. /\ e \in LogEntry /\ e.query = q /\ e.run_time = 0 /\ e.store_time = 0
      /\ (e.counted <=> ~b) /\ ("eligible_for_caching" \in e.flags <=> Eligible(q))
  <2>1. t = 0
    BY <1>3 DEF SendTime
  <2>2. fl \in SUBSET Fields /\ ("eligible_for_caching" \in fl <=> Eligible(q))
    BY DEF Fields
  <2> HIDE DEF fl
  <2> QED BY <2>1, <2>2 DEF TraceEntry, LogEntry
<1>5. p = IF ~Eligible(q) THEN Ptr(c) ELSE IF b THEN None ELSE q
  BY <1>3 DEF Pointer, Ptr
<1>6. /\ DOMAIN norm \subseteq DOMAIN norm' /\ DOMAIN norm' \subseteq DOMAIN norm \cup {q}
      /\ ~b => q \in DOMAIN norm'
      /\ \A k \in DOMAIN norm : norm'[k] = norm[k]
      /\ \A k \in DOMAIN norm' : k \notin DOMAIN norm => norm'[k] = NewNormEntry
      /\ norm' = [k \in DOMAIN norm' |-> norm'[k]]
  <2>1. norm = [k \in DOMAIN norm |-> norm[k]]
    BY DEF AgreeInv, NormTypes
  <2> QED BY <1>1, <2>1 DEF NormAdded
<1>7. \A k : NormOf(k)' = NormOf(k)
  BY <1>6 DEF NormOf
<1>8. NewNormEntry \in NormEntry
  BY DEF NewNormEntry, NormEntry, NoTimes, Measures
<1>9. p \in DOMAIN norm' \cup {None} /\ p \in Keys \cup {None}
  BY <1>5, <1>6 DEF AgreeInv, Counting, NormTypes
<1>10. NormTypes'
  <2>1. DOMAIN norm' \subseteq Keys
    BY <1>6 DEF AgreeInv, NormTypes
  <2>2. \A k \in DOMAIN norm' : norm'[k] \in NormEntry
    BY <1>6, <1>8 DEF AgreeInv, NormTypes
  <2>3. norm' \in [DOMAIN norm' -> NormEntry]
    BY <1>6, <2>2
  <2>4. v \in [norm_qt_log_entry: Keys \cup {None}, multi_q_enabled: BOOLEAN]
    BY <1>9
  <2>5. data' = [data EXCEPT ![c] = v]
    BY <1>1
  <2> HIDE DEF v
  <2> QED BY <1>1, <2>1, <2>3, <2>4, <2>5 DEF AgreeInv, NormTypes
<1>11. /\ \A o \in Conns \ {c} : trace'[o] = trace[o]
       /\ trace' = [trace EXCEPT ![c] = Append(trace[c], e)]
       /\ Newest(c)' = e
  <2>1. trace \in [Conns -> Seq(LogEntry)]
    BY DEF LogInv, LogTypes
  <2> HIDE DEF e
  <2>2. trace' = [trace EXCEPT ![c] = Append(trace[c], e)]
    BY <1>1, <2>1 DEF e
  <2> QED BY <1>4, <2>1, <2>2, AppendGrows DEF Newest, Last
<1>12. Rewrites(x, e) /\ x \notin Entries
  <2> DEFINE log == Append(trace[c], e)
  <2>1. Grows(log, trace[c]) /\ Len(log) = n /\ log[n] = e
    <3> HIDE DEF e
    <3> QED BY <1>4, AppendGrows
  <2>2. trace' = [trace EXCEPT ![c] = log]
    BY <1>11
  <2> HIDE DEF log, e
  <2>3. /\ Rewrites(<<c, Len(log)>>, log[Len(log)])
        /\ Len(log) = Len(trace[c]) + 1 => <<c, Len(log)>> \notin Entries
    BY <2>1, <2>2, GrowthRewrites
  <2> QED BY <2>1, <2>3
<1>13. \A o \in Conns :
          /\ Points(conn[o], Newest(o), Ptr(o), past.follows[o], past.strayed)'
          /\ Counting(conn[o], Ptr(o))'
  <2>1. Points(r, e, p, past.follows[c], past.strayed)
    <3>1. ~Eligible(q) => p = past.follows[c]
      BY <1>3, <1>5 DEF AgreeInv, Points
    <3> HIDE DEF e, p
    <3> QED BY <1>2, <1>4, <1>5, <3>1 DEF Points
  <2>2. v.norm_qt_log_entry = p /\ r.state = "sent" /\ data' = [data EXCEPT ![c] = v]
    BY <1>1, <1>2
  <2>3. Points(r, Newest(c)', v.norm_qt_log_entry, past'.follows[c], past'.strayed)
    BY <1>1, <1>11, <2>1, <2>2, Zenon
  <2>4. \A k \in DOMAIN norm : norm'[k].occurences >= norm[k].occurences
    <3>1. \A k \in DOMAIN norm : norm[k].occurences \in Nat
      BY DEF AgreeInv, NormTypes, NormEntry
    <3> QED BY <1>6, <3>1
  <2> HIDE DEF v, e, p
  <2>5. \A o \in Conns \ {c} : past'.follows[o] = past.follows[o]
    BY <1>1
  <2>6. past.strayed \subseteq past'.strayed
    BY <1>1
  <2>7. v.norm_qt_log_entry \in DOMAIN norm' \cup {None}
    BY <1>9, <2>2
  <2>8. ~(r.state \in {"fetching", "more"})
    BY <2>2
  <2> QED BY <1>2, <1>6, <1>10, <1>11, <2>2, <2>3, <2>4, <2>5, <2>6, <2>7, <2>8, PointersStep
<1> HIDE DEF e, v, p
<1>14. \A k : x \notin Answered(k)' /\ x \notin Answered(k)
              /\ x \notin StoredEntries(k)' /\ x \notin StoredEntries(k)
  <2>1. \A k : ~Answers(e, k)
    BY <1>4 DEF Answers
  <2> HIDE DEF x
  <2> QED BY <1>12, <2>1, RewrittenEntry, EntriesCounted
<1>15. \A k \in Keys \ past'.strayed : RunsAgree(k)'
  <2> SUFFICES ASSUME NEW k \in Keys \ past'.strayed PROVE RunsAgree(k)'
    OBVIOUS
  <2>1. RunsAgree(k)
    BY <1>1 DEF AgreeInv
  <2> HIDE DEF x
  <2> QED BY <1>7, <1>12, <1>14, <2>1, RunsStay
<1>16. Multi = {} => \A k \in Keys \ (past'.strayed \cup past'.overlapped) : StoresAgree(k)'
  <2> SUFFICES ASSUME Multi = {}, NEW k \in Keys \ (past'.strayed \cup past'.overlapped)
               PROVE  StoresAgree(k)'
    OBVIOUS
  <2>1. StoresAgree(k)
    BY <1>1 DEF AgreeInv
  <2>2. \A o \in Conns \ {c} : conn'[o] = conn[o] /\ data'[o] = data[o]
    BY <1>1, <1>2 DEF OrderlyInv, TableInv, WireInv, TypesOK, AgreeInv, NormTypes
  <2>3. conn'[c].state = "sent"
    BY <1>2 DEF OrderlyInv, TableInv, WireInv, TypesOK
  <2>4. Storers(k)' = Storers(k)
    BY <1>3, <2>2, <2>3 DEF Storers, Ptr
  <2>5. \A o \in Storers(k) : Last(o)' = Last(o)
    BY <1>3, <1>11 DEF Storers, Last
  <2> HIDE DEF x
  <2> QED BY <1>7, <1>12, <1>14, <2>1, <2>4, <2>5, StoresStay
<1> QED BY <1>10, <1>13, <1>15, <1>16 DEF AgreeInv

-----------------------------------------------------------------------------
\* reap_query

LEMMA MeasuredIs ==
    ASSUME NEW times \in Measures, NEW t \in Nat, NEW n \in Nat \ {0}
    PROVE  Measured(times, t, n) \in Measures
<1>1. times.avg \in Nat /\ times.min \in Nat /\ times.max \in Nat
  BY DEF Measures
<1>2. (times.avg * (n - 1) + t) \div n \in Nat
  <2>1. \A a \in Nat, m \in Nat \ {0} : a \div m \in Nat
    OBVIOUS
  <2>2. times.avg * (n - 1) \in Nat
    BY <1>1
  <2>3. times.avg * (n - 1) + t \in Nat
    BY <2>2
  <2> QED BY <2>1, <2>3
<1> QED BY <1>1, <1>2 DEF Measured, Measures

\* A hook writes the entry m over the last one.
LEMMA WriteRewrites ==
    ASSUME LogInv, LogInv', NEW c \in Conns, conn[c].state \in {"sent", "fetching"},
           NEW m \in LogEntry, trace' = [trace EXCEPT ![c] = Rewritten(c, m)]
    PROVE  /\ Rewrites(<<c, Last(c)>>, m)
           /\ <<c, Last(c)>> \in Entries /\ At(<<c, Last(c)>>) = Newest(c)
           /\ Newest(c)' = m /\ Newest(c) \in LogEntry
           /\ \A o \in Conns : Last(o)' = Last(o)
           /\ \A o \in Conns \ {c} : trace'[o] = trace[o]
<1> DEFINE log == Rewritten(c, m)
<1>1. trace[c] \in Seq(LogEntry) /\ trace[c] # <<>> /\ Last(c) = Len(trace[c])
  BY DEF LogInv, LogTypes, Logged, Last
<1>2. /\ Len(trace[c]) \in 1..Len(trace[c]) /\ Len(trace[c]) \in Nat
      /\ trace[c][Last(c)] \in LogEntry
  BY <1>1, LenProperties, ElementOfSeq
<1>3. /\ log \in Seq(LogEntry) /\ Len(log) = Len(trace[c]) /\ log[Len(log)] = m
      /\ \A i \in 1..Len(log) : i # Len(log) => log[i] = trace[c][i]
      /\ log # <<>>
  BY <1>1, <1>2, ExceptSeq DEF Rewritten
<1>4. trace' = [trace EXCEPT ![c] = log]
  OBVIOUS
<1> HIDE DEF log
<1>5. Grows(log, trace[c])
  BY <1>3 DEF Grows
<1>6. /\ Rewrites(<<c, Len(log)>>, log[Len(log)])
      /\ <<c, Len(log)>> \in Entries
      /\ At(<<c, Len(log)>>) = trace[c][Len(log)]
  BY <1>3, <1>4, <1>5, GrowthRewrites
<1>7. trace'[c] = log /\ \A o \in Conns \ {c} : trace'[o] = trace[o]
  BY <1>4 DEF LogInv, LogTypes
<1>8. \A o \in Conns : Last(o)' = Last(o)
  BY <1>3, <1>7 DEF Last
<1>9. Newest(c)' = m /\ Newest(c) \in LogEntry
  BY <1>1, <1>2, <1>3, <1>7 DEF Newest, Last
<1> QED BY <1>1, <1>3, <1>6, <1>7, <1>8, <1>9 DEF Newest

LEMMA ReapIs ==
    ASSUME OrderlyInv, Orderly, NEW c \in Conns, ReapResultSet(c) \/ ReapNoResult(c)
    PROVE  /\ conn[c].state = "sent" /\ conn[c].running \in Keys /\ conn[c].active \in BOOLEAN
           /\ \E r : /\ conn' = [conn EXCEPT ![c] = r]
                     /\ r.running = conn[c].running /\ r.active = conn[c].active
                     /\ r.state = IF ReapResultSet(c) THEN "fetching" ELSE "ready"
           /\ ReapNoResult(c) => conn[c].running \notin ResultSets /\ ~ReapResultSet(c)
<1> DEFINE f == [ConnAfterReceive(c) EXCEPT !.state = "fetching"]
           s == [ConnAfterReceive(c) EXCEPT !.state = "ready"]
           g == IF conn[c].active THEN Unhooked(s) ELSE s
<1>1. conn[c].state = "sent" /\ conn[c] \in ConnectionData /\ Tidy(c) /\ TableInv
  BY ConnIs DEF ReapResultSet, ReapNoResult, OrderlyInv
<1>2. conn[c].running \in Keys /\ conn[c].active \in BOOLEAN
  BY <1>1, ConnIs DEF Plain, Hooked, ConnectionData
<1>3. NextPart(c)[1] = conn[c].running
  <2>1. CASE conn[c].hook = "replay"
    <3>1. conn[c].key = conn[c].running
      BY <1>1, <2>1, ConnIs DEF Hooked
    <3>2. NextPart(c) = <<conn[c].key, 1>>
      BY <1>1, <2>1, NextFromCache
    <3> QED BY <3>1, <3>2
  <2>2. CASE conn[c].hook # "replay"
    <3>1. 1 \in 1..Parts(conn[c].running) /\ net[c] = From(conn[c].running, 1)
      BY <1>1, <2>2, SentIsOrderly
    <3>2. NextPart(c) = <<conn[c].running, 1>>
      BY <1>1, <1>2, <2>2, <3>1, NextFromServer DEF TableInv
    <3> QED BY <3>2
  <2> QED BY <2>1, <2>2
<1>4. ReapNoResult(c) => conn[c].running \notin ResultSets /\ ~ReapResultSet(c)
  BY <1>3 DEF ReapNoResult, ReapResultSet, HasFields
<1>5. /\ f.running = conn[c].running /\ f.active = conn[c].active /\ f.state = "fetching"
      /\ g.running = conn[c].running /\ g.active = conn[c].active /\ g.state = "ready"
  BY <1>1 DEF ConnAfterReceive, ConnectionData, Unhooked
<1>6. CASE ReapResultSet(c)
  <2>1. conn' = [conn EXCEPT ![c] = f]
    BY <1>6 DEF ReapResultSet, Update
  <2> HIDE DEF f, g
  <2> QED BY <1>1, <1>2, <1>4, <1>5, <1>6, <2>1
<1>7. CASE ReapNoResult(c)
  <2>1. conn' = [conn EXCEPT ![c] = g]
    BY <1>7 DEF ReapNoResult, GiveUpRecording, Update
  <2> HIDE DEF f, g
  <2> QED BY <1>1, <1>2, <1>4, <1>5, <1>7, <2>1
<1> QED BY <1>6, <1>7

\* One entry of the normalized log, that of the pointer, counts one more.
LEMMA CountedIs ==
    ASSUME NormTypes, NEW c \in Conns, NEW t \in Nat, NormRunTime(c, t),
           NEW p, p = Ptr(c), p \in DOMAIN norm \cup {None}
    PROVE  /\ DOMAIN norm' = DOMAIN norm /\ norm' \in [DOMAIN norm -> NormEntry]
           /\ \A k \in DOMAIN norm : /\ k # p => norm'[k] = norm[k]
                                     /\ norm'[k].store = norm[k].store
                                     /\ norm'[k].occurences >= norm[k].occurences
           /\ p # None =>
                /\ norm'[p].occurences = norm[p].occurences + 1
                /\ norm'[p].run = Measured(norm[p].run, t, norm[p].occurences + 1)
<1>1. CASE p = None
  <2>1. norm' = norm
    BY <1>1 DEF NormRunTime, Ptr
  <2>2. \A k \in DOMAIN norm : norm[k].occurences \in Nat
    BY DEF NormTypes, NormEntry
  <2> QED BY <1>1, <2>1, <2>2 DEF NormTypes
<1>2. CASE p # None
  <2> DEFINE old == norm[p]
             times == Measured(old.run, t, old.occurences + 1)
             new == [old EXCEPT !.occurences = old.occurences + 1, !.run = times]
  <2>1. norm \in [DOMAIN norm -> NormEntry] /\ p \in DOMAIN norm /\ old \in NormEntry
    BY <1>2 DEF NormTypes
  <2>2. old.occurences \in Nat /\ old.run \in Measures /\ times \in Measures
    <3>1. old.occurences \in Nat /\ old.run \in Measures
      BY <2>1 DEF NormEntry
    <3> QED BY <3>1, MeasuredIs
  <2>3. norm' = [norm EXCEPT ![p] = new]
    <3> DEFINE one == [norm EXCEPT ![p] = [old EXCEPT !.occurences = old.occurences + 1]]
    <3>1. one[p] = [old EXCEPT !.occurences = old.occurences + 1] /\ one[p].run = old.run
      BY <2>1 DEF NormEntry
    <3>2. norm' = [one EXCEPT ![p].run = times]
      BY <1>2, <2>1, <3>1 DEF NormRunTime, Ptr
    <3>3. [one[p] EXCEPT !.run = times] = new
      BY <3>1
    <3> HIDE DEF new, times
    <3> QED BY <2>1, <3>2, <3>3
  <2>4. /\ new \in NormEntry /\ new.occurences = old.occurences + 1 /\ new.run = times
        /\ new.store = old.store
    <3> DEFINE half == [old EXCEPT !.occurences = old.occurences + 1]
    <3>1. /\ half \in NormEntry /\ half.occurences = old.occurences + 1
          /\ half.store = old.store
      <4> HIDE DEF old
      <4> QED BY <2>1, <2>2 DEF NormEntry
    <3>2. new = [half EXCEPT !.run = times]
      OBVIOUS
    <3> HIDE DEF times, old, half, new
    <3> QED BY <2>2, <3>1, <3>2 DEF NormEntry
  <2> HIDE DEF new, times
  <2>5. DOMAIN norm' = DOMAIN norm /\ norm' \in [DOMAIN norm -> NormEntry]
    BY <2>1, <2>3, <2>4
  <2>6. norm'[p] = new /\ \A k \in DOMAIN norm : k # p => norm'[k] = norm[k]
    BY <2>1, <2>3
  <2>7. \A k \in DOMAIN norm : norm[k].occurences \in Nat
    BY DEF NormTypes, NormEntry
  <2> QED BY <1>2, <2>2, <2>4, <2>5, <2>6, <2>7 DEF times
<1> QED BY <1>1, <1>2

LEMMA AnsweredFinite ==
    ASSUME Orderly, NEW q
    PROVE  IsFiniteSet(Answered(q)) /\ IsFiniteSet(StoredEntries(q))
<1>1. IsFiniteSet(Conns \X (1..MaxSends))
  <2>1. IsFiniteSet(1..MaxSends)
    BY FS_Interval, ConnectionAssumption DEF ConnectionAssumption
  <2> QED BY <2>1, FS_Product DEF Orderly
<1>2. Answered(q) \in SUBSET (Conns \X (1..MaxSends))
  BY DEF Answered, Entries
<1>3. StoredEntries(q) \in SUBSET (Conns \X (1..MaxSends))
  BY <1>2 DEF StoredEntries
<1> QED BY <1>1, <1>2, <1>3, FS_Subset

\* A time is greater than 0 once it is there.
LEMMA TimesAreNats ==
    ASSUME LogInv, NEW q
    PROVE  /\ \A e \in Answered(q) : RunTime[e] \in Nat \ {0}
           /\ \A e \in StoredEntries(q) : StoreTime[e] \in Nat \ {0}
<1>1. \A e \in Entries : At(e) \in LogEntry
  <2> SUFFICES ASSUME NEW e \in Entries PROVE At(e) \in LogEntry
    OBVIOUS
  <2>1. e[1] \in Conns /\ e[2] \in 1..Len(trace[e[1]])
    BY LenProperties DEF Entries, LogInv, LogTypes
  <2>2. trace[e[1]] \in Seq(LogEntry)
    BY <2>1 DEF LogInv, LogTypes
  <2> QED BY <2>1, <2>2, ElementOfSeq DEF At
<1>2. \A e \in Answered(q) : e \in Entries /\ At(e).run_time > 0
  BY EntriesCounted DEF Answers
<1>3. \A e \in StoredEntries(q) : e \in Entries /\ At(e).store_time > 0
  BY EntriesCounted DEF Answers
<1> QED BY <1>1, <1>2, <1>3 DEF RunTime, StoreTime, LogEntry

\* One more run of q, measured.
LEMMA RunsOneMore ==
    ASSUME Orderly, LogInv, NormTypes, NEW q \in DOMAIN norm, q \in DOMAIN norm', RunsAgree(q),
           NEW x, NEW m, Rewrites(x, m), x \notin Answered(q), Answers(m, q), m.run_time \in Nat,
           norm'[q].occurences = norm[q].occurences + 1,
           norm'[q].run = Measured(norm[q].run, m.run_time, norm[q].occurences + 1)
    PROVE  RunsAgree(q)'
<1> DEFINE S == Answered(q)
           t == m.run_time
<1>1. /\ norm[q].occurences = Cardinality(S) /\ Sums(norm[q].run, S, RunTime)
      /\ norm[q].run \in Measures
  BY DEF RunsAgree, NormOf, NormTypes, NormEntry
<1>2. IsFiniteSet(S)
  BY AnsweredFinite
<1>3. Answered(q)' = S \cup {x}
  <2>1. x \in Answered(q)'
    BY RewrittenEntry
  <2>2. \A e : e # x => (e \in Answered(q)' <=> e \in S)
    BY RewrittenElsewhere
  <2> HIDE DEF S
  <2> QED BY <2>1, <2>2
<1>4. \A e \in S : RunTime[e] \in Nat \ {0} /\ RunTime'[e] = RunTime[e]
  <2>1. \A e \in S : e # x
    OBVIOUS
  <2> QED BY <2>1, RewrittenElsewhere, TimesAreNats
<1>5. RunTime'[x] = t /\ t \in Nat \ {0}
  BY RewrittenEntry DEF Answers
<1> DEFINE g == RunTime'
           times == norm[q].run
<1> HIDE DEF S, t
<1>6. Sums(Measured(times, g[x], Cardinality(S) + 1), S \cup {x}, g)
  <2>1. x \notin S /\ times \in Measures /\ Sums(times, S, RunTime) /\ g[x] \in Nat \ {0}
    BY <1>1, <1>5 DEF S
  <2>2. \A e \in S : RunTime[e] \in Nat \ {0} /\ g[e] = RunTime[e]
    BY <1>4
  <2> HIDE DEF g, times
  <2> QED BY <1>2, <2>1, <2>2, SumsOneMore
<1>7. Cardinality(S \cup {x}) = Cardinality(S) + 1
  BY <1>2, FS_AddElement DEF S
<1>8. norm'[q].run = Measured(times, g[x], Cardinality(S) + 1)
  BY <1>1, <1>5 DEF t
<1>9. NormOf(q)' = norm'[q]
  BY DEF NormOf
<1>10. NormOf(q)'.occurences = Cardinality(Answered(q)')
  BY <1>1, <1>3, <1>7, <1>9
<1>11. Sums(NormOf(q)'.run, Answered(q)', RunTime')
  BY <1>3, <1>6, <1>8, <1>9
<1> QED BY <1>10, <1>11 DEF RunsAgree

\* The same of the results stored.
LEMMA StoresOneMore ==
    ASSUME Orderly, LogInv, NormTypes, NEW q \in DOMAIN norm, q \in DOMAIN norm',
           Sums(NormOf(q).store, StoredEntries(q), StoreTime),
           NEW x, NEW m, Rewrites(x, m), x \notin StoredEntries(q), Answers(m, q),
           m.store_time \in Nat \ {0},
           norm'[q].store = Measured(norm[q].store, m.store_time, Cardinality(StoredEntries(q)) + 1)
    PROVE  Sums(NormOf(q)'.store, StoredEntries(q)', StoreTime')
<1> DEFINE S == StoredEntries(q)
           t == m.store_time
           g == StoreTime'
           times == norm[q].store
<1>1. Sums(times, S, StoreTime) /\ times \in Measures
  BY DEF NormOf, NormTypes, NormEntry
<1>2. IsFiniteSet(S)
  BY AnsweredFinite
<1>3. StoredEntries(q)' = S \cup {x}
  <2>1. x \in StoredEntries(q)'
    BY RewrittenEntry
  <2>2. \A e : e # x => (e \in StoredEntries(q)' <=> e \in S)
    BY RewrittenElsewhere
  <2> HIDE DEF S
  <2> QED BY <2>1, <2>2
<1>4. \A e \in S : StoreTime[e] \in Nat \ {0} /\ g[e] = StoreTime[e]
  <2>1. \A e \in S : e # x /\ e \in Answered(q)
    BY EntriesCounted
  <2> QED BY <2>1, RewrittenElsewhere, TimesAreNats
<1>5. g[x] = t /\ t \in Nat \ {0} /\ x \notin S
  BY RewrittenEntry DEF Answers
<1>6. norm'[q].store = Measured(times, g[x], Cardinality(S) + 1) /\ NormOf(q)' = norm'[q]
  BY <1>5 DEF NormOf
<1> HIDE DEF S, t, times
<1>7. Sums(Measured(times, g[x], Cardinality(S) + 1), S \cup {x}, g)
  <2> HIDE DEF g
  <2> QED BY <1>1, <1>2, <1>4, <1>5, SumsOneMore
<1> QED BY <1>3, <1>6, <1>7

\* Nothing changes of the results stored of q.
LEMMA NoneStored ==
    ASSUME NEW x, NEW m, Rewrites(x, m), NEW q,
           Sums(NormOf(q).store, StoredEntries(q), StoreTime),
           x \notin StoredEntries(q), x \notin StoredEntries(q)',
           NormOf(q)'.store = NormOf(q).store
    PROVE  /\ StoredEntries(q)' = StoredEntries(q)
           /\ Sums(NormOf(q)'.store, StoredEntries(q)', StoreTime')
<1>1. StoredEntries(q)' = StoredEntries(q)
  <2>1. \A e : e # x => (e \in StoredEntries(q)' <=> e \in StoredEntries(q))
    BY RewrittenElsewhere
  <2> HIDE DEF StoredEntries
  <2> QED BY <2>1
<1>2. \A e \in StoredEntries(q) : StoreTime[e] = StoreTime'[e]
  <2>1. \A e \in StoredEntries(q) : e # x /\ e \in Answered(q)
    BY EntriesCounted
  <2> QED BY <2>1, RewrittenElsewhere
<1>3. Sums(NormOf(q).store, StoredEntries(q), StoreTime')
  BY <1>2, SumsSame
<1> QED BY <1>1, <1>3

\* What reap_query does to the logs: the time t makes the entry m of the last one,
\* and the pointer in v is kept only with a result set.
Reaped(c, t, m, v, r) ==
    /\ m.run_time = t /\ m.store_time = 0 /\ m.query = conn[c].running
    /\ m.counted = Newest(c).counted
    /\ "eligible_for_caching" \in m.flags <=> conn[c].active
    /\ NormRunTime(c, t)
    /\ Rewrites(<<c, Last(c)>>, m) /\ Newest(c)' = m
    /\ \A o \in Conns : Last(o)' = Last(o) /\ (o # c => trace'[o] = trace[o])
    /\ conn[c].state = "sent" /\ Newest(c).run_time = 0 /\ Newest(c).store_time = 0
    /\ At(<<c, Last(c)>>) = Newest(c)
    /\ conn' = [conn EXCEPT ![c] = r]
    /\ r.running = conn[c].running /\ r.active = conn[c].active
    /\ r.state \in {"fetching", "ready"}
    /\ r.state = "ready" => conn[c].running \notin ResultSets
    /\ data' = [data EXCEPT ![c] = v]
    /\ v.norm_qt_log_entry = IF r.state = "ready" /\ r.active THEN None ELSE Ptr(c)
    /\ past' = [past EXCEPT !.overlapped = Overlapped(c), !.strayed = Strayed(c),
                            !.follows[c] =
                                IF ~r.active THEN @
                                ELSE IF r.state = "fetching" /\ m.counted
                                     THEN r.running ELSE None]

LEMMA ReapLogIs ==
    ASSUME OrderlyInv, Orderly, LogInv, LogInv', AgreeInv, NEW c \in Conns, ReapLogged(c)
    PROVE  \E t \in Nat \ {0}, m \in LogEntry,
              v \in [norm_qt_log_entry: Keys \cup {None}, multi_q_enabled: BOOLEAN] :
                  \E r : Reaped(c, t, m, v, r)
<1> DEFINE o == Newest(c)
<1>1. ~ReapFails(c)
  BY Disabled DEF OrderlyInv
<1>2. PICK t \in Times(c) :
        /\ \/ ReapResultSet(c) /\ UNCHANGED data
           \/ /\ ReapNoResult(c)
              /\ data' = IF conn[c].active THEN [data EXCEPT ![c].norm_qt_log_entry = None] ELSE data
        /\ TraceRunTime(c, t)
        /\ NormRunTime(c, t)
        /\ past' = [past EXCEPT !.overlapped = Overlapped(c), !.strayed = Strayed(c),
                                !.follows[c] =
                                    IF ~conn[c].active THEN @
                                    ELSE IF conn'[c].state = "fetching" /\ o.counted
                                         THEN conn[c].running ELSE None]
  BY <1>1 DEF ReapLogged, Newest
<1> DEFINE m == [o EXCEPT !.run_time = t]
<1>3. t \in Nat \ {0}
  BY TraceAssumption DEF TraceAssumption, Times
<1>4. ReapResultSet(c) \/ ReapNoResult(c)
  BY <1>2
<1>5. conn[c].state = "sent"
  BY <1>4, ReapIs
<1>6. PICK r : /\ conn' = [conn EXCEPT ![c] = r]
               /\ r.running = conn[c].running /\ r.active = conn[c].active
               /\ r.state = IF ReapResultSet(c) THEN "fetching" ELSE "ready"
  BY <1>4, ReapIs, Zenon
<1>7. conn'[c] = r
  BY <1>6 DEF OrderlyInv, TableInv, WireInv, TypesOK
<1>8. o \in LogEntry
  BY <1>5, LastEntry DEF Newest
<1>9. Points(conn[c], o, Ptr(c), past.follows[c], past.strayed)
  BY DEF AgreeInv
<1>10. /\ m \in LogEntry /\ m.run_time = t /\ m.store_time = 0 /\ m.query = conn[c].running
       /\ m.counted = o.counted /\ ("eligible_for_caching" \in m.flags <=> conn[c].active)
  <2>1. /\ o.store_time = 0 /\ o.query = conn[c].running
        /\ "eligible_for_caching" \in o.flags <=> conn[c].active
    BY <1>5, <1>9 DEF Points
  <2> HIDE DEF o
  <2>2. /\ m \in LogEntry /\ m.run_time = t /\ m.store_time = o.store_time /\ m.query = o.query
        /\ m.counted = o.counted /\ m.flags = o.flags
    BY <1>3, <1>8 DEF LogEntry
  <2> HIDE DEF m
  <2> QED BY <2>1, <2>2
<1>11. trace' = [trace EXCEPT ![c] = Rewritten(c, m)]
  <2>1. trace[c] \in Seq(LogEntry) /\ trace \in [Conns -> Seq(LogEntry)]
    BY DEF LogInv, LogTypes
  <2> QED BY <1>2, <2>1 DEF TraceRunTime, Rewritten, Newest
<1> HIDE DEF m
<1>12. /\ Rewrites(<<c, Last(c)>>, m) /\ Newest(c)' = m
       /\ \A k \in Conns : Last(k)' = Last(k) /\ (k # c => trace'[k] = trace[k])
       /\ At(<<c, Last(c)>>) = Newest(c)
  BY <1>5, <1>10, <1>11, WriteRewrites
<1> DEFINE p == IF r.state = "ready" /\ r.active THEN None ELSE Ptr(c)
           v == [norm_qt_log_entry |-> p, multi_q_enabled |-> data[c].multi_q_enabled]
<1>13. data' = [data EXCEPT ![c] = v]
  <2>1. /\ data \in [Conns -> [norm_qt_log_entry: Keys \cup {None}, multi_q_enabled: BOOLEAN]]
        /\ data[c] = [norm_qt_log_entry |-> Ptr(c), multi_q_enabled |-> data[c].multi_q_enabled]
    BY DEF AgreeInv, NormTypes, Ptr
  <2>2. CASE p = None /\ r.state = "ready" /\ r.active
    <3>1. data' = [data EXCEPT ![c].norm_qt_log_entry = None]
      BY <1>2, <1>6, <2>2
    <3>2. [data[c] EXCEPT !.norm_qt_log_entry = None] = v
      <4>1. [data[c] EXCEPT !.norm_qt_log_entry = None]
                = [norm_qt_log_entry |-> None, multi_q_enabled |-> data[c].multi_q_enabled]
        BY <2>1
      <4> QED BY <2>2, <4>1
    <3> HIDE DEF v
    <3> QED BY <2>1, <3>1, <3>2
  <2>3. CASE p = Ptr(c) /\ ~(r.state = "ready" /\ r.active)
    <3>1. data' = data
      BY <1>2, <1>6, <2>3, ReapIs
    <3>2. v = data[c]
      BY <2>1, <2>3
    <3> HIDE DEF v
    <3> QED BY <2>1, <3>1, <3>2
  <2> QED BY <2>2, <2>3
<1>14. v \in [norm_qt_log_entry: Keys \cup {None}, multi_q_enabled: BOOLEAN]
  <2>1. Ptr(c) \in Keys \cup {None} /\ data[c].multi_q_enabled \in BOOLEAN
    BY DEF AgreeInv, NormTypes, Ptr
  <2> QED BY <2>1
<1>15. v.norm_qt_log_entry = p
  OBVIOUS
<1>16. past' = [past EXCEPT !.overlapped = Overlapped(c), !.strayed = Strayed(c),
                            !.follows[c] = IF ~r.active THEN @
                                           ELSE IF r.state = "fetching" /\ m.counted
                                                THEN r.running ELSE None]
  BY <1>2, <1>6, <1>7, <1>10
<1>17. r.state \in {"fetching", "ready"} /\ (r.state = "ready" => conn[c].running \notin ResultSets)
  BY <1>4, <1>6, ReapIs
<1>18. NormRunTime(c, t) /\ conn[c].state = "sent" /\ o.run_time = 0 /\ o.store_time = 0
  BY <1>2, <1>5, <1>9 DEF Points
<1> HIDE DEF v
<1>19. Reaped(c, t, m, v, r)
  BY <1>6, <1>10, <1>12, <1>13, <1>15, <1>16, <1>17, <1>18, Zenon DEF Reaped
<1> QED BY <1>3, <1>10, <1>14, <1>19

LEMMA ReapAgrees ==
    ASSUME OrderlyInv, Orderly, LogInv, LogInv', AgreeInv, NEW c \in Conns, ReapLogged(c)
    PROVE  AgreeInv'
<1>1. PICK t \in Nat \ {0}, m \in LogEntry,
           v \in [norm_qt_log_entry: Keys \cup {None}, multi_q_enabled: BOOLEAN] :
              \E r : Reaped(c, t, m, v, r)
  BY ReapLogIs
<1>2. PICK r : Reaped(c, t, m, v, r)
  BY <1>1
<1> DEFINE p == Ptr(c)
           f == past.follows[c]
           x == <<c, Last(c)>>
<1>3. /\ m.run_time = t /\ m.store_time = 0 /\ m.query = r.running
      /\ "eligible_for_caching" \in m.flags <=> r.active
      /\ Rewrites(x, m) /\ Newest(c)' = m
      /\ conn' = [conn EXCEPT ![c] = r] /\ r.state \in {"fetching", "ready"}
      /\ v.norm_qt_log_entry = IF r.state = "ready" /\ r.active THEN None ELSE p
      /\ data' = [data EXCEPT ![c] = v]
  BY <1>2, Zenon DEF Reaped
<1>4. /\ conn[c].state = "sent" /\ Newest(c).run_time = 0 /\ Newest(c).store_time = 0
      /\ At(x) = Newest(c)
      /\ \A o \in Conns : Last(o)' = Last(o) /\ (o # c => trace'[o] = trace[o])
  BY <1>2, Zenon DEF Reaped
<1>5. /\ conn'[c] = r /\ \A o \in Conns \ {c} : conn'[o] = conn[o]
      /\ data'[c] = v /\ \A o \in Conns \ {c} : data'[o] = data[o]
  BY <1>3 DEF OrderlyInv, TableInv, WireInv, TypesOK, AgreeInv, NormTypes
\* What the pointer was.
<1>6. /\ r.active => p = IF m.counted THEN r.running ELSE None
      /\ ~r.active => p = f
      /\ p \in DOMAIN norm \cup {None}
  <2>1. r.running = conn[c].running /\ r.active = conn[c].active /\ m.counted = Newest(c).counted
    BY <1>2, Zenon DEF Reaped
  <2>2. Points(conn[c], Newest(c), p, f, past.strayed) /\ Counting(conn[c], p)
    BY DEF AgreeInv
  <2> QED BY <1>4, <2>1, <2>2 DEF Points, Counting
<1>7. NormRunTime(c, t) /\ NormTypes
  BY <1>2 DEF Reaped, AgreeInv
<1>8. /\ DOMAIN norm' = DOMAIN norm /\ norm' \in [DOMAIN norm -> NormEntry]
      /\ \A k \in DOMAIN norm : /\ k # p => norm'[k] = norm[k]
                                /\ norm'[k].store = norm[k].store
                                /\ norm'[k].occurences >= norm[k].occurences
      /\ p # None =>
           /\ norm'[p].occurences = norm[p].occurences + 1
           /\ norm'[p].run = Measured(norm[p].run, t, norm[p].occurences + 1)
  BY <1>6, <1>7, CountedIs
<1>9. \A k \in Keys : /\ k # p => NormOf(k)' = NormOf(k)
                      /\ NormOf(k)'.store = NormOf(k).store
  BY <1>8 DEF NormOf
<1>10. /\ past'.overlapped = Overlapped(c) /\ past'.strayed = Strayed(c)
       /\ past'.follows[c] = IF ~r.active THEN f
                             ELSE IF r.state = "fetching" /\ m.counted THEN r.running ELSE None
       /\ \A o \in Conns \ {c} : past'.follows[o] = past.follows[o]
       /\ past' \in [follows: [Conns -> Keys \cup {None}], strayed: SUBSET Keys,
                     overlapped: SUBSET Keys]
  <2> DEFINE g == IF ~r.active THEN f
                  ELSE IF r.state = "fetching" /\ m.counted THEN r.running ELSE None
             H == [Conns -> Keys \cup {None}]
  <2>1. past \in [follows: H, strayed: SUBSET Keys, overlapped: SUBSET Keys]
    BY DEF AgreeInv, NormTypes
  <2>2. Overlapped(c) \in SUBSET Keys /\ Strayed(c) \in SUBSET Keys /\ f \in Keys \cup {None}
    BY <2>1 DEF Overlapped, Strayed
  <2>3. g \in Keys \cup {None}
    BY <1>3, <2>2 DEF LogEntry
  <2>4. past' = [past EXCEPT !.overlapped = Overlapped(c), !.strayed = Strayed(c), !.follows[c] = g]
    BY <1>2 DEF Reaped
  <2> HIDE DEF g, f
  <2> DEFINE one == [past EXCEPT !.overlapped = Overlapped(c), !.strayed = Strayed(c)]
  <2>5. /\ one \in [follows: H, strayed: SUBSET Keys, overlapped: SUBSET Keys]
        /\ one.overlapped = Overlapped(c) /\ one.strayed = Strayed(c) /\ one.follows = past.follows
    <3> HIDE DEF H
    <3> QED BY <2>1, <2>2
  <2>6. past' = [one EXCEPT !.follows = [past.follows EXCEPT ![c] = g]]
    BY <2>4, <2>5
  <2> HIDE DEF one
  <2>7. [past.follows EXCEPT ![c] = g] \in H
    BY <2>1, <2>3
  <2>8. /\ past'.overlapped = Overlapped(c) /\ past'.strayed = Strayed(c)
        /\ past'.follows = [past.follows EXCEPT ![c] = g]
        /\ past' \in [follows: H, strayed: SUBSET Keys, overlapped: SUBSET Keys]
    <3> HIDE DEF H
    <3> QED BY <2>5, <2>6, <2>7
  <2>9. past'.follows[c] = g /\ \A o \in Conns \ {c} : past'.follows[o] = past.follows[o]
    BY <2>1, <2>8
  <2> QED BY <2>8, <2>9 DEF g
<1>11. /\ past.strayed \subseteq past'.strayed /\ past.overlapped \subseteq past'.overlapped
       /\ ~r.active => p \in past'.strayed \cup {None}
  <2>1. r.active = conn[c].active
    BY <1>2 DEF Reaped
  <2> QED BY <1>6, <1>10, <2>1 DEF Strayed, Overlapped
<1>12. NormTypes'
  BY <1>3, <1>7, <1>8, <1>10 DEF NormTypes
<1> HIDE DEF p, f, x
<1>13. \A o \in Conns :
          /\ Points(conn[o], Newest(o), Ptr(o), past.follows[o], past.strayed)'
          /\ Counting(conn[o], Ptr(o))'
  <2> DEFINE w == v.norm_qt_log_entry
  <2>1. w = IF r.state = "ready" /\ r.active THEN None ELSE p
    BY <1>3
  <2>2. Points(r, m, w, past'.follows[c], past'.strayed)
    BY <1>3, <1>6, <1>10, <1>11, <2>1 DEF Points
  <2>3. Points(r, Newest(c)', w, past'.follows[c], past'.strayed)
    BY <1>3, <2>2
  <2>4. w \in DOMAIN norm' \cup {None}
    BY <1>6, <1>8, <2>1
  <2>5. w # None => norm'[w].occurences > 0
    <3> SUFFICES ASSUME w # None PROVE norm'[w].occurences > 0
      OBVIOUS
    <3>1. w = p /\ p \in DOMAIN norm
      BY <1>6, <2>1
    <3>2. norm[p].occurences \in Nat /\ norm'[p].occurences = norm[p].occurences + 1
      BY <1>7, <1>8, <3>1 DEF NormTypes, NormEntry
    <3> QED BY <3>1, <3>2
  <2> HIDE DEF w
  <2>6. DOMAIN norm \subseteq DOMAIN norm' /\ \A o \in Conns \ {c} : trace'[o] = trace[o]
    BY <1>4, <1>8
  <2> QED BY <1>3, <1>8, <1>10, <1>11, <1>12, <2>3, <2>4, <2>5, <2>6, PointersStep DEF w
<1>14. \A k \in Keys : /\ x \notin Answered(k) /\ x \notin StoredEntries(k)
                       /\ x \notin StoredEntries(k)'
                       /\ x \in Answered(k)' <=> r.active /\ k = p
  <2> SUFFICES ASSUME NEW k \in Keys
               PROVE  /\ x \notin Answered(k) /\ x \notin StoredEntries(k)
                      /\ x \notin StoredEntries(k)'
                      /\ x \in Answered(k)' <=> r.active /\ k = p
    OBVIOUS
  <2>1. x \notin Answered(k) /\ x \notin StoredEntries(k)
    BY <1>4, EntriesCounted DEF Answers
  <2>2. x \notin StoredEntries(k)' /\ (x \in Answered(k)' <=> Answers(m, k))
    BY <1>3, RewrittenEntry
  <2>3. Answers(m, k) <=> r.active /\ m.counted /\ k = r.running
    BY <1>3 DEF Answers
  <2>4. k # None
    BY NoneIs
  <2> QED BY <1>6, <2>1, <2>2, <2>3, <2>4
<1>15. \A k \in Keys \ past'.strayed : RunsAgree(k)'
  <2> SUFFICES ASSUME NEW k \in Keys \ past'.strayed PROVE RunsAgree(k)'
    OBVIOUS
  <2>1. RunsAgree(k)
    BY <1>11 DEF AgreeInv
  <2>2. CASE k # p
    BY <1>3, <1>9, <1>14, <2>1, <2>2, RunsStay
  <2>3. CASE k = p
    <3>1. r.active /\ k \in DOMAIN norm /\ k \in DOMAIN norm'
      <4>1. k # None
        BY NoneIs
      <4> QED BY <1>6, <1>8, <1>11, <2>3, <4>1
    <3>2. x \notin Answered(k) /\ x \in Answered(k)'
      BY <1>14, <2>3, <3>1
    <3>3. Answers(m, k)
      BY <1>3, <3>2, RewrittenEntry
    <3>4. /\ norm'[k].occurences = norm[k].occurences + 1
          /\ norm'[k].run = Measured(norm[k].run, m.run_time, norm[k].occurences + 1)
      <4>1. p # None
        BY <2>3, NoneIs
      <4> QED BY <1>3, <1>8, <2>3, <4>1
    <3>5. m.run_time \in Nat
      BY <1>3
    <3> QED BY <1>3, <1>7, <2>1, <3>1, <3>2, <3>3, <3>4, <3>5, RunsOneMore
  <2> QED BY <2>2, <2>3
<1>16. Multi = {} => \A k \in Keys \ (past'.strayed \cup past'.overlapped) : StoresAgree(k)'
  <2> SUFFICES ASSUME Multi = {}, NEW k \in Keys \ (past'.strayed \cup past'.overlapped)
               PROVE  StoresAgree(k)'
    OBVIOUS
  <2>1. StoresAgree(k)
    BY <1>11 DEF AgreeInv
  <2>2. c \notin Storers(k) /\ \A o \in Conns \ {c} : o \in Storers(k)' <=> o \in Storers(k)
    BY <1>4, <1>5 DEF Storers, Ptr
  <2>3. CASE k # p
    <3>1. c \notin Storers(k)'
      <4>1. v.norm_qt_log_entry # k
        BY <1>3, <2>3, NoneIs
      <4> QED BY <1>5, <4>1 DEF Storers, Ptr
    <3>2. Storers(k)' = Storers(k)
      BY <2>2, <3>1 DEF Storers
    <3>3. \A o \in Storers(k) : Last(o)' = Last(o)
      BY <1>4 DEF Storers
    <3> HIDE DEF Storers
    <3> QED BY <1>3, <1>9, <1>14, <2>1, <2>3, <3>2, <3>3, StoresStay
  <2>4. CASE k = p
    <3>1. r.active
      <4>1. k # None
        BY NoneIs
      <4> QED BY <1>11, <2>4, <4>1
    <3>2. Storers(k) = {}
      <4>1. \A o \in Conns \ {c} : ~(conn[o].state = "fetching" /\ Ptr(o) = k)
        BY <1>10, <2>4 DEF Overlapped, Ptr, p
      <4> QED BY <1>4, <4>1 DEF Storers
    <3>3. /\ StoredEntries(k)' = StoredEntries(k)
          /\ Sums(NormOf(k)'.store, StoredEntries(k)', StoreTime')
      <4>1. Sums(NormOf(k).store, StoredEntries(k), StoreTime)
        BY <2>1 DEF StoresAgree
      <4> QED BY <1>3, <1>9, <1>14, <4>1, NoneStored
    <3>4. Storers(k)' = IF r.state = "fetching" THEN {c} ELSE {}
      <4>1. c \in Storers(k)' <=> r.state = "fetching"
        <5>1. r.state = "fetching" => v.norm_qt_log_entry = k
          BY <1>3, <2>4
        <5> QED BY <1>5, <5>1 DEF Storers, Ptr
      <4> QED BY <2>2, <3>2, <4>1 DEF Storers
    <3>5. k \in ResultSets => r.state = "fetching"
      <4>1. k = r.running
        BY <1>6, <2>4, <3>1, NoneIs
      <4>2. r.state = "ready" => r.running \notin ResultSets
        BY <1>2 DEF Reaped
      <4> QED BY <1>3, <4>1, <4>2
    <3>6. k \in ResultSets => Answered(k)' \ StoredEntries(k)' = {x}
      <4> SUFFICES ASSUME k \in ResultSets PROVE Answered(k)' \ StoredEntries(k)' = {x}
        OBVIOUS
      <4>1. Answered(k) \ StoredEntries(k) = {}
        BY <2>1, <3>2 DEF StoresAgree
      <4>2. x \in Answered(k)' /\ x \notin StoredEntries(k)'
        BY <1>14, <2>4, <3>1
      <4>3. \A e : e # x => (e \in Answered(k)' <=> e \in Answered(k))
        BY <1>3, RewrittenElsewhere
      <4> HIDE DEF Answered, StoredEntries
      <4> QED BY <3>3, <4>1, <4>2, <4>3
    <3>7. k \in ResultSets => {<<o, Last(o)'>> : o \in Storers(k)'} = {x}
      BY <1>4, <3>4, <3>5 DEF x
    <3>8. \A a, b \in Storers(k)' : a = b
      BY <3>4
    <3> HIDE DEF Storers, Last
    <3> QED BY <3>3, <3>6, <3>7, <3>8 DEF StoresAgree
  <2> QED BY <2>3, <2>4
<1> QED BY <1>12, <1>13, <1>15, <1>16 DEF AgreeInv

-----------------------------------------------------------------------------
\* store_result

\* One entry of the normalized log, that of the pointer, has one more time.
LEMMA StoredIs ==
    ASSUME NormTypes, NEW c \in Conns, NEW t \in Nat, NormStoreTime(c, t),
           NEW p, p = Ptr(c), p \in DOMAIN norm \cup {None},
           p # None => norm[p].occurences > 0
    PROVE  /\ DOMAIN norm' = DOMAIN norm /\ norm' \in [DOMAIN norm -> NormEntry]
           /\ \A k \in DOMAIN norm : /\ k # p => norm'[k] = norm[k]
                                     /\ norm'[k].run = norm[k].run
                                     /\ norm'[k].occurences = norm[k].occurences
           /\ p # None => norm'[p].store = Measured(norm[p].store, t, norm[p].occurences)
<1>1. CASE p = None
  <2>1. norm' = norm
    BY <1>1 DEF NormStoreTime, Ptr
  <2> QED BY <1>1, <2>1 DEF NormTypes
<1>2. CASE p # None
  <2> DEFINE old == norm[p]
             times == Measured(old.store, t, old.occurences)
             new == [old EXCEPT !.store = times]
  <2>1. norm \in [DOMAIN norm -> NormEntry] /\ p \in DOMAIN norm /\ old \in NormEntry
    BY <1>2 DEF NormTypes
  <2>2. times \in Measures
    <3>1. old.occurences \in Nat \ {0} /\ old.store \in Measures
      BY <1>2, <2>1 DEF NormEntry
    <3> QED BY <3>1, MeasuredIs
  <2>3. norm' = [norm EXCEPT ![p] = new]
    BY <1>2, <2>1 DEF NormStoreTime, Ptr
  <2> HIDE DEF times
  <2>4. /\ new \in NormEntry /\ new.occurences = old.occurences /\ new.run = old.run
        /\ new.store = times
    <3> HIDE DEF old
    <3> QED BY <2>1, <2>2 DEF NormEntry
  <2> HIDE DEF new
  <2>5. DOMAIN norm' = DOMAIN norm /\ norm' \in [DOMAIN norm -> NormEntry]
    BY <2>1, <2>3, <2>4
  <2>6. norm'[p] = new /\ \A k \in DOMAIN norm : k # p => norm'[k] = norm[k]
    BY <2>1, <2>3
  <2> QED BY <1>2, <2>4, <2>5, <2>6 DEF times
<1> QED BY <1>1, <1>2

\* Only a statement with a result set is stored; nothing follows it unless it is
\* a multi statement.
LEMMA OutcomeIs ==
    ASSUME OrderlyInv, Orderly, NEW c \in Conns, NEW F \in SUBSET Fields, Outcome(c, F)
    PROVE  /\ conn[c].state = "fetching" /\ conn[c].running \in ResultSets
           /\ F \subseteq Outcomes
           /\ \E r : /\ conn' = [conn EXCEPT ![c] = r]
                     /\ r.running = conn[c].running /\ r.active = conn[c].active
                     /\ r.state \in {"more", "ready"}
                     /\ Multi = {} => r.state = "ready"
<1> DEFINE q == conn[c].running
<1>1. /\ conn[c].state = "fetching" /\ F \subseteq Outcomes
      /\ conn' = [conn EXCEPT ![c] = Finished(c)] \/ conn' = [conn EXCEPT ![c] = RowsRead(c)]
  BY DEF Outcome, Outcomes, StoreInactive, StoreUnhooked, StoreReplayed, StoreNoTable, StoreAdded,
         StoreRefused, StoreRejected, StoreRecorded, MayStore, Update
<1>2. Tidy(c) /\ TableInv /\ WireInv
  BY DEF OrderlyInv, TableInv
<1>3. /\ q \in Keys /\ q \in ResultSets
      /\ conn[c].hook # "original" => conn[c].key = q
      /\ conn[c].hook # "replay" /\ q \notin Multi => net[c] = From(q, 2)
  BY <1>1, <1>2, ConnIs, ConnectionAssumption DEF Plain, Hooked, Hooks, ConnectionAssumption
<1>4. AfterRows(c) \in {"more", "ready"} /\ AfterRows(c) \in States
  BY DEF AfterRows, States
<1>5. Multi = {} => AfterRows(c) = "ready"
  <2> SUFFICES ASSUME Multi = {} PROVE AfterRows(c) = "ready"
    OBVIOUS
  <2>1. Parts(q) = 2
    BY <1>3 DEF Parts
  <2>2. NextPart(c) = <<q, 2>>
    <3>1. CASE conn[c].hook = "replay"
      BY <1>1, <1>2, <1>3, <3>1, NextFromCache
    <3>2. CASE conn[c].hook # "replay"
      <4>1. 2 \in 1..Parts(q)
        BY <2>1
      <4> HIDE DEF q
      <4> QED BY <1>2, <1>3, <3>2, <4>1, NextFromServer
    <3> QED BY <3>1, <3>2
  <2> QED BY <2>1, <2>2 DEF AfterRows
<1>6. /\ Finished(c).state = AfterRows(c) /\ Finished(c).running = q
      /\ Finished(c).active = conn[c].active
      /\ RowsRead(c).state = AfterRows(c) /\ RowsRead(c).running = q
      /\ RowsRead(c).active = conn[c].active
  BY <1>2, <1>4, FinishedFields, RowsFields
<1> QED BY <1>1, <1>3, <1>4, <1>5, <1>6

LEMMA StoreAgrees ==
    ASSUME OrderlyInv, Orderly, LogInv, LogInv', AgreeInv, NEW c \in Conns, StoreLogged(c)
    PROVE  AgreeInv'
<1> DEFINE o == Newest(c)
           p == Ptr(c)
           f == past.follows[c]
           x == <<c, Last(c)>>
<1>1. PICK t \in Times(c), F \in SUBSET Fields :
        /\ Outcome(c, F) /\ TraceStoreTime(c, t, F) /\ NormStoreTime(c, t)
        /\ data' = data /\ past' = past
  BY DEF StoreLogged
<1>2. t \in Nat \ {0}
  BY TraceAssumption DEF TraceAssumption, Times
<1>3. conn[c].state = "fetching" /\ conn[c].running \in ResultSets /\ F \subseteq Outcomes
  BY <1>1, OutcomeIs
<1>4. PICK r : /\ conn' = [conn EXCEPT ![c] = r]
               /\ r.running = conn[c].running /\ r.active = conn[c].active
               /\ r.state \in {"more", "ready"}
               /\ Multi = {} => r.state = "ready"
  BY <1>1, OutcomeIs, Zenon
<1>5. conn'[c] = r /\ \A a \in Conns \ {c} : conn'[a] = conn[a]
  BY <1>4 DEF OrderlyInv, TableInv, WireInv, TypesOK
<1>6. PICK m \in LogEntry : /\ m.flags = o.flags \cup F /\ m.store_time = t
                           /\ SameRun(m, o)
                           /\ trace' = [trace EXCEPT ![c] = Rewritten(c, m)]
  <2>1. PICK m \in LogEntry : /\ m.flags = trace[c][Last(c)].flags \cup F
                             /\ m.store_time = t /\ SameRun(m, trace[c][Last(c)])
                             /\ trace' = [trace EXCEPT ![c] = Rewritten(c, m)]
    BY <1>1, <1>2, <1>3, StoreTimeIs
  <2> QED BY <2>1 DEF Newest
<1>7. /\ Rewrites(x, m) /\ x \in Entries /\ At(x) = o /\ Newest(c)' = m /\ o \in LogEntry
      /\ \A a \in Conns : Last(a)' = Last(a)
      /\ \A a \in Conns \ {c} : trace'[a] = trace[a]
  BY <1>3, <1>6, WriteRewrites
<1>8. Points(conn[c], o, p, f, past.strayed) /\ Counting(conn[c], p) /\ NormTypes
  BY DEF AgreeInv
<1>9. /\ m.query = o.query /\ m.run_time = o.run_time /\ m.counted = o.counted
      /\ "eligible_for_caching" \in m.flags <=> "eligible_for_caching" \in o.flags
  BY <1>3, <1>6 DEF SameRun, Outcomes
<1>10. p \in DOMAIN norm \cup {None} /\ (p # None => norm[p].occurences > 0)
  BY <1>3, <1>8 DEF Counting
<1>11. /\ DOMAIN norm' = DOMAIN norm /\ norm' \in [DOMAIN norm -> NormEntry]
       /\ \A k \in DOMAIN norm : /\ k # p => norm'[k] = norm[k]
                                 /\ norm'[k].run = norm[k].run
                                 /\ norm'[k].occurences = norm[k].occurences
       /\ p # None => norm'[p].store = Measured(norm[p].store, t, norm[p].occurences)
  BY <1>1, <1>2, <1>8, <1>10, StoredIs
<1>12. \A k \in Keys : /\ NormOf(k)'.run = NormOf(k).run
                       /\ NormOf(k)'.occurences = NormOf(k).occurences
                       /\ k # p => NormOf(k)'.store = NormOf(k).store
  BY <1>11 DEF NormOf
<1>13. NormTypes'
  BY <1>1, <1>8, <1>11 DEF NormTypes
<1> HIDE DEF p, f, o, x
<1>14. \A a \in Conns :
          /\ Points(conn[a], Newest(a), Ptr(a), past.follows[a], past.strayed)'
          /\ Counting(conn[a], Ptr(a))'
  <2> DEFINE v == data[c]
  <2>1. Points(r, m, p, f, past.strayed)
    BY <1>2, <1>3, <1>4, <1>6, <1>8, <1>9 DEF Points
  <2>2. v.norm_qt_log_entry = p /\ data' = [data EXCEPT ![c] = v]
    BY <1>1, <1>8 DEF NormTypes, p, Ptr
  <2>3. Points(r, Newest(c)', v.norm_qt_log_entry, past'.follows[c], past'.strayed)
    BY <1>1, <1>7, <2>1, <2>2 DEF f
  <2>4. \A k \in DOMAIN norm : norm'[k].occurences >= norm[k].occurences
    <3>1. \A k \in DOMAIN norm : norm[k].occurences \in Nat
      BY <1>8 DEF NormTypes, NormEntry
    <3> QED BY <1>11, <3>1
  <2> HIDE DEF v
  <2>5. /\ \A a \in Conns \ {c} : past'.follows[a] = past.follows[a]
        /\ past.strayed \subseteq past'.strayed /\ DOMAIN norm \subseteq DOMAIN norm'
    BY <1>1, <1>11
  <2>6. v.norm_qt_log_entry \in DOMAIN norm' \cup {None}
    BY <1>10, <1>11, <2>2
  <2>7. v.norm_qt_log_entry # None => norm'[v.norm_qt_log_entry].occurences > 0
    BY <1>10, <1>11, <2>2
  <2> QED BY <1>4, <1>7, <1>13, <2>2, <2>3, <2>4, <2>5, <2>6, <2>7, PointersStep
<1>15. \A k : x \in Answered(k)' <=> x \in Answered(k)
  <2>1. \A k : Answers(m, k) <=> Answers(o, k)
    BY <1>9 DEF Answers
  <2> QED BY <1>7, <2>1, RewrittenEntry, EntriesCounted
<1>16. \A k \in Keys \ past'.strayed : RunsAgree(k)'
  <2> SUFFICES ASSUME NEW k \in Keys \ past'.strayed PROVE RunsAgree(k)'
    OBVIOUS
  <2>1. RunsAgree(k)
    BY <1>1 DEF AgreeInv
  <2>2. m.run_time = At(x).run_time
    BY <1>7, <1>9
  <2> QED BY <1>7, <1>12, <1>15, <2>1, <2>2, RunsStay
<1>17. Multi = {} => \A k \in Keys \ (past'.strayed \cup past'.overlapped) : StoresAgree(k)'
  <2> SUFFICES ASSUME Multi = {}, NEW k \in Keys \ (past'.strayed \cup past'.overlapped)
               PROVE  StoresAgree(k)'
    OBVIOUS
  <2>1. StoresAgree(k) /\ RunsAgree(k)
    BY <1>1 DEF AgreeInv
  <2>2. /\ c \notin Storers(k)'
        /\ \A a \in Conns \ {c} : a \in Storers(k)' <=> a \in Storers(k)
    BY <1>1, <1>4, <1>5 DEF Storers, Ptr
  <2>3. x \in Answered(k) <=> conn[c].active /\ o.counted /\ k = conn[c].running
    <3>1. x \in Answered(k) <=> Answers(o, k)
      BY <1>7, EntriesCounted
    <3>2. o.run_time > 0 /\ o.query = conn[c].running
          /\ ("eligible_for_caching" \in o.flags <=> conn[c].active)
      BY <1>3, <1>7, <1>8 DEF Points, LogEntry
    <3> QED BY <3>1, <3>2 DEF Answers
  <2>4. CASE k # p
    <3>1. x \notin Answered(k)
      BY <1>3, <1>8, <2>3, <2>4 DEF Points
    <3>2. x \notin StoredEntries(k) /\ x \notin StoredEntries(k)'
      BY <1>15, <3>1, EntriesCounted
    <3>3. Storers(k)' = Storers(k)
      <4>1. c \notin Storers(k)
        BY <2>4 DEF Storers, p
      <4> QED BY <2>2, <4>1 DEF Storers
    <3>4. \A a \in Storers(k) : Last(a)' = Last(a)
      BY <1>7 DEF Storers
    <3> HIDE DEF Storers
    <3> QED BY <1>7, <1>12, <1>15, <2>1, <2>4, <3>2, <3>3, <3>4, StoresStay
  <2>5. CASE k = p
    <3>1. k # None
      BY NoneIs
    <3>2. conn[c].active /\ o.counted /\ k = conn[c].running
      BY <1>1, <1>3, <1>8, <2>5, <3>1 DEF Points
    <3>3. Storers(k) = {c}
      <4>1. c \in Storers(k)
        BY <1>3, <2>5 DEF Storers, p
      <4>2. \A a, b \in Storers(k) : a = b
        BY <2>1 DEF StoresAgree
      <4> HIDE DEF Storers
      <4> QED BY <4>1, <4>2
    <3>4. Storers(k)' = {}
      <4>1. \A a \in Conns : a \notin Storers(k)'
        BY <2>2, <3>3
      <4> QED BY <4>1 DEF Storers
    <3>5. Answered(k) \ StoredEntries(k) = {x}
      <4>1. {<<a, Last(a)>> : a \in Storers(k)} = {x}
        BY <3>3 DEF x
      <4> QED BY <1>3, <2>1, <3>2, <4>1 DEF StoresAgree
    <3>6. x \in Answered(k) /\ x \notin StoredEntries(k) /\ x \in StoredEntries(k)'
      <4>1. x \in Answered(k) /\ x \notin StoredEntries(k)
        BY <3>5
      <4>2. Answers(m, k)
        BY <1>7, <1>15, <4>1, RewrittenEntry
      <4> QED BY <1>2, <1>6, <1>7, <4>1, <4>2, RewrittenEntry
    <3>7. norm[k].occurences = Cardinality(StoredEntries(k)) + 1 /\ k \in DOMAIN norm
      <4>1. StoredEntries(k) \subseteq Answered(k)
        BY DEF StoredEntries
      <4>2. Answered(k) = StoredEntries(k) \cup {x}
        <5> HIDE DEF Answered, StoredEntries
        <5> QED BY <3>5, <4>1
      <4>3. Cardinality(StoredEntries(k) \cup {x}) = Cardinality(StoredEntries(k)) + 1
        BY <3>6, AnsweredFinite, FS_AddElement
      <4>4. k \in DOMAIN norm
        BY <1>10, <2>5, <3>1
      <4> QED BY <2>1, <4>2, <4>3, <4>4 DEF RunsAgree, NormOf
    <3>8. Sums(NormOf(k)'.store, StoredEntries(k)', StoreTime')
      <4>1. norm'[k].store = Measured(norm[k].store, m.store_time,
                                      Cardinality(StoredEntries(k)) + 1)
        BY <1>6, <1>11, <2>5, <3>1, <3>7
      <4>2. Sums(NormOf(k).store, StoredEntries(k), StoreTime)
        BY <2>1 DEF StoresAgree
      <4>3. Answers(m, k) /\ m.store_time \in Nat \ {0}
        BY <1>2, <1>6, <1>7, <1>15, <3>6, RewrittenEntry
      <4> QED BY <1>7, <1>8, <1>11, <3>6, <3>7, <4>1, <4>2, <4>3, StoresOneMore
    <3>9. Answered(k)' \ StoredEntries(k)' = {}
      <4>1. \A e : e # x => /\ e \in Answered(k)' <=> e \in Answered(k)
                            /\ e \in StoredEntries(k)' <=> e \in StoredEntries(k)
        BY <1>7, RewrittenElsewhere
      <4> HIDE DEF Answered, StoredEntries
      <4> QED BY <3>5, <3>6, <4>1
    <3> HIDE DEF Storers, Answered, StoredEntries
    <3> QED BY <3>4, <3>8, <3>9 DEF StoresAgree
  <2> QED BY <2>4, <2>5
<1> QED BY <1>13, <1>14, <1>16, <1>17 DEF AgreeInv

-----------------------------------------------------------------------------
\* Steps that write to no log, and all of them

LEMMA SameLogsAgree ==
    ASSUME trace' = trace, norm' = norm, NEW q
    PROVE  /\ RunsAgree(q) => RunsAgree(q)'
           /\ StoresAgree(q) /\ Storers(q)' = Storers(q) => StoresAgree(q)'
<1>1. Answered(q)' = Answered(q) /\ StoredEntries(q)' = StoredEntries(q)
  BY DEF Answered, StoredEntries, Entries, At
<1>2. NormOf(q)' = NormOf(q) /\ RunTime' = RunTime /\ StoreTime' = StoreTime
  BY DEF NormOf, RunTime, StoreTime, Entries, At
<1>3. \A c \in Conns : Last(c)' = Last(c)
  BY DEF Last
<1>4. RunsAgree(q) => RunsAgree(q)'
  BY <1>1, <1>2 DEF RunsAgree
<1>5. ASSUME StoresAgree(q), Storers(q)' = Storers(q) PROVE StoresAgree(q)'
  <2>1. {<<c, Last(c)'>> : c \in Storers(q)'} = {<<c, Last(c)>> : c \in Storers(q)}
    BY <1>3, <1>5 DEF Storers
  <2> HIDE DEF Storers, Last
  <2> QED BY <1>1, <1>2, <1>5, <2>1 DEF StoresAgree
<1> QED BY <1>4, <1>5

LEMMA QuietAgrees ==
    ASSUME OrderlyInv, LogInv, AgreeInv, NEW c \in Conns,
           NEW r, conn' = [conn EXCEPT ![c] = r],
           NEW v \in [norm_qt_log_entry: Keys \cup {None}, multi_q_enabled: BOOLEAN],
           data' = [data EXCEPT ![c] = v],
           NEW f \in Keys \cup {None}, past' = [past EXCEPT !.follows[c] = f],
           trace' = trace, norm' = norm,
           Points(r, Newest(c), v.norm_qt_log_entry, f, past.strayed),
           Counting(r, v.norm_qt_log_entry),
           Multi = {} => conn[c].state # "fetching" /\ r.state # "fetching"
    PROVE  AgreeInv'
<1> DEFINE H == [Conns -> Keys \cup {None}]
<1>1. /\ past' \in [follows: H, strayed: SUBSET Keys, overlapped: SUBSET Keys]
      /\ past'.follows[c] = f /\ \A o \in Conns \ {c} : past'.follows[o] = past.follows[o]
      /\ past'.strayed = past.strayed /\ past'.overlapped = past.overlapped
  <2>1. past \in [follows: H, strayed: SUBSET Keys, overlapped: SUBSET Keys]
    BY DEF AgreeInv, NormTypes
  <2>2. /\ [past.follows EXCEPT ![c] = f] \in H
        /\ [past.follows EXCEPT ![c] = f][c] = f
        /\ \A o \in Conns \ {c} : [past.follows EXCEPT ![c] = f][o] = past.follows[o]
    BY <2>1
  <2>3. past' = [past EXCEPT !.follows = [past.follows EXCEPT ![c] = f]]
    OBVIOUS
  <2>4. past'.follows = [past.follows EXCEPT ![c] = f]
    BY <2>1, <2>3
  <2>5. /\ past' \in [follows: H, strayed: SUBSET Keys, overlapped: SUBSET Keys]
        /\ past'.strayed = past.strayed /\ past'.overlapped = past.overlapped
    <3> HIDE DEF H
    <3> QED BY <2>1, <2>2, <2>3
  <2> QED BY <2>2, <2>4, <2>5
<1>2. NormTypes'
  <2>1. NormTypes
    BY DEF AgreeInv
  <2> QED BY <1>1, <2>1 DEF NormTypes
<1>3. Newest(c)' = Newest(c)
  BY DEF Newest, Last
<1>4. \A o \in Conns :
          /\ Points(conn[o], Newest(o), Ptr(o), past.follows[o], past.strayed)'
          /\ Counting(conn[o], Ptr(o))'
  <2>1. \A k \in DOMAIN norm : norm'[k].occurences >= norm[k].occurences
    BY DEF AgreeInv, NormTypes, NormEntry
  <2>2. Points(r, Newest(c)', v.norm_qt_log_entry, past'.follows[c], past'.strayed)
    BY <1>1, <1>3
  <2>3. /\ v.norm_qt_log_entry \in DOMAIN norm' \cup {None}
        /\ r.state \in {"fetching", "more"} /\ v.norm_qt_log_entry # None
               => norm'[v.norm_qt_log_entry].occurences > 0
    BY DEF Counting
  <2>4. /\ \A o \in Conns \ {c} : trace'[o] = trace[o]
        /\ past.strayed \subseteq past'.strayed /\ DOMAIN norm \subseteq DOMAIN norm'
    BY <1>1
  <2> QED BY <1>1, <1>2, <2>1, <2>2, <2>3, <2>4, PointersStep
<1>5. \A q \in Keys \ past'.strayed : RunsAgree(q)'
  <2> SUFFICES ASSUME NEW q \in Keys \ past'.strayed PROVE RunsAgree(q)'
    OBVIOUS
  <2>1. RunsAgree(q)
    BY <1>1 DEF AgreeInv
  <2> QED BY <2>1, SameLogsAgree
<1>6. Multi = {} => \A q \in Keys \ (past'.strayed \cup past'.overlapped) : StoresAgree(q)'
  <2> SUFFICES ASSUME Multi = {}, NEW q \in Keys \ (past'.strayed \cup past'.overlapped)
               PROVE  StoresAgree(q)'
    OBVIOUS
  <2>1. StoresAgree(q)
    BY <1>1 DEF AgreeInv
  <2>2. /\ conn'[c] = r /\ \A o \in Conns \ {c} : conn'[o] = conn[o]
        /\ \A o \in Conns \ {c} : data'[o] = data[o]
    BY DEF OrderlyInv, TableInv, WireInv, TypesOK, AgreeInv, NormTypes
  <2>3. Storers(q)' = Storers(q)
    BY <2>2 DEF Storers, Ptr
  <2> QED BY <2>1, <2>3, SameLogsAgree
<1> QED BY <1>2, <1>4, <1>5, <1>6 DEF AgreeInv

LEMMA OtherAgrees ==
    ASSUME OrderlyInv, Orderly, LogInv, AgreeInv, NEW c \in Conns,
           CloseLogged(c) \/ Unlogged(c)
    PROVE  AgreeInv'
<1> DEFINE T == [norm_qt_log_entry: Keys \cup {None}, multi_q_enabled: BOOLEAN]
<1>1. /\ conn[c] \in ConnectionData /\ Points(conn[c], Newest(c), Ptr(c), past.follows[c], past.strayed)
      /\ Counting(conn[c], Ptr(c))
  BY ConnIs DEF OrderlyInv, AgreeInv
<1>2. data[c] \in T /\ past.follows[c] \in Keys \cup {None}
  BY DEF AgreeInv, NormTypes
<1>3. CASE CloseLogged(c)
  <2>1. Close(c)
    BY <1>3, Disabled DEF CloseLogged, OrderlyInv
  <2>2. conn' = [conn EXCEPT ![c] = Closed] /\ conn[c].state # "fetching"
    BY <2>1 DEF Close, Update, Orderly
  <2>3. NewConnection \in T /\ NewConnection.norm_qt_log_entry = None
    BY DEF NewConnection
  <2>4. Points(Closed, Newest(c), None, None, past.strayed) /\ Counting(Closed, None)
    BY DEF Points, Counting, Closed
  <2>5. Closed.state # "fetching"
    BY DEF Closed
  <2>6. /\ data' = [data EXCEPT ![c] = NewConnection] /\ trace' = trace /\ norm' = norm
        /\ past' = [past EXCEPT !.follows[c] = None]
    BY <1>3 DEF CloseLogged
  <2> QED BY <2>2, <2>3, <2>4, <2>5, <2>6, QuietAgrees
<1>4. CASE Unlogged(c)
  <2>1. NextResult(c) \/ Connect(c)
    BY <1>4, Disabled DEF Unlogged, OrderlyInv
  <2>2. trace' = trace /\ norm' = norm /\ data' = data /\ past' = past
    BY <1>4 DEF Unlogged, logs
  <2>3. data' = [data EXCEPT ![c] = data[c]] /\ past' = [past EXCEPT !.follows[c] = past.follows[c]]
    BY <2>2 DEF AgreeInv, NormTypes
  <2>4. CASE NextResult(c)
    <3> DEFINE r == [ConnAfterReceive(c) EXCEPT !.state = "fetching"]
    <3>1. conn' = [conn EXCEPT ![c] = r] /\ conn[c].state = "more"
      BY <2>4 DEF NextResult, Update
    <3>2. r.state = "fetching" /\ r.running = conn[c].running /\ r.active = conn[c].active
      BY <1>1 DEF ConnAfterReceive, ConnectionData
    <3>3. Multi # {}
      BY <3>1, ConnIs DEF OrderlyInv, Plain, Hooked
    <3> HIDE DEF r
    <3>4. Points(r, Newest(c), Ptr(c), past.follows[c], past.strayed) /\ Counting(r, Ptr(c))
      BY <1>1, <3>1, <3>2 DEF Points, Counting
    <3> QED BY <1>2, <2>2, <2>3, <3>1, <3>3, <3>4, QuietAgrees DEF Ptr
  <2>5. CASE Connect(c)
    <3>1. conn' = [conn EXCEPT ![c] = Connected] /\ conn[c].state = "closed"
      BY <2>5 DEF Connect, Update
    <3>2. Connected.state = "ready"
      BY DEF Connected, Closed
    <3>3. Points(Connected, Newest(c), Ptr(c), past.follows[c], past.strayed)
          /\ Counting(Connected, Ptr(c))
      BY <1>1, <3>1, <3>2 DEF Points, Counting
    <3> QED BY <1>2, <2>2, <2>3, <3>1, <3>2, <3>3, QuietAgrees DEF Ptr
  <2> QED BY <2>1, <2>4, <2>5
<1> QED BY <1>3, <1>4

LEMMA AgreeKept ==
    ASSUME OrderlyInv, Orderly, LogInv, LogInv', AgreeInv, [TraceNext]_tvars
    PROVE  AgreeInv'
<1>1. ASSUME NEW c \in Conns, NEW q \in Keys, SendLogged(c, q) PROVE AgreeInv'
  BY <1>1, SendAgrees
<1>2. ASSUME NEW c \in Conns, ReapLogged(c) \/ StoreLogged(c) \/ CloseLogged(c) \/ Unlogged(c)
      PROVE  AgreeInv'
  BY <1>2, ReapAgrees, StoreAgrees, OtherAgrees
<1>3. ASSUME UNCHANGED conn, UNCHANGED logs PROVE AgreeInv'
  <2>1. /\ conn' = conn /\ trace' = trace /\ norm' = norm /\ data' = data /\ past' = past
    BY <1>3 DEF logs
  <2>2. \A c \in Conns : Newest(c)' = Newest(c) /\ Ptr(c)' = Ptr(c)
    BY <2>1 DEF Newest, Last, Ptr
  <2>3. \A c \in Conns :
          /\ Points(conn[c], Newest(c), Ptr(c), past.follows[c], past.strayed)'
          /\ Counting(conn[c], Ptr(c))'
    <3> HIDE DEF Newest, Ptr
    <3> QED BY <2>1, <2>2 DEF AgreeInv, Points, Counting
  <2>4. NormTypes'
    BY <2>1 DEF AgreeInv, NormTypes
  <2>5. \A q : (RunsAgree(q) => RunsAgree(q)') /\ (StoresAgree(q) => StoresAgree(q)')
    <3>1. \A q : Storers(q)' = Storers(q)
      BY <2>1, <2>2 DEF Storers
    <3> QED BY <2>1, <3>1, SameLogsAgree
  <2> QED BY <2>1, <2>3, <2>4, <2>5 DEF AgreeInv
<1>4. CASE (Tick \/ SetCacheCondition) /\ UNCHANGED logs
  BY <1>3, <1>4 DEF Tick, SetCacheCondition
<1>5. CASE UNCHANGED tvars
  BY <1>3, <1>5 DEF tvars, vars
<1> QED BY <1>1, <1>2, <1>4, <1>5 DEF TraceNext

LEMMA AgreeInit == TraceInit => AgreeInv
<1> SUFFICES ASSUME TraceInit PROVE AgreeInv
  OBVIOUS
<1>1. /\ trace = [c \in Conns |-> <<>>] /\ norm = [q \in {} |-> NewNormEntry]
      /\ data = [c \in Conns |-> NewConnection] /\ past = Past
      /\ conn = [c \in Conns |-> Connected]
  BY DEF TraceInit, Init
<1>2. Entries = {}
  <2> SUFFICES ASSUME NEW e \in Entries PROVE FALSE
    OBVIOUS
  <2>1. e[1] \in Conns /\ e[2] \in 1..MaxSends /\ e[2] <= Len(trace[e[1]])
    BY DEF Entries
  <2>2. Len(trace[e[1]]) = 0
    BY <1>1, <2>1, EmptySeq
  <2> QED BY <2>1, <2>2
<1>3. \A q : Answered(q) = {} /\ StoredEntries(q) = {} /\ NormOf(q) = NewNormEntry
  BY <1>1, <1>2 DEF Answered, StoredEntries, NormOf
<1>4. \A c \in Conns : conn[c].state = "ready" /\ Ptr(c) = None /\ past.follows[c] = None
  BY <1>1 DEF Connected, Closed, Ptr, NewConnection, Past
<1>5. NormTypes
  <2>1. norm \in [{} -> NormEntry] /\ DOMAIN norm = {}
    BY <1>1
  <2>2. NewConnection \in [norm_qt_log_entry: Keys \cup {None}, multi_q_enabled: BOOLEAN]
    BY DEF NewConnection
  <2>3. Past \in [follows: [Conns -> Keys \cup {None}], strayed: SUBSET Keys,
                  overlapped: SUBSET Keys]
    BY DEF Past
  <2> QED BY <1>1, <2>1, <2>2, <2>3 DEF NormTypes
<1>6. \A c \in Conns : /\ Points(conn[c], Newest(c), Ptr(c), past.follows[c], past.strayed)
                       /\ Counting(conn[c], Ptr(c))
  BY <1>4 DEF Points, Counting
<1>7. \A q : RunsAgree(q)
  <2>1. Cardinality({}) = 0
    BY FS_EmptySet
  <2> QED BY <1>3, <2>1 DEF RunsAgree, Sums, NewNormEntry
<1>8. \A q : StoresAgree(q)
  <2>1. \A q : Storers(q) = {}
    BY <1>4 DEF Storers
  <2> QED BY <1>3, <2>1 DEF StoresAgree, Sums, NewNormEntry
<1> QED BY <1>5, <1>6, <1>7, <1>8 DEF AgreeInv

-----------------------------------------------------------------------------
(***************************************************************************)
(* What the invariant says of the logs                                     *)
(***************************************************************************)

\* The part of LogsAgree about the runs.
RunsLogged ==
    \A q \in DOMAIN norm \ past.strayed :
        /\ norm[q].occurences = Cardinality(Answered(q))
        /\ Summarizes(norm[q].run, Answered(q), LAMBDA e : At(e).run_time)

LEMMA RunsAreLogged == Orderly /\ LogInv /\ AgreeInv => RunsLogged
<1> SUFFICES ASSUME Orderly, LogInv, AgreeInv, NEW q \in DOMAIN norm \ past.strayed
             PROVE  /\ norm[q].occurences = Cardinality(Answered(q))
                    /\ Summarizes(norm[q].run, Answered(q), LAMBDA e : At(e).run_time)
  BY DEF RunsLogged
<1> DEFINE S == Answered(q)
           times == norm[q].run
<1>1. q \in Keys
  BY DEF AgreeInv, NormTypes
<1>2. norm[q].occurences = Cardinality(S) /\ Sums(times, S, RunTime)
  BY <1>1 DEF AgreeInv, RunsAgree, NormOf
<1>3. \A e \in S : RunTime[e] = At(e).run_time /\ RunTime[e] \in Nat
  BY TimesAreNats, EntriesCounted
<1>4. IsFiniteSet(S)
  BY AnsweredFinite
<1> HIDE DEF S, times
<1>5. Total(S, LAMBDA e : At(e).run_time) = Cardinality(Units(RunTime, S))
  BY <1>3, <1>4, RunTotalIs
<1>6. Summarizes(times, S, LAMBDA e : At(e).run_time)
  BY <1>2, <1>3, <1>5 DEF Summarizes, Sums
<1> QED BY <1>2, <1>6 DEF S, times

LEMMA LogsDoAgree == Orderly /\ LogInv /\ AgreeInv /\ Multi = {} => LogsAgree
<1> SUFFICES ASSUME Orderly, LogInv, AgreeInv, Multi = {},
                    NEW q \in DOMAIN norm \ past.strayed, q \notin past.overlapped
             PROVE  Summarizes(norm[q].store, StoredEntries(q), LAMBDA e : At(e).store_time)
  BY RunsAreLogged DEF RunsLogged, LogsAgree
<1> DEFINE S == StoredEntries(q)
           times == norm[q].store
<1>1. q \in Keys
  BY DEF AgreeInv, NormTypes
<1>2. Sums(times, S, StoreTime)
  BY <1>1 DEF AgreeInv, StoresAgree, NormOf
<1>3. \A e \in S : StoreTime[e] = At(e).store_time /\ StoreTime[e] \in Nat
  BY TimesAreNats, EntriesCounted
<1>4. IsFiniteSet(S)
  BY AnsweredFinite
<1> HIDE DEF S, times
<1>5. Total(S, LAMBDA e : At(e).store_time) = Cardinality(Units(StoreTime, S))
  BY <1>3, <1>4, StoreTotalIs
<1>6. Summarizes(times, S, LAMBDA e : At(e).store_time)
  BY <1>2, <1>3, <1>5 DEF Summarizes, Sums
<1> QED BY <1>6 DEF S, times

LEMMA AgreeAlways == Orderly => (TraceSpec => [](LogInv /\ AgreeInv))
<1> SUFFICES ASSUME Orderly PROVE TraceSpec => [](LogInv /\ AgreeInv)
  OBVIOUS
<1>1. TraceInit => LogInv /\ AgreeInv
  BY LogInvInit, AgreeInit
<1>2. OrderlyInv /\ LogInv /\ [TraceNext]_tvars => LogInv'
  BY LogStepKeeps
<1>3. OrderlyInv /\ LogInv /\ LogInv' /\ AgreeInv /\ [TraceNext]_tvars => AgreeInv'
  BY AgreeKept
<1> QED BY <1>1, <1>2, <1>3, LogsOnlyWatch, OrderlyConsistent, PTL DEF TraceSpec

\* However many connections run statements, multi statements among them: the
\* normalized log has counted each form as often as the traces have it answered,
\* and its least, average and greatest run time are those of the traces.
THEOREM RunsStayLogged == Orderly => (TraceSpec => []RunsLogged)
<1> SUFFICES ASSUME Orderly PROVE TraceSpec => []RunsLogged
  OBVIOUS
<1>1. LogInv /\ AgreeInv => RunsLogged
  BY RunsAreLogged
<1> QED BY <1>1, AgreeAlways, PTL

\* The same, and of the times it took to store the results, when no statement has
\* more than one: a second store_result writes over the time of the first in the
\* trace, and the normalized log has counted both.
THEOREM LogsStayInAgreement == Orderly /\ Multi = {} => (TraceSpec => []LogsAgree)
<1> SUFFICES ASSUME Orderly, Multi = {} PROVE TraceSpec => []LogsAgree
  OBVIOUS
<1>1. LogInv /\ AgreeInv => LogsAgree
  BY LogsDoAgree
<1> QED BY <1>1, AgreeAlways, PTL
=============================================================================
