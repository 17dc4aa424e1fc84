----------------------------- MODULE PreparedProofs -----------------------------
(***************************************************************************)
(* Prepared statements, whose rows are read to the end before their        *)
(* connection is used for something else, over connections that run plain  *)
(* statements as well.  A replay of a prepared statement leaves the        *)
(* functions of its connection swapped; nevertheless every connection      *)
(* follows the protocol of module StdCache until a statement that goes     *)
(* through those functions ends the process, and even then the cache       *)
(* points to nothing that was freed.                                       *)
(***************************************************************************)
EXTENDS PreparedStmts, ConnectionsProofs, FunctionTheorems

\* What is prepared for the cache has a result set.
PsOrderly == Orderly /\ PsKeys \cap Cacheable \subseteq ResultSets

-----------------------------------------------------------------------------
(***************************************************************************)
(* The invariant                                                           *)
(***************************************************************************)

\* a is a statement, r its connection, w what the server has sent, h what
\* recorded_data holds.

\* No rows to read, and no container.
Resting(a) ==
    /\ a.state \notin {"pending", "using"} /\ a.key = None /\ ~a.record_mode
    /\ a.plugin => a.query \in Cacheable
    /\ a.state = "prepared" => a.query \in PsKeys

\* The header was read and the rows are still to be: from the server only, from
\* the server while they are recorded, or from the cache.
Reading(a, r, w, h) ==
    /\ a.state \in {"pending", "using"}
    /\ a.query \in PsKeys /\ a.query \in ResultSets
    /\ r.state \in {"fetching", "rows"} /\ r.running = a.query
    /\ a.plugin => a.query \in Cacheable
    /\ \/ /\ ~a.plugin /\ a.key = None /\ ~a.record_mode
          /\ r.hook = "original" /\ r.recorded = None /\ w = From(a.query, 2)
       \/ /\ a.plugin /\ a.key = a.query /\ a.record_mode
          /\ r.hook = "record" /\ h = UpTo(a.query, 1) /\ w = From(a.query, 2)
       \/ /\ a.plugin /\ a.key = a.query /\ ~a.record_mode
          /\ r.hook = "replay" /\ r.recorded # None /\ r.pos = 1 /\ w = <<>>

\* c runs plain statements like one without prepared statements.
Plainly(c) == Tidy(c) /\ (conn[c].state # "ready" => conn[c].running \notin PsKeys)

\* A prepared statement left receive_replay and send_replay behind: c is idle, or
\* a plain statement went nowhere.
Replayless(c) ==
    /\ conn[c].hook = "replay" /\ conn[c].recorded = None /\ net[c] = <<>>
    /\ \/ conn[c].state = "ready"
       \/ conn[c].state = "sent" /\ conn[c].running \notin PsKeys

StmtsOf(c) == {s \in Stmts : Owner[s] = c}

\* s has rows to read, and no other statement of c has.
ReadBy(c, s) ==
    /\ Reading(stmt[s], conn[c], net[c], heap[conn[c].recorded])
    /\ \A t \in StmtsOf(c) \ {s} : Resting(stmt[t])

\* c has a statement with rows to read, or only such as have none.
Shared(c) ==
    /\ conn[c].should = conn[c].active
    /\ conn[c].key \notin PsKeys
    /\ \/ /\ Plainly(c) \/ Replayless(c)
          /\ \A s \in StmtsOf(c) : Resting(stmt[s])
       \/ \E s \in StmtsOf(c) : ReadBy(c, s)

\* The process has ended; the cache is as it was.
Crashed ==
    /\ ~NobodyCrashed
    /\ \A c \in Conns : conn[c] = [Closed EXCEPT !.state = "crashed"]
    /\ CachesWholeResult
    /\ \A k \in Keys : Cached(k) => heap[cache[k].cached_query] # None

SharedInv == TableInv /\ \A c \in Conns : Shared(c)

PsInv == stmt \in [Stmts -> Statement] /\ (Crashed \/ SharedInv)

\* Until the process ends every step is one of the protocol of module StdCache, and
\* from then on the cache is left alone.
ImplementsUntilCrash ==
    Std!Init /\ [][Std!NextProtocol \/ (~NobodyCrashed' /\ UNCHANGED <<cache, heap>>)]_(Std!vars)

-----------------------------------------------------------------------------
(***************************************************************************)
(* What a step of one connection leaves alone                              *)
(***************************************************************************)

\* The statements of the other connections are left alone.
OwnStmts(c) ==
    /\ stmt' \in [Stmts -> Statement]
    /\ \A t \in Stmts : Owner[t] # c => stmt'[t] = stmt[t]

\* What every step of c does, before the crash.
Maps(c) ==
    /\ TableInv' /\ Elsewhere(c) /\ OwnStmts(c) /\ Shared(c)'
    /\ UNCHANGED Std!vars \/ Std!ProtocolStep(c)

LEMMA SharedElsewhere ==
    ASSUME TableInv, NEW c \in Conns, Elsewhere(c), OwnStmts(c), NEW o \in Conns \ {c}, Shared(o)
    PROVE  Shared(o)'
<1>1. conn'[o] = conn[o] /\ net'[o] = net[o] /\ \A t \in StmtsOf(o) : stmt'[t] = stmt[t]
  BY DEF Elsewhere, OnItsWire, OwnStmts, StmtsOf
<1>2. StmtsOf(o)' = StmtsOf(o)
  BY DEF StmtsOf
<1>3. CASE Plainly(o) /\ \A t \in StmtsOf(o) : Resting(stmt[t])
  <2>1. Tidy(o)'
    BY <1>3, TidyElsewhere DEF Plainly
  <2>2. Plainly(o)'
    BY <1>1, <1>3, <2>1 DEF Plainly
  <2>3. \A t \in StmtsOf(o) : Resting(stmt'[t])
    BY <1>1, <1>3
  <2> QED BY <1>1, <1>2, <2>2, <2>3 DEF Shared
<1>4. CASE Replayless(o) /\ \A t \in StmtsOf(o) : Resting(stmt[t])
  <2>1. Replayless(o)'
    BY <1>1, <1>4 DEF Replayless
  <2>2. \A t \in StmtsOf(o) : Resting(stmt'[t])
    BY <1>1, <1>4
  <2> QED BY <1>1, <1>2, <2>1, <2>2 DEF Shared
<1>5. ASSUME NEW s \in StmtsOf(o), ReadBy(o, s)
      PROVE  ReadBy(o, s)'
  <2>1. /\ \A t \in StmtsOf(o) \ {s} : Resting(stmt'[t])
        /\ Reading(stmt'[s], conn[o], net[o], heap[conn[o].recorded])
    BY <1>1, <1>5 DEF ReadBy
  <2>2. conn[o].hook = "record" => heap'[conn[o].recorded] = heap[conn[o].recorded]
    <3>1. conn[o].hook = "record" => conn[o].recorded \in Data
      BY ProperIs
    <3> QED BY <3>1 DEF Elsewhere, RecordedBy
  <2>3. Reading(stmt'[s], conn[o], net[o], heap'[conn[o].recorded])
    BY <2>1, <2>2 DEF Reading
  <2> QED BY <1>1, <1>2, <2>1, <2>3 DEF ReadBy
<1> QED BY <1>1, <1>2, <1>3, <1>4, <1>5 DEF Shared

\* One statement changes.
LEMMA AssignIs ==
    ASSUME stmt \in [Stmts -> Statement], NEW c, NEW s \in StmtsOf(c), NEW a \in Statement,
           Assign(s, a)
    PROVE  /\ OwnStmts(c) /\ stmt'[s] = a
           /\ \A t \in StmtsOf(c) \ {s} : stmt'[t] = stmt[t]
BY DEF Assign, OwnStmts, StmtsOf

\* After the step the statement has rows to read.
LEMMA BecomesReading ==
    ASSUME TableInv, NEW c \in Conns, NEW r, Becomes(c, r), NEW s \in StmtsOf(c), NEW a,
           Reading(a, r, net'[c], heap'[r.recorded]), r.should = r.active, r.key \notin PsKeys,
           stmt'[s] = a, \A t \in StmtsOf(c) \ {s} : stmt'[t] = stmt[t] /\ Resting(stmt[t])
    PROVE  Shared(c)'
<1>1. conn'[c] = r
  BY RecordersAfter
<1>2. StmtsOf(c)' = StmtsOf(c)
  BY DEF StmtsOf
<1>3. ReadBy(c, s)'
  BY <1>1, <1>2 DEF ReadBy
<1> QED BY <1>1, <1>2, <1>3 DEF Shared

\* After the step no statement of the connection has.
LEMMA BecomesResting ==
    ASSUME TableInv, NEW c \in Conns, NEW r, Becomes(c, r), NEW s \in StmtsOf(c), NEW a,
           Resting(a), r.recorded = None, r.state = "ready",
           r.hook \in {"original", "replay"}, net'[c] = <<>>,
           r.should = r.active, r.key \notin PsKeys,
           stmt'[s] = a, \A t \in StmtsOf(c) \ {s} : stmt'[t] = stmt[t] /\ Resting(stmt[t])
    PROVE  Shared(c)'
<1>1. conn'[c] = r
  BY RecordersAfter
<1>2. StmtsOf(c)' = StmtsOf(c)
  BY DEF StmtsOf
<1>3. CASE r.hook = "replay"
  <2>1. Replayless(c)'
    BY <1>1, <1>3 DEF Replayless
  <2> QED BY <1>1, <1>2, <2>1 DEF Shared
<1>4. CASE r.hook = "original"
  <2>1. OrderlyConn(r, net'[c])
    BY <1>4, EmptySeq DEF OrderlyConn, Plain, Becomes, Proper
  <2>2. Tidy(c)'
    BY <1>4, <2>1, TidyAfter DEF Holds
  <2>3. Plainly(c)'
    BY <1>1, <2>2 DEF Plainly
  <2> QED BY <1>1, <1>2, <2>3 DEF Shared
<1> QED BY <1>3, <1>4

\* A connection that may send.
LEMMA InSyncIs ==
    ASSUME TableInv, NEW c \in Conns, Shared(c), InSync(c)
    PROVE  /\ Idle(c) /\ conn[c].hook \in {"original", "replay"}
           /\ conn[c] \in ConnectionData /\ conn[c].should = conn[c].active
           /\ conn[c].key \notin PsKeys
           /\ \A s \in StmtsOf(c) : Resting(stmt[s])
<1>1. ~\E s \in StmtsOf(c) : ReadBy(c, s)
  BY DEF ReadBy, Reading, InSync
<1>2. /\ Plainly(c) \/ Replayless(c)
      /\ \A s \in StmtsOf(c) : Resting(stmt[s])
      /\ conn[c].should = conn[c].active /\ conn[c].key \notin PsKeys
  BY <1>1 DEF Shared
<1>3. CASE Plainly(c)
  BY <1>2, <1>3, ConnIs DEF Plainly, InSync, Plain, Hooked, Idle
<1>4. CASE Replayless(c)
  BY <1>2, <1>4, ProperIs DEF Replayless, InSync, Idle
<1> QED BY <1>2, <1>3, <1>4

\* A statement that has rows to read.
LEMMA UnreadIs ==
    ASSUME NEW c \in Conns, Shared(c), NEW s \in StmtsOf(c), Unread(s)
    PROVE  /\ ReadBy(c, s)
           /\ conn[c].should = conn[c].active /\ conn[c].key \notin PsKeys
<1>1. ~Resting(stmt[s])
  BY DEF Resting, Unread
<1> QED BY <1>1 DEF Shared, ReadBy

\* One that has none.
LEMMA ReadIs ==
    ASSUME NEW c \in Conns, Shared(c), NEW s \in StmtsOf(c), ~Unread(s)
    PROVE  Resting(stmt[s])
BY DEF Shared, ReadBy, Reading, Unread

-----------------------------------------------------------------------------
(***************************************************************************)
(* prepare, and the statements that are given up                           *)
(***************************************************************************)

\* Before a step of c.
Before(c) ==
    /\ PsOrderly /\ stmt \in [Stmts -> Statement]
    /\ TableInv /\ Shared(c)

LEMMA BeforeIs ==
    ASSUME NEW c \in Conns, Before(c)
    PROVE  /\ Orderly /\ TableInv /\ WireInv /\ Shared(c)
           /\ stmt \in [Stmts -> Statement]
           /\ conn[c] \in ConnectionData
           /\ heap \in [Data -> Seq(Part) \cup {None}] /\ net \in [Conns -> Seq(Part)]
           /\ PsKeys \subseteq Keys /\ PsKeys \cap Multi = {}
           /\ PsKeys \cap Cacheable \subseteq ResultSets
BY StmtAssumption DEF Before, PsOrderly, TableInv, WireInv, TypesOK, StmtAssumption

LEMMA PrepareMaps ==
    ASSUME NEW c \in Conns, Before(c), NEW s \in StmtsOf(c), NEW q \in PsKeys, Prepare(s, q)
    PROVE  Maps(c)
<1> DEFINE r == [conn[c] EXCEPT !.hook = "original"]
           a == Prepared(q)
<1> USE BeforeIs
<1>1. /\ Idle(c) /\ conn[c] \in ConnectionData /\ conn[c].should = conn[c].active
      /\ conn[c].key \notin PsKeys /\ \A t \in StmtsOf(c) : Resting(stmt[t])
  BY InSyncIs DEF Prepare, StmtsOf
<1>2. /\ conn' = [conn EXCEPT ![c] = r] /\ Assign(s, a)
      /\ UNCHANGED <<cache, heap, clock, conditional, net>>
  BY DEF Prepare, Update, environment, StmtsOf
<1>3. /\ r \in ConnectionData /\ r.hook = "original" /\ r.recorded = None
      /\ r.state = "ready" /\ r.should = r.active /\ r.key \notin PsKeys
  BY <1>1 DEF ConnectionData, Hooks, Idle
<1>4. a \in Statement /\ Resting(a)
  <2> DEFINE b == q \in Cacheable
  <2>1. b \in BOOLEAN
    OBVIOUS
  <2>2. a = [Initted EXCEPT !.state = "prepared", !.query = q, !.plugin = b]
    BY DEF Prepared
  <2>3. b => q \in Cacheable
    OBVIOUS
  <2> HIDE DEF a, b
  <2> QED BY <2>1, <2>2, <2>3 DEF Initted, Statement, Resting
<1> HIDE DEF r, a
<1>5. OwnStmts(c) /\ stmt'[s] = a /\ \A t \in StmtsOf(c) \ {s} : stmt'[t] = stmt[t]
  BY <1>2, <1>4, AssignIs
<1>6. Becomes(c, r) /\ OnItsWire(c)
  BY <1>2, <1>3 DEF Becomes, Proper, OnItsWire
<1>7. conn[c].recorded = None /\ net'[c] = <<>>
  BY <1>1, <1>2 DEF Idle
<1>8. TableInv' /\ Elsewhere(c) /\ UNCHANGED Std!vars
  BY <1>2, <1>3, <1>6, <1>7, IdleStep
<1>9. Shared(c)'
  BY <1>1, <1>3, <1>4, <1>5, <1>6, <1>7, BecomesResting
<1> QED BY <1>5, <1>8, <1>9 DEF Maps

\* Only the plugin's data of a statement without rows to read are changed.
LEMMA StatementMaps ==
    ASSUME NEW c \in Conns, Before(c), NEW s \in StmtsOf(c), ~Unread(s), NEW a \in Statement,
           Resting(a), Assign(s, a), UNCHANGED <<cache, heap, clock, conditional, conn, net>>
    PROVE  Maps(c)
<1> USE BeforeIs
<1>1. TableInv' /\ UNCHANGED Std!vars /\ (Tidy(c) => Tidy(c)')
  BY Unmoved
<1>2. OwnStmts(c) /\ stmt'[s] = a /\ \A t \in StmtsOf(c) \ {s} : stmt'[t] = stmt[t]
  BY AssignIs
<1>3. Elsewhere(c)
  BY DEF Elsewhere, OnItsWire
<1>4. StmtsOf(c)' = StmtsOf(c) /\ conn'[c] = conn[c] /\ net'[c] = net[c]
  BY DEF StmtsOf
<1>5. CASE /\ Plainly(c) \/ Replayless(c)
           /\ \A t \in StmtsOf(c) : Resting(stmt[t])
  <2>1. (Plainly(c) \/ Replayless(c))'
    BY <1>1, <1>4, <1>5 DEF Plainly, Replayless
  <2>2. \A t \in StmtsOf(c) : Resting(stmt'[t])
    BY <1>2, <1>5
  <2> QED BY <1>1, <1>2, <1>3, <1>4, <2>1, <2>2 DEF Shared, Maps
<1>6. CASE \E t \in StmtsOf(c) : ReadBy(c, t)
  <2>1. PICK t \in StmtsOf(c) : ReadBy(c, t)
    BY <1>6
  <2>2. t # s
    BY <2>1 DEF ReadBy, Reading, Unread
  <2>3. stmt'[t] = stmt[t] /\ \A o \in StmtsOf(c) \ {t} : Resting(stmt'[o])
    BY <1>2, <2>1, <2>2 DEF ReadBy
  <2>4. ReadBy(c, t)'
    BY <1>4, <2>1, <2>3 DEF ReadBy
  <2> QED BY <1>1, <1>2, <1>3, <1>4, <2>4 DEF Shared, Maps
<1> QED BY <1>5, <1>6 DEF Shared

\* The functions of the connection are the original ones already.
LEMMA PrepareRefusedMaps ==
    ASSUME NEW c \in Conns, Before(c), NEW s \in StmtsOf(c), PrepareRefused(s)
    PROVE  Maps(c)
<1> DEFINE a == [stmt[s] EXCEPT !.plugin = FALSE, !.key = None, !.record_mode = FALSE]
<1> USE BeforeIs
<1>1. /\ ~Unread(s) /\ Assign(s, a) /\ conn[c].hook = "original"
      /\ conn' = [conn EXCEPT ![c] = [conn[c] EXCEPT !.hook = "original"]]
      /\ UNCHANGED <<cache, heap, clock, conditional, net>>
  BY DEF PrepareRefused, MayPrepare, Update, environment, StmtsOf, Before, PsOrderly, Orderly
<1>2. conn' = conn
  <2>1. [conn[c] EXCEPT !.hook = "original"] = conn[c]
    BY <1>1 DEF ConnectionData
  <2> QED BY <1>1, <2>1 DEF WireInv, TypesOK
<1>3. stmt[s] \in Statement /\ Resting(stmt[s])
  BY <1>1, ReadIs DEF StmtsOf
<1>4. a \in Statement /\ Resting(a)
  BY <1>3 DEF Statement, Resting
<1> HIDE DEF a
<1> QED BY <1>1, <1>2, <1>4, StatementMaps

LEMMA ForgetMaps ==
    ASSUME NEW c \in Conns, Before(c), NEW s \in StmtsOf(c), Forget(s)
    PROVE  Maps(c)
<1>1. /\ ~Unread(s) /\ Assign(s, Initted)
      /\ UNCHANGED <<cache, heap, clock, conditional, conn, net>>
  BY DEF Forget, environment
<1>2. Initted \in Statement /\ Resting(Initted)
  BY DEF Initted, Statement, Resting
<1> QED BY <1>1, <1>2, StatementMaps

-----------------------------------------------------------------------------
(***************************************************************************)
(* execute                                                                 *)
(***************************************************************************)

LEMMA HeaderReadIs ==
    ASSUME WireInv, NEW c \in Conns, NEW q \in Keys, net[c] = <<>>, SentAndHeaderRead(c, q)
    PROVE  /\ net' \in [Conns -> Seq(Part)]
           /\ \A o \in Conns \ {c} : net'[o] = net[o]
           /\ net'[c] = From(q, 2) /\ From(q, 2) \in Seq(Part)
<1>1. net \in [Conns -> Seq(Part)]
  BY DEF WireInv, TypesOK
<1>2. Answer(q) \in Seq(Part) /\ From(q, 1) = Answer(q) /\ 1 \in 1..Parts(q)
  BY AnswerIs, Ends, PartsAre
<1>3. net[c] \o Answer(q) = Answer(q)
  BY <1>2, ConcatEmptySeq
<1>4. Tail(Answer(q)) = From(q, 2)
  BY <1>2, Received
<1>5. From(q, 2) \in Seq(Part)
  <2>1. From(q, 1) # <<>>
    BY <1>2, Received
  <2> QED BY <1>2, <1>4, <2>1, HeadTailProperties
<1> QED BY <1>1, <1>3, <1>4, <1>5 DEF SentAndHeaderRead

\* A prepared statement may be executed.
LEMMA MayExecuteIs ==
    ASSUME NEW c \in Conns, Before(c), NEW s \in StmtsOf(c), MayExecute(s)
    PROVE  /\ s \in Stmts /\ Owner[s] = c
           /\ stmt[s] \in Statement /\ Resting(stmt[s]) /\ stmt[s].state = "prepared"
           /\ stmt[s].query \in PsKeys /\ stmt[s].query \in Keys
           /\ stmt[s].plugin => stmt[s].query \in Cacheable /\ stmt[s].query \in ResultSets
<1>1. s \in Stmts /\ Owner[s] = c /\ ~Unread(s) /\ stmt[s].state = "prepared"
  BY DEF MayExecute, Unread, StmtsOf
<1>2. Resting(stmt[s])
  BY <1>1, BeforeIs, ReadIs
<1> QED BY <1>1, <1>2, BeforeIs DEF Resting

LEMMA ExecutePlainMaps ==
    ASSUME NEW c \in Conns, Before(c), NEW s \in StmtsOf(c), ExecutePlain(s)
    PROVE  Maps(c)
<1> DEFINE q == stmt[s].query
           r == Executed(conn[c], q)
           a == [stmt[s] EXCEPT !.state = StateAfter(q)]
<1> USE BeforeIs
<1>1. /\ s \in Stmts /\ Owner[s] = c /\ stmt[s] \in Statement /\ Resting(stmt[s])
      /\ q \in PsKeys /\ q \in Keys /\ ~stmt[s].plugin
  BY MayExecuteIs DEF ExecutePlain
<1>2. /\ Idle(c) /\ conn[c].hook \in {"original", "replay"} /\ conn[c].should = conn[c].active
      /\ conn[c].key \notin PsKeys /\ \A t \in StmtsOf(c) : Resting(stmt[t])
  BY <1>1, InSyncIs DEF ExecutePlain
<1>3. conn[c].hook = "original" /\ conn[c].recorded = None /\ net[c] = <<>>
  BY <1>1, <1>2 DEF ExecutePlain, Sound, Idle
<1>4. /\ conn' = [conn EXCEPT ![c] = r] /\ Assign(s, a) /\ SentAndHeaderRead(c, q)
      /\ UNCHANGED <<cache, heap, clock, conditional>>
  BY <1>1, <1>3 DEF ExecutePlain, Update, environment
<1>5. /\ OnItsWire(c) /\ net'[c] = From(q, 2) /\ From(q, 2) \in Seq(Part)
  BY <1>1, <1>3, <1>4, HeaderReadIs DEF OnItsWire
<1>6. /\ r \in ConnectionData /\ r.hook = "original" /\ r.recorded = None /\ r.running = q
      /\ r.state = (IF q \in ResultSets THEN "fetching" ELSE "ready")
      /\ r.should = r.active /\ r.key \notin PsKeys
  <2> DEFINE st == IF q \in ResultSets THEN "fetching" ELSE "ready"
  <2>1. r = [conn[c] EXCEPT !.running = q, !.state = st]
    BY DEF Executed
  <2>2. st \in States
    BY DEF States
  <2> HIDE DEF r, st
  <2>3. /\ r \in ConnectionData /\ r.hook = "original" /\ r.recorded = None /\ r.running = q
        /\ r.state = st /\ r.should = r.active /\ r.key \notin PsKeys
    BY <1>1, <1>2, <1>3, <2>1, <2>2 DEF ConnectionData
  <2> QED BY <2>3 DEF st
<1>7. /\ a \in Statement /\ a.plugin = stmt[s].plugin /\ a.query = q
      /\ a.key = stmt[s].key /\ a.record_mode = stmt[s].record_mode
      /\ a.state = (IF q \in ResultSets THEN "pending" ELSE "prepared")
  BY <1>1 DEF Statement, StateAfter
<1> HIDE DEF r, a
<1>8. OwnStmts(c) /\ stmt'[s] = a /\ \A t \in StmtsOf(c) \ {s} : stmt'[t] = stmt[t]
  BY <1>4, <1>7, AssignIs
<1>9. Becomes(c, r)
  BY <1>4, <1>6 DEF Becomes, Proper
<1>10. TableInv' /\ Elsewhere(c) /\ UNCHANGED Std!vars
  BY <1>3, <1>4, <1>5, <1>6, <1>9, IdleStep
<1>11. Shared(c)'
  <2>1. CASE q \in ResultSets
    <3>1. Reading(a, r, net'[c], heap'[r.recorded])
      BY <1>1, <1>5, <1>6, <1>7, <2>1 DEF Reading, Resting
    <3> QED BY <1>2, <1>6, <1>8, <1>9, <3>1, BecomesReading
  <2>2. CASE q \notin ResultSets
    <3>1. Resting(a)
      BY <1>1, <1>7, <2>2 DEF Resting
    <3>2. Parts(q) = 1 /\ Parts(q) + 1 = 2
      BY <1>1, <2>2, PartsAre
    <3>3. net'[c] = <<>>
      BY <1>1, <1>5, <3>2, Ends
    <3> QED BY <1>2, <1>6, <1>8, <1>9, <2>2, <3>1, <3>3, BecomesResting
  <2> QED BY <2>1, <2>2
<1> QED BY <1>8, <1>10, <1>11 DEF Maps

LEMMA NothingReleased ==
    ASSUME heap \in [Data -> Seq(Part) \cup {None}]
    PROVE  Released({}) = heap
BY DEF Released

LEMMA ExecuteHitMaps ==
    ASSUME NEW c \in Conns, Before(c), NEW s \in StmtsOf(c), ExecuteHit(s)
    PROVE  Maps(c)
<1> DEFINE q == stmt[s].query
           a == [stmt[s] EXCEPT !.key = q, !.record_mode = FALSE, !.state = "pending"]
<1> USE BeforeIs
<1>1. /\ s \in Stmts /\ Owner[s] = c /\ stmt[s] \in Statement /\ Resting(stmt[s])
      /\ q \in PsKeys /\ q \in Keys /\ stmt[s].plugin /\ q \in Cacheable /\ q \in ResultSets
  BY MayExecuteIs DEF ExecuteHit
<1>2. InSync(c) /\ Servable(q, clock)
  BY <1>1 DEF ExecuteHit, Orderly
<1>3. /\ Idle(c) /\ conn[c].hook \in {"original", "replay"} /\ conn[c].should = conn[c].active
      /\ conn[c].key \notin PsKeys /\ \A t \in StmtsOf(c) : Resting(stmt[t])
      /\ conn[c] \in ConnectionData /\ conn[c].recorded = None /\ net[c] = <<>>
  BY <1>2, InSyncIs DEF Idle
<1>4. Released(Old(c)) = heap
  BY <1>3, NothingReleased DEF Old
<1>5. PICK d \in IF DataCopy THEN Fresh ELSE {cache[q].cached_query} :
            /\ cache' = IF DataCopy THEN cache ELSE Lent(q)
            /\ heap' = IF DataCopy THEN [heap EXCEPT ![d] = heap[cache[q].cached_query]]
                       ELSE heap
            /\ Update(c, [Executed(Attached(c, "replay", d), q) EXCEPT !.pos = 1])
  BY <1>1, <1>2, <1>4 DEF ExecuteHit
<1> DEFINE r == [Executed(Attached(c, "replay", d), q) EXCEPT !.pos = 1]
<1>6. /\ conn' = [conn EXCEPT ![c] = r] /\ Assign(s, a) /\ Transmit(c, q, "replay")
      /\ UNCHANGED <<clock, conditional>>
  BY <1>1, <1>2, <1>5 DEF ExecuteHit, Update, environment
<1>7. net' = net /\ OnItsWire(c)
  BY <1>6 DEF Transmit, OnItsWire
<1>8. d \in Data /\ d # None
  <2>1. Cached(q)
    BY <1>2 DEF Servable
  <2>2. cache[q].cached_query \in Data
    BY <1>1, <2>1, EntryContainer
  <2> QED BY <2>2, FreshIs, NoneIs
<1>9. Serves(q, d)
  BY <1>2, <1>5 DEF Serves, FindHit, FindShared, FindCopied
<1>10. /\ r \in ConnectionData /\ r.hook = "replay" /\ r.recorded = d /\ r.running = q
       /\ r.state = "fetching" /\ r.pos = 1
       /\ r.should = r.active /\ r.key \notin PsKeys
  <2> DEFINE p == IF conn[c].hook = "replay" THEN 0 ELSE conn[c].pos
  <2>1. r = [conn[c] EXCEPT !.hook = "replay", !.recorded = d, !.running = q,
                            !.state = "fetching", !.pos = 1]
    BY <1>1, <1>3 DEF Executed, Attached, ConnectionData
  <2> HIDE DEF r
  <2> QED BY <1>1, <1>3, <1>8, <2>1 DEF ConnectionData, States, Hooks
<1>11. /\ a \in Statement /\ a.plugin /\ a.query = q /\ a.key = q /\ ~a.record_mode
       /\ a.state = "pending"
  BY <1>1 DEF Statement
<1> HIDE DEF r, a
<1>12. OwnStmts(c) /\ stmt'[s] = a /\ \A t \in StmtsOf(c) \ {s} : stmt'[t] = stmt[t]
  BY <1>6, <1>11, AssignIs
<1>13. Becomes(c, r)
  BY <1>1, <1>6, <1>8, <1>10 DEF Becomes, Proper
<1>14. TableInv' /\ Elsewhere(c) /\ Std!LookupHit(c, q)
  BY <1>1, <1>3, <1>7, <1>8, <1>9, <1>10, <1>13, HitStep
<1>15. Reading(a, r, net'[c], heap'[r.recorded])
  BY <1>1, <1>3, <1>7, <1>8, <1>10, <1>11 DEF Reading
<1>16. Shared(c)'
  BY <1>3, <1>10, <1>12, <1>13, <1>15, BecomesReading
<1> QED BY <1>1, <1>12, <1>14, <1>16 DEF Maps, Std!ProtocolStep

LEMMA ExecuteMissMaps ==
    ASSUME NEW c \in Conns, Before(c), NEW s \in StmtsOf(c), ExecuteMiss(s)
    PROVE  Maps(c)
<1> DEFINE q == stmt[s].query
           a == [stmt[s] EXCEPT !.key = q, !.record_mode = TRUE, !.state = "pending"]
<1> USE BeforeIs
<1>1. /\ s \in Stmts /\ Owner[s] = c /\ stmt[s] \in Statement /\ Resting(stmt[s])
      /\ q \in PsKeys /\ q \in Keys /\ stmt[s].plugin /\ q \in Cacheable /\ q \in ResultSets
  BY MayExecuteIs DEF ExecuteMiss
<1>2. InSync(c) /\ FindMiss(q, clock)
  BY <1>1 DEF ExecuteMiss, Orderly
<1>3. /\ Idle(c) /\ conn[c].hook \in {"original", "replay"} /\ conn[c].should = conn[c].active
      /\ conn[c].key \notin PsKeys /\ \A t \in StmtsOf(c) : Resting(stmt[t])
      /\ conn[c] \in ConnectionData /\ conn[c].recorded = None /\ net[c] = <<>>
  BY <1>2, InSyncIs DEF Idle
<1>4. Old(c) \cup FreedByLookup(q, clock) = FreedByLookup(q, clock)
  BY <1>3 DEF Old
<1>5. PICK d \in Fresh :
            /\ heap' = [Released(FreedByLookup(q, clock)) EXCEPT ![d] = <<<<q, 1>>>>]
            /\ Update(c, Executed(Attached(c, "record", d), q))
  BY <1>1, <1>2, <1>4 DEF ExecuteMiss
<1> DEFINE r == Executed(Attached(c, "record", d), q)
<1>6. /\ conn' = [conn EXCEPT ![c] = r] /\ Assign(s, a) /\ SentAndHeaderRead(c, q)
      /\ UNCHANGED <<clock, conditional>>
  BY <1>1, <1>2, <1>5 DEF ExecuteMiss, Update, environment, StateAfter
<1>7. /\ OnItsWire(c) /\ net'[c] = From(q, 2)
  BY <1>1, <1>3, <1>6, HeaderReadIs DEF OnItsWire
<1>8. d \in Data /\ d # None
  BY FreshIs, NoneIs
<1>9. PICK x \in Seq(Part) : x = <<<<q, 1>>>> /\ x = UpTo(q, 1)
  <2>1. 1 \in 0..Parts(q) /\ 1 \in 1..Parts(q) /\ 1 - 1 = 0
    BY <1>1, PartsAre
  <2>2. UpTo(q, 1) \in Seq(Part)
    BY <1>1, <2>1, UpToIs
  <2>3. Append(UpTo(q, 0), <<q, 1>>) = UpTo(q, 1) /\ UpTo(q, 0) = <<>>
    BY <1>1, <2>1, Recorded, Ends
  <2>4. Append(<<>>, <<q, 1>>) = <<<<q, 1>>>>
    OBVIOUS
  <2>5. UpTo(q, 1) = <<<<q, 1>>>>
    BY <2>3, <2>4
  <2> QED BY <2>2, <2>5
<1>10. RecordsInto(q, d, x)
  BY <1>2, <1>5, <1>9 DEF RecordsInto
<1>11. /\ r \in ConnectionData /\ r.hook = "record" /\ r.recorded = d /\ r.running = q
       /\ r.state = "fetching" /\ r.should = r.active /\ r.key \notin PsKeys
  <2>1. r = [conn[c] EXCEPT !.hook = "record", !.recorded = d, !.running = q,
                            !.state = "fetching"]
    BY <1>1, <1>3 DEF Executed, Attached, ConnectionData
  <2> HIDE DEF r
  <2> QED BY <1>1, <1>3, <1>8, <2>1 DEF ConnectionData, States, Hooks
<1>12. /\ a \in Statement /\ a.plugin /\ a.query = q /\ a.key = q /\ a.record_mode
       /\ a.state = "pending"
  BY <1>1 DEF Statement
<1> HIDE DEF r, a
<1>13. OwnStmts(c) /\ stmt'[s] = a /\ \A t \in StmtsOf(c) \ {s} : stmt'[t] = stmt[t]
  BY <1>6, <1>12, AssignIs
<1>14. Becomes(c, r)
  BY <1>1, <1>6, <1>8, <1>11 DEF Becomes, Proper, Recordable
<1>15. TableInv' /\ Elsewhere(c) /\ Std!LookupMiss(c, q) /\ heap'[d] = x
  BY <1>1, <1>3, <1>7, <1>10, <1>11, <1>14, MissStep
<1>16. Reading(a, r, net'[c], heap'[r.recorded])
  BY <1>1, <1>7, <1>8, <1>9, <1>11, <1>12, <1>15 DEF Reading
<1>17. Shared(c)'
  BY <1>3, <1>11, <1>13, <1>14, <1>16, BecomesReading
<1> QED BY <1>1, <1>13, <1>15, <1>17 DEF Maps, Std!ProtocolStep

-----------------------------------------------------------------------------
(***************************************************************************)
(* store_result, use_result and fetch                                      *)
(***************************************************************************)

\* The rows are there, and are those of the statement.
LEMMA RowsAreThere ==
    ASSUME NEW c \in Conns, TableInv, NEW s \in StmtsOf(c), ReadBy(c, s),
           NEW q, q = stmt[s].query
    PROVE  /\ MayReceive(c) /\ NextPart(c) = <<q, 2>>
           /\ Receive(c) => /\ net' \in [Conns -> Seq(Part)]
                            /\ \A o \in Conns \ {c} : net'[o] = net[o]
                            /\ net'[c] = <<>>
<1>1. /\ q \in PsKeys /\ q \in Keys /\ q \in ResultSets /\ q \notin Multi
      /\ Reading(stmt[s], conn[c], net[c], heap[conn[c].recorded]) /\ conn[c].running = q
      /\ WireInv /\ net \in [Conns -> Seq(Part)]
  BY StmtAssumption DEF ReadBy, Reading, StmtAssumption, TableInv, WireInv, TypesOK
<1>2. 2 \in 1..Parts(q) /\ Parts(q) = 2
  BY <1>1, PartsAre, PartsOfMulti DEF Parts
<1>3. CASE conn[c].hook = "replay"
  <2>1. conn[c].recorded # None /\ conn[c].pos = 1 /\ net[c] = <<>>
    BY <1>1, <1>3 DEF Reading
  <2>2. heap[conn[c].recorded] = FirstResult(q)
    BY <1>1, <1>3, <2>1, ReplayedData DEF AnswerTo
  <2>3. /\ FirstResult(q) \in Seq(Part) /\ Len(FirstResult(q)) = 2
        /\ FirstResult(q)[2] = <<q, 2>> /\ FirstResult(q) # None
    BY <1>1, FirstResultIs, NoneIs
  <2>4. MayReceive(c) /\ NextPart(c) = <<q, 2>>
    BY <1>3, <2>1, <2>2, <2>3 DEF MayReceive, NextPart
  <2>5. Receive(c) => net' = net
    BY <1>3 DEF Receive
  <2> QED BY <1>1, <2>1, <2>4, <2>5
<1>4. CASE conn[c].hook # "replay"
  <2>1. net[c] = From(q, 2)
    BY <1>1, <1>4 DEF Reading
  <2>2. /\ MayReceive(c) /\ NextPart(c) = <<q, 2>>
        /\ Receive(c) => /\ net' \in [Conns -> Seq(Part)]
                         /\ \A o \in Conns \ {c} : net'[o] = net[o]
                         /\ net'[c] = From(q, 2 + 1)
    BY <1>1, <1>2, <1>4, <2>1, NextFromServer
  <2>3. From(q, Parts(q) + 1) = <<>>
    BY <1>1, Ends
  <2> QED BY <1>2, <2>2, <2>3
<1> QED BY <1>3, <1>4

LEMMA UseStmtResultMaps ==
    ASSUME NEW c \in Conns, Before(c), NEW s \in StmtsOf(c), UseStmtResult(s)
    PROVE  Maps(c)
<1> DEFINE r == [conn[c] EXCEPT !.state = "rows"]
           a == [stmt[s] EXCEPT !.state = "using"]
<1> USE BeforeIs
<1>1. s \in Stmts /\ Owner[s] = c /\ stmt[s] \in Statement /\ Unread(s)
  BY DEF UseStmtResult, Unread, StmtsOf
<1>2. ReadBy(c, s) /\ conn[c].should = conn[c].active /\ conn[c].key \notin PsKeys
  BY <1>1, UnreadIs
<1>3. /\ conn' = [conn EXCEPT ![c] = r] /\ Assign(s, a)
      /\ UNCHANGED <<cache, heap, clock, conditional, net>>
  BY <1>1 DEF UseStmtResult, Update, environment
<1>4. /\ r \in ConnectionData /\ r.state = "rows" /\ r.hook = conn[c].hook
      /\ r.recorded = conn[c].recorded /\ r.running = conn[c].running /\ r.pos = conn[c].pos
      /\ r.should = r.active /\ r.key \notin PsKeys
  BY <1>2 DEF ConnectionData, States
<1>5. /\ a \in Statement /\ a.plugin = stmt[s].plugin /\ a.query = stmt[s].query
      /\ a.key = stmt[s].key /\ a.record_mode = stmt[s].record_mode /\ a.state = "using"
  BY <1>1 DEF Statement
<1> HIDE DEF r, a
<1>6. OwnStmts(c) /\ stmt'[s] = a /\ \A t \in StmtsOf(c) \ {s} : stmt'[t] = stmt[t]
  BY <1>3, <1>5, AssignIs
<1>7. /\ Proper(conn[c])
      /\ conn[c].recorded # None => conn[c].recorded \in Data
      /\ conn[c].hook = "record" => conn[c].recorded # None
  BY ProperIs DEF TableInv
<1>8. Becomes(c, r)
  BY <1>3, <1>4, <1>7 DEF Becomes, Proper, Recordable, RecordedBy
<1>9. OnItsWire(c) /\ Fills(c)
  BY <1>3 DEF OnItsWire, Fills
<1>10. TableInv' /\ Elsewhere(c) /\ UNCHANGED Std!vars
  <2>1. CASE conn[c].recorded = None
    BY <1>3, <1>4, <1>8, <1>9, <2>1, IdleStep
  <2>2. CASE conn[c].recorded # None
    BY <1>3, <1>4, <1>8, <1>9, <2>2, ReadingStep
  <2> QED BY <2>1, <2>2
<1>11. Reading(a, r, net'[c], heap'[r.recorded])
  BY <1>2, <1>3, <1>4, <1>5 DEF ReadBy, Reading
<1>12. Shared(c)'
  BY <1>2, <1>4, <1>6, <1>8, <1>11, BecomesReading DEF ReadBy
<1> QED BY <1>6, <1>10, <1>12 DEF Maps

\* The last rows are read.
LEMMA EndsReadingIs ==
    ASSUME NEW c \in Conns, Before(c), NEW s \in StmtsOf(c), EndsReading(s),
           UNCHANGED <<clock, conditional>>, NEW q, q = stmt[s].query
    PROVE  /\ s \in Stmts /\ Owner[s] = c /\ stmt[s] \in Statement
           /\ \A t \in StmtsOf(c) \ {s} : Resting(stmt[t])
           /\ Reading(stmt[s], conn[c], net[c], heap[conn[c].recorded])
           /\ q \in PsKeys /\ q \in Keys /\ q \in ResultSets /\ conn[c].running = q
           /\ NextPart(c) = <<q, 2>> /\ OnItsWire(c) /\ net'[c] = <<>>
           /\ LET r == RowsRead(c)
              IN  /\ r \in ConnectionData
                  /\ r.state = "ready" /\ r.running = q
                  /\ r.hook = conn[c].hook /\ r.recorded = conn[c].recorded
                  /\ r.should = r.active /\ r.key \notin PsKeys
<1> USE BeforeIs
<1>1. s \in Stmts /\ Owner[s] = c /\ stmt[s] \in Statement /\ Unread(s) /\ Receive(c)
  BY DEF EndsReading, StmtsOf
<1>2. ReadBy(c, s) /\ conn[c].should = conn[c].active /\ conn[c].key \notin PsKeys
  BY <1>1, UnreadIs
<1>3. NextPart(c) = <<q, 2>> /\ OnItsWire(c) /\ net'[c] = <<>>
  BY <1>1, <1>2, RowsAreThere DEF OnItsWire
<1>4. /\ Reading(stmt[s], conn[c], net[c], heap[conn[c].recorded])
      /\ q \in PsKeys /\ q \in Keys /\ q \in ResultSets /\ conn[c].running = q
      /\ \A t \in StmtsOf(c) \ {s} : Resting(stmt[t])
  BY <1>2 DEF ReadBy, Reading
<1>5. Parts(q) = 2
  BY <1>4, PartsAre, PartsOfMulti DEF Parts
<1>6. AfterRows(c) = "ready" /\ AfterRows(c) \in States
  BY <1>3, <1>4, <1>5, AfterRowsIs
<1>7. LET r == RowsRead(c)
      IN  /\ r \in ConnectionData
          /\ r.state = AfterRows(c) /\ r.running = conn[c].running
          /\ r.hook = conn[c].hook /\ r.recorded = conn[c].recorded
          /\ r.key = conn[c].key
          /\ r.active = conn[c].active /\ r.should = conn[c].should
  BY <1>6, RowsFields
<1> QED BY <1>1, <1>2, <1>3, <1>4, <1>6, <1>7

LEMMA ReadPlainMaps ==
    ASSUME NEW c \in Conns, Before(c), NEW s \in StmtsOf(c), ReadPlain(s)
    PROVE  Maps(c)
<1> DEFINE q == stmt[s].query
           r == RowsRead(c)
           a == [stmt[s] EXCEPT !.state = "prepared"]
<1> USE BeforeIs
<1>1. Owner[s] = c /\ EndsReading(s) /\ ~stmt[s].plugin /\ UNCHANGED <<clock, conditional>>
  BY DEF ReadPlain, StmtsOf, environment
<1>2. /\ s \in Stmts /\ stmt[s] \in Statement
      /\ \A t \in StmtsOf(c) \ {s} : Resting(stmt[t])
      /\ Reading(stmt[s], conn[c], net[c], heap[conn[c].recorded])
      /\ q \in PsKeys /\ OnItsWire(c) /\ net'[c] = <<>>
      /\ r \in ConnectionData /\ r.state = "ready" /\ r.running = q
      /\ r.hook = conn[c].hook /\ r.recorded = conn[c].recorded
      /\ r.should = r.active /\ r.key \notin PsKeys
  BY <1>1, EndsReadingIs
<1>3. /\ conn[c].hook = "original" /\ conn[c].recorded = None
      /\ stmt[s].key = None /\ ~stmt[s].record_mode
  BY <1>1, <1>2 DEF Reading
<1>4. /\ conn' = [conn EXCEPT ![c] = r] /\ Assign(s, a) /\ UNCHANGED <<cache, heap>>
  BY <1>1, <1>3 DEF ReadPlain, Update, HeapAfterReceive
<1> HIDE DEF r
<1>5. a \in Statement /\ Resting(a)
  BY <1>1, <1>2, <1>3 DEF Statement, Resting
<1> HIDE DEF a
<1>6. OwnStmts(c) /\ stmt'[s] = a /\ \A t \in StmtsOf(c) \ {s} : stmt'[t] = stmt[t]
  BY <1>4, <1>5, AssignIs
<1>7. Becomes(c, r)
  BY <1>2, <1>3, <1>4 DEF Becomes, Proper
<1>8. TableInv' /\ Elsewhere(c) /\ UNCHANGED Std!vars
  BY <1>2, <1>3, <1>4, <1>7, IdleStep
<1>9. Shared(c)'
  BY <1>2, <1>3, <1>5, <1>6, <1>7, BecomesResting
<1> QED BY <1>6, <1>8, <1>9 DEF Maps

\* The statement after its rows were read.
LEMMA OverIs ==
    ASSUME NEW s, stmt[s] \in Statement, stmt[s].query \in PsKeys,
           stmt[s].plugin => stmt[s].query \in Cacheable
    PROVE  Over(s) \in Statement /\ Resting(Over(s))
BY DEF Over, Statement, Resting

LEMMA ReadReplayedMaps ==
    ASSUME NEW c \in Conns, Before(c), NEW s \in StmtsOf(c), ReadReplayed(s)
    PROVE  Maps(c)
<1> DEFINE q == stmt[s].query
           r == Emptied(c)
           a == Over(s)
<1> USE BeforeIs
<1>1. /\ Owner[s] = c /\ EndsReading(s) /\ stmt[s].plugin /\ ~stmt[s].record_mode
      /\ UNCHANGED <<clock, conditional>>
  BY DEF ReadReplayed, StmtsOf, environment
<1>2. /\ s \in Stmts /\ stmt[s] \in Statement
      /\ \A t \in StmtsOf(c) \ {s} : Resting(stmt[t])
      /\ Reading(stmt[s], conn[c], net[c], heap[conn[c].recorded])
      /\ q \in PsKeys /\ q \in Keys /\ conn[c].running = q /\ OnItsWire(c) /\ net'[c] = <<>>
      /\ RowsRead(c) \in ConnectionData /\ RowsRead(c).state = "ready"
      /\ RowsRead(c).running = q /\ RowsRead(c).hook = conn[c].hook
      /\ RowsRead(c).should = RowsRead(c).active /\ RowsRead(c).key \notin PsKeys
  BY <1>1, EndsReadingIs
<1>3. /\ conn[c].hook = "replay" /\ conn[c].recorded # None
      /\ stmt[s].key = q /\ q \in Cacheable
  BY <1>1, <1>2 DEF Reading
<1>4. /\ conn' = [conn EXCEPT ![c] = r] /\ Assign(s, a) /\ Returns(c, q)
  BY <1>1, <1>3 DEF ReadReplayed, Update, Returns
<1>5. /\ r \in ConnectionData /\ r.state = "ready" /\ r.running = q /\ r.hook = "replay"
      /\ r.recorded = None /\ r.should = r.active /\ r.key \notin PsKeys
  BY <1>2, <1>3 DEF Emptied, ConnectionData
<1>6. a \in Statement /\ Resting(a)
  BY <1>2, <1>3, OverIs
<1> HIDE DEF a, r
<1>7. OwnStmts(c) /\ stmt'[s] = a /\ \A t \in StmtsOf(c) \ {s} : stmt'[t] = stmt[t]
  BY <1>4, <1>6, AssignIs
<1>8. Becomes(c, r)
  BY <1>4, <1>5 DEF Becomes, Proper
<1>9. TableInv' /\ Elsewhere(c) /\ Std!FinishReplay(c)
  BY <1>2, <1>3, <1>4, <1>5, <1>8, ReturnStep
<1>10. Shared(c)'
  BY <1>2, <1>5, <1>6, <1>7, <1>8, BecomesResting
<1> QED BY <1>7, <1>9, <1>10 DEF Maps, Std!ProtocolStep

\* What was recorded is complete.
LEMMA ReadRecordedIs ==
    ASSUME NEW c \in Conns, Before(c), NEW s \in StmtsOf(c), ReadRecorded(s),
           NEW q, q = stmt[s].query, NEW r, r = Unhooked(RowsRead(c))
    PROVE  /\ Owner[s] = c /\ conn[c].hook = "record" /\ stmt[s].key = q
           /\ q \in ResultSets /\ conn[c].running = q /\ OnItsWire(c)
           /\ Becomes(c, r) /\ r.recorded = None /\ Completes(c, q)
           /\ OwnStmts(c) /\ Shared(c)'
<1> DEFINE a == Over(s)
<1> USE BeforeIs
<1>1. /\ Owner[s] = c /\ EndsReading(s) /\ stmt[s].plugin /\ stmt[s].record_mode
      /\ UNCHANGED <<clock, conditional>>
  BY DEF ReadRecorded, StmtsOf, environment
<1>2. /\ s \in Stmts /\ stmt[s] \in Statement
      /\ \A t \in StmtsOf(c) \ {s} : Resting(stmt[t])
      /\ Reading(stmt[s], conn[c], net[c], heap[conn[c].recorded])
      /\ q \in PsKeys /\ q \in Keys /\ q \in ResultSets /\ conn[c].running = q
      /\ NextPart(c) = <<q, 2>> /\ OnItsWire(c) /\ net'[c] = <<>>
      /\ RowsRead(c) \in ConnectionData /\ RowsRead(c).state = "ready"
      /\ RowsRead(c).running = q
      /\ RowsRead(c).should = RowsRead(c).active /\ RowsRead(c).key \notin PsKeys
  BY <1>1, EndsReadingIs
<1>3. /\ conn[c].hook = "record" /\ stmt[s].key = q /\ q \in Cacheable
      /\ heap[conn[c].recorded] = UpTo(q, 1)
  BY <1>1, <1>2 DEF Reading
<1>4. /\ conn' = [conn EXCEPT ![c] = r] /\ Assign(s, a)
  BY <1>1 DEF ReadRecorded, Update
<1>5. /\ r \in ConnectionData /\ r.state = "ready" /\ r.running = q /\ r.hook = "original"
      /\ r.recorded = None /\ r.should = r.active /\ r.key \notin PsKeys
  BY <1>2 DEF Unhooked, ConnectionData, Hooks
<1>6. a \in Statement /\ Resting(a)
  BY <1>2, <1>3, OverIs
<1> HIDE DEF a
<1>7. OwnStmts(c) /\ stmt'[s] = a /\ \A t \in StmtsOf(c) \ {s} : stmt'[t] = stmt[t]
  BY <1>4, <1>6, AssignIs
<1>8. Becomes(c, r)
  BY <1>4, <1>5 DEF Becomes, Proper
<1>9. Shared(c)'
  BY <1>2, <1>5, <1>6, <1>7, <1>8, BecomesResting
<1>10. Completes(c, q)
  <2>1. 2 \in 1..Parts(q) /\ 2 - 1 = 1
    BY <1>2, PartsAre
  <2>2. /\ HeapAfterReceive(c) \in [Data -> Seq(Part) \cup {None}]
        /\ HeapAfterReceive(c)[conn[c].recorded] = UpTo(q, 2)
        /\ heap[conn[c].recorded] # None
        /\ \A d \in Data : d # conn[c].recorded => HeapAfterReceive(c)[d] = heap[d]
    BY <1>2, <1>3, <2>1, RecordIs
  <2> QED BY <2>2 DEF Completes, UpTo, FirstResult
<1> QED BY <1>1, <1>2, <1>3, <1>5, <1>7, <1>8, <1>9, <1>10

LEMMA ReadDiscardedMaps ==
    ASSUME NEW c \in Conns, Before(c), NEW s \in StmtsOf(c), ReadDiscarded(s)
    PROVE  Maps(c)
<1> USE BeforeIs
<1>1. PICK r : r = Unhooked(RowsRead(c))
  OBVIOUS
<1>2. /\ Owner[s] = c /\ conn[c].hook = "record" /\ OnItsWire(c)
      /\ Becomes(c, r) /\ r.recorded = None /\ OwnStmts(c) /\ Shared(c)'
  BY <1>1, ReadRecordedIs DEF ReadDiscarded
<1>3. Discards(c)
  BY <1>2 DEF ReadDiscarded, Discards
<1>4. TableInv' /\ Elsewhere(c) /\ Std!Abandon(c)
  BY <1>2, <1>3, FreeStep
<1> QED BY <1>2, <1>4 DEF Maps, Std!ProtocolStep

LEMMA ReadAddedMaps ==
    ASSUME NEW c \in Conns, Before(c), NEW s \in StmtsOf(c), ReadAdded(s)
    PROVE  Maps(c)
<1> DEFINE q == stmt[s].query
<1> USE BeforeIs
<1>1. PICK r : r = Unhooked(RowsRead(c))
  OBVIOUS
<1>2. /\ Owner[s] = c /\ conn[c].hook = "record" /\ OnItsWire(c) /\ stmt[s].key = q
      /\ q \in ResultSets /\ conn[c].running = q
      /\ Becomes(c, r) /\ r.recorded = None /\ Completes(c, q)
      /\ OwnStmts(c) /\ Shared(c)'
  BY <1>1, ReadRecordedIs DEF ReadAdded
<1>3. TakesOver(c, q)
  BY <1>2 DEF ReadAdded, TakesOver
<1> HIDE DEF q
<1>4. TableInv' /\ Elsewhere(c) /\ Std!FinishRecord(c, Ttl)
  BY <1>2, <1>3, AddStep
<1> QED BY <1>2, <1>4 DEF Maps, Std!ProtocolStep

-----------------------------------------------------------------------------
(***************************************************************************)
(* Plain statements, time, and the end of the process                      *)
(***************************************************************************)

\* The fields of a connection that a plain step disturbs at most.
PlainFields(c) ==
    /\ conn'[c].should = conn'[c].active
    /\ conn'[c].key \notin PsKeys
    /\ conn'[c].running \notin PsKeys

\* After a plain step the statements of its connection are as they were.
LEMMA PlainlyAfter ==
    ASSUME NEW c \in Conns, stmt \in [Stmts -> Statement], UNCHANGED stmt,
           \A s \in StmtsOf(c) : Resting(stmt[s]), PlainFields(c), Tidy(c)' \/ Replayless(c)'
    PROVE  OwnStmts(c) /\ Shared(c)'
<1>1. StmtsOf(c)' = StmtsOf(c)
  BY DEF StmtsOf
<1>2. \A s \in StmtsOf(c) : Resting(stmt'[s])
  OBVIOUS
<1>3. (Plainly(c) \/ Replayless(c))'
  BY DEF Plainly, PlainFields
<1> QED BY <1>1, <1>2, <1>3 DEF OwnStmts, Shared, PlainFields

\* No orderly script is refused.
LEMMA NotRefused ==
    ASSUME NEW c \in Conns, Before(c), NEW q \in Keys, SendQuery(c, q)
    PROVE  /\ InSync(c)
           /\ SendPlain(c, q) \/ SendHit(c, q) \/ SendMiss(c, q)
<1>1. MaySend(c)
  BY DEF SendQuery, SendPlain, SendHit, SendMiss, SendHitRefused, SendMissRefused
<1>2. conn[c].state # "gone"
  BY BeforeIs, ConnIs
     DEF Shared, Plainly, Plain, Hooked, Replayless, ReadBy, Reading
<1>3. InSync(c)
  BY <1>1, <1>2, BeforeIs DEF MaySend, Orderly
<1> QED BY <1>3 DEF SendQuery, SendHitRefused, SendMissRefused

LEMMA PlainSendMaps ==
    ASSUME NEW c \in Conns, Before(c), NEW q \in Keys, PlainSend(c, q)
    PROVE  Maps(c)
<1> DEFINE s == Sent(Classify(c, q), q)
<1> USE BeforeIs
<1>1. q \notin PsKeys /\ UNCHANGED stmt /\ SendQuery(c, q)
  BY DEF PlainSend
<1>2. InSync(c) /\ (SendPlain(c, q) \/ SendHit(c, q) \/ SendMiss(c, q))
  BY <1>1, NotRefused
<1>3. /\ Idle(c) /\ conn[c].hook \in {"original", "replay"}
      /\ conn[c].key \notin PsKeys /\ \A t \in StmtsOf(c) : Resting(stmt[t])
  BY <1>2, InSyncIs
<1>4. /\ s \in ConnectionData /\ s.state = "sent" /\ s.running = q
      /\ s.hook = conn[c].hook /\ s.recorded = conn[c].recorded
      /\ s.should = s.active
  BY SentFields
<1>5. s.key = conn[c].key
  BY DEF Sent, Classify, ConnectionData
<1>6. conn \in [Conns -> ConnectionData]
  BY DEF WireInv, TypesOK
<1>7. CASE SendPlain(c, q)
  <2>1. /\ conn' = [conn EXCEPT ![c] = s] /\ UNCHANGED <<cache, heap, clock, conditional>>
        /\ Transmit(c, q, conn[c].hook)
    BY <1>2, <1>7 DEF SendPlain, Update, environment
  <2> HIDE DEF s
  <2>2. PlainFields(c)
    BY <1>1, <1>3, <1>4, <1>5, <1>6, <2>1 DEF PlainFields
  <2>3. CASE conn[c].hook = "original"
    BY <1>1, <1>3, <1>7, <2>2, <2>3, SendPlainMaps, PlainlyAfter DEF Maps
  <2>4. CASE conn[c].hook = "replay"
    <3>1. OnItsWire(c) /\ net'[c] = <<>>
      BY <1>3, <2>1, <2>4, TransmitIs DEF Idle, OnItsWire
    <3>2. Becomes(c, s) /\ conn[c].recorded = None /\ s.recorded = None
      BY <1>3, <1>4, <2>1, <2>4 DEF Becomes, Proper, Idle
    <3>3. TableInv' /\ Elsewhere(c) /\ UNCHANGED Std!vars
      BY <2>1, <3>1, <3>2, IdleStep
    <3>4. conn'[c] = s
      BY <1>6, <2>1
    <3>5. Replayless(c)'
      BY <1>1, <1>4, <2>4, <3>1, <3>2, <3>4 DEF Replayless
    <3> QED BY <1>1, <1>3, <2>2, <3>3, <3>5, PlainlyAfter DEF Maps
  <2> QED BY <1>3, <2>3, <2>4
<1>8. CASE SendHit(c, q) \/ SendMiss(c, q)
  <2>1. /\ TableInv' /\ Elsewhere(c) /\ Tidy(c)'
        /\ Std!ProtocolStep(c)
    BY <1>3, <1>8, SendHitMaps, SendMissMaps DEF Std!ProtocolStep
  <2>2. \E d : \/ Update(c, [s EXCEPT !.hook = "replay", !.recorded = d, !.pos = 0, !.key = q])
              \/ Update(c, [s EXCEPT !.hook = "record", !.recorded = d, !.key = q])
    BY <1>8 DEF SendHit, SendMiss
  <2> HIDE DEF s
  <2>3. /\ conn'[c].running = q /\ conn'[c].key = q
        /\ conn'[c].should = conn'[c].active
    <3>1. \E d : \/ conn'[c] = [s EXCEPT !.hook = "replay", !.recorded = d, !.pos = 0, !.key = q]
                \/ conn'[c] = [s EXCEPT !.hook = "record", !.recorded = d, !.key = q]
      BY <1>6, <2>2 DEF Update
    <3> QED BY <1>4, <3>1 DEF ConnectionData
  <2>4. PlainFields(c)
    BY <1>1, <2>3 DEF PlainFields
  <2> QED BY <1>1, <1>3, <2>1, <2>4, PlainlyAfter DEF Maps
<1> QED BY <1>2, <1>7, <1>8

\* What an answer leaves of these fields.
LEMMA AnswerFields ==
    ASSUME WireInv, NEW c \in Conns, ReapQuery(c) \/ StoreResult(c)
    PROVE  /\ conn'[c].should = conn[c].should /\ conn'[c].active = conn[c].active
           /\ conn'[c].running = conn[c].running
           /\ conn'[c].key \in {conn[c].key, None}
<1> USE DEF ConnectionData
<1>1. conn \in [Conns -> ConnectionData] /\ conn[c] \in ConnectionData
  BY DEF WireInv, TypesOK
<1> DEFINE
      Same(x) == /\ x.should = conn[c].should /\ x.active = conn[c].active
                 /\ x.running = conn[c].running
                 /\ x.key \in {conn[c].key, None}
<1>2. ASSUME NEW st
      PROVE  /\ Same([ConnAfterReceive(c) EXCEPT !.state = st])
             /\ Same(Unhooked([ConnAfterReceive(c) EXCEPT !.state = st]))
             /\ Same([conn[c] EXCEPT !.state = st])
             /\ Same(Unhooked([conn[c] EXCEPT !.state = st]))
             /\ Same([Unhooked([ConnAfterReceive(c) EXCEPT !.state = st]) EXCEPT !.key = None])
  BY <1>1 DEF ConnAfterReceive, Unhooked
<1>3. PICK x : Same(x) /\ Update(c, x)
  <2>1. CASE ReapQuery(c)
    BY <1>2, <2>1 DEF ReapQuery, ReapResultSet, ReapNoResult, ReapFails, GiveUpRecording
  <2>2. CASE StoreResult(c)
    BY <1>2, <2>2
       DEF StoreResult, StoreInactive, StoreUnhooked, StoreReplayed, StoreNoTable, StoreAdded,
           StoreRefused, StoreRejected, StoreRecorded, StoreFails, RowsRead, Finished
  <2> QED BY <2>1, <2>2
<1> HIDE DEF Same
<1>4. conn'[c] = x
  BY <1>1, <1>3 DEF Update
<1> QED BY <1>3, <1>4 DEF Same

LEMMA PlainAnswerMaps ==
    ASSUME NEW c \in Conns, Before(c), PlainAnswer(c)
    PROVE  Maps(c)
<1> USE BeforeIs
<1>1. /\ conn[c].running \notin PsKeys /\ Sound(c) /\ UNCHANGED stmt
      /\ ReapQuery(c) \/ StoreResult(c)
  BY DEF PlainAnswer
<1>2. ~Replayless(c) /\ \A s \in StmtsOf(c) : ~ReadBy(c, s)
  BY <1>1 DEF Sound, Replayless, ReadBy, Reading
<1>3. /\ Tidy(c) /\ conn[c].should = conn[c].active /\ conn[c].key \notin PsKeys
      /\ \A s \in StmtsOf(c) : Resting(stmt[s])
  BY <1>2 DEF Shared, Plainly
<1>4. /\ TableInv' /\ Elsewhere(c) /\ Tidy(c)'
      /\ UNCHANGED Std!vars \/ Std!ProtocolStep(c)
  BY <1>1, <1>3, AnswerMaps
<1>5. None \notin PsKeys
  BY NoneIs
<1>6. PlainFields(c)
  BY <1>1, <1>3, <1>5, AnswerFields DEF PlainFields
<1> QED BY <1>1, <1>3, <1>4, <1>6, PlainlyAfter DEF Maps

\* Time passes, or nothing happens.
LEMMA SharedKept ==
    ASSUME NEW c \in Conns, Shared(c), UNCHANGED <<heap, conn, net, stmt>>, Tidy(c) => Tidy(c)'
    PROVE  Shared(c)'
<1>1. StmtsOf(c)' = StmtsOf(c)
  BY DEF StmtsOf
<1>2. Plainly(c) => Plainly(c)'
  BY DEF Plainly
<1>3. Replayless(c) => Replayless(c)'
  BY DEF Replayless
<1>4. \A s \in StmtsOf(c) : Resting(stmt'[s]) <=> Resting(stmt[s])
  OBVIOUS
<1>5. \A s \in StmtsOf(c) : ReadBy(c, s) => ReadBy(c, s)'
  BY <1>1, <1>4 DEF ReadBy
<1> QED BY <1>1, <1>2, <1>3, <1>4, <1>5 DEF Shared

\* A statement goes through functions that have nothing to read from or write to.
LEMMA CrashIs ==
    ASSUME SharedInv, Orderly, Conns # {}, Crash, UNCHANGED <<cache, heap>>
    PROVE  Crashed'
<1>1. TableInv
  BY DEF SharedInv
<1>2. \A c \in Conns : conn'[c] = [Closed EXCEPT !.state = "crashed"]
  BY DEF Crash
<1>3. ~NobodyCrashed'
  BY <1>2 DEF NobodyCrashed, Alive, Closed
<1>4. \A k \in Keys : Cached(k) => heap[cache[k].cached_query] = FirstResult(k)
  BY <1>1, EntryContainer
<1>5. \A k \in Keys : Cached(k) => FirstResult(k) # None
  BY <1>1, EntryContainer, FirstResultIs, NoneIs
<1>6. CachesWholeResult'
  BY <1>4 DEF CachesWholeResult, Cached, FirstResult, Answer, Parts
<1>7. \A k \in Keys : Cached(k)' => heap'[cache'[k].cached_query] # None
  BY <1>4, <1>5 DEF Cached
<1> QED BY <1>2, <1>3, <1>6, <1>7 DEF Crashed

-----------------------------------------------------------------------------
(***************************************************************************)
(* Every step                                                              *)
(***************************************************************************)

LEMMA PsStart ==
    ASSUME PsOrderly, PsInit
    PROVE  PsInv /\ Std!Init
<1>1. /\ TableInv /\ Std!Init
      /\ \A c \in Conns : Idle(c) /\ conn[c].hook = "original"
  BY TableInit DEF PsOrderly, PsInit
<1>2. \A c \in Conns : Tidy(c)
  BY OrderlyInit DEF PsOrderly, PsInit, OrderlyInv
<1>3. \A c \in Conns : conn[c] = Connected
  BY DEF PsInit, Init
<1>4. None \notin PsKeys
  BY NoneIs, StmtAssumption DEF StmtAssumption
<1>5. stmt \in [Stmts -> Statement] /\ \A s \in Stmts : stmt[s] = Initted
  BY DEF PsInit, Initted, Statement
<1>6. Resting(Initted)
  BY DEF Resting, Initted
<1>7. \A c \in Conns : Shared(c)
  <2> SUFFICES ASSUME NEW c \in Conns PROVE Shared(c)
    OBVIOUS
  <2>1. conn[c].should = conn[c].active /\ conn[c].key = None /\ conn[c].state = "ready"
    BY <1>3 DEF Connected, Closed
  <2>2. Plainly(c)
    BY <1>2, <2>1 DEF Plainly
  <2> QED BY <1>4, <1>5, <1>6, <2>1, <2>2 DEF Shared, StmtsOf
<1> QED BY <1>1, <1>5, <1>7 DEF PsInv, SharedInv

\* What a statement does on its connection.
LEMMA StmtMaps ==
    ASSUME NEW c \in Conns, Before(c), NEW s \in StmtsOf(c),
           \/ \E q \in PsKeys : Prepare(s, q)
           \/ PrepareRefused(s) \/ Forget(s)
           \/ ExecutePlain(s) \/ ExecuteHit(s) \/ ExecuteMiss(s)
           \/ UseStmtResult(s) \/ ReadToEnd(s)
    PROVE  Maps(c)
<1>1. CASE (\E q \in PsKeys : Prepare(s, q)) \/ PrepareRefused(s) \/ Forget(s)
  BY <1>1, PrepareMaps, PrepareRefusedMaps, ForgetMaps
<1>2. CASE ExecutePlain(s) \/ ExecuteHit(s) \/ ExecuteMiss(s)
  BY <1>2, ExecutePlainMaps, ExecuteHitMaps, ExecuteMissMaps
<1>3. CASE UseStmtResult(s) \/ ReadToEnd(s)
  BY <1>3, UseStmtResultMaps, ReadPlainMaps, ReadReplayedMaps, ReadDiscardedMaps,
     ReadAddedMaps DEF ReadToEnd
<1> QED BY <1>1, <1>2, <1>3

\* What a step establishes.
Continues ==
    /\ PsInv'
    /\ \/ [Std!NextProtocol]_(Std!vars)
       \/ ~NobodyCrashed' /\ UNCHANGED <<cache, heap>>

\* A step of one connection is one of all of them.
LEMMA MapsAll ==
    ASSUME PsOrderly, SharedInv, NEW c \in Conns, Maps(c)
    PROVE  Continues
<1>1. \A o \in Conns \ {c} : Shared(o)'
  BY SharedElsewhere DEF SharedInv, Maps
<1>2. PsInv'
  BY <1>1 DEF Maps, PsInv, SharedInv, OwnStmts
<1>3. [Std!NextProtocol]_(Std!vars)
  BY DEF Maps, Std!NextProtocol
<1> QED BY <1>2, <1>3 DEF Continues

\* Before the process ends.
LEMMA SharedStep ==
    ASSUME PsOrderly, stmt \in [Stmts -> Statement], SharedInv, [PsNext]_psVars
    PROVE  Continues
<1>1. Orderly /\ TableInv
  BY DEF PsOrderly, SharedInv
<1>2. \A c \in Conns : Before(c)
  BY DEF Before, SharedInv
<1>3. CASE UNCHANGED psVars
  <2>1. TableInv' /\ UNCHANGED Std!vars /\ \A c \in Conns : Tidy(c) => Tidy(c)'
    BY <1>1, <1>3, Unmoved DEF psVars
  <2>2. \A c \in Conns : Shared(c)'
    BY <1>3, <2>1, SharedKept DEF SharedInv, psVars
  <2> QED BY <1>3, <2>1, <2>2 DEF Continues, PsInv, SharedInv, psVars
<1>4. CASE Pause
  <2>1. /\ TableInv' /\ Std!Tick /\ \A c \in Conns : Tidy(c) => Tidy(c)'
        /\ UNCHANGED <<heap, conn, net, stmt>>
    BY <1>1, <1>4, TickMaps DEF Pause, Tick
  <2>2. \A c \in Conns : Shared(c)'
    BY <2>1, SharedKept DEF SharedInv
  <2> QED BY <2>1, <2>2 DEF Continues, PsInv, SharedInv, Std!NextProtocol
<1>5. ASSUME NEW c \in Conns, (\E q \in Keys : PlainSend(c, q)) \/ PlainAnswer(c)
      PROVE  Continues
  BY <1>2, <1>5, PlainSendMaps, PlainAnswerMaps, MapsAll
<1>6. ASSUME NEW c \in Conns, CrashOnReceive(c) \/ \E s \in Stmts : ExecuteCrash(s)
      PROVE  Continues
  <2>1. Crash /\ UNCHANGED <<cache, heap, stmt>>
    BY <1>6 DEF CrashOnReceive, ExecuteCrash
  <2>2. Crashed'
    BY <1>1, <2>1, CrashIs
  <2> QED BY <2>1, <2>2 DEF Continues, PsInv, Crashed
<1>7. ASSUME NEW s \in Stmts,
             \/ \E q \in PsKeys : Prepare(s, q)
             \/ PrepareRefused(s) \/ Forget(s)
             \/ Execute(s) \/ UseStmtResult(s) \/ ReadToEnd(s)
      PROVE  Continues
  <2>1. Owner[s] \in Conns /\ s \in StmtsOf(Owner[s])
    BY StmtAssumption DEF StmtAssumption, StmtsOf
  <2>2. CASE ExecuteCrash(s)
    BY <1>6, <2>1, <2>2
  <2>3. CASE ~ExecuteCrash(s)
    <3>1. Maps(Owner[s])
      BY <1>2, <1>7, <2>1, <2>3, StmtMaps DEF Execute
    <3> QED BY <2>1, <3>1, MapsAll
  <2> QED BY <2>2, <2>3
<1> QED BY <1>3, <1>4, <1>5, <1>6, <1>7 DEF PsNext

\* After it.
LEMMA CrashedStep ==
    ASSUME stmt \in [Stmts -> Statement], Crashed, [PsNext]_psVars
    PROVE  Continues
<1>1. /\ \A c \in Conns : conn[c].state = "crashed"
      /\ \A s \in Stmts : Owner[s] \in Conns
  BY StmtAssumption DEF Crashed, Closed, StmtAssumption
<1>2. ASSUME NEW c \in Conns
      PROVE  ~PlainAnswer(c) /\ ~CrashOnReceive(c) /\ \A q : ~PlainSend(c, q)
  <2>1. ~MaySend(c) /\ ~MayStore(c) /\ ~CrashOnReceive(c)
    BY <1>1 DEF MaySend, MayStore, Open, CrashOnReceive
  <2>2. \A q : ~SendQuery(c, q)
    BY <2>1
       DEF SendQuery, SendPlain, SendHit, SendHitRefused, SendMiss, SendMissRefused
  <2>3. ~ReapQuery(c) /\ ~StoreFails(c)
    BY <1>1 DEF ReapQuery, ReapResultSet, ReapNoResult, ReapFails, StoreFails
  <2>4. ~StoreResult(c)
    BY <2>1, <2>3
       DEF StoreResult, StoreInactive, StoreUnhooked, StoreReplayed, StoreNoTable, StoreAdded,
           StoreRefused, StoreRejected, StoreRecorded
  <2> QED BY <2>1, <2>2, <2>3, <2>4 DEF PlainSend, PlainAnswer
<1>3. \A s \in Stmts : /\ \A q : ~Prepare(s, q)
                       /\ ~PrepareRefused(s) /\ ~Forget(s)
                       /\ ~Execute(s) /\ ~UseStmtResult(s) /\ ~ReadToEnd(s)
  BY <1>1
     DEF Prepare, PrepareRefused, MayPrepare, Forget, Execute, ExecutePlain, ExecuteCrash,
         ExecuteHit, ExecuteMiss, MayExecute, UseStmtResult, ReadToEnd, ReadPlain,
         ReadReplayed, ReadDiscarded, ReadAdded, ReadRecorded, EndsReading, Alive
<1>4. Pause \/ UNCHANGED psVars
  BY <1>2, <1>3 DEF PsNext
<1>5. UNCHANGED <<cache, heap, conn, stmt>>
  BY <1>4 DEF Pause, Tick, psVars
<1>6. Crashed'
  BY <1>5 DEF Crashed, NobodyCrashed, Alive, CachesWholeResult, Cached, FirstResult, Answer, Parts
<1> QED BY <1>5, <1>6 DEF Continues, PsInv, Crashed

\* Whatever scripts do with prepared and plain statements, the invariant holds.
THEOREM PsConsistent == PsOrderly => (PsSpec => []PsInv)
<1> SUFFICES ASSUME PsOrderly PROVE PsSpec => []PsInv
  OBVIOUS
<1>1. PsInit => PsInv
  BY PsStart
<1>2. PsInv /\ [PsNext]_psVars => PsInv'
  BY SharedStep, CrashedStep DEF PsInv, Continues
<1> QED BY <1>1, <1>2, PTL DEF PsSpec

\* The hooks of prepared and of plain statements together implement the protocol
\* of module StdCache, until functions that were left swapped end the process;
\* after that the cache does not change.
THEOREM PreparedRefinement == PsOrderly => (PsSpec => ImplementsUntilCrash)
<1> SUFFICES ASSUME PsOrderly PROVE PsSpec => ImplementsUntilCrash
  OBVIOUS
<1>1. PsInit => Std!Init
  BY PsStart
<1>2. PsInv /\ [PsNext]_psVars =>
        [Std!NextProtocol \/ (~NobodyCrashed' /\ UNCHANGED <<cache, heap>>)]_(Std!vars)
  <2> SUFFICES ASSUME PsInv, [PsNext]_psVars
               PROVE  \/ [Std!NextProtocol]_(Std!vars)
                      \/ ~NobodyCrashed' /\ UNCHANGED <<cache, heap>>
    OBVIOUS
  <2> QED BY SharedStep, CrashedStep DEF PsInv, Continues
<1> QED BY <1>1, <1>2, PsConsistent, PTL DEF PsSpec, ImplementsUntilCrash

-----------------------------------------------------------------------------
(***************************************************************************)
(* What follows from the invariant                                         *)
(***************************************************************************)

\* A statement with rows to read, in a process that goes on.
LEMMA UnreadReads ==
    ASSUME PsInv, NEW s \in Stmts, Unread(s), Alive(Owner[s])
    PROVE  MayReceive(Owner[s]) /\ NextPart(Owner[s]) = <<stmt[s].query, 2>>
<1>1. Owner[s] \in Conns /\ s \in StmtsOf(Owner[s])
  BY StmtAssumption DEF StmtAssumption, StmtsOf
<1>2. TableInv /\ Shared(Owner[s])
  BY <1>1 DEF PsInv, Crashed, Alive, Closed, SharedInv
<1>3. ReadBy(Owner[s], s)
  BY <1>1, <1>2, UnreadIs
<1> QED BY <1>1, <1>2, <1>3, RowsAreThere

LEMMA PsEntriesWhole ==
    ASSUME PsInv
    PROVE  CachesWholeResult /\ \A k \in Keys : Cached(k) => heap[cache[k].cached_query] # None
<1> QED BY EntryContainer, FirstResultIs, NoneIs
        DEF PsInv, SharedInv, Crashed, CachesWholeResult

LEMMA PsHeldData ==
    ASSUME PsInv, NEW c \in Conns, conn[c].recorded # None
    PROVE  heap[conn[c].recorded] # None
<1>1. TableInv /\ Shared(c)
  BY DEF PsInv, Crashed, Closed, SharedInv
<1>2. conn[c].hook \in {"record", "replay"} /\ conn[c].running \in Keys
  BY <1>1, ProperIs DEF Hooks
<1>3. CASE conn[c].hook = "replay"
  BY <1>1, <1>2, <1>3, ReplayedData, AnswerToIs
<1>4. ASSUME conn[c].hook = "record", Tidy(c)
      PROVE  heap[conn[c].recorded] # None
  <2> DEFINE i == IF conn[c].state = "sent" THEN 0 ELSE 1
             q == conn[c].key
  <2>1. q \in Keys /\ heap[conn[c].recorded] = UpTo(q, i)
    BY <1>4, ConnIs DEF Hooked, Holds
  <2>2. i \in 0..Parts(q)
    BY <2>1, PartsAre
  <2> QED BY <2>1, <2>2, UpToIs, NoneIs
<1>5. ASSUME conn[c].hook = "record", NEW s \in StmtsOf(c), ReadBy(c, s)
      PROVE  heap[conn[c].recorded] # None
  <2> DEFINE q == stmt[s].query
  <2>1. q \in Keys /\ heap[conn[c].recorded] = UpTo(q, 1)
    BY <1>5, StmtAssumption DEF ReadBy, Reading, StmtAssumption
  <2>2. 1 \in 0..Parts(q)
    BY <2>1, PartsAre
  <2> QED BY <2>1, <2>2, UpToIs, NoneIs
<1> QED BY <1>1, <1>2, <1>3, <1>4, <1>5 DEF Shared, Plainly, Replayless

\* The readers that StdCache counts.
LEMMA ReaderIs ==
    ASSUME TableInv, NEW k, NEW c \in Conns
    PROVE  c \in Std!Readers(k) <=>
               conn[c].hook = "replay" /\ conn[c].recorded # None /\ conn[c].running = k
BY ProperIs, StdClient DEF Std!Readers, Hooks

\* What a reader is on a connection with prepared statements.
LEMMA ReaderReads ==
    ASSUME TableInv, NEW c \in Conns, Shared(c), conn[c].hook = "replay",
           conn[c].recorded # None
    PROVE  \/ /\ conn[c].running \notin PsKeys /\ conn[c].key = conn[c].running
           \/ \E s \in StmtsOf(c) :
                /\ stmt[s].key = conn[c].running /\ ~stmt[s].record_mode
                /\ stmt[s].key \in PsKeys
<1>1. CASE Plainly(c)
  BY <1>1, ConnIs DEF Plainly, Hooked
<1>2. ASSUME NEW s \in StmtsOf(c), ReadBy(c, s)
      PROVE  /\ stmt[s].key = conn[c].running /\ ~stmt[s].record_mode
             /\ stmt[s].key \in PsKeys
  BY <1>2 DEF ReadBy, Reading
<1> QED BY <1>1, <1>2 DEF Shared, Replayless

\* A statement that replays reads from its connection, and no other of it does.
LEMMA StmtReplayIs ==
    ASSUME SharedInv, NEW k \in Keys, NEW s \in StmtReplays(k)
    PROVE  /\ Owner[s] \in Conns /\ k \in PsKeys
           /\ conn[Owner[s]].hook = "replay" /\ conn[Owner[s]].recorded # None
           /\ conn[Owner[s]].running = k
           /\ \A t \in StmtReplays(k) : Owner[t] = Owner[s] => t = s
<1>1. /\ s \in Stmts /\ stmt[s].key = k /\ ~stmt[s].record_mode
      /\ Owner[s] \in Conns /\ s \in StmtsOf(Owner[s]) /\ k # None
  BY StmtAssumption, NoneIs DEF StmtReplays, StmtAssumption, StmtsOf
<1>2. ReadBy(Owner[s], s)
  BY <1>1 DEF SharedInv, Shared, ReadBy, Resting
<1>3. \A t \in StmtReplays(k) : Owner[t] = Owner[s] => t \in StmtsOf(Owner[s]) /\ ~Resting(stmt[t])
  BY <1>1 DEF StmtReplays, StmtsOf, Resting
<1> QED BY <1>1, <1>2, <1>3 DEF ReadBy, Reading

LEMMA ReadersOf ==
    ASSUME stmt \in [Stmts -> Statement], SharedInv, NobodyCrashed, NEW k \in Keys,
           IsFiniteSet(Conns)
    PROVE  Cardinality(StmtReplays(k)) + Cardinality(PlainReplays(k))
               = Cardinality(Std!Readers(k))
<1>1. TableInv /\ \A c \in Conns : Shared(c)
  BY DEF SharedInv
<1>2. IsFiniteSet(Std!Readers(k)) /\ Cardinality(Std!Readers(k)) \in Nat
  <2>1. Std!Readers(k) \subseteq Conns
    BY DEF Std!Readers
  <2> QED BY <2>1, FS_Subset, FS_CardinalityType
<1>3. Cardinality({}) = 0
  BY FS_EmptySet
<1>4. CASE k \in PsKeys
  <2> DEFINE f == [s \in StmtReplays(k) |-> Owner[s]]
             g == StmtReplays(k)
             R == Std!Readers(k)
  <2>1. PlainReplays(k) = {}
    BY <1>1, <1>4 DEF PlainReplays, Replays, Shared
  <2>2. \A s \in g : f[s] \in R
    BY <1>1, StmtReplayIs, ReaderIs
  <2>3. \A s, t \in g : f[s] = f[t] => s = t
    BY StmtReplayIs
  <2>4. \A c \in R : \E s \in g : f[s] = c
    <3> SUFFICES ASSUME NEW c \in R PROVE \E s \in g : f[s] = c
      OBVIOUS
    <3>1. c \in Conns
      BY DEF Std!Readers
    <3>2. conn[c].hook = "replay" /\ conn[c].recorded # None /\ conn[c].running = k
      BY <1>1, <3>1, ReaderIs
    <3>3. PICK s \in StmtsOf(c) : stmt[s].key = k /\ ~stmt[s].record_mode
      BY <1>1, <1>4, <3>1, <3>2, ReaderReads
    <3>4. s \in g /\ Owner[s] = c
      BY <3>1, <3>3 DEF StmtReplays, StmtsOf, NobodyCrashed
    <3> QED BY <3>4
  <2>5. f \in Bijection(g, R)
    <3> HIDE DEF R
    <3>1. f \in [g -> R]
      BY <2>2
    <3> HIDE DEF f, g
    <3> QED BY <3>1, <2>3, <2>4 DEF Bijection, Injection, Surjection, IsInjective
  <2>6. ExistsBijection(R, g)
    <3> HIDE DEF f, g, R
    <3> QED BY <2>5, Fun_ExistsBijSymmetric DEF ExistsBijection
  <2>7. IsFiniteSet(g) /\ Cardinality(g) = Cardinality(R)
    <3> HIDE DEF g, R
    <3> QED BY <1>2, <2>6, FS_Bijection DEF R
  <2> QED BY <1>2, <1>3, <2>1, <2>7
<1>5. CASE k \notin PsKeys
  <2>1. StmtReplays(k) = {}
    BY <1>5, StmtReplayIs
  <2>2. PlainReplays(k) = Std!Readers(k)
    <3>1. PlainReplays(k) \subseteq Conns /\ Std!Readers(k) \subseteq Conns
      BY DEF PlainReplays, Replays, Std!Readers
    <3>2. ASSUME NEW c \in Conns
          PROVE  c \in PlainReplays(k) <=> c \in Std!Readers(k)
      <4>1. c \in PlainReplays(k) <=>
              /\ conn[c].hook = "replay" /\ conn[c].key = k
              /\ conn[c].recorded # None /\ conn[c].running = k
        BY DEF PlainReplays, Replays
      <4>2. conn[c].hook = "replay" /\ conn[c].recorded # None /\ conn[c].running = k
              => conn[c].key = k
        BY <1>1, <1>5, ReaderReads
      <4> QED BY <1>1, <4>1, <4>2, ReaderIs
    <3> QED BY <3>1, <3>2
  <2> QED BY <1>2, <1>3, <2>1, <2>2
<1> QED BY <1>4, <1>5

LEMMA PsCounts ==
    ASSUME PsOrderly, PsInv
    PROVE  LentToStatements
<1> SUFFICES ASSUME NobodyCrashed, NEW k \in Keys, Cached(k)
             PROVE  cache[k].references = IF DataCopy THEN 0
                        ELSE Cardinality(StmtReplays(k)) + Cardinality(PlainReplays(k))
  BY DEF LentToStatements
<1>1. SharedInv /\ stmt \in [Stmts -> Statement]
  BY DEF PsInv, Crashed
<1>2. Std!CountersAreReaders /\ Std!Cached(k)
  BY <1>1, SameTable DEF SharedInv, TableInv, Std!IInv, Std!Consistent
<1>3. cache[k].references = IF DataCopy THEN 0 ELSE Std!Cardinality(Std!Readers(k))
  BY <1>2 DEF Std!CountersAreReaders
<1>4. \A S : Std!Cardinality(S) = Cardinality(S)
  BY DEF Cardinality, Std!Cardinality, IsFiniteSet, Std!IsFiniteSet
<1>5. Cardinality(StmtReplays(k)) + Cardinality(PlainReplays(k)) = Cardinality(Std!Readers(k))
  BY <1>1, ReadersOf DEF PsOrderly, Orderly
<1> QED BY <1>3, <1>4, <1>5

-----------------------------------------------------------------------------
(***************************************************************************)
(* Theorems                                                                *)
(***************************************************************************)

\* The rows a prepared statement reads, through whatever functions its connection
\* has by then, are those of its own query.
THEOREM StatementsReadTheirOwn == PsOrderly => (PsSpec => []PsReadsOwnAnswer)
<1> SUFFICES ASSUME PsOrderly PROVE PsSpec => []PsReadsOwnAnswer
  OBVIOUS
<1>1. PsInv => PsReadsOwnAnswer
  BY UnreadReads DEF PsReadsOwnAnswer
<1> QED BY <1>1, PsConsistent, PTL

\* Nobody who fetches the rows of a prepared statement waits for rows that do not
\* come.
THEOREM RowsOfStatementsCome == PsOrderly => (PsSpec => []RowsOnTheirWay)
<1> SUFFICES ASSUME PsOrderly PROVE PsSpec => []RowsOnTheirWay
  OBVIOUS
<1>1. PsInv => RowsOnTheirWay
  BY UnreadReads DEF RowsOnTheirWay
<1> QED BY <1>1, PsConsistent, PTL

\* Recordings of prepared statements enter the cache whole or not at all, also
\* when the process ends between the header and the rows.
THEOREM StatementsCacheWholeResults == PsOrderly => (PsSpec => []CachesWholeResult)
<1> SUFFICES ASSUME PsOrderly PROVE PsSpec => []CachesWholeResult
  OBVIOUS
<1>1. PsInv => CachesWholeResult
  BY PsEntriesWhole
<1> QED BY <1>1, PsConsistent, PTL

\* Neither a connection whose functions a prepared statement left swapped nor an
\* entry of the cache points to a container that was freed.
THEOREM StatementsUseNothingFreed == PsOrderly => (PsSpec => []PsNoUseAfterFree)
<1> SUFFICES ASSUME PsOrderly PROVE PsSpec => []PsNoUseAfterFree
  OBVIOUS
<1>1. PsInv => PsNoUseAfterFree
  BY PsHeldData, PsEntriesWhole DEF PsNoUseAfterFree
<1> QED BY <1>1, PsConsistent, PTL

\* An entry that prepared and plain statements replay is counted once for each of
\* them, so that none keeps it for ever and none loses it while it reads.
THEOREM EntriesAreLentToStatements == PsOrderly => (PsSpec => []LentToStatements)
<1> SUFFICES ASSUME PsOrderly PROVE PsSpec => []LentToStatements
  OBVIOUS
<1>1. PsInv => LentToStatements
  BY PsCounts
<1> QED BY <1>1, PsConsistent, PTL

\* While the process goes on, no container of a prepared or plain statement is
\* forgotten without being freed.
THEOREM StatementsLeakNothing == PsOrderly => (PsSpec => [](NobodyCrashed => NothingLeaks))
<1> SUFFICES ASSUME PsOrderly PROVE PsSpec => [](NobodyCrashed => NothingLeaks)
  OBVIOUS
<1>1. PsInv => (NobodyCrashed => NothingLeaks)
  BY LeaksNothing DEF PsInv, Crashed, SharedInv
<1> QED BY <1>1, PsConsistent, PTL

=============================================================================
