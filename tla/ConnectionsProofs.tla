--------------------------- MODULE ConnectionsProofs ---------------------------
(***************************************************************************)
(* The first part is about any scripts: with std_data_copy the hooks read, *)
(* record and cache nothing but whole results of the right statement from  *)
(* memory that is theirs, for any statements and any number of             *)
(* connections, with and without slam defense, whatever scripts do.        *)
(*                                                                         *)
(* The second is about scripts that finish a statement before they send    *)
(* the next: whatever statements they send over however many connections,  *)
(* with and without slam defense and copies of the cached data, each       *)
(* connection follows the protocol of module StdCache, so that the         *)
(* theorems about StdCache hold of the connections, and no statement of    *)
(* theirs waits for an answer that does not come.                          *)
(***************************************************************************)
EXTENDS ConnectionsRefinement, SequenceTheorems, FiniteSetTheorems, TLAPS

-----------------------------------------------------------------------------
(***************************************************************************)
(* The wire                                                                *)
(***************************************************************************)

Part == Keys \X Nat

\* The answer from its part i on, and up to it.
From(q, i) == SubSeq(Answer(q), i, Parts(q))
UpTo(q, i) == SubSeq(Answer(q), 1, i)

LEMMA PartsAre ==
    ASSUME NEW q \in Keys
    PROVE  /\ Parts(q) \in {1, 2, 4}
           /\ Parts(q) = 1 <=> q \notin ResultSets
BY ConnectionAssumption DEF Parts, ConnectionAssumption

LEMMA AnswerIs ==
    ASSUME NEW q \in Keys
    PROVE  /\ Answer(q) \in Seq(Part) /\ Len(Answer(q)) = Parts(q)
           /\ \A i \in 1..Parts(q) : Answer(q)[i] = <<q, i>>
<1>1. Parts(q) \in Nat
  BY PartsAre
<1>2. Answer(q) \in [1..Parts(q) -> Part]
  BY <1>1 DEF Answer, Part
<1>3. Answer(q) \in Seq(Part)
  BY <1>1, <1>2, SeqDef
<1>4. DOMAIN Answer(q) = 1..Len(Answer(q)) /\ Len(Answer(q)) \in Nat
  BY <1>3, LenProperties
<1>5. Len(Answer(q)) = Parts(q)
  BY <1>1, <1>2, <1>4
<1> QED BY <1>3, <1>5 DEF Answer

LEMMA Ends ==
    ASSUME NEW q \in Keys
    PROVE  /\ From(q, 1) = Answer(q) /\ UpTo(q, 0) = <<>>
           /\ From(q, Parts(q) + 1) = <<>>
<1>1. Answer(q) \in Seq(Part) /\ Len(Answer(q)) = Parts(q) /\ Parts(q) \in Nat
  BY AnswerIs, PartsAre
<1>2. From(q, 1) = Answer(q)
  BY <1>1, SubSeqFull DEF From
<1>3. UpTo(q, 0) = <<>>
  BY SubSeqEmpty DEF UpTo
<1>4. From(q, Parts(q) + 1) = <<>>
  BY <1>1, SubSeqEmpty DEF From
<1> QED BY <1>2, <1>3, <1>4

LEMMA Received ==
    ASSUME NEW q \in Keys, NEW i \in 1..Parts(q)
    PROVE  /\ From(q, i) \in Seq(Part) /\ From(q, i) # <<>>
           /\ Head(From(q, i)) = <<q, i>>
           /\ Tail(From(q, i)) = From(q, i + 1)
<1>1. /\ Answer(q) \in Seq(Part) /\ Len(Answer(q)) = Parts(q) /\ Parts(q) \in Nat
      /\ Answer(q)[i] = <<q, i>>
  BY AnswerIs, PartsAre
<1>2. /\ Head(From(q, i)) = <<q, i>>
      /\ Tail(From(q, i)) = From(q, i + 1)
  BY <1>1, HeadTailOfSubSeq DEF From
<1>3. \A j \in i..Parts(q) : Answer(q)[j] \in Part
  BY <1>1, ElementOfSeq
<1>4. From(q, i) \in Seq(Part) /\ Len(From(q, i)) = Parts(q) - i + 1
  BY <1>1, <1>3, SubSeqProperties DEF From
<1>5. From(q, i) # <<>>
  BY <1>1, <1>4, EmptySeq
<1> QED BY <1>2, <1>4, <1>5

LEMMA Recorded ==
    ASSUME NEW q \in Keys, NEW i \in 1..Parts(q)
    PROVE  Append(UpTo(q, i - 1), <<q, i>>) = UpTo(q, i)
<1>1. /\ Answer(q) \in Seq(Part) /\ Len(Answer(q)) = Parts(q) /\ Parts(q) \in Nat
      /\ Answer(q)[i] = <<q, i>>
  BY AnswerIs, PartsAre
<1>2. UpTo(q, i) = UpTo(q, i - 1) \o << <<q, i>> >>
  <2>1. 1 \in 1..Len(Answer(q)) /\ i \in 1..Len(Answer(q))
    BY <1>1
  <2>2. SubSeq(Answer(q), 1, i) = SubSeq(Answer(q), 1, i - 1) \o <<Answer(q)[i]>>
    BY <1>1, <2>1, SubSeqRecursiveSecond
  <2> QED BY <1>1, <2>2 DEF UpTo
<1>3. \A j \in 1..(i - 1) : Answer(q)[j] \in Part
  BY <1>1, ElementOfSeq
<1>4. UpTo(q, i - 1) \in Seq(Part)
  BY <1>1, <1>3, SubSeqProperties DEF UpTo
<1>5. <<q, i>> \in Part
  BY <1>1 DEF Part
<1>6. Append(UpTo(q, i - 1), <<q, i>>) = UpTo(q, i - 1) \o << <<q, i>> >>
  BY <1>4, <1>5, AppendIsConcat
<1> QED BY <1>2, <1>6

LEMMA FirstResultIs ==
    ASSUME NEW q \in ResultSets
    PROVE  /\ q \in Keys /\ FirstResult(q) \in Seq(Part) /\ Len(FirstResult(q)) = 2
           /\ FirstResult(q)[1] = <<q, 1>> /\ FirstResult(q)[2] = <<q, 2>>
<1>1. q \in Keys
  BY ConnectionAssumption DEF ConnectionAssumption
<1>2. /\ Answer(q) \in Seq(Part) /\ Len(Answer(q)) = Parts(q) /\ Parts(q) \in {2, 4}
      /\ Answer(q)[1] = <<q, 1>> /\ Answer(q)[2] = <<q, 2>>
  BY <1>1, AnswerIs, PartsAre
<1>3. \A j \in 1..2 : Answer(q)[j] \in Part
  BY <1>2, ElementOfSeq
<1>4. /\ FirstResult(q) \in Seq(Part)
      /\ Len(FirstResult(q)) = 2 - 1 + 1
      /\ \A j \in 1..(2 - 1 + 1) : FirstResult(q)[j] = Answer(q)[1 + j - 1]
  BY <1>3, SubSeqProperties DEF FirstResult
<1> QED BY <1>1, <1>2, <1>4

-----------------------------------------------------------------------------
(***************************************************************************)
(* The invariant                                                           *)
(***************************************************************************)

\* Connection, but for the bound of pos.
ConnectionData ==
    [state : States, running : Keys \cup {None}, hook : Hooks, recorded : Data \cup {None},
     pos : Nat, key : Keys \cup {None}, active : BOOLEAN, should : BOOLEAN]

\* r is a connection, w what the server has sent, h what recorded_data holds.

\* The server has sent the rest of the answer to the last statement, or nothing
\* will come any more.
Awaits(r, w) ==
    \/ w = <<>>
    \/ r.state = "crashed"
    \/ /\ r.running \in Keys
       /\ \E i \in 1..Parts(r.running) :
            /\ w = From(r.running, i)
            /\ \/ r.state = "sent" /\ i = 1
               \/ r.state \in {"fetching", "rows"} /\ i \in {2, 4}
               \/ r.state = "more" /\ i = 3

\* As long as the statement counts as one for the cache, what is recorded is what
\* has been received of it.
Records(r, w, h) ==
    r.hook = "record" /\ r.active =>
        \/ r.state = "gone"
        \/ /\ r.key = r.running /\ r.key \in Keys
           /\ \/ r.state = "sent" /\ h = <<>>
              \/ /\ r.state = "fetching" /\ r.key \in ResultSets
                 /\ h = UpTo(r.key, 1) /\ w \in {<<>>, From(r.key, 2)}

\* What is replayed is the result of the statement, to its end.
Replayed(r, w, h) ==
    r.hook = "replay" =>
        /\ w = <<>>
        /\ r.key \in ResultSets /\ h = FirstResult(r.key)
        /\ \/ r.pos = 2
           \/ r.running = r.key /\ r.state = "sent" /\ r.pos = 0
           \/ r.running = r.key /\ r.state = "fetching" /\ r.pos = 1

ConnectionOK(r, w, h) ==
    /\ r \in ConnectionData /\ w \in Seq(Part)
    /\ r.hook = "original" <=> r.recorded = None
    /\ r.state \in {"closed", "crashed"} => r.hook = "original"
    /\ r.recorded # None => h \in Seq(Part)
    /\ Awaits(r, w) /\ Records(r, w, h) /\ Replayed(r, w, h)

TypesOK ==
    /\ cache \in [Keys -> Entry \cup {NoEntry}]
    /\ heap \in [Data -> Seq(Part) \cup {None}]
    /\ clock \in Nat
    /\ conn \in [Conns -> ConnectionData]
    /\ net \in [Conns -> Seq(Part)]

\* A container belongs to one connection or to one entry.
Owns ==
    /\ \A c, o \in Conns : conn[c].recorded # None /\ conn[c].recorded = conn[o].recorded => c = o
    /\ \A c \in Conns, k \in Keys : Cached(k) => cache[k].cached_query # conn[c].recorded
    /\ \A k, l \in Keys : Cached(k) /\ Cached(l) /\ cache[k].cached_query = cache[l].cached_query
            => k = l

EntriesAreResults ==
    \A k \in Keys : Cached(k) =>
        k \in ResultSets /\ heap[cache[k].cached_query] = FirstResult(k)

ConnectionsOK == \A c \in Conns : ConnectionOK(conn[c], net[c], heap[conn[c].recorded])

IInv == TypesOK /\ Owns /\ EntriesAreResults /\ ConnectionsOK

LEMMA NoneIs ==
    /\ None \notin Data /\ None \notin Keys /\ None \notin Seq(Part)
    /\ \A e \in Entry : e # NoEntry /\ e.cached_query \in Data
BY HandlerAssumption, NoEntryAssumption, ConnectionAssumption
   DEF HandlerAssumption, NoEntryAssumption, ConnectionAssumption, Part, Entry

LEMMA IInvInit == Init => IInv
<1> SUFFICES ASSUME Init PROVE IInv
  OBVIOUS
<1>1. <<>> \in Seq(Part)
  BY EmptySeq
<1>2. Connected \in ConnectionData /\ Connected.hook = "original" /\ Connected.recorded = None
      /\ Connected.state = "ready"
  BY DEF Connected, Closed, ConnectionData, States, Hooks
<1>3. TypesOK
  BY <1>1, <1>2 DEF Init, HandlerInit, TypesOK
<1>4. \A k \in Keys : ~Cached(k)
  BY DEF Init, HandlerInit, Cached
<1>5. Owns
  BY <1>2, <1>4 DEF Init, Owns
<1>6. EntriesAreResults
  BY <1>4 DEF EntriesAreResults
<1>7. ConnectionsOK
  BY <1>1, <1>2 DEF Init, ConnectionsOK, ConnectionOK, Awaits, Records, Replayed
<1> QED BY <1>3, <1>5, <1>6, <1>7 DEF IInv

-----------------------------------------------------------------------------
(***************************************************************************)
(* A step of one connection                                                *)
(***************************************************************************)

Kept(k) == cache'[k] = NoEntry \/ (Cached(k) /\ cache'[k].cached_query = cache[k].cached_query)

Dropped(d) == \E k \in Keys : Cached(k) /\ cache'[k] = NoEntry /\ d = cache[k].cached_query

LEMMA WithoutContainer ==
    ASSUME NEW r, NEW w, NEW h, NEW g, ConnectionOK(r, w, h), r.recorded = None
    PROVE  ConnectionOK(r, w, g)
BY DEF ConnectionOK, Records, Replayed

LEMMA OwnStep ==
    ASSUME IInv, NEW c \in Conns, NEW r,
           conn' = [conn EXCEPT ![c] = r], clock' \in Nat,
           net' \in [Conns -> Seq(Part)], \A o \in Conns : o # c => net'[o] = net[o],
           cache' \in [Keys -> Entry \cup {NoEntry}], \A k \in Keys : Kept(k),
           heap' \in [Data -> Seq(Part) \cup {None}],
           \A d \in Data : heap'[d] = heap[d] \/ d = conn[c].recorded \/ d \in Fresh \/ Dropped(d),
           r.recorded \in {None, conn[c].recorded} \cup Fresh,
           ConnectionOK(r, net'[c], heap'[r.recorded])
    PROVE  IInv'
<1>1. /\ r \in ConnectionData /\ conn' \in [Conns -> ConnectionData] /\ conn'[c] = r
      /\ \A o \in Conns : o # c => conn'[o] = conn[o]
  BY DEF IInv, TypesOK, ConnectionOK
<1>2. TypesOK'
  BY <1>1 DEF TypesOK
<1>3. \A k \in Keys : Cached(k)' =>
          /\ Cached(k) /\ cache'[k].cached_query = cache[k].cached_query
          /\ cache[k].cached_query \in Data
  <2> SUFFICES ASSUME NEW k \in Keys, Cached(k)'
               PROVE  /\ Cached(k) /\ cache'[k].cached_query = cache[k].cached_query
                      /\ cache[k].cached_query \in Data
    OBVIOUS
  <2>1. Cached(k) /\ cache'[k].cached_query = cache[k].cached_query
    BY DEF Kept, Cached
  <2>2. cache[k] \in Entry
    BY <2>1 DEF IInv, TypesOK, Cached
  <2> QED BY <2>1, <2>2, NoneIs
<1>4. \A o \in Conns : o # c => conn[o].recorded = None \/ conn[o].recorded \in Data
  BY DEF IInv, TypesOK, ConnectionData
<1>5. \A d \in Fresh : /\ d \in Data /\ \A o \in Conns : conn[o].recorded # d
                       /\ \A k \in Keys : Cached(k) => cache[k].cached_query # d
  BY DEF Fresh, Pointed
<1>6. Owns'
  <2>1. \A a, o \in Conns :
            conn'[a].recorded # None /\ conn'[a].recorded = conn'[o].recorded => a = o
    BY <1>1, <1>5 DEF IInv, Owns
  <2>2. \A o \in Conns, k \in Keys :
            Cached(k)' => cache'[k].cached_query # conn'[o].recorded
    BY <1>1, <1>3, <1>5, NoneIs DEF IInv, Owns
  <2>3. \A k, l \in Keys :
            Cached(k)' /\ Cached(l)' /\ cache'[k].cached_query = cache'[l].cached_query => k = l
    BY <1>3 DEF IInv, Owns
  <2> QED BY <2>1, <2>2, <2>3 DEF Owns
<1>7. EntriesAreResults'
  <2> SUFFICES ASSUME NEW k \in Keys, Cached(k)'
               PROVE  k \in ResultSets /\ heap'[cache'[k].cached_query] = FirstResult(k)
    BY DEF EntriesAreResults
  <2>1. k \in ResultSets /\ heap[cache[k].cached_query] = FirstResult(k)
    BY <1>3 DEF IInv, EntriesAreResults
  <2>2. ~Dropped(cache[k].cached_query)
    BY <1>3 DEF Dropped, Cached, IInv, Owns
  <2>3. heap'[cache[k].cached_query] = heap[cache[k].cached_query]
    BY <1>3, <1>5, <2>2 DEF IInv, Owns
  <2> QED BY <1>3, <2>1, <2>3
<1>8. ConnectionsOK'
  <2> SUFFICES ASSUME NEW o \in Conns
               PROVE  ConnectionOK(conn'[o], net'[o], heap'[conn'[o].recorded])
    BY DEF ConnectionsOK
  <2>1. CASE o = c
    BY <1>1, <2>1
  <2>2. CASE o # c
    <3>1. conn'[o] = conn[o] /\ net'[o] = net[o]
      BY <1>1, <2>2
    <3>2. ConnectionOK(conn[o], net[o], heap[conn[o].recorded])
      BY DEF IInv, ConnectionsOK
    <3>3. CASE conn[o].recorded = None
      BY <3>1, <3>2, <3>3, WithoutContainer
    <3>4. CASE conn[o].recorded # None
      <4>1. conn[o].recorded \in Data /\ conn[o].recorded # conn[c].recorded
        BY <1>4, <2>2, <3>4 DEF IInv, Owns
      <4>2. conn[o].recorded \notin Fresh /\ ~Dropped(conn[o].recorded)
        BY <1>5 DEF Dropped, IInv, Owns
      <4>3. heap'[conn[o].recorded] = heap[conn[o].recorded]
        BY <4>1, <4>2
      <4> QED BY <3>1, <3>2, <4>3
    <3> QED BY <3>3, <3>4
  <2> QED BY <2>1, <2>2
<1> QED BY <1>2, <1>6, <1>7, <1>8 DEF IInv

\* A step of one connection that changes neither the table nor any container but
\* its own.
LEMMA PrivateStep ==
    ASSUME IInv, NEW c \in Conns, NEW r,
           conn' = [conn EXCEPT ![c] = r], UNCHANGED <<cache, clock>>,
           net' \in [Conns -> Seq(Part)], \A o \in Conns : o # c => net'[o] = net[o],
           heap' \in [Data -> Seq(Part) \cup {None}],
           \A d \in Data : d # conn[c].recorded => heap'[d] = heap[d],
           r.recorded \in {None, conn[c].recorded},
           ConnectionOK(r, net'[c], heap'[r.recorded])
    PROVE  IInv'
<1>1. \A k \in Keys : Kept(k)
  BY DEF Kept, Cached
<1>2. clock' \in Nat /\ cache' \in [Keys -> Entry \cup {NoEntry}]
  BY DEF IInv, TypesOK
<1> QED BY <1>1, <1>2, OwnStep

-----------------------------------------------------------------------------
(***************************************************************************)
(* What a connection knows, receives and frees                             *)
(***************************************************************************)

LEMMA ConnectionIs ==
    ASSUME IInv, NEW c \in Conns
    PROVE  /\ conn[c] \in ConnectionData /\ net[c] \in Seq(Part)
           /\ conn[c].hook = "original" <=> conn[c].recorded = None
           /\ conn[c].recorded # None =>
                  conn[c].recorded \in Data /\ heap[conn[c].recorded] \in Seq(Part)
           /\ conn[c].state \in {"closed", "crashed"} => conn[c].hook = "original"
           /\ Awaits(conn[c], net[c])
           /\ Records(conn[c], net[c], heap[conn[c].recorded])
           /\ Replayed(conn[c], net[c], heap[conn[c].recorded])
<1>1. ConnectionOK(conn[c], net[c], heap[conn[c].recorded]) /\ conn[c] \in ConnectionData
  BY DEF IInv, TypesOK, ConnectionsOK
<1>2. conn[c].recorded \in Data \cup {None}
  BY <1>1 DEF ConnectionData
<1> QED BY <1>1, <1>2 DEF ConnectionOK

\* Between two statements nothing is on its way.
LEMMA ReadyIsQuiet ==
    ASSUME IInv, NEW c \in Conns, conn[c].state \in {"ready", "closed", "gone"}
    PROVE  net[c] = <<>>
BY ConnectionIs DEF Awaits

\* What the server answers next.
LEMMA FromServer ==
    ASSUME IInv, NEW c \in Conns, MayReceive(c), conn[c].hook # "replay",
           conn[c].state \in {"sent", "fetching", "rows", "more"},
           NEW q, q = conn[c].running
    PROVE  /\ q \in Keys
           /\ \E i \in 1..Parts(q) :
                /\ net[c] = From(q, i)
                /\ NextPart(c) = <<q, i>> /\ NextPart(c) \in Part
                /\ Tail(net[c]) = From(q, i + 1) /\ Tail(net[c]) \in Seq(Part)
                /\ \/ conn[c].state = "sent" /\ i = 1
                   \/ conn[c].state \in {"fetching", "rows"} /\ i \in {2, 4}
                   \/ conn[c].state = "more" /\ i = 3
<1>1. net[c] # <<>> /\ NextPart(c) = Head(net[c])
  BY DEF MayReceive, NextPart
<1>2. q \in Keys
  BY <1>1, ConnectionIs DEF Awaits
<1>3. PICK i \in 1..Parts(q) :
          /\ net[c] = From(q, i)
          /\ \/ conn[c].state = "sent" /\ i = 1
             \/ conn[c].state \in {"fetching", "rows"} /\ i \in {2, 4}
             \/ conn[c].state = "more" /\ i = 3
  BY <1>1, ConnectionIs DEF Awaits
<1>4. Head(From(q, i)) = <<q, i>> /\ Tail(From(q, i)) = From(q, i + 1)
  BY <1>2, Received
<1>5. <<q, i>> \in Part
  BY <1>2, PartsAre DEF Part
<1>6. Tail(net[c]) \in Seq(Part)
  BY <1>1, ConnectionIs, HeadTailProperties
<1> QED BY <1>1, <1>2, <1>3, <1>4, <1>5, <1>6

\* What is replayed next.
LEMMA FromCache ==
    ASSUME IInv, NEW c \in Conns, MayReceive(c), conn[c].hook = "replay"
    PROVE  /\ net[c] = <<>>
           /\ conn[c].key \in ResultSets /\ conn[c].running = conn[c].key
           /\ conn[c].recorded \in Data
           /\ heap[conn[c].recorded] = FirstResult(conn[c].key)
           /\ NextPart(c) = <<conn[c].key, conn[c].pos + 1>>
           /\ \/ conn[c].state = "sent" /\ conn[c].pos = 0
              \/ conn[c].state = "fetching" /\ conn[c].pos = 1
<1>1. /\ net[c] = <<>> /\ conn[c].key \in ResultSets
      /\ heap[conn[c].recorded] = FirstResult(conn[c].key)
      /\ \/ conn[c].pos = 2
         \/ conn[c].running = conn[c].key /\ conn[c].state = "sent" /\ conn[c].pos = 0
         \/ conn[c].running = conn[c].key /\ conn[c].state = "fetching" /\ conn[c].pos = 1
  BY ConnectionIs DEF Replayed
<1>2. /\ Len(FirstResult(conn[c].key)) = 2
      /\ FirstResult(conn[c].key)[1] = <<conn[c].key, 1>>
      /\ FirstResult(conn[c].key)[2] = <<conn[c].key, 2>>
  BY <1>1, FirstResultIs
<1>3. conn[c].pos < Len(heap[conn[c].recorded])
  BY DEF MayReceive
<1>4. /\ conn[c].running = conn[c].key
      /\ \/ conn[c].state = "sent" /\ conn[c].pos = 0
         \/ conn[c].state = "fetching" /\ conn[c].pos = 1
  BY <1>1, <1>2, <1>3
<1>5. NextPart(c) = <<conn[c].key, conn[c].pos + 1>>
  BY <1>1, <1>2, <1>4 DEF NextPart
<1>6. conn[c].recorded \in Data
  BY ConnectionIs
<1> QED BY <1>1, <1>4, <1>5, <1>6

\* A replay comes to an end only at the end of the result.
LEMMA ReplayEnds ==
    ASSUME IInv, NEW c \in Conns, ReceiveFails(c), conn[c].hook = "replay"
    PROVE  conn[c].pos = 2
<1>1. /\ conn[c].key \in ResultSets
      /\ heap[conn[c].recorded] = FirstResult(conn[c].key)
      /\ conn[c].pos \in {0, 1, 2}
  BY ConnectionIs DEF Replayed
<1>2. Len(FirstResult(conn[c].key)) = 2
  BY <1>1, FirstResultIs
<1> QED BY <1>1, <1>2 DEF ReceiveFails, MayReceive

LEMMA ReceiveEffect ==
    ASSUME IInv, NEW c \in Conns, MayReceive(c),
           conn[c].state \in {"sent", "fetching", "rows", "more"}, Receive(c)
    PROVE  /\ net' \in [Conns -> Seq(Part)]
           /\ \A o \in Conns : o # c => net'[o] = net[o]
           /\ conn[c].hook = "replay" => net'[c] = net[c]
           /\ conn[c].hook # "replay" => net'[c] = Tail(net[c])
<1>1. net \in [Conns -> Seq(Part)]
  BY DEF IInv, TypesOK
<1>2. conn[c].hook # "replay" => Tail(net[c]) \in Seq(Part)
  BY FromServer
<1> QED BY <1>1, <1>2 DEF Receive

LEMMA RecordEffect ==
    ASSUME IInv, NEW c \in Conns, MayReceive(c),
           conn[c].state \in {"sent", "fetching", "rows", "more"}
    PROVE  /\ HeapAfterReceive(c) \in [Data -> Seq(Part) \cup {None}]
           /\ \A d \in Data : d # conn[c].recorded => HeapAfterReceive(c)[d] = heap[d]
           /\ conn[c].hook # "record" => HeapAfterReceive(c) = heap
           /\ conn[c].hook = "record" =>
                /\ HeapAfterReceive(c)[conn[c].recorded]
                       = Append(heap[conn[c].recorded], NextPart(c))
                /\ HeapAfterReceive(c)[conn[c].recorded] \in Seq(Part)
<1>1. heap \in [Data -> Seq(Part) \cup {None}]
  BY DEF IInv, TypesOK
<1>2. CASE conn[c].hook # "record"
  BY <1>1, <1>2 DEF HeapAfterReceive
<1>3. CASE conn[c].hook = "record"
  <2>1. conn[c].recorded \in Data /\ heap[conn[c].recorded] \in Seq(Part)
    BY <1>3, ConnectionIs
  <2>2. NextPart(c) \in Part
    BY <1>3, FromServer
  <2>3. Append(heap[conn[c].recorded], NextPart(c)) \in Seq(Part)
    BY <2>1, <2>2, AppendProperties
  <2>4. HeapAfterReceive(c)
            = [heap EXCEPT ![conn[c].recorded] = Append(heap[conn[c].recorded], NextPart(c))]
    BY <1>3 DEF HeapAfterReceive
  <2> QED BY <1>1, <1>3, <2>1, <2>3, <2>4
<1> QED BY <1>2, <1>3

LEMMA ReleaseEffect ==
    ASSUME IInv, NEW ds
    PROVE  /\ Released(ds) \in [Data -> Seq(Part) \cup {None}]
           /\ \A d \in Data : d \notin ds => Released(ds)[d] = heap[d]
BY DEF IInv, TypesOK, Released

\* A lookup frees nothing but the container of the entry it removes.
LEMMA LookupEffect ==
    ASSUME IInv, NEW q \in Keys, NEW now, FindMiss(q, now)
    PROVE  /\ cache' \in [Keys -> Entry \cup {NoEntry}]
           /\ \A k \in Keys : Kept(k)
           /\ \A d \in FreedByLookup(q, now) : Dropped(d)
<1>1. cache \in [Keys -> Entry \cup {NoEntry}]
  BY DEF IInv, TypesOK
<1>2. CASE FindAskedToRefresh(q, now)
  <2>1. Cached(q) /\ cache[q] \in Entry /\ cache' = [cache EXCEPT ![q].in_refresh = TRUE]
    BY <1>1, <1>2 DEF FindAskedToRefresh, AsksForRefresh, Cached
  <2>2. [cache[q] EXCEPT !.in_refresh = TRUE] \in Entry
    BY <2>1 DEF Entry
  <2>3. cache' \in [Keys -> Entry \cup {NoEntry}]
    BY <1>1, <2>1, <2>2
  <2>4. \A k \in Keys : Kept(k)
    <3> SUFFICES ASSUME NEW k \in Keys, Cached(k)
                 PROVE  cache'[k].cached_query = cache[k].cached_query
      BY <1>1, <2>1 DEF Kept, Cached
    <3>1. cache[k] \in Entry
      BY <1>1 DEF Cached
    <3> QED BY <1>1, <2>1, <3>1 DEF Entry
  <2>5. FreedByLookup(q, now) = {}
    BY <1>2 DEF FindAskedToRefresh, AsksForRefresh, FreedByLookup, Killable, Dead
  <2> QED BY <2>3, <2>4, <2>5
<1>3. CASE FindNothing(q, now)
  <2>1. cache' = IF Killable(q, now) THEN Without(q) ELSE cache
    BY <1>3 DEF FindNothing, AfterLookup
  <2>2. cache' \in [Keys -> Entry \cup {NoEntry}] /\ \A k \in Keys : Kept(k)
    BY <1>1, <2>1 DEF Without, Kept, Cached
  <2>3. ASSUME NEW d \in FreedByLookup(q, now)
        PROVE  Dropped(d)
    <3>1. Killable(q, now) /\ Cached(q) /\ d = cache[q].cached_query
      BY <2>3 DEF FreedByLookup, DestroyedBy
    <3>2. cache'[q] = NoEntry
      BY <1>1, <2>1, <3>1 DEF Without
    <3> QED BY <3>1, <3>2 DEF Dropped
  <2> QED BY <2>2, <2>3
<1> QED BY <1>2, <1>3 DEF FindMiss

-----------------------------------------------------------------------------
(***************************************************************************)
(* Sending a statement                                                     *)
(***************************************************************************)

LEMMA TransmitEffect ==
    ASSUME IInv, NEW c \in Conns, NEW q \in Keys, NEW hook, conn[c].state = "ready",
           Transmit(c, q, hook)
    PROVE  /\ net' \in [Conns -> Seq(Part)]
           /\ \A o \in Conns : o # c => net'[o] = net[o]
           /\ net'[c] = IF hook = "replay" THEN <<>> ELSE From(q, 1)
<1>1. net \in [Conns -> Seq(Part)] /\ net[c] = <<>>
  BY ReadyIsQuiet DEF IInv, TypesOK
<1>2. Answer(q) \in Seq(Part) /\ From(q, 1) = Answer(q)
  BY AnswerIs, Ends
<1>3. net[c] \o Answer(q) = Answer(q)
  BY <1>1, <1>2, ConcatEmptySeq
<1> QED BY <1>1, <1>2, <1>3 DEF Transmit

LEMMA AwaitsWholeAnswer ==
    ASSUME NEW q \in Keys, NEW r, r.state = "sent", r.running = q
    PROVE  Awaits(r, From(q, 1))
<1>1. 1 \in 1..Parts(q)
  BY PartsAre
<1> QED BY <1>1 DEF Awaits

LEMMA ClassifyIs ==
    ASSUME IInv, NEW c \in Conns, NEW q \in Keys, NEW r, r = Classify(c, q)
    PROVE  /\ r \in ConnectionData
           /\ r.state = conn[c].state /\ r.running = conn[c].running
           /\ r.hook = conn[c].hook /\ r.recorded = conn[c].recorded
           /\ r.pos = conn[c].pos /\ r.key = conn[c].key
           /\ ~Eligible(q) => r.active = FALSE
<1>1. conn[c] \in ConnectionData
  BY DEF IInv, TypesOK
<1> DEFINE s == q \in Cacheable
           a == Eligible(q)
<1>2. s \in BOOLEAN /\ a \in BOOLEAN
  BY DEF Eligible
<1>3. r = [conn[c] EXCEPT !.should = s, !.active = a]
  BY DEF Classify
<1>4. ~Eligible(q) => a = FALSE
  BY <1>2
<1> HIDE DEF s, a
<1> QED BY <1>1, <1>2, <1>3, <1>4 DEF ConnectionData

LEMMA SentIs ==
    ASSUME IInv, NEW c \in Conns, NEW q \in Keys
    PROVE  LET r == Sent(Classify(c, q), q)
           IN  /\ r \in ConnectionData
               /\ r.state = "sent" /\ r.running = q
               /\ r.hook = conn[c].hook /\ r.recorded = conn[c].recorded
               /\ r.pos = conn[c].pos /\ r.key = conn[c].key
               /\ ~Eligible(q) => r.active = FALSE
<1> DEFINE r == Classify(c, q)
<1>1. /\ r \in ConnectionData
      /\ r.hook = conn[c].hook /\ r.recorded = conn[c].recorded
      /\ r.pos = conn[c].pos /\ r.key = conn[c].key
      /\ ~Eligible(q) => r.active = FALSE
  BY ClassifyIs
<1> HIDE DEF r
<1>2. LET t == Sent(r, q)
      IN  /\ t \in ConnectionData
          /\ t.state = "sent" /\ t.running = q
          /\ t.hook = r.hook /\ t.recorded = r.recorded
          /\ t.pos = r.pos /\ t.key = r.key /\ t.active = r.active
  BY <1>1 DEF Sent, ConnectionData, States
<1> QED BY <1>1, <1>2 DEF r

LEMMA UnhookedIs ==
    ASSUME NEW r \in ConnectionData
    PROVE  LET t == Unhooked(r)
           IN  /\ t \in ConnectionData
               /\ t.state = r.state /\ t.running = r.running
               /\ t.hook = "original" /\ t.recorded = None
BY DEF Unhooked, ConnectionData, Hooks

LEMMA RefusedIs ==
    ASSUME IInv, NEW c \in Conns, NEW q \in Keys
    PROVE  LET r == Unhooked(Classify(c, q))
           IN  /\ r \in ConnectionData
               /\ r.state = conn[c].state /\ r.running = conn[c].running
               /\ r.hook = "original" /\ r.recorded = None
<1>1. /\ Classify(c, q) \in ConnectionData
      /\ Classify(c, q).state = conn[c].state /\ Classify(c, q).running = conn[c].running
  BY ClassifyIs
<1> QED BY <1>1, UnhookedIs

LEMMA KeepsSendPlain ==
    ASSUME IInv, NEW c \in Conns, NEW q \in Keys, SendPlain(c, q)
    PROVE  IInv'
<1>1. /\ conn[c] \in ConnectionData /\ net \in [Conns -> Seq(Part)]
      /\ heap \in [Data -> Seq(Part) \cup {None}]
  BY DEF IInv, TypesOK
<1>2. UNCHANGED <<cache, heap, clock>>
  BY DEF SendPlain, environment
<1>3. CASE InSync(c) /\ Transmit(c, q, conn[c].hook) /\ Update(c, Sent(Classify(c, q), q))
  <2> DEFINE r == Sent(Classify(c, q), q)
  <2>1. /\ r.state = "sent" /\ r.running = q /\ r.hook = conn[c].hook
        /\ r.recorded = conn[c].recorded /\ r.pos = conn[c].pos /\ r.key = conn[c].key
        /\ r.active = FALSE /\ r \in ConnectionData
    BY SentIs DEF SendPlain
  <2>2. conn[c].state = "ready"
    BY <1>3 DEF InSync
  <2>3. /\ net' \in [Conns -> Seq(Part)] /\ \A o \in Conns : o # c => net'[o] = net[o]
        /\ net'[c] = IF conn[c].hook = "replay" THEN <<>> ELSE From(q, 1)
    BY <1>3, <2>2, TransmitEffect
  <2>4. Awaits(r, net'[c])
    BY <2>1, <2>3, AwaitsWholeAnswer DEF Awaits
  <2>5. Replayed(r, net'[c], heap'[r.recorded])
    BY <1>2, <2>1, <2>2, <2>3, ConnectionIs DEF Replayed
  <2>6. Records(r, net'[c], heap'[r.recorded])
    BY <2>1 DEF Records
  <2>7. ConnectionOK(r, net'[c], heap'[r.recorded])
    BY <1>2, <2>1, <2>3, <2>4, <2>5, <2>6, ConnectionIs DEF ConnectionOK
  <2>8. conn' = [conn EXCEPT ![c] = r]
    BY <1>3 DEF Update
  <2> QED BY <1>1, <1>2, <2>1, <2>3, <2>7, <2>8, PrivateStep
<1>4. CASE ~InSync(c) /\ NothingSent /\ Update(c, Classify(c, q))
  <2> DEFINE r == Classify(c, q)
  <2>1. /\ r.state = conn[c].state /\ r.running = conn[c].running /\ r.hook = conn[c].hook
        /\ r.recorded = conn[c].recorded /\ r.pos = conn[c].pos /\ r.key = conn[c].key
        /\ r.active = FALSE /\ r \in ConnectionData
    BY ClassifyIs DEF SendPlain
  <2>2. net' = net
    BY <1>4 DEF NothingSent
  <2>3. Awaits(r, net'[c])
    BY <2>1, <2>2, ConnectionIs DEF Awaits
  <2>4. Replayed(r, net'[c], heap'[r.recorded])
    BY <1>2, <2>1, <2>2, ConnectionIs DEF Replayed
  <2>5. Records(r, net'[c], heap'[r.recorded])
    BY <2>1 DEF Records
  <2>6. ConnectionOK(r, net'[c], heap'[r.recorded])
    BY <1>2, <2>1, <2>2, <2>3, <2>4, <2>5, ConnectionIs DEF ConnectionOK
  <2>7. conn' = [conn EXCEPT ![c] = r]
    BY <1>4 DEF Update
  <2> QED BY <1>1, <1>2, <2>1, <2>2, <2>6, <2>7, PrivateStep
<1> QED BY <1>3, <1>4 DEF SendPlain

\* A connection without a container.
LEMMA WithoutHook ==
    ASSUME NEW r \in ConnectionData, NEW w \in Seq(Part), NEW h,
           r.hook = "original", r.recorded = None, Awaits(r, w)
    PROVE  ConnectionOK(r, w, h)
BY DEF ConnectionOK, Records, Replayed

LEMMA KeepsSendHit ==
    ASSUME IInv, DataCopy, NEW c \in Conns, NEW q \in Keys, SendHit(c, q)
    PROVE  IInv'
<1>1. PICK d \in Data :
          /\ d \in Fresh
          /\ FindHit(q, clock, d)
          /\ Update(c, [Sent(Classify(c, q), q) EXCEPT
                            !.hook = "replay", !.recorded = d, !.pos = 0, !.key = q])
  BY DEF SendHit
<1> DEFINE r == [Sent(Classify(c, q), q) EXCEPT
                     !.hook = "replay", !.recorded = d, !.pos = 0, !.key = q]
<1>2. conn[c] \in ConnectionData /\ heap \in [Data -> Seq(Part) \cup {None}]
  BY DEF IInv, TypesOK
<1>3. /\ r.state = "sent" /\ r.running = q /\ r.hook = "replay"
      /\ r.recorded = d /\ r.pos = 0 /\ r.key = q
      /\ r \in ConnectionData
  <2>1. Sent(Classify(c, q), q) \in ConnectionData
    BY SentIs
  <2>2. Sent(Classify(c, q), q).state = "sent" /\ Sent(Classify(c, q), q).running = q
    BY SentIs
  <2> QED BY <2>1, <2>2 DEF ConnectionData, Hooks
<1>4. /\ Cached(q) /\ cache' = cache
      /\ heap' = [heap EXCEPT ![d] = heap[cache[q].cached_query]]
  BY <1>1 DEF FindHit, FindShared, FindCopied, Servable
<1>5. q \in ResultSets /\ heap[cache[q].cached_query] = FirstResult(q)
  BY <1>4 DEF IInv, EntriesAreResults
<1>6. FirstResult(q) \in Seq(Part)
  BY <1>5, FirstResultIs
<1>7. /\ heap' \in [Data -> Seq(Part) \cup {None}]
      /\ heap'[d] = FirstResult(q) /\ \A e \in Data : e # d => heap'[e] = heap[e]
  BY <1>2, <1>4, <1>5, <1>6
<1>8. /\ net' \in [Conns -> Seq(Part)] /\ \A o \in Conns : o # c => net'[o] = net[o]
      /\ net'[c] = <<>>
  <2>1. conn[c].state = "ready" /\ Transmit(c, q, "replay")
    BY DEF SendHit, InSync
  <2> QED BY <2>1, TransmitEffect
<1>9. ConnectionOK(r, net'[c], heap'[r.recorded])
  <2>1. Awaits(r, net'[c]) /\ Records(r, net'[c], heap'[r.recorded])
    BY <1>3, <1>8 DEF Awaits, Records
  <2>2. Replayed(r, net'[c], heap'[r.recorded])
    BY <1>3, <1>5, <1>7, <1>8 DEF Replayed
  <2> QED BY <1>3, <1>6, <1>7, <1>8, <2>1, <2>2, NoneIs DEF ConnectionOK
<1>10. \A k \in Keys : Kept(k)
  BY <1>4 DEF Kept, Cached
<1>11. clock' \in Nat /\ cache' \in [Keys -> Entry \cup {NoEntry}]
  BY <1>4 DEF SendHit, environment, IInv, TypesOK
<1>12. conn' = [conn EXCEPT ![c] = r]
  BY <1>1 DEF Update
<1> QED BY <1>1, <1>3, <1>7, <1>8, <1>9, <1>10, <1>11, <1>12, OwnStep

LEMMA KeepsSendHitRefused ==
    ASSUME IInv, DataCopy, NEW c \in Conns, NEW q \in Keys, SendHitRefused(c, q)
    PROVE  IInv'
<1> DEFINE r == Unhooked(Classify(c, q))
<1>1. /\ r \in ConnectionData /\ r.state = conn[c].state /\ r.running = conn[c].running
      /\ r.hook = "original" /\ r.recorded = None
  BY RefusedIs
<1>2. UNCHANGED <<cache, heap, clock, net>> /\ conn' = [conn EXCEPT ![c] = r]
  BY DEF SendHitRefused, NothingSent, Update, environment
<1>3. Awaits(r, net[c]) /\ net[c] \in Seq(Part)
  BY <1>1, ConnectionIs DEF Awaits
<1>4. ConnectionOK(r, net'[c], heap'[r.recorded])
  BY <1>1, <1>2, <1>3, WithoutHook
<1>5. heap \in [Data -> Seq(Part) \cup {None}] /\ net \in [Conns -> Seq(Part)]
  BY DEF IInv, TypesOK
<1> QED BY <1>1, <1>2, <1>4, <1>5, PrivateStep

LEMMA KeepsSendMiss ==
    ASSUME IInv, NEW c \in Conns, NEW q \in Keys, SendMiss(c, q)
    PROVE  IInv'
<1>1. PICK d \in Recorder(c) :
          /\ heap' = [Released(FreedByLookup(q, clock)) EXCEPT ![d] = <<>>]
          /\ Update(c, [Sent(Classify(c, q), q) EXCEPT
                            !.hook = "record", !.recorded = d, !.key = q])
  BY DEF SendMiss
<1> DEFINE r == [Sent(Classify(c, q), q) EXCEPT
                     !.hook = "record", !.recorded = d, !.key = q]
<1>2. d \in Data /\ (d = conn[c].recorded \/ d \in Fresh)
  BY <1>1, ConnectionIs DEF Recorder, Fresh
<1>3. /\ r.state = "sent" /\ r.running = q /\ r.hook = "record"
      /\ r.recorded = d /\ r.key = q /\ r \in ConnectionData
  <2>1. Sent(Classify(c, q), q) \in ConnectionData
    BY SentIs
  <2>2. Sent(Classify(c, q), q).state = "sent" /\ Sent(Classify(c, q), q).running = q
    BY SentIs
  <2> QED BY <1>2, <2>1, <2>2 DEF ConnectionData, Hooks
<1>4. FindMiss(q, clock) /\ UNCHANGED clock /\ conn[c].state = "ready"
      /\ Transmit(c, q, "record")
  BY DEF SendMiss, InSync, environment
<1>5. /\ cache' \in [Keys -> Entry \cup {NoEntry}]
      /\ \A k \in Keys : Kept(k)
      /\ \A e \in FreedByLookup(q, clock) : Dropped(e)
  BY <1>4, LookupEffect
<1>6. /\ heap' \in [Data -> Seq(Part) \cup {None}] /\ heap'[d] = <<>>
      /\ \A e \in Data : heap'[e] = heap[e] \/ e = d \/ Dropped(e)
  <2>1. <<>> \in Seq(Part)
    BY EmptySeq
  <2> QED BY <1>1, <1>2, <1>5, <2>1, ReleaseEffect
<1>7. /\ net' \in [Conns -> Seq(Part)] /\ \A o \in Conns : o # c => net'[o] = net[o]
      /\ net'[c] = From(q, 1)
  BY <1>4, TransmitEffect
<1>8. ConnectionOK(r, net'[c], heap'[r.recorded])
  <2>1. Awaits(r, net'[c])
    BY <1>3, <1>7, AwaitsWholeAnswer
  <2>2. Records(r, net'[c], heap'[r.recorded])
    BY <1>3, <1>6 DEF Records
  <2>3. Replayed(r, net'[c], heap'[r.recorded])
    BY <1>3 DEF Replayed
  <2>4. heap'[r.recorded] \in Seq(Part)
    BY <1>3, <1>6, EmptySeq
  <2> QED BY <1>2, <1>3, <1>7, <2>1, <2>2, <2>3, <2>4, NoneIs DEF ConnectionOK
<1>9. clock' \in Nat
  BY <1>4 DEF IInv, TypesOK
<1>10. conn' = [conn EXCEPT ![c] = r]
  BY <1>1 DEF Update
<1> QED BY <1>2, <1>3, <1>5, <1>6, <1>7, <1>8, <1>9, <1>10, OwnStep

LEMMA KeepsSendMissRefused ==
    ASSUME IInv, NEW c \in Conns, NEW q \in Keys, SendMissRefused(c, q)
    PROVE  IInv'
<1> DEFINE r == Unhooked(Classify(c, q))
<1>1. /\ r \in ConnectionData /\ r.state = conn[c].state /\ r.running = conn[c].running
      /\ r.hook = "original" /\ r.recorded = None
  BY RefusedIs
<1>2. /\ FindMiss(q, clock) /\ UNCHANGED <<clock, net>> /\ conn' = [conn EXCEPT ![c] = r]
      /\ heap' = Released(FreedByLookup(q, clock)
                   \cup (IF conn[c].hook = "record" THEN {conn[c].recorded} ELSE {}))
  BY DEF SendMissRefused, NothingSent, Update, environment
<1>3. Awaits(r, net[c]) /\ net[c] \in Seq(Part)
  BY <1>1, ConnectionIs DEF Awaits
<1>4. ConnectionOK(r, net'[c], heap'[r.recorded])
  BY <1>1, <1>2, <1>3, WithoutHook
<1>5. /\ cache' \in [Keys -> Entry \cup {NoEntry}]
      /\ \A k \in Keys : Kept(k)
      /\ \A e \in FreedByLookup(q, clock) : Dropped(e)
  BY <1>2, LookupEffect
<1>6. /\ heap' \in [Data -> Seq(Part) \cup {None}]
      /\ \A e \in Data : heap'[e] = heap[e] \/ e = conn[c].recorded \/ Dropped(e)
  BY <1>2, <1>5, ReleaseEffect
<1>7. clock' \in Nat /\ net' \in [Conns -> Seq(Part)]
  BY <1>2 DEF IInv, TypesOK
<1> QED BY <1>1, <1>2, <1>4, <1>5, <1>6, <1>7, OwnStep

-----------------------------------------------------------------------------
(***************************************************************************)
(* reap_query                                                              *)
(***************************************************************************)

LEMMA ReceivedIs ==
    ASSUME IInv, NEW c \in Conns
    PROVE  LET r == ConnAfterReceive(c)
           IN  /\ r \in ConnectionData
               /\ r.state = conn[c].state /\ r.running = conn[c].running
               /\ r.hook = conn[c].hook /\ r.recorded = conn[c].recorded
               /\ r.key = conn[c].key /\ r.active = conn[c].active
               /\ r.pos = IF conn[c].hook = "replay" THEN conn[c].pos + 1 ELSE conn[c].pos
<1>1. conn[c] \in ConnectionData
  BY DEF IInv, TypesOK
<1>2. CASE conn[c].hook = "replay"
  BY <1>1, <1>2 DEF ConnAfterReceive, ConnectionData
<1>3. CASE conn[c].hook # "replay"
  BY <1>1, <1>3 DEF ConnAfterReceive
<1> QED BY <1>2, <1>3

\* The connection in its next state.
LEMMA MovedIs ==
    ASSUME NEW r \in ConnectionData, NEW s \in States
    PROVE  LET t == [r EXCEPT !.state = s]
           IN  /\ t \in ConnectionData
               /\ t.state = s /\ t.running = r.running
               /\ t.hook = r.hook /\ t.recorded = r.recorded
               /\ t.key = r.key /\ t.active = r.active /\ t.pos = r.pos
BY DEF ConnectionData

LEMMA AdvancedIs ==
    ASSUME IInv, NEW c \in Conns, NEW s \in States
    PROVE  LET r == [ConnAfterReceive(c) EXCEPT !.state = s]
           IN  /\ r \in ConnectionData
               /\ r.state = s /\ r.running = conn[c].running
               /\ r.hook = conn[c].hook /\ r.recorded = conn[c].recorded
               /\ r.key = conn[c].key /\ r.active = conn[c].active
               /\ r.pos = IF conn[c].hook = "replay" THEN conn[c].pos + 1 ELSE conn[c].pos
<1> DEFINE r == ConnAfterReceive(c)
<1>1. /\ r \in ConnectionData
      /\ r.running = conn[c].running
      /\ r.hook = conn[c].hook /\ r.recorded = conn[c].recorded
      /\ r.key = conn[c].key /\ r.active = conn[c].active
      /\ r.pos = IF conn[c].hook = "replay" THEN conn[c].pos + 1 ELSE conn[c].pos
  BY ReceivedIs
<1> HIDE DEF r
<1>2. LET t == [r EXCEPT !.state = s]
      IN  /\ t \in ConnectionData
          /\ t.state = s /\ t.running = r.running
          /\ t.hook = r.hook /\ t.recorded = r.recorded
          /\ t.key = r.key /\ t.active = r.active /\ t.pos = r.pos
  BY <1>1, MovedIs
<1> QED BY <1>1, <1>2 DEF r

LEMMA KeepsReapResultSet ==
    ASSUME IInv, NEW c \in Conns, ReapResultSet(c)
    PROVE  IInv'
<1> DEFINE r == [ConnAfterReceive(c) EXCEPT !.state = "fetching"]
<1>1. /\ conn[c].state = "sent" /\ MayReceive(c) /\ NextPart(c)[1] \in ResultSets
      /\ Receive(c) /\ heap' = HeapAfterReceive(c) /\ UNCHANGED <<cache, clock>>
      /\ conn' = [conn EXCEPT ![c] = r]
  BY DEF ReapResultSet, HasFields, Update, environment
<1>2. /\ r \in ConnectionData
      /\ r.state = "fetching" /\ r.running = conn[c].running
      /\ r.hook = conn[c].hook /\ r.recorded = conn[c].recorded
      /\ r.key = conn[c].key /\ r.active = conn[c].active
      /\ r.pos = IF conn[c].hook = "replay" THEN conn[c].pos + 1 ELSE conn[c].pos
  BY AdvancedIs DEF States
<1> HIDE DEF r
<1>3. /\ net' \in [Conns -> Seq(Part)] /\ \A o \in Conns : o # c => net'[o] = net[o]
      /\ net'[c] = IF conn[c].hook = "replay" THEN net[c] ELSE Tail(net[c])
  BY <1>1, ReceiveEffect
<1>4. /\ heap' \in [Data -> Seq(Part) \cup {None}]
      /\ \A d \in Data : d # conn[c].recorded => heap'[d] = heap[d]
      /\ conn[c].hook # "record" => heap' = heap
      /\ conn[c].hook = "record" =>
           /\ heap'[conn[c].recorded] = Append(heap[conn[c].recorded], NextPart(c))
           /\ heap'[conn[c].recorded] \in Seq(Part)
  BY <1>1, RecordEffect
<1>5. ConnectionOK(r, net'[c], heap'[r.recorded])
  <2>1. CASE conn[c].hook = "replay"
    <3>1. /\ net[c] = <<>> /\ conn[c].key \in ResultSets /\ conn[c].running = conn[c].key
          /\ heap[conn[c].recorded] = FirstResult(conn[c].key) /\ conn[c].pos = 0
      BY <1>1, <2>1, FromCache
    <3>2. Awaits(r, net'[c]) /\ Records(r, net'[c], heap'[r.recorded])
      BY <1>2, <1>3, <2>1, <3>1 DEF Awaits, Records
    <3>3. Replayed(r, net'[c], heap'[r.recorded])
      BY <1>2, <1>3, <1>4, <2>1, <3>1 DEF Replayed
    <3> QED BY <1>2, <1>3, <1>4, <2>1, <3>2, <3>3, ConnectionIs DEF ConnectionOK
  <2>2. CASE conn[c].hook # "replay"
    <3> DEFINE q == conn[c].running
    <3>1. /\ q \in Keys /\ net[c] = From(q, 1)
          /\ NextPart(c) = <<q, 1>> /\ Tail(net[c]) = From(q, 2)
      BY <1>1, <2>2, FromServer
    <3>2. q \in ResultSets /\ 2 \in 1..Parts(q)
      BY <1>1, <3>1, PartsAre
    <3>3. Awaits(r, net'[c])
      BY <1>2, <1>3, <2>2, <3>1, <3>2 DEF Awaits
    <3>4. Records(r, net'[c], heap'[r.recorded])
      <4> SUFFICES ASSUME conn[c].hook = "record", conn[c].active
                   PROVE  /\ conn[c].key = q
                          /\ heap'[conn[c].recorded] = UpTo(q, 1)
        BY <1>2, <1>3, <2>2, <3>1, <3>2 DEF Records
      <4>1. conn[c].key = q /\ heap[conn[c].recorded] = <<>>
        BY <1>1, ConnectionIs DEF Records
      <4>2. 1 \in 1..Parts(q) /\ UpTo(q, 0) = <<>> /\ 1 - 1 = 0
        BY <3>1, <3>2, PartsAre, Ends
      <4>3. Append(UpTo(q, 0), <<q, 1>>) = UpTo(q, 1)
        BY <3>1, <4>2, Recorded
      <4> QED BY <1>4, <3>1, <4>1, <4>2, <4>3
    <3>5. Replayed(r, net'[c], heap'[r.recorded])
      BY <1>2, <2>2 DEF Replayed
    <3> QED BY <1>2, <1>3, <1>4, <2>2, <3>3, <3>4, <3>5, ConnectionIs DEF ConnectionOK
  <2> QED BY <2>1, <2>2
<1> QED BY <1>1, <1>2, <1>3, <1>4, <1>5, PrivateStep

\* A connection that still has its own container.
LEMMA StillHooked ==
    ASSUME IInv, NEW c \in Conns, NEW r \in ConnectionData, NEW w \in Seq(Part), NEW h,
           r.hook = conn[c].hook, r.recorded = conn[c].recorded,
           r.state \notin {"closed", "crashed"},
           conn[c].hook # "original" => h \in Seq(Part),
           Awaits(r, w), Records(r, w, h), Replayed(r, w, h)
    PROVE  ConnectionOK(r, w, h)
BY ConnectionIs DEF ConnectionOK

LEMMA KeepsReapNoResult ==
    ASSUME IInv, NEW c \in Conns, ReapNoResult(c)
    PROVE  IInv'
<1> DEFINE r == [ConnAfterReceive(c) EXCEPT !.state = "ready"]
<1>1. /\ conn[c].state = "sent" /\ MayReceive(c) /\ NextPart(c)[1] \notin ResultSets
      /\ Receive(c) /\ UNCHANGED <<cache, clock>> /\ GiveUpRecording(c, r)
  BY DEF ReapNoResult, HasFields, environment
<1>2. /\ r \in ConnectionData
      /\ r.state = "ready" /\ r.running = conn[c].running
      /\ r.hook = conn[c].hook /\ r.recorded = conn[c].recorded /\ r.active = conn[c].active
  BY AdvancedIs DEF States
<1> HIDE DEF r
<1>3. conn[c].hook # "replay"
  BY <1>1, FromCache
<1>4. net' \in [Conns -> Seq(Part)] /\ (\A o \in Conns : o # c => net'[o] = net[o])
      /\ net'[c] = <<>>
  <2> DEFINE q == conn[c].running
  <2>1. /\ q \in Keys /\ NextPart(c) = <<q, 1>> /\ Tail(net[c]) = From(q, 2)
    BY <1>1, <1>3, FromServer
  <2>2. Parts(q) = 1 /\ From(q, Parts(q) + 1) = <<>>
    BY <1>1, <2>1, PartsAre, Ends
  <2>3. From(q, 2) = <<>>
    BY <2>2
  <2> QED BY <1>1, <1>3, <2>1, <2>3, ReceiveEffect
<1>5. CASE conn[c].active
  <2>1. /\ heap' = Released({conn[c].recorded})
        /\ conn' = [conn EXCEPT ![c] = Unhooked(r)]
    BY <1>1, <1>5 DEF GiveUpRecording, FreeRecorded, Update
  <2>2. /\ Unhooked(r) \in ConnectionData /\ Unhooked(r).hook = "original"
        /\ Unhooked(r).recorded = None
    BY <1>2, UnhookedIs
  <2>3. Awaits(Unhooked(r), net'[c]) /\ net'[c] \in Seq(Part)
    BY <1>4, EmptySeq DEF Awaits
  <2>4. ConnectionOK(Unhooked(r), net'[c], heap'[Unhooked(r).recorded])
    BY <2>2, <2>3, WithoutHook
  <2>5. /\ heap' \in [Data -> Seq(Part) \cup {None}]
        /\ \A d \in Data : d # conn[c].recorded => heap'[d] = heap[d]
    BY <2>1, ReleaseEffect
  <2> QED BY <1>1, <1>4, <2>1, <2>2, <2>4, <2>5, PrivateStep
<1>6. CASE ~conn[c].active
  <2>1. /\ heap' = HeapAfterReceive(c) /\ conn' = [conn EXCEPT ![c] = r]
    BY <1>1, <1>6 DEF GiveUpRecording, Update
  <2>2. /\ heap' \in [Data -> Seq(Part) \cup {None}]
        /\ \A d \in Data : d # conn[c].recorded => heap'[d] = heap[d]
        /\ conn[c].hook # "original" => heap'[conn[c].recorded] \in Seq(Part)
    BY <1>1, <1>3, <2>1, ConnectionIs, RecordEffect DEF ConnectionData, Hooks
  <2>3. /\ Awaits(r, net'[c]) /\ Records(r, net'[c], heap'[r.recorded])
        /\ Replayed(r, net'[c], heap'[r.recorded])
    BY <1>2, <1>3, <1>4, <1>6 DEF Awaits, Records, Replayed
  <2>4. net'[c] \in Seq(Part)
    BY <1>4, EmptySeq
  <2>5. ConnectionOK(r, net'[c], heap'[r.recorded])
    BY <1>2, <2>2, <2>3, <2>4, StillHooked
  <2> QED BY <1>1, <1>2, <1>4, <2>1, <2>2, <2>5, PrivateStep
<1> QED BY <1>5, <1>6

LEMMA KeepsReapFails ==
    ASSUME IInv, NEW c \in Conns, ReapFails(c)
    PROVE  IInv'
<1> DEFINE r == [conn[c] EXCEPT !.state = "gone"]
<1>1. /\ conn[c].state = "sent" /\ ReceiveFails(c)
      /\ net' = [net EXCEPT ![c] = <<>>] /\ UNCHANGED <<cache, clock>>
      /\ heap' = IF conn[c].active THEN Released({conn[c].recorded}) ELSE heap
      /\ conn' = [conn EXCEPT ![c] = IF conn[c].active THEN Unhooked(r) ELSE r]
  BY DEF ReapFails, FreeRecorded, Update, environment
<1>2. /\ r \in ConnectionData /\ r.state = "gone" /\ r.running = conn[c].running
      /\ r.hook = conn[c].hook /\ r.recorded = conn[c].recorded /\ r.active = conn[c].active
      /\ r.pos = conn[c].pos /\ r.key = conn[c].key
  BY MovedIs DEF IInv, TypesOK, States
<1> HIDE DEF r
<1>3. /\ net' \in [Conns -> Seq(Part)] /\ \A o \in Conns : o # c => net'[o] = net[o]
      /\ net'[c] = <<>> /\ net'[c] \in Seq(Part)
  BY <1>1, EmptySeq DEF IInv, TypesOK
<1>4. CASE conn[c].active
  <2>1. /\ Unhooked(r) \in ConnectionData /\ Unhooked(r).hook = "original"
        /\ Unhooked(r).recorded = None
    BY <1>2, UnhookedIs
  <2>2. ConnectionOK(Unhooked(r), net'[c], heap'[Unhooked(r).recorded])
    BY <1>3, <2>1, WithoutHook DEF Awaits
  <2>3. /\ heap' \in [Data -> Seq(Part) \cup {None}]
        /\ \A d \in Data : d # conn[c].recorded => heap'[d] = heap[d]
    BY <1>1, <1>4, ReleaseEffect
  <2> QED BY <1>1, <1>3, <1>4, <2>1, <2>2, <2>3, PrivateStep
<1>5. CASE ~conn[c].active
  <2>1. heap' = heap /\ heap \in [Data -> Seq(Part) \cup {None}]
    BY <1>1, <1>5 DEF IInv, TypesOK
  <2>2. Awaits(r, net'[c]) /\ Records(r, net'[c], heap'[r.recorded])
    BY <1>2, <1>3, <1>5 DEF Awaits, Records
  <2>3. Replayed(r, net'[c], heap'[r.recorded])
    BY <1>1, <1>2, <1>3, <2>1, ReplayEnds, ConnectionIs DEF Replayed
  <2>4. conn[c].hook # "original" => heap'[conn[c].recorded] \in Seq(Part)
    BY <2>1, ConnectionIs
  <2>5. ConnectionOK(r, net'[c], heap'[r.recorded])
    BY <1>2, <1>3, <2>2, <2>3, <2>4, StillHooked
  <2> QED BY <1>1, <1>2, <1>3, <1>5, <2>1, <2>5, PrivateStep
<1> QED BY <1>4, <1>5

-----------------------------------------------------------------------------
(***************************************************************************)
(* store_result                                                            *)
(***************************************************************************)

LEMMA RowsReadIs ==
    ASSUME IInv, NEW c \in Conns
    PROVE  LET r == RowsRead(c)
           IN  /\ r \in ConnectionData
               /\ r.state = AfterRows(c) /\ r.state \in {"more", "ready"}
               /\ r.running = conn[c].running
               /\ r.hook = conn[c].hook /\ r.recorded = conn[c].recorded
               /\ r.key = conn[c].key /\ r.active = conn[c].active
               /\ r.pos = IF conn[c].hook = "replay" THEN conn[c].pos + 1 ELSE conn[c].pos
<1>1. AfterRows(c) \in {"more", "ready"} /\ AfterRows(c) \in States
  BY DEF AfterRows, States
<1> QED BY <1>1, AdvancedIs DEF RowsRead

LEMMA FinishedIs ==
    ASSUME IInv, NEW c \in Conns
    PROVE  LET r == Finished(c)
           IN  /\ r \in ConnectionData
               /\ r.state = AfterRows(c) /\ r.running = conn[c].running
               /\ r.hook = "original" /\ r.recorded = None
<1> DEFINE r == Unhooked(RowsRead(c))
<1>1. /\ r \in ConnectionData
      /\ r.state = AfterRows(c) /\ r.running = conn[c].running
      /\ r.hook = "original" /\ r.recorded = None
  BY RowsReadIs, UnhookedIs
<1> HIDE DEF r
<1>2. Finished(c) = [r EXCEPT !.key = None]
  BY DEF Finished, r
<1> QED BY <1>1, <1>2 DEF ConnectionData

\* After the rows of a result the connection waits for the next one, if any.
LEMMA AfterRowsAwaits ==
    ASSUME IInv, NEW c \in Conns, conn[c].state \in {"fetching", "rows"}, MayReceive(c),
           Receive(c), NEW r, r.state = AfterRows(c), r.running = conn[c].running
    PROVE  Awaits(r, net'[c])
<1>1. CASE conn[c].hook = "replay"
  BY <1>1, ReceiveEffect, FromCache DEF Awaits
<1>2. CASE conn[c].hook # "replay"
  <2> DEFINE q == conn[c].running
  <2>1. q \in Keys
    BY <1>2, FromServer
  <2>2. PICK i \in 1..Parts(q) : /\ NextPart(c) = <<q, i>> /\ i \in {2, 4}
                                 /\ Tail(net[c]) = From(q, i + 1)
    BY <1>2, FromServer
  <2>3. net'[c] = From(q, i + 1)
    BY <1>2, <2>2, ReceiveEffect
  <2>4. CASE i < Parts(q)
    <3>1. i = 2 /\ Parts(q) = 4 /\ r.state = "more"
      BY <2>1, <2>2, <2>4, PartsAre DEF AfterRows
    <3> QED BY <2>1, <2>3, <3>1 DEF Awaits
  <2>5. CASE ~(i < Parts(q))
    <3>1. i = Parts(q)
      BY <2>1, <2>2, <2>5, PartsAre
    <3> QED BY <2>1, <2>3, <3>1, Ends DEF Awaits
  <2> QED BY <2>4, <2>5
<1> QED BY <1>1, <1>2

LEMMA KeepsStoreInactive ==
    ASSUME IInv, NEW c \in Conns, StoreInactive(c)
    PROVE  IInv'
<1> DEFINE r == RowsRead(c)
<1>1. /\ conn[c].state = "fetching" /\ MayReceive(c) /\ ~conn[c].active
      /\ Receive(c) /\ heap' = HeapAfterReceive(c) /\ UNCHANGED <<cache, clock>>
      /\ conn' = [conn EXCEPT ![c] = r]
  BY DEF StoreInactive, MayStore, Update, environment
<1>2. /\ r \in ConnectionData
      /\ r.state = AfterRows(c) /\ r.state \in {"more", "ready"}
      /\ r.running = conn[c].running
      /\ r.hook = conn[c].hook /\ r.recorded = conn[c].recorded
      /\ r.key = conn[c].key /\ r.active = conn[c].active
      /\ r.pos = IF conn[c].hook = "replay" THEN conn[c].pos + 1 ELSE conn[c].pos
  BY RowsReadIs
<1> HIDE DEF r
<1>3. /\ net' \in [Conns -> Seq(Part)] /\ \A o \in Conns : o # c => net'[o] = net[o]
      /\ conn[c].hook = "replay" => net'[c] = net[c]
  BY <1>1, ReceiveEffect
<1>4. /\ heap' \in [Data -> Seq(Part) \cup {None}]
      /\ \A d \in Data : d # conn[c].recorded => heap'[d] = heap[d]
      /\ conn[c].hook # "record" => heap' = heap
      /\ conn[c].hook = "record" => heap'[conn[c].recorded] \in Seq(Part)
  BY <1>1, RecordEffect
<1>5. conn[c].hook # "original" => heap'[conn[c].recorded] \in Seq(Part)
  BY <1>4, ConnectionIs
<1>6. Awaits(r, net'[c])
  BY <1>1, <1>2, AfterRowsAwaits
<1>7. Records(r, net'[c], heap'[r.recorded])
  BY <1>1, <1>2 DEF Records
<1>8. Replayed(r, net'[c], heap'[r.recorded])
  <2> SUFFICES ASSUME conn[c].hook = "replay"
               PROVE  Replayed(r, net'[c], heap'[r.recorded])
    BY <1>2 DEF Replayed
  <2>1. /\ net[c] = <<>> /\ conn[c].key \in ResultSets /\ conn[c].pos = 1
        /\ heap[conn[c].recorded] = FirstResult(conn[c].key)
    BY <1>1, FromCache
  <2> QED BY <1>2, <1>3, <1>4, <2>1 DEF Replayed
<1>9. ConnectionOK(r, net'[c], heap'[r.recorded])
  BY <1>2, <1>3, <1>5, <1>6, <1>7, <1>8, StillHooked
<1> QED BY <1>1, <1>2, <1>3, <1>4, <1>9, PrivateStep

\* The statement is over, and with it the life of the container or its stay with
\* the connection.
LEMMA FinishedStep ==
    ASSUME IInv, NEW c \in Conns, MayStore(c), Receive(c), Update(c, Finished(c)),
           UNCHANGED <<cache, clock>>,
           \/ heap' = heap
           \/ heap' = HeapAfterReceive(c)
           \/ heap' = Released({conn[c].recorded})
    PROVE  IInv'
<1> DEFINE r == Finished(c)
<1>1. conn[c].state = "fetching" /\ MayReceive(c) /\ conn' = [conn EXCEPT ![c] = r]
  BY DEF MayStore, Update
<1>2. /\ r \in ConnectionData
      /\ r.state = AfterRows(c) /\ r.running = conn[c].running
      /\ r.hook = "original" /\ r.recorded = None
  BY FinishedIs
<1> HIDE DEF r
<1>3. net' \in [Conns -> Seq(Part)] /\ \A o \in Conns : o # c => net'[o] = net[o]
  BY <1>1, ReceiveEffect
<1>4. /\ heap' \in [Data -> Seq(Part) \cup {None}]
      /\ \A d \in Data : d # conn[c].recorded => heap'[d] = heap[d]
  <2>1. heap \in [Data -> Seq(Part) \cup {None}]
    BY DEF IInv, TypesOK
  <2>2. CASE heap' = heap
    BY <2>1, <2>2
  <2>3. CASE heap' = HeapAfterReceive(c)
    BY <1>1, <2>3, RecordEffect
  <2>4. CASE heap' = Released({conn[c].recorded})
    BY <2>4, ReleaseEffect
  <2> QED BY <2>2, <2>3, <2>4
<1>5. Awaits(r, net'[c])
  BY <1>1, <1>2, AfterRowsAwaits
<1>6. ConnectionOK(r, net'[c], heap'[r.recorded])
  BY <1>2, <1>3, <1>5, WithoutHook
<1> QED BY <1>1, <1>2, <1>3, <1>4, <1>6, PrivateStep

LEMMA KeepsFinished ==
    ASSUME IInv, DataCopy, NEW c \in Conns,
           \/ StoreUnhooked(c) \/ StoreReplayed(c) \/ StoreNoTable(c)
           \/ StoreRefused(c) \/ StoreRejected(c)
    PROVE  IInv'
<1>1. CASE StoreUnhooked(c)
  BY <1>1, FinishedStep DEF StoreUnhooked, environment
<1>2. CASE StoreReplayed(c)
  <2>1. UNCHANGED cache /\ heap' = Released({conn[c].recorded})
    BY <1>2 DEF StoreReplayed, ReturnToCache, ReturnShared, ReturnCopied
  <2> QED BY <1>2, <2>1, FinishedStep DEF StoreReplayed, environment
<1>3. CASE StoreNoTable(c)
  BY <1>3, FinishedStep DEF StoreNoTable, StoreRecorded, FreeRecorded, environment
<1>4. CASE StoreRefused(c)
  BY <1>4, FinishedStep DEF StoreRefused, StoreRecorded, FreeRecorded, AddRefused, environment
<1>5. CASE StoreRejected(c)
  BY <1>5, FinishedStep DEF StoreRejected, StoreRecorded, environment
<1> QED BY <1>1, <1>2, <1>3, <1>4, <1>5

\* The container goes to the cache: the whole first result of the statement.
LEMMA KeepsStoreAdded ==
    ASSUME IInv, NEW c \in Conns, StoreAdded(c)
    PROVE  IInv'
<1> DEFINE r == Finished(c)
           q == conn[c].key
           x == conn[c].recorded
<1>1. /\ conn[c].state = "fetching" /\ MayReceive(c) /\ Receive(c)
      /\ conn[c].active /\ conn[c].hook = "record"
      /\ conn' = [conn EXCEPT ![c] = r] /\ clock' = clock
      /\ AddQuery(q, x, Ttl, clock)
      /\ heap' = [d \in Data |-> IF d \in FreedByAdd(q) THEN None
                                 ELSE HeapAfterReceive(c)[d]]
  BY DEF StoreAdded, StoreRecorded, MayStore, Update, environment
<1>2. /\ r \in ConnectionData
      /\ r.state = AfterRows(c) /\ r.running = conn[c].running
      /\ r.hook = "original" /\ r.recorded = None
  BY FinishedIs
<1> HIDE DEF r
<1>3. net' \in [Conns -> Seq(Part)] /\ \A o \in Conns : o # c => net'[o] = net[o]
  BY <1>1, ReceiveEffect
<1>4. /\ q = conn[c].running /\ q \in ResultSets /\ q \in Keys
      /\ heap[x] = UpTo(q, 1) /\ net[c] \in {<<>>, From(q, 2)}
  BY <1>1, ConnectionIs DEF Records
<1>5. x \in Data
  BY <1>1, ConnectionIs
<1>6. HeapAfterReceive(c)[x] = FirstResult(q)
  <2>1. net[c] = From(q, 2) /\ NextPart(c) = Head(net[c])
    BY <1>1, <1>4 DEF MayReceive, NextPart
  <2>2. 2 \in 1..Parts(q) /\ 2 - 1 = 1
    BY <1>4, PartsAre
  <2>3. NextPart(c) = <<q, 2>>
    BY <1>4, <2>1, <2>2, Received
  <2>4. Append(UpTo(q, 1), <<q, 2>>) = UpTo(q, 2)
    BY <1>4, <2>2, Recorded
  <2>5. UpTo(q, 2) = FirstResult(q)
    BY DEF UpTo, FirstResult
  <2>6. HeapAfterReceive(c)[x] = Append(heap[x], NextPart(c))
    BY <1>1, RecordEffect
  <2> QED BY <1>4, <2>3, <2>4, <2>5, <2>6
<1>7. cache \in [Keys -> Entry \cup {NoEntry}]
  BY DEF IInv, TypesOK
<1>8. /\ cache' \in [Keys -> Entry \cup {NoEntry}]
      /\ cache'[q].cached_query = x /\ cache'[q] # NoEntry
      /\ \A k \in Keys : k # q => cache'[k] = cache[k]
  <2> DEFINE e == [cached_query |-> x, deadline |-> clock + Ttl,
                   in_refresh |-> FALSE, references |-> 0]
  <2>1. cache' = [cache EXCEPT ![q] = e]
    BY <1>1 DEF AddQuery
  <2>2. clock + Ttl \in Nat /\ 0 \in 0..(RefMod - 1)
    BY ConnectionAssumption, HandlerAssumption
       DEF ConnectionAssumption, HandlerAssumption, IInv, TypesOK
  <2>3. e \in Entry /\ e.cached_query = x
    BY <1>5, <2>2 DEF Entry
  <2> HIDE DEF e
  <2>4. e # NoEntry
    BY <2>3, NoneIs
  <2> QED BY <1>4, <1>7, <2>1, <2>3, <2>4
<1>9. \A d \in FreedByAdd(q) : Cached(q) /\ d = cache[q].cached_query
  BY DEF FreedByAdd, DestroyedBy
<1>10. /\ x \notin FreedByAdd(q)
       /\ \A k \in Keys : k # q /\ Cached(k) => cache[k].cached_query \notin FreedByAdd(q)
       /\ \A o \in Conns : conn[o].recorded \notin FreedByAdd(q)
  BY <1>4, <1>9 DEF IInv, Owns
<1>11. /\ heap' \in [Data -> Seq(Part) \cup {None}] /\ heap'[x] = FirstResult(q)
       /\ \A d \in Data : d # x /\ d \notin FreedByAdd(q) => heap'[d] = heap[d]
  BY <1>1, <1>5, <1>6, <1>10, RecordEffect
<1>12. /\ conn' \in [Conns -> ConnectionData] /\ conn'[c] = r
       /\ \A o \in Conns : o # c => conn'[o] = conn[o]
  BY <1>1, <1>2 DEF IInv, TypesOK
<1>13. TypesOK'
  BY <1>1, <1>3, <1>8, <1>11, <1>12 DEF IInv, TypesOK
<1>14. \A k \in Keys : Cached(k)' =>
           \/ k = q
           \/ k # q /\ Cached(k) /\ cache'[k] = cache[k] /\ cache[k].cached_query \in Data
              /\ cache[k].cached_query # x
  <2> SUFFICES ASSUME NEW k \in Keys, Cached(k)', k # q
               PROVE  Cached(k) /\ cache'[k] = cache[k] /\ cache[k].cached_query \in Data
                      /\ cache[k].cached_query # x
    OBVIOUS
  <2>1. Cached(k) /\ cache'[k] = cache[k]
    BY <1>8 DEF Cached
  <2>2. cache[k] \in Entry
    BY <1>7, <2>1 DEF Cached
  <2> QED BY <2>1, <2>2, NoneIs DEF IInv, Owns
<1>15. Owns'
  <2>1. \A a, o \in Conns :
            conn'[a].recorded # None /\ conn'[a].recorded = conn'[o].recorded => a = o
    BY <1>2, <1>12 DEF IInv, Owns
  <2>2. \A o \in Conns, k \in Keys :
            Cached(k)' => cache'[k].cached_query # conn'[o].recorded
    <3> SUFFICES ASSUME NEW o \in Conns, NEW k \in Keys, Cached(k)'
                 PROVE  cache'[k].cached_query # conn'[o].recorded
      OBVIOUS
    <3>1. cache'[k].cached_query \in Data
      BY <1>5, <1>8, <1>14
    <3>2. CASE o = c
      BY <1>2, <1>12, <3>1, <3>2, NoneIs
    <3>3. CASE o # c
      BY <1>5, <1>8, <1>12, <1>14, <3>3, NoneIs DEF IInv, Owns
    <3> QED BY <3>2, <3>3
  <2>3. \A k, l \in Keys :
            Cached(k)' /\ Cached(l)' /\ cache'[k].cached_query = cache'[l].cached_query => k = l
    BY <1>8, <1>14 DEF IInv, Owns
  <2> QED BY <2>1, <2>2, <2>3 DEF Owns
<1>16. EntriesAreResults'
  <2> SUFFICES ASSUME NEW k \in Keys, Cached(k)'
               PROVE  k \in ResultSets /\ heap'[cache'[k].cached_query] = FirstResult(k)
    BY DEF EntriesAreResults
  <2>1. CASE k = q
    BY <1>4, <1>8, <1>11, <2>1
  <2>2. CASE k # q
    BY <1>10, <1>11, <1>14, <2>2 DEF IInv, EntriesAreResults
  <2> QED BY <2>1, <2>2
<1>17. ConnectionsOK'
  <2> SUFFICES ASSUME NEW o \in Conns
               PROVE  ConnectionOK(conn'[o], net'[o], heap'[conn'[o].recorded])
    BY DEF ConnectionsOK
  <2>1. CASE o = c
    <3>1. Awaits(r, net'[c])
      BY <1>1, <1>2, AfterRowsAwaits
    <3> QED BY <1>2, <1>3, <1>12, <2>1, <3>1, WithoutHook
  <2>2. CASE o # c
    <3>1. conn'[o] = conn[o] /\ net'[o] = net[o]
      BY <1>3, <1>12, <2>2
    <3>2. ConnectionOK(conn[o], net[o], heap[conn[o].recorded])
      BY DEF IInv, ConnectionsOK
    <3>3. CASE conn[o].recorded = None
      BY <3>1, <3>2, <3>3, WithoutContainer
    <3>4. CASE conn[o].recorded # None
      <4>1. conn[o].recorded \in Data /\ conn[o].recorded # x
        BY <2>2, <3>4, ConnectionIs DEF IInv, Owns
      <4>2. heap'[conn[o].recorded] = heap[conn[o].recorded]
        BY <1>10, <1>11, <4>1
      <4> QED BY <3>1, <3>2, <4>2
    <3> QED BY <3>3, <3>4
  <2> QED BY <2>1, <2>2
<1> QED BY <1>13, <1>15, <1>16, <1>17 DEF IInv

LEMMA KeepsStoreFails ==
    ASSUME IInv, NEW c \in Conns, StoreFails(c)
    PROVE  IInv'
<1> DEFINE r == [conn[c] EXCEPT !.state = "gone"]
<1>1. /\ conn[c].state = "fetching" /\ ReceiveFails(c)
      /\ net' = [net EXCEPT ![c] = <<>>] /\ UNCHANGED <<cache, heap, clock>>
      /\ conn' = [conn EXCEPT ![c] = r]
  BY DEF StoreFails, Update, environment
<1>2. /\ r \in ConnectionData /\ r.state = "gone" /\ r.running = conn[c].running
      /\ r.hook = conn[c].hook /\ r.recorded = conn[c].recorded /\ r.active = conn[c].active
      /\ r.pos = conn[c].pos /\ r.key = conn[c].key
  BY MovedIs DEF IInv, TypesOK, States
<1> HIDE DEF r
<1>3. /\ net' \in [Conns -> Seq(Part)] /\ \A o \in Conns : o # c => net'[o] = net[o]
      /\ net'[c] = <<>> /\ net'[c] \in Seq(Part) /\ heap \in [Data -> Seq(Part) \cup {None}]
  BY <1>1, EmptySeq DEF IInv, TypesOK
<1>4. Awaits(r, net'[c]) /\ Records(r, net'[c], heap'[r.recorded])
  BY <1>2, <1>3 DEF Awaits, Records
<1>5. Replayed(r, net'[c], heap'[r.recorded])
  BY <1>1, <1>2, <1>3, ReplayEnds, ConnectionIs DEF Replayed
<1>6. conn[c].hook # "original" => heap'[conn[c].recorded] \in Seq(Part)
  BY <1>1, ConnectionIs
<1>7. ConnectionOK(r, net'[c], heap'[r.recorded])
  BY <1>2, <1>3, <1>4, <1>5, <1>6, StillHooked
<1> QED BY <1>1, <1>2, <1>3, <1>7, PrivateStep

-----------------------------------------------------------------------------
(***************************************************************************)
(* Reading unbuffered, further results, connecting                         *)
(***************************************************************************)

LEMMA KeepsUseResult ==
    ASSUME IInv, NEW c \in Conns, UseResult(c)
    PROVE  IInv'
<1> DEFINE r == [Unhooked(conn[c]) EXCEPT !.state = "rows", !.key = None]
<1>1. /\ conn[c].state = "fetching" /\ UNCHANGED <<cache, clock, net>>
      /\ heap' = IF conn[c].hook = "record" THEN Released({conn[c].recorded}) ELSE heap
      /\ conn' = [conn EXCEPT ![c] = r]
  BY DEF UseResult, FreeRecorded, Update, environment
<1>2. /\ r \in ConnectionData /\ r.state = "rows" /\ r.running = conn[c].running
      /\ r.hook = "original" /\ r.recorded = None
  <2>1. conn[c] \in ConnectionData
    BY DEF IInv, TypesOK
  <2> QED BY <2>1, UnhookedIs DEF ConnectionData, States
<1> HIDE DEF r
<1>3. Awaits(r, net'[c]) /\ net' \in [Conns -> Seq(Part)]
  BY <1>1, <1>2, ConnectionIs DEF Awaits, IInv, TypesOK
<1>4. /\ heap' \in [Data -> Seq(Part) \cup {None}]
      /\ \A d \in Data : d # conn[c].recorded => heap'[d] = heap[d]
  BY <1>1, ReleaseEffect DEF IInv, TypesOK
<1>5. ConnectionOK(r, net'[c], heap'[r.recorded])
  BY <1>2, <1>3, WithoutHook
<1> QED BY <1>1, <1>2, <1>3, <1>4, <1>5, PrivateStep

LEMMA KeepsReadRows ==
    ASSUME IInv, NEW c \in Conns, ReadRows(c)
    PROVE  IInv'
<1> DEFINE r == RowsRead(c)
<1>1. /\ conn[c].state = "rows" /\ MayReceive(c) /\ Receive(c)
      /\ UNCHANGED <<cache, heap, clock>> /\ conn' = [conn EXCEPT ![c] = r]
  BY DEF ReadRows, Update, environment
<1>2. /\ r \in ConnectionData
      /\ r.state = AfterRows(c) /\ r.state \in {"more", "ready"}
      /\ r.running = conn[c].running
      /\ r.hook = conn[c].hook /\ r.recorded = conn[c].recorded /\ r.active = conn[c].active
  BY RowsReadIs
<1> HIDE DEF r
<1>3. conn[c].hook # "replay" /\ (conn[c].hook = "record" => ~conn[c].active)
  BY <1>1, FromCache, ConnectionIs DEF Records
<1>4. /\ net' \in [Conns -> Seq(Part)] /\ \A o \in Conns : o # c => net'[o] = net[o]
      /\ heap \in [Data -> Seq(Part) \cup {None}]
  BY <1>1, ReceiveEffect DEF IInv, TypesOK
<1>5. Awaits(r, net'[c])
  BY <1>1, <1>2, AfterRowsAwaits
<1>6. Records(r, net'[c], heap'[r.recorded]) /\ Replayed(r, net'[c], heap'[r.recorded])
  BY <1>2, <1>3 DEF Records, Replayed
<1>7. conn[c].hook # "original" => heap'[conn[c].recorded] \in Seq(Part)
  BY <1>1, ConnectionIs
<1>8. ConnectionOK(r, net'[c], heap'[r.recorded])
  BY <1>2, <1>4, <1>5, <1>6, <1>7, StillHooked
<1> QED BY <1>1, <1>2, <1>4, <1>8, PrivateStep

LEMMA KeepsNextResult ==
    ASSUME IInv, NEW c \in Conns, NextResult(c)
    PROVE  IInv'
<1> DEFINE r == [ConnAfterReceive(c) EXCEPT !.state = "fetching"]
           q == conn[c].running
<1>1. /\ conn[c].state = "more" /\ MayReceive(c) /\ Receive(c)
      /\ heap' = HeapAfterReceive(c) /\ UNCHANGED <<cache, clock>>
      /\ conn' = [conn EXCEPT ![c] = r]
  BY DEF NextResult, Update, environment
<1>2. /\ r \in ConnectionData /\ r.state = "fetching" /\ r.running = q
      /\ r.hook = conn[c].hook /\ r.recorded = conn[c].recorded /\ r.active = conn[c].active
  BY AdvancedIs DEF States
<1> HIDE DEF r
<1>3. conn[c].hook # "replay" /\ (conn[c].hook = "record" => ~conn[c].active)
  BY <1>1, FromCache, ConnectionIs DEF Records
<1>4. /\ net' \in [Conns -> Seq(Part)] /\ \A o \in Conns : o # c => net'[o] = net[o]
      /\ net'[c] = Tail(net[c])
  BY <1>1, <1>3, ReceiveEffect
<1>5. /\ heap' \in [Data -> Seq(Part) \cup {None}]
      /\ \A d \in Data : d # conn[c].recorded => heap'[d] = heap[d]
      /\ conn[c].hook = "record" => heap'[conn[c].recorded] \in Seq(Part)
  BY <1>1, RecordEffect
<1>6. Awaits(r, net'[c])
  <2>1. q \in Keys /\ 3 \in 1..Parts(q) /\ Tail(net[c]) = From(q, 4)
    BY <1>1, <1>3, FromServer
  <2>2. 4 \in 1..Parts(q)
    BY <2>1, PartsAre
  <2> QED BY <1>2, <1>4, <2>1, <2>2 DEF Awaits
<1>7. Records(r, net'[c], heap'[r.recorded]) /\ Replayed(r, net'[c], heap'[r.recorded])
  BY <1>2, <1>3 DEF Records, Replayed
<1>8. conn[c].hook # "original" => heap'[conn[c].recorded] \in Seq(Part)
  BY <1>3, <1>5, ConnectionIs DEF ConnectionData, Hooks
<1>9. ConnectionOK(r, net'[c], heap'[r.recorded])
  BY <1>2, <1>4, <1>6, <1>7, <1>8, StillHooked
<1> QED BY <1>1, <1>2, <1>4, <1>5, <1>9, PrivateStep

\* Closed and new connections have no container and await nothing.
LEMMA EmptyHanded ==
    /\ Closed \in ConnectionData /\ Closed.hook = "original" /\ Closed.recorded = None
    /\ Connected \in ConnectionData /\ Connected.hook = "original" /\ Connected.recorded = None
    /\ [Closed EXCEPT !.state = "crashed"] \in ConnectionData
    /\ [Closed EXCEPT !.state = "crashed"].hook = "original"
    /\ [Closed EXCEPT !.state = "crashed"].recorded = None
    /\ [Closed EXCEPT !.state = "crashed"].state = "crashed"
BY DEF Connected, Closed, ConnectionData, States, Hooks

LEMMA ForgettingStep ==
    ASSUME IInv, NEW c \in Conns, NEW r \in {Closed, Connected}, Update(c, r),
           net' = [net EXCEPT ![c] = <<>>], UNCHANGED <<cache, heap, clock>>
    PROVE  IInv'
<1>1. /\ net' \in [Conns -> Seq(Part)] /\ \A o \in Conns : o # c => net'[o] = net[o]
      /\ net'[c] = <<>> /\ net'[c] \in Seq(Part) /\ heap \in [Data -> Seq(Part) \cup {None}]
  BY EmptySeq DEF IInv, TypesOK
<1>2. r \in ConnectionData /\ r.hook = "original" /\ r.recorded = None
  BY EmptyHanded
<1>3. ConnectionOK(r, net'[c], heap'[r.recorded])
  BY <1>1, <1>2, WithoutHook DEF Awaits
<1> QED BY <1>1, <1>2, <1>3, PrivateStep DEF Update

LEMMA KeepsConnecting ==
    ASSUME IInv, NEW c \in Conns, Close(c) \/ Connect(c) \/ Reconnect(c)
    PROVE  IInv'
<1>1. CASE Close(c)
  BY <1>1, ForgettingStep DEF Close, environment
<1>2. CASE Connect(c)
  <2>1. net[c] = <<>> /\ net' = net /\ net \in [Conns -> Seq(Part)]
    BY <1>2, ReadyIsQuiet DEF Connect, IInv, TypesOK
  <2>2. net' = [net EXCEPT ![c] = <<>>]
    BY <2>1
  <2> QED BY <1>2, <2>2, ForgettingStep DEF Connect, environment
<1>3. CASE Reconnect(c) /\ conn[c].hook = "original"
  BY <1>3, ForgettingStep DEF Reconnect, environment
<1>4. CASE Reconnect(c) /\ conn[c].hook # "original"
  <2> DEFINE r == [Closed EXCEPT !.state = "crashed"]
  <2>1. /\ conn' = [o \in Conns |-> r] /\ net' = [net EXCEPT ![c] = <<>>]
        /\ UNCHANGED <<cache, heap, clock>>
    BY <1>4 DEF Reconnect, environment
  <2>2. /\ r \in ConnectionData /\ r.hook = "original" /\ r.recorded = None
        /\ r.state = "crashed"
    BY EmptyHanded
  <2> HIDE DEF r
  <2>3. net' \in [Conns -> Seq(Part)]
    BY <2>1, EmptySeq DEF IInv, TypesOK
  <2>4. TypesOK'
    BY <2>1, <2>2, <2>3 DEF IInv, TypesOK
  <2>5. \A k \in Keys : Cached(k) => cache[k].cached_query # None
    BY NoneIs DEF IInv, TypesOK, Cached
  <2>6. Owns'
    BY <2>1, <2>2, <2>5 DEF IInv, Owns, Cached
  <2>7. EntriesAreResults'
    BY <2>1 DEF IInv, EntriesAreResults, Cached
  <2>8. ConnectionsOK'
    <3> SUFFICES ASSUME NEW o \in Conns
                 PROVE  ConnectionOK(conn'[o], net'[o], heap'[conn'[o].recorded])
      BY DEF ConnectionsOK
    <3>1. conn'[o] = r /\ net'[o] \in Seq(Part)
      BY <2>1, <2>3
    <3>2. Awaits(r, net'[o])
      BY <2>2 DEF Awaits
    <3> QED BY <2>2, <3>1, <3>2, WithoutHook
  <2> QED BY <2>4, <2>6, <2>7, <2>8 DEF IInv
<1> QED BY <1>1, <1>2, <1>3, <1>4

-----------------------------------------------------------------------------
(***************************************************************************)
(* The theorems                                                            *)
(***************************************************************************)

LEMMA IInvStep == DataCopy /\ IInv /\ [Next]_vars => IInv'
<1> SUFFICES ASSUME DataCopy, IInv, [Next]_vars PROVE IInv'
  OBVIOUS
<1>1. ASSUME clock' \in Nat, UNCHANGED <<cache, heap, conn, net>>
      PROVE  IInv'
  BY <1>1 DEF IInv, TypesOK, Owns, EntriesAreResults, ConnectionsOK, Cached
<1>2. clock \in Nat
  BY DEF IInv, TypesOK
<1>3. CASE Tick
  BY <1>1, <1>2, <1>3 DEF Tick
<1>4. CASE SetCacheCondition
  BY <1>1, <1>2, <1>4 DEF SetCacheCondition
<1>5. CASE UNCHANGED vars
  BY <1>1, <1>2, <1>5 DEF vars
<1>6. ASSUME NEW c \in Conns, NEW q \in Keys, SendQuery(c, q)
      PROVE  IInv'
  BY <1>6, KeepsSendPlain, KeepsSendHit, KeepsSendHitRefused, KeepsSendMiss,
     KeepsSendMissRefused DEF SendQuery
<1>7. ASSUME NEW c \in Conns, ReapQuery(c)
      PROVE  IInv'
  BY <1>7, KeepsReapResultSet, KeepsReapNoResult, KeepsReapFails DEF ReapQuery
<1>8. ASSUME NEW c \in Conns, StoreResult(c)
      PROVE  IInv'
  BY <1>8, KeepsStoreInactive, KeepsFinished, KeepsStoreAdded, KeepsStoreFails
     DEF StoreResult
<1>9. ASSUME NEW c \in Conns,
             \/ UseResult(c) \/ ReadRows(c) \/ NextResult(c)
             \/ Close(c) \/ Connect(c) \/ Reconnect(c)
      PROVE  IInv'
  BY <1>9, KeepsUseResult, KeepsReadRows, KeepsNextResult, KeepsConnecting
<1> QED BY <1>3, <1>4, <1>5, <1>6, <1>7, <1>8, <1>9 DEF Next

LEMMA IInvAlways == DataCopy /\ Spec => []IInv
<1>1. DataCopy \in BOOLEAN
  BY HandlerAssumption DEF HandlerAssumption
<1>2. CASE DataCopy
  <2>1. IInv /\ [Next]_vars => IInv'
    BY <1>2, IInvStep
  <2> QED BY <2>1, IInvInit, PTL DEF Spec
<1>3. CASE ~DataCopy
  BY <1>3
<1> QED BY <1>1, <1>2, <1>3

LEMMA FreesNothingInUse == IInv => NoUseAfterFree
<1> SUFFICES ASSUME IInv PROVE NoUseAfterFree
  OBVIOUS
<1>1. \A c \in Conns : conn[c].hook # "original" /\ Open(c) => heap[conn[c].recorded] # None
  BY ConnectionIs, NoneIs
<1>2. \A k \in Keys : Cached(k) => heap[cache[k].cached_query] # None
  <2> SUFFICES ASSUME NEW k \in Keys, Cached(k)
               PROVE  heap[cache[k].cached_query] # None
    OBVIOUS
  <2>1. heap[cache[k].cached_query] = FirstResult(k) /\ k \in ResultSets
    BY DEF IInv, EntriesAreResults
  <2> QED BY <2>1, FirstResultIs, NoneIs
<1> QED BY <1>1, <1>2 DEF NoUseAfterFree

LEMMA ReadsInOrder == IInv => ReadsOwnAnswer
<1> SUFFICES ASSUME IInv, NEW c \in Conns, MayReceive(c), NEW q, q = conn[c].running
             PROVE  /\ conn[c].state = "sent" => NextPart(c) \in {<<q, 1>>, <<q, 3>>}
                    /\ conn[c].state \in {"fetching", "rows"} =>
                           NextPart(c) \in {<<q, 2>>, <<q, 4>>}
  BY DEF ReadsOwnAnswer
<1>1. CASE conn[c].hook = "replay"
  BY <1>1, FromCache
<1>2. CASE conn[c].hook # "replay"
  <2>1. CASE conn[c].state = "sent"
    BY <1>2, <2>1, FromServer
  <2>2. CASE conn[c].state \in {"fetching", "rows"}
    BY <1>2, <2>2, FromServer
  <2> QED BY <2>1, <2>2
<1> QED BY <1>1, <1>2

\* With std_data_copy no connection records into, or replays from, freed memory
\* and no entry of the cache points to it, in whatever order scripts send,
\* store, use, close and reconnect.
THEOREM NothingFreedInUse == DataCopy => (Spec => []NoUseAfterFree)
BY IInvAlways, FreesNothingInUse, PTL

\* With std_data_copy a statement reads the parts of its own answer in their
\* order, from the network or from the cache.
THEOREM AnswersBelong == DataCopy => (Spec => []ReadsOwnAnswer)
BY IInvAlways, ReadsInOrder, PTL

\* With std_data_copy every entry is the whole first result of its own statement.
THEOREM EntriesAreWhole == DataCopy => (Spec => []CachesWholeResult)
<1>1. IInv => CachesWholeResult
  BY DEF IInv, EntriesAreResults, CachesWholeResult
<1> QED BY <1>1, IInvAlways, PTL

\* With std_data_copy nobody else points to a container that is being recorded.
THEOREM RecordingsArePrivate == DataCopy => (Spec => []RecordsPrivately)
<1>1. IInv => RecordsPrivately
  <2> SUFFICES ASSUME IInv, NEW c \in Conns, conn[c].hook = "record"
               PROVE  /\ \A o \in Conns \ {c} : conn[o].recorded # conn[c].recorded
                      /\ \A k \in Keys : Cached(k) => cache[k].cached_query # conn[c].recorded
    BY DEF RecordsPrivately
  <2>1. conn[c].recorded # None
    BY ConnectionIs
  <2> QED BY <2>1 DEF IInv, Owns
<1> QED BY <1>1, IInvAlways, PTL

-----------------------------------------------------------------------------
(***************************************************************************)
(* Orderly scripts                                                         *)
(***************************************************************************)

\* The scripts are orderly; an entry counts all connections there can be.
Orderly == Uses = {} /\ IsFiniteSet(Conns) /\ Cardinality(Conns) < RefMod

-----------------------------------------------------------------------------
(***************************************************************************)
(* The handler seen from StdCache                                          *)
(***************************************************************************)

LEMMA AnswerToIs ==
    ASSUME NEW q \in Keys
    PROVE  AnswerTo(q) \in Seq(Part) /\ AnswerTo(q) # None
BY FirstResultIs, NoneIs, EmptySeq DEF AnswerTo

\* What StdCache assumes of its constants holds of what they stand for.
LEMMA StdAssumptions ==
    ASSUME Orderly
    PROVE  /\ Std!HandlerAssumption /\ Std!NoEntryAssumption
           /\ Std!CounterAssumption /\ Std!ClientAssumption
<1>1. Std!HandlerAssumption
  BY AnswerToIs, HandlerAssumption DEF HandlerAssumption, Std!HandlerAssumption
<1>2. Std!NoEntryAssumption
  BY NoEntryAssumption
     DEF NoEntryAssumption, NoEntry, Entry, Std!NoEntryAssumption, Std!NoEntry, Std!Entry
<1>3. Std!CounterAssumption
  BY DEF Orderly, IsFiniteSet, Cardinality,
         Std!CounterAssumption, Std!IsFiniteSet, Std!Cardinality
<1>4. Std!ClientAssumption
  BY ConnectionAssumption DEF ConnectionAssumption, Std!ClientAssumption
<1> QED BY <1>1, <1>2, <1>3, <1>4

\* The table is the same one; only what a container holds looks different.
LEMMA SameTable ==
    /\ \A k : Std!Cached(k) <=> Cached(k)
    /\ \A k : Std!Lent(k) = Lent(k) /\ Std!Without(k) = Without(k)
    /\ \A k, now : Std!FindMiss(k, now) <=> FindMiss(k, now)
    /\ \A k, now : Std!Servable(k, now) <=> Servable(k, now)
    /\ \A k, now : Std!LastReturn(k, now) <=> LastReturn(k, now)
    /\ \A k, d, ttl, now : Std!AddQuery(k, d, ttl, now) <=> AddQuery(k, d, ttl, now)
    /\ \A k, now : Std!AddRefused(k, now) <=> AddRefused(k, now)
<1> USE DEF Std!Cached, Cached, Std!NoEntry, NoEntry
<1>1. \A k : Std!Cached(k) <=> Cached(k)
  OBVIOUS
<1>2. \A k : Std!Lent(k) = Lent(k) /\ Std!Without(k) = Without(k)
  BY DEF Std!Lent, Lent, Std!Inc, Inc, Std!Without, Without
<1>3. \A k, now : Std!FindMiss(k, now) <=> FindMiss(k, now)
  BY DEF FindMiss, FindNothing, FindAskedToRefresh, AsksForRefresh, Dead, Expired,
         AfterLookup, Killable, Without, Std!FindMiss, Std!FindNothing,
         Std!FindAskedToRefresh, Std!AsksForRefresh, Std!Dead, Std!Expired,
         Std!AfterLookup, Std!Killable, Std!Without
<1>4. \A k, now : Std!Servable(k, now) <=> Servable(k, now)
  BY DEF Servable, AsksForRefresh, Dead, Expired,
         Std!Servable, Std!AsksForRefresh, Std!Dead, Std!Expired
<1>5. \A k, now : Std!LastReturn(k, now) <=> LastReturn(k, now)
  BY DEF LastReturn, Dec, Expired, Std!LastReturn, Std!Dec, Std!Expired
<1>6. \A k, d, ttl, now : Std!AddQuery(k, d, ttl, now) <=> AddQuery(k, d, ttl, now)
  BY DEF AddQuery, MayAdd, Replaceable, Std!AddQuery, Std!MayAdd, Std!Replaceable
<1>7. \A k, now : Std!AddRefused(k, now) <=> AddRefused(k, now)
  BY DEF AddRefused, MayAdd, Replaceable, Std!AddRefused, Std!MayAdd, Std!Replaceable
<1> QED BY <1>1, <1>2, <1>3, <1>4, <1>5, <1>6, <1>7

LEMMA SameFreed ==
    /\ \A k, now : Std!FreedByLookup(k, now) = FreedByLookup(k, now)
    /\ \A k : Std!FreedByAdd(k) = FreedByAdd(k)
    /\ \A ds : Std!Released(ds) = [d \in Data |-> IF d \in ds THEN None ELSE heapBar[d]]
<1> USE DEF Std!Cached, Cached, Std!NoEntry, NoEntry, Std!DestroyedBy, DestroyedBy
<1>1. \A k, now : Std!FreedByLookup(k, now) = FreedByLookup(k, now)
  BY DEF FreedByLookup, Killable, Dead, Expired,
         Std!FreedByLookup, Std!Killable, Std!Dead, Std!Expired
<1>2. \A k : Std!FreedByAdd(k) = FreedByAdd(k)
  BY DEF FreedByAdd, Std!FreedByAdd
<1> QED BY <1>1, <1>2 DEF Std!Released

-----------------------------------------------------------------------------
(***************************************************************************)
(* The invariants                                                          *)
(***************************************************************************)

\* A connection points to a container only with swapped functions, records into
\* one, and has one for the statement sent last.
Proper(r) ==
    /\ r \in ConnectionData
    /\ r.hook = "original" => r.recorded = None
    /\ r.hook = "record" => r.recorded # None
    /\ r.recorded # None => r.running \in Keys

WireInv ==
    /\ TypesOK
    /\ conditional = FALSE
    /\ \A k \in Keys : Cached(k) => k \in ResultSets

\* What the connections hold and what the cache has agree as in StdCache.
TableInv ==
    /\ WireInv
    /\ \A c \in Conns : Proper(conn[c])
    /\ Std!IInv

\* r is a connection, w what the server has sent.

\* With the original functions: what is on its way is the rest of the answer to
\* the last statement.  Of several results the cache has the first only, and
\* after a replay the others never come.
Plain(r, w) ==
    \/ r.state \in {"closed", "ready"} /\ w = <<>>
    \/ /\ r.running \in Keys
       /\ r.active <=> r.running \in Cacheable
       /\ \/ r.state = "sent" /\ ~r.active /\ w = From(r.running, 1)
          \/ /\ r.state = "fetching" /\ ~r.active /\ r.running \in ResultSets
             /\ w = From(r.running, 2)
          \/ r.state = "fetching" /\ r.running \in Multi /\ w = From(r.running, 4)
          \/ /\ r.state = "more" /\ r.running \in Multi
             /\ w = From(r.running, 3) \/ (w = <<>> /\ r.active)

\* With swapped functions: between send_query and store_result.
Hooked(r, w) ==
    /\ r.active /\ r.key = r.running /\ r.running \in Keys /\ r.running \in Cacheable
    /\ r.state \in {"sent", "fetching"}
    /\ r.state = "fetching" \/ r.hook = "replay" => r.key \in ResultSets
    /\ r.hook = "replay" => w = <<>> /\ r.pos = IF r.state = "sent" THEN 0 ELSE 1
    /\ r.hook = "record" => w = From(r.key, IF r.state = "sent" THEN 1 ELSE 2)

OrderlyConn(r, w) ==
    /\ r \in ConnectionData /\ w \in Seq(Part)
    /\ r.hook = "original" <=> r.recorded = None
    /\ r.should = r.active
    /\ IF r.hook = "original" THEN Plain(r, w) ELSE Hooked(r, w)

\* What r has recorded is what it has received: nothing, or the header.
Holds(r, h) ==
    r.hook = "record" => h = UpTo(r.key, IF r.state = "sent" THEN 0 ELSE 1)

\* c is in the middle of a statement, or finished with it.
Tidy(c) == OrderlyConn(conn[c], net[c]) /\ Holds(conn[c], heap[conn[c].recorded])

OrderlyInv == TableInv /\ \A c \in Conns : Tidy(c)

LEMMA PartsOfMulti ==
    ASSUME NEW q \in Keys
    PROVE  Parts(q) = 4 <=> q \in Multi
BY DEF Parts

LEMMA OrderlyIsProper ==
    ASSUME NEW r, NEW w, OrderlyConn(r, w)
    PROVE  Proper(r)
BY DEF OrderlyConn, Hooked, Hooks, ConnectionData, Proper

\* A connection of the invariants.
LEMMA ProperIs ==
    ASSUME TableInv, NEW c \in Conns
    PROVE  /\ conn[c] \in ConnectionData /\ net[c] \in Seq(Part)
           /\ conn[c].hook \in Hooks
           /\ conn[c].recorded # None =>
                /\ conn[c].recorded \in Data /\ conn[c].running \in Keys
                /\ conn[c].hook # "original"
           /\ conn[c].hook = "record" => conn[c].recorded # None
BY DEF TableInv, WireInv, TypesOK, Proper, ConnectionData

LEMMA ConnIs ==
    ASSUME NEW c \in Conns, Tidy(c)
    PROVE  /\ conn[c] \in ConnectionData /\ net[c] \in Seq(Part)
           /\ conn[c].hook = "original" <=> conn[c].recorded = None
           /\ conn[c].hook # "original" => conn[c].recorded \in Data
           /\ conn[c].hook \in Hooks
           /\ conn[c].should = conn[c].active
           /\ IF conn[c].hook = "original" THEN Plain(conn[c], net[c])
              ELSE Hooked(conn[c], net[c])
           /\ Holds(conn[c], heap[conn[c].recorded])
BY DEF Tidy, OrderlyConn, ConnectionData

\* What StdCache knows of the connections.
LEMMA FromStd ==
    ASSUME TableInv
    PROVE  /\ \A c \in Conns : conn[c].hook = "record" =>
                /\ \A o \in Conns \ {c} : conn[o].recorded # conn[c].recorded
                /\ \A k \in Keys : Cached(k) => cache[k].cached_query # conn[c].recorded
           /\ \A c \in Conns : conn[c].recorded # None =>
                heapBar[conn[c].recorded] = AnswerTo(conn[c].running)
           /\ \A k \in Keys : Cached(k) => heapBar[cache[k].cached_query] = AnswerTo(k)
<1>1. /\ Std!OwnDataIsPrivate /\ Std!ClientsHoldAnswers /\ Std!EntriesHoldAnswers
      /\ Std!ClientsWellFormed
  BY DEF TableInv, Std!IInv, Std!Consistent
<1>2. ASSUME NEW c \in Conns, conn[c].hook = "record"
      PROVE  /\ \A o \in Conns \ {c} : conn[o].recorded # conn[c].recorded
             /\ \A k \in Keys : Cached(k) => cache[k].cached_query # conn[c].recorded
  <2>1. heldBar[c] # None /\ pcBar[c] = "recording" /\ heldBar[c] = conn[c].recorded
    BY <1>2, ProperIs DEF heldBar, pcBar
  <2>2. \A o \in Conns : heldBar[o] = conn[o].recorded
    BY DEF heldBar
  <2> QED BY <1>1, <2>1, <2>2, SameTable DEF Std!OwnDataIsPrivate
<1>3. ASSUME NEW c \in Conns, conn[c].recorded # None
      PROVE  heapBar[conn[c].recorded] = AnswerTo(conn[c].running)
  <2>1. pcBar[c] # "idle" /\ heldBar[c] = conn[c].recorded /\ keyBar[c] = conn[c].running
    BY <1>3 DEF heldBar, pcBar, keyBar
  <2> QED BY <1>1, <2>1 DEF Std!ClientsHoldAnswers, Std!ClientsWellFormed
<1>4. \A k \in Keys : Cached(k) => heapBar[cache[k].cached_query] = AnswerTo(k)
  BY <1>1, SameTable DEF Std!EntriesHoldAnswers
<1> QED BY <1>2, <1>3, <1>4

-----------------------------------------------------------------------------
(***************************************************************************)
(* What a step does to the containers                                      *)
(***************************************************************************)

RecordedBy(c, d) == conn[c].hook = "record" /\ conn[c].recorded = d

RecordedApart == \A c, o \in Conns, d \in Data : RecordedBy(c, d) /\ RecordedBy(o, d) => c = o

BarAt(d) ==
    /\ (\A c \in Conns : ~RecordedBy(c, d)) => heapBar[d] = heap[d]
    /\ \A c \in Conns : RecordedBy(c, d) =>
           heapBar[d] = IF heap[d] = None THEN None ELSE AnswerTo(conn[c].running)

BarHolds == RecordedApart => \A d \in Data : BarAt(d)

LEMMA BarIs == BarHolds
<1> SUFFICES ASSUME RecordedApart, NEW d \in Data PROVE BarAt(d)
  BY DEF BarHolds
<1>1. (\A c \in Conns : ~RecordedBy(c, d)) => heapBar[d] = heap[d]
  BY DEF RecordedBy, Recorders, heapBar
<1>2. ASSUME NEW c \in Conns, RecordedBy(c, d)
      PROVE  heapBar[d] = IF heap[d] = None THEN None ELSE AnswerTo(conn[c].running)
  <2>1. Recorders(d) = {c}
    BY <1>2 DEF RecordedApart, RecordedBy, Recorders
  <2>2. (CHOOSE o \in Recorders(d) : TRUE) = c
    BY <2>1
  <2> QED BY <2>1, <2>2 DEF heapBar
<1> QED BY <1>1, <1>2 DEF BarAt

LEMMA BarIsNext == BarHolds'
BY BarIs, PTL

LEMMA Apart == ASSUME TableInv PROVE RecordedApart
BY FromStd DEF RecordedApart, RecordedBy

\* A container nobody points to, or that of c itself.
Recordable(c, d) == d \in Fresh \/ RecordedBy(c, d)

\* One connection becomes r.
Becomes(c, r) ==
    /\ conn' = [conn EXCEPT ![c] = r]
    /\ Proper(r)
    /\ r.hook = "record" => Recordable(c, r.recorded)

LEMMA FreshIs ==
    ASSUME NEW d \in Fresh
    PROVE  /\ d \in Data /\ heap[d] = None
           /\ \A c \in Conns : conn[c].recorded # d
           /\ \A k \in Keys : Cached(k) => cache[k].cached_query # d
BY DEF Fresh, Pointed

LEMMA RecordersAfter ==
    ASSUME TableInv, NEW c \in Conns, NEW r, Becomes(c, r)
    PROVE  /\ \A o \in Conns \ {c} : \A d : RecordedBy(o, d)' <=> RecordedBy(o, d)
           /\ \A o \in Conns \ {c} : conn'[o] = conn[o]
           /\ conn'[c] = r
           /\ \A d : RecordedBy(c, d)' <=> r.hook = "record" /\ r.recorded = d
           /\ RecordedApart'
<1>1. conn \in [Conns -> ConnectionData]
  BY DEF TableInv, WireInv, TypesOK
<1>2. conn'[c] = r /\ \A o \in Conns \ {c} : conn'[o] = conn[o]
  BY <1>1 DEF Becomes
<1>3. /\ \A o \in Conns \ {c} : \A d : RecordedBy(o, d)' <=> RecordedBy(o, d)
      /\ \A d : RecordedBy(c, d)' <=> r.hook = "record" /\ r.recorded = d
  BY <1>2 DEF RecordedBy
<1>4. ASSUME NEW o \in Conns \ {c}, NEW d \in Data, RecordedBy(o, d), RecordedBy(c, d)'
      PROVE  FALSE
  <2>1. r.hook = "record" /\ d = r.recorded
    BY <1>3, <1>4
  <2>2. d \notin Fresh
    BY <1>4, FreshIs DEF RecordedBy
  <2>3. ~RecordedBy(c, d)
    BY <1>4, Apart DEF RecordedApart
  <2> QED BY <2>1, <2>2, <2>3 DEF Becomes, Recordable
<1>5. RecordedApart'
  BY <1>3, <1>4, Apart DEF RecordedApart
<1> QED BY <1>2, <1>3, <1>5

\* What StdCache sees of the containers.
LEMMA BarStep ==
    ASSUME TableInv, NEW c \in Conns, NEW r, Becomes(c, r), NEW d \in Data
    PROVE  /\ heap[d] = None => heapBar[d] = None
           /\ heap'[d] = None => heapBar'[d] = None
           /\ (\A o \in Conns : ~RecordedBy(o, d)) => heapBar[d] = heap[d]
           /\ (\A o \in Conns \ {c} : ~RecordedBy(o, d)) /\ ~RecordedBy(c, d)'
                => heapBar'[d] = heap'[d]
           /\ RecordedBy(c, d)' /\ heap'[d] # None => heapBar'[d] = AnswerTo(r.running)
           /\ RecordedBy(c, d) /\ heap[d] # None => heapBar[d] = AnswerTo(conn[c].running)
           /\ heap'[d] = heap[d] /\ ~RecordedBy(c, d) /\ ~RecordedBy(c, d)'
                => heapBar'[d] = heapBar[d]
<1>1. RecordedApart /\ RecordedApart'
  BY Apart, RecordersAfter
<1>2. BarAt(d)
  BY <1>1, BarIs DEF BarHolds
<1>3. BarAt(d)'
  BY <1>1, BarIsNext DEF BarHolds
<1>4. \A q : AnswerTo(q)' = AnswerTo(q)
  BY DEF AnswerTo, FirstResult, Answer, Parts
<1> QED BY <1>2, <1>3, <1>4, RecordersAfter DEF BarAt

\* What StdCache sees of the connections.
LEMMA RoleStep ==
    ASSUME TableInv, NEW c \in Conns, NEW r, Becomes(c, r), NEW p,
           p = IF r.recorded = None THEN "idle"
               ELSE IF r.hook = "record" THEN "recording" ELSE "replaying"
    PROVE  /\ pcBar' = [pcBar EXCEPT ![c] = p]
           /\ keyBar' = [keyBar EXCEPT ![c] = IF r.recorded = None THEN None ELSE r.running]
           /\ heldBar' = [heldBar EXCEPT ![c] = r.recorded]
<1>1. conn'[c] = r /\ \A o \in Conns \ {c} : conn'[o] = conn[o]
  BY RecordersAfter
<1>2. pcBar' = [pcBar EXCEPT ![c] = p]
  BY <1>1 DEF pcBar
<1>3. keyBar' = [keyBar EXCEPT ![c] = IF r.recorded = None THEN None ELSE r.running]
  BY <1>1 DEF keyBar
<1>4. heldBar' = [heldBar EXCEPT ![c] = r.recorded]
  BY <1>1 DEF heldBar
<1> QED BY <1>2, <1>3, <1>4

LEMMA BarTypes ==
    /\ heapBar = [d \in Data |-> heapBar[d]]
    /\ pcBar = [c \in Conns |-> pcBar[c]] /\ keyBar = [c \in Conns |-> keyBar[c]]
    /\ heldBar = [c \in Conns |-> heldBar[c]]
    /\ heapBar' = [d \in Data |-> heapBar'[d]]
BY DEF heapBar, pcBar, keyBar, heldBar

\* Every client goes by the clock, and its fresh containers are those of all.
LEMMA StdClient ==
    ASSUME TableInv, NEW c \in Conns
    PROVE  /\ Std!Now(c) = clock
           /\ Fresh \subseteq Std!Fresh
           /\ pcBar[c] = IF conn[c].recorded = None THEN "idle"
                         ELSE IF conn[c].hook = "record" THEN "recording" ELSE "replaying"
           /\ heldBar[c] = conn[c].recorded
           /\ conn[c].recorded # None => keyBar[c] = conn[c].running
<1>1. Std!Now(c) = clock
  BY DEF Std!Now
<1>2. ASSUME NEW d \in Fresh
      PROVE  d \in Std!Fresh
  <2>1. d \in Data /\ heap[d] = None /\ \A o \in Conns : conn[o].recorded # d
        /\ \A k \in Keys : Cached(k) => cache[k].cached_query # d
    BY FreshIs
  <2>2. heapBar[d] = None /\ \A o \in Conns : heldBar[o] # d
    BY <2>1 DEF heapBar, heldBar
  <2> QED BY <2>1, <2>2, SameTable DEF Std!Fresh
<1> QED BY <1>1, <1>2 DEF pcBar, keyBar, heldBar

\* A step of StdCache keeps its invariant.
LEMMA StdStep ==
    ASSUME TableInv, Orderly, [Std!NextProtocol]_(Std!vars)
    PROVE  /\ Std!IInv'
           /\ cache' \in [Keys -> Entry \cup {NoEntry}]
<1>1. [Std!Next]_(Std!vars)
  BY DEF Std!Next, Std!NextNoClear
<1>2. Std!IInv'
  BY <1>1, StdAssumptions, Std!StepIInv DEF TableInv
<1>3. cache' \in [Keys -> Entry \cup {NoEntry}]
  BY <1>2 DEF Std!IInv, Std!TypeOK, Std!Entry, Std!NoEntry, Entry, NoEntry
<1> QED BY <1>2, <1>3

\* What another connection records into belongs to nobody else.
LEMMA OthersKept ==
    ASSUME TableInv, NEW c \in Conns, NEW o \in Conns \ {c}, NEW d \in Data, RecordedBy(o, d)
    PROVE  /\ d \notin Fresh /\ d # conn[c].recorded
           /\ \A k \in Keys : Cached(k) => cache[k].cached_query # d
           /\ \A k \in Keys : \A now : d \notin FreedByLookup(k, now) /\ d \notin FreedByAdd(k)
<1>1. /\ d # conn[c].recorded
      /\ \A k \in Keys : Cached(k) => cache[k].cached_query # d
  BY FromStd DEF RecordedBy
<1>2. \A k \in Keys : \A now : d \notin FreedByLookup(k, now) /\ d \notin FreedByAdd(k)
  BY <1>1 DEF FreedByLookup, FreedByAdd, DestroyedBy
<1>3. d \notin Fresh
  BY FreshIs DEF RecordedBy
<1> QED BY <1>1, <1>2, <1>3

\* The container of an entry is recorded into by nobody.
LEMMA EntryContainer ==
    ASSUME TableInv, NEW q \in Keys, Cached(q)
    PROVE  /\ cache[q] \in Entry /\ cache[q].cached_query \in Data
           /\ \A o \in Conns : ~RecordedBy(o, cache[q].cached_query)
           /\ heapBar[cache[q].cached_query] = heap[cache[q].cached_query]
           /\ q \in ResultSets
           /\ heap[cache[q].cached_query] = FirstResult(q)
<1>1. cache[q] \in Entry /\ cache[q].cached_query \in Data
  BY NoneIs DEF TableInv, WireInv, TypesOK, Cached
<1>2. \A o \in Conns : ~RecordedBy(o, cache[q].cached_query)
  BY FromStd DEF RecordedBy
<1>3. heapBar[cache[q].cached_query] = heap[cache[q].cached_query]
  BY <1>1, <1>2, Apart, BarIs DEF BarHolds, BarAt
<1>4. q \in ResultSets
  BY DEF TableInv, WireInv
<1> QED BY <1>1, <1>2, <1>3, <1>4, FromStd DEF AnswerTo

\* What a connection replays is what it was lent.
LEMMA ReplayedData ==
    ASSUME TableInv, NEW c \in Conns, conn[c].hook = "replay", conn[c].recorded # None
    PROVE  heap[conn[c].recorded] = AnswerTo(conn[c].running)
<1>1. conn[c].recorded \in Data
  BY ProperIs
<1>2. \A o \in Conns : ~RecordedBy(o, conn[c].recorded)
  BY FromStd DEF RecordedBy
<1>3. heapBar[conn[c].recorded] = heap[conn[c].recorded]
  BY <1>1, <1>2, Apart, BarIs DEF BarHolds, BarAt
<1> QED BY <1>3, FromStd

-----------------------------------------------------------------------------
(***************************************************************************)
(* The steps of a client                                                   *)
(***************************************************************************)

\* Time stands still, and nobody else receives anything.
OnItsWire(c) ==
    /\ clock' = clock /\ conditional' = conditional
    /\ net' \in [Conns -> Seq(Part)] /\ \A o \in Conns \ {c} : net'[o] = net[o]

\* What the other connections notice of a step of c.
Elsewhere(c) ==
    /\ OnItsWire(c)
    /\ \A o \in Conns \ {c} : conn'[o] = conn[o]
    /\ \A o \in Conns \ {c}, d \in Data : RecordedBy(o, d) => heap'[d] = heap[d]

ContainersOnly(c) ==
    /\ heap' \in [Data -> Seq(Part) \cup {None}]
    /\ \A o \in Conns \ {c}, d \in Data : RecordedBy(o, d) => heap'[d] = heap[d]
    /\ \A k \in Keys : Cached(k)' => Cached(k) \/ k \in ResultSets

LEMMA TableStep ==
    ASSUME TableInv, Orderly, NEW c \in Conns, NEW r, Becomes(c, r), OnItsWire(c),
           ContainersOnly(c), [Std!NextProtocol]_(Std!vars)
    PROVE  TableInv' /\ Elsewhere(c)
<1>1. conn'[c] = r /\ \A o \in Conns \ {c} : conn'[o] = conn[o]
  BY RecordersAfter
<1>2. Std!IInv' /\ cache' \in [Keys -> Entry \cup {NoEntry}]
  BY StdStep
<1>3. conn' \in [Conns -> ConnectionData]
  BY DEF TableInv, WireInv, TypesOK, Becomes, Proper
<1>4. WireInv'
  BY <1>2, <1>3 DEF TableInv, WireInv, TypesOK, OnItsWire, ContainersOnly
<1>5. \A o \in Conns : Proper(conn'[o])
  BY <1>1 DEF TableInv, Becomes
<1>6. \A o \in Conns : Proper(conn[o])'
  BY <1>5 DEF Proper, ConnectionData, States, Hooks
<1>7. Elsewhere(c)
  BY <1>1 DEF Elsewhere, ContainersOnly
<1> QED BY <1>2, <1>4, <1>6, <1>7 DEF TableInv

\* Nothing happens in StdCache.
LEMMA BarUnchanged ==
    ASSUME UNCHANGED <<cache, clock>>, heapBar' = heapBar, pcBar' = pcBar, keyBar' = keyBar,
           heldBar' = heldBar
    PROVE  UNCHANGED Std!vars
BY DEF Std!vars

\* A step of a connection that has no container before or after it.
LEMMA IdleStep ==
    ASSUME TableInv, Orderly, NEW c \in Conns, NEW r, Becomes(c, r), OnItsWire(c),
           conn[c].recorded = None, r.recorded = None, UNCHANGED <<cache, heap>>
    PROVE  TableInv' /\ Elsewhere(c) /\ UNCHANGED Std!vars
<1>1. pcBar' = pcBar /\ keyBar' = keyBar /\ heldBar' = heldBar
  <2>1. pcBar[c] = "idle" /\ keyBar[c] = None /\ heldBar[c] = None
    BY DEF pcBar, keyBar, heldBar
  <2>2. /\ pcBar' = [pcBar EXCEPT ![c] = "idle"]
        /\ keyBar' = [keyBar EXCEPT ![c] = None]
        /\ heldBar' = [heldBar EXCEPT ![c] = None]
    BY RoleStep
  <2> QED BY <2>1, <2>2, BarTypes
<1>2. heapBar' = heapBar
  <2>1. \A d \in Data : ~RecordedBy(c, d) /\ ~RecordedBy(c, d)'
    BY RecordersAfter, NoneIs DEF RecordedBy
  <2>2. \A d \in Data : heapBar'[d] = heapBar[d]
    BY <2>1, BarStep
  <2> QED BY <2>2, BarTypes
<1>3. UNCHANGED Std!vars
  BY <1>1, <1>2, BarUnchanged DEF OnItsWire
<1>4. ContainersOnly(c)
  BY DEF ContainersOnly, TableInv, WireInv, TypesOK, Cached
<1> QED BY <1>3, <1>4, TableStep

\* A connection goes on recording or replaying.
Fills(c) ==
    /\ heap' \in [Data -> Seq(Part) \cup {None}]
    /\ \A d \in Data : \/ heap'[d] = heap[d]
                       \/ RecordedBy(c, d) /\ heap[d] # None /\ heap'[d] # None

LEMMA ReadingStep ==
    ASSUME TableInv, Orderly, NEW c \in Conns, NEW r, Becomes(c, r), OnItsWire(c),
           conn[c].recorded # None, r.hook = conn[c].hook, r.recorded = conn[c].recorded,
           r.running = conn[c].running, UNCHANGED cache, Fills(c)
    PROVE  TableInv' /\ Elsewhere(c) /\ UNCHANGED Std!vars
<1>1. \A d : RecordedBy(c, d)' <=> RecordedBy(c, d)
  BY RecordersAfter DEF RecordedBy
<1>2. \A d \in Data : heapBar'[d] = heapBar[d]
  <2> SUFFICES ASSUME NEW d \in Data PROVE heapBar'[d] = heapBar[d]
    OBVIOUS
  <2>1. CASE ~RecordedBy(c, d)
    BY <1>1, <2>1, BarStep DEF Fills
  <2>2. CASE RecordedBy(c, d) /\ heap[d] # None /\ heap'[d] # None
    BY <1>1, <2>2, BarStep
  <2>3. CASE RecordedBy(c, d) /\ heap[d] = None /\ heap'[d] = None
    BY <2>3, BarStep
  <2> QED BY <2>1, <2>2, <2>3 DEF Fills
<1>3. pcBar' = pcBar /\ keyBar' = keyBar /\ heldBar' = heldBar
  <2> PICK p : p = IF r.hook = "record" THEN "recording" ELSE "replaying"
    OBVIOUS
  <2>1. pcBar[c] = p /\ keyBar[c] = r.running /\ heldBar[c] = r.recorded
    BY DEF pcBar, keyBar, heldBar
  <2>2. /\ pcBar' = [pcBar EXCEPT ![c] = p]
        /\ keyBar' = [keyBar EXCEPT ![c] = r.running]
        /\ heldBar' = [heldBar EXCEPT ![c] = r.recorded]
    BY RoleStep
  <2> QED BY <2>1, <2>2, BarTypes
<1>4. UNCHANGED Std!vars
  BY <1>2, <1>3, BarTypes, BarUnchanged DEF OnItsWire
<1>5. ContainersOnly(c)
  <2>1. \A o \in Conns \ {c}, d \in Data : RecordedBy(o, d) => heap'[d] = heap[d]
    BY Apart DEF RecordedApart, Fills
  <2> QED BY <2>1 DEF ContainersOnly, Fills, Cached
<1> QED BY <1>4, <1>5, TableStep

\* The statement is not found: c records into d.
RecordsInto(q, d, x) ==
    /\ FindMiss(q, clock)
    /\ heap' = [Released(FreedByLookup(q, clock)) EXCEPT ![d] = x]

LEMMA MissStep ==
    ASSUME TableInv, Orderly, NEW c \in Conns, NEW r, Becomes(c, r), OnItsWire(c),
           conn[c].recorded = None, NEW q \in Keys, NEW d \in Fresh, NEW x \in Seq(Part),
           r.hook = "record", r.recorded = d, r.running = q, RecordsInto(q, d, x)
    PROVE  TableInv' /\ Elsewhere(c) /\ Std!LookupMiss(c, q) /\ heap'[d] = x
<1>1. d \in Data /\ d # None
  BY FreshIs, NoneIs
<1>2. /\ heap' \in [Data -> Seq(Part) \cup {None}] /\ heap'[d] = x
      /\ \A y \in Data \ {d} :
             heap'[y] = IF y \in FreedByLookup(q, clock) THEN None ELSE heap[y]
  BY <1>1 DEF Released, RecordsInto, TableInv, WireInv, TypesOK
<1>3. heapBar' = [Std!Released(FreedByLookup(q, clock)) EXCEPT ![d] = AnswerTo(q)]
  <2>1. \A y : RecordedBy(c, y)' <=> y = d
    BY RecordersAfter
  <2>2. heapBar'[d] = AnswerTo(q)
    <3>1. heap'[d] # None
      BY <1>2, NoneIs
    <3>2. RecordedBy(c, d)'
      BY <2>1
    <3> QED BY <1>1, <3>1, <3>2, BarStep
  <2>3. ASSUME NEW y \in Data, y # d
        PROVE  heapBar'[y] = IF y \in FreedByLookup(q, clock) THEN None ELSE heapBar[y]
    <3>1. ~RecordedBy(c, y)
      BY NoneIs DEF RecordedBy
    <3> QED BY <1>2, <2>1, <2>3, <3>1, BarStep
  <2> QED BY <2>2, <2>3, BarTypes, SameFreed
<1>4. Std!LookupMiss(c, q)
  <2>1. Std!Become(c, "recording", q, d)
    BY <1>1, RoleStep DEF Std!Become
  <2>2. d \in Std!Fresh /\ pcBar[c] = "idle"
    BY StdClient
  <2>3. Std!FindMiss(q, Std!Now(c)) /\ Std!FreedByLookup(q, Std!Now(c)) = FreedByLookup(q, clock)
    BY SameTable, SameFreed, StdClient DEF RecordsInto
  <2> QED BY <1>3, <2>1, <2>2, <2>3 DEF Std!LookupMiss, OnItsWire
<1>5. \A k \in Keys : Cached(k)' => Cached(k)
  BY DEF RecordsInto, FindMiss, FindNothing, FindAskedToRefresh, AsksForRefresh, AfterLookup,
         Without, Cached, TableInv, WireInv, TypesOK
<1>6. ContainersOnly(c)
  BY <1>2, <1>5, OthersKept DEF ContainersOnly
<1> QED BY <1>2, <1>4, <1>6, TableStep DEF Std!NextProtocol, Std!ProtocolStep

\* The statement is found: c is lent d.
Serves(q, d) == (DataCopy => d \in Fresh) /\ FindHit(q, clock, d)

LEMMA HitStep ==
    ASSUME TableInv, Orderly, NEW c \in Conns, NEW r, Becomes(c, r), OnItsWire(c),
           conn[c].recorded = None, NEW q \in Keys, NEW d \in Data,
           r.hook = "replay", r.recorded = d, r.running = q, Serves(q, d)
    PROVE  TableInv' /\ Elsewhere(c) /\ Std!LookupHit(c, q)
<1>1. d # None /\ FindHit(q, clock, d) /\ (DataCopy => d \in Fresh)
  BY NoneIs DEF Serves
<1>2. Cached(q)
  BY <1>1 DEF FindHit, FindShared, FindCopied, Servable
<1>3. heap \in [Data -> Seq(Part) \cup {None}]
  BY DEF TableInv, WireInv, TypesOK
<1>4. \A x \in Data : ~RecordedBy(c, x) /\ ~RecordedBy(c, x)'
  BY RecordersAfter, NoneIs DEF RecordedBy
<1>5. /\ Std!FindHit(q, clock, d) /\ heap' \in [Data -> Seq(Part) \cup {None}]
      /\ \A x \in Data : heap'[x] = heap[x] \/ x \in Fresh
  <2>1. CASE FindShared(q, clock, d)
    <3>1. heap' = heap
      BY <2>1 DEF FindShared
    <3>2. \A x \in Data : heapBar'[x] = heapBar[x]
      BY <1>4, <3>1, BarStep
    <3>3. heapBar' = heapBar
      BY <3>2, BarTypes
    <3> QED BY <1>3, <2>1, <3>1, <3>3, SameTable DEF FindShared, Std!FindHit, Std!FindShared
  <2>2. CASE FindCopied(q, clock, d)
    <3>1. /\ d \in Fresh /\ cache' = cache
          /\ heap' = [heap EXCEPT ![d] = FirstResult(q)]
      BY <1>1, <1>2, <2>2, EntryContainer DEF FindCopied
    <3>2. heap' \in [Data -> Seq(Part) \cup {None}] /\ heap'[d] = FirstResult(q)
          /\ \A x \in Data \ {d} : heap'[x] = heap[x]
      BY <1>2, <1>3, <3>1, EntryContainer, FirstResultIs
    <3>3. \A x \in Data \ {d} : heapBar'[x] = heapBar[x]
      BY <1>4, <3>2, BarStep
    <3>4. \A o \in Conns : ~RecordedBy(o, d)
      BY <3>1, FreshIs DEF RecordedBy
    <3>5. heapBar'[d] = heapBar[cache[q].cached_query]
      BY <1>2, <1>4, <3>2, <3>4, BarStep, EntryContainer
    <3>6. heapBar' = [heapBar EXCEPT ![d] = heapBar[cache[q].cached_query]]
      BY <3>3, <3>5, BarTypes
    <3> QED BY <2>2, <3>1, <3>2, <3>6, SameTable DEF FindCopied, Std!FindHit, Std!FindCopied
  <2> QED BY <1>1, <2>1, <2>2 DEF FindHit
<1>6. Std!LookupHit(c, q)
  <2>1. Std!Become(c, "replaying", q, d)
    BY <1>1, RoleStep DEF Std!Become
  <2>2. pcBar[c] = "idle" /\ Std!Now(c) = clock /\ (DataCopy => d \in Std!Fresh)
    BY <1>1, StdClient
  <2> QED BY <1>5, <2>1, <2>2 DEF Std!LookupHit, OnItsWire
<1>7. \A k \in Keys : Cached(k)' => Cached(k)
  BY <1>1, <1>2 DEF FindHit, FindShared, FindCopied, Lent, Cached, TableInv, WireInv, TypesOK
<1>8. ContainersOnly(c)
  BY <1>5, <1>7, OthersKept DEF ContainersOnly
<1> QED BY <1>6, <1>8, TableStep DEF Std!NextProtocol, Std!ProtocolStep

\* A recording that comes to nothing: the container is freed.
Discards(c) == FreeRecorded(c) /\ cache' = cache

LEMMA FreeStep ==
    ASSUME TableInv, Orderly, NEW c \in Conns, NEW r, Becomes(c, r), OnItsWire(c),
           conn[c].hook = "record", r.recorded = None, Discards(c)
    PROVE  TableInv' /\ Elsewhere(c) /\ Std!Abandon(c)
<1>1. /\ conn[c].recorded \in Data /\ heldBar[c] = conn[c].recorded
      /\ pcBar[c] = "recording"
  BY ProperIs, StdClient
<1>2. heap \in [Data -> Seq(Part) \cup {None}]
  BY DEF TableInv, WireInv, TypesOK
<1>3. /\ heap' \in [Data -> Seq(Part) \cup {None}]
      /\ \A d \in Data : heap'[d] = IF d = conn[c].recorded THEN None ELSE heap[d]
  BY <1>2 DEF Discards, FreeRecorded, Released
<1>4. heapBar' = Std!Released({heldBar[c]})
  <2>1. \A d \in Data : ~RecordedBy(c, d)' /\ (d # conn[c].recorded => ~RecordedBy(c, d))
    BY RecordersAfter, NoneIs DEF RecordedBy
  <2>2. \A d \in Data : heapBar'[d] = IF d = conn[c].recorded THEN None ELSE heapBar[d]
    BY <1>3, <2>1, BarStep
  <2> QED BY <1>1, <2>2, BarTypes, SameFreed
<1>5. Std!Become(c, "idle", None, None)
  BY RoleStep DEF Std!Become
<1>6. Std!Abandon(c)
  BY <1>1, <1>4, <1>5 DEF Std!Abandon, Discards, OnItsWire
<1>7. ContainersOnly(c)
  <2>1. \A o \in Conns \ {c}, d \in Data : RecordedBy(o, d) => heap'[d] = heap[d]
    BY <1>3, OthersKept
  <2> QED BY <1>3, <2>1 DEF ContainersOnly, Discards, Cached
<1> QED BY <1>6, <1>7, TableStep DEF Std!NextProtocol, Std!ProtocolStep

\* The rows complete the recording of q.
Completes(c, q) ==
    /\ HeapAfterReceive(c) \in [Data -> Seq(Part) \cup {None}]
    /\ HeapAfterReceive(c)[conn[c].recorded] = FirstResult(q)
    /\ heap[conn[c].recorded] # None
    /\ \A d \in Data : d # conn[c].recorded => HeapAfterReceive(c)[d] = heap[d]

\* The cache takes it.
TakesOver(c, q) ==
    /\ AddQuery(q, conn[c].recorded, Ttl, clock)
    /\ heap' = [d \in Data |-> IF d \in FreedByAdd(q) THEN None ELSE HeapAfterReceive(c)[d]]

LEMMA AddStep ==
    ASSUME TableInv, Orderly, NEW c \in Conns, NEW r, Becomes(c, r), OnItsWire(c),
           conn[c].hook = "record", r.recorded = None,
           NEW k \in ResultSets, k = conn[c].running, Completes(c, k), TakesOver(c, k)
    PROVE  TableInv' /\ Elsewhere(c) /\ Std!FinishRecord(c, Ttl)
<1> DEFINE d == conn[c].recorded
<1>1. /\ d \in Data /\ d # None /\ heldBar[c] = d /\ pcBar[c] = "recording" /\ keyBar[c] = k
  BY ProperIs, StdClient
<1>2. k \in Keys /\ FirstResult(k) \in Seq(Part) /\ AnswerTo(k) = FirstResult(k)
  BY FirstResultIs DEF AnswerTo
<1>3. d \notin FreedByAdd(k)
  <2>1. \A j \in Keys : Cached(j) => cache[j].cached_query # d
    BY FromStd
  <2> QED BY <1>2, <2>1 DEF FreedByAdd, DestroyedBy
<1>4. \A x \in Data : ~RecordedBy(c, x)' /\ (RecordedBy(c, x) <=> x = d)
  BY RecordersAfter, NoneIs DEF RecordedBy
<1>5. AddQuery(k, d, Ttl, clock)
  BY DEF TakesOver
<1>6. /\ heap' \in [Data -> Seq(Part) \cup {None}] /\ heap'[d] = FirstResult(k) /\ heap[d] # None
      /\ \A x \in Data \ {d} : heap'[x] = IF x \in FreedByAdd(k) THEN None ELSE heap[x]
  BY <1>1, <1>3 DEF TakesOver, Completes
<1> HIDE DEF d
<1>7. heapBar' = Std!Released(Std!FreedByAdd(k))
  <2>1. heapBar'[d] = heapBar[d]
    <3>1. heapBar[d] = AnswerTo(k)
      BY <1>1, <1>4, <1>6, BarStep
    <3>2. \A o \in Conns \ {c} : ~RecordedBy(o, d)
      BY <1>1, <1>4, Apart DEF RecordedApart
    <3>3. heapBar'[d] = heap'[d]
      BY <1>1, <1>4, <3>2, BarStep
    <3> QED BY <1>2, <1>6, <3>1, <3>3
  <2>2. ASSUME NEW x \in Data, x # d
        PROVE  heapBar'[x] = IF x \in FreedByAdd(k) THEN None ELSE heapBar[x]
    BY <1>4, <1>6, <2>2, BarStep
  <2>3. heapBar' = [x \in Data |-> IF x \in FreedByAdd(k) THEN None ELSE heapBar[x]]
    BY <1>3, <2>1, <2>2, BarTypes
  <2> QED BY <2>3, SameFreed
<1>8. Std!FinishRecord(c, Ttl)
  <2>1. Std!Become(c, "idle", None, None)
    BY RoleStep DEF Std!Become
  <2>2. Std!AddQuery(k, d, Ttl, Std!Now(c))
    BY <1>5, SameTable, StdClient
  <2> QED BY <1>1, <1>7, <2>1, <2>2 DEF Std!FinishRecord, OnItsWire
<1>9. \A j \in Keys : Cached(j)' => Cached(j) \/ j \in ResultSets
  BY <1>5 DEF AddQuery, Cached, TableInv, WireInv, TypesOK
<1>10. ContainersOnly(c)
  <2>1. \A o \in Conns \ {c}, x \in Data : RecordedBy(o, x) => heap'[x] = heap[x]
    BY <1>2, <1>6, OthersKept DEF d
  <2> QED BY <1>6, <1>9, <2>1 DEF ContainersOnly
<1> QED BY <1>8, <1>10, TableStep DEF Std!NextProtocol, Std!ProtocolStep

\* The container lent for q goes back.
Returns(c, q) == ReturnToCache(q, conn[c].recorded, clock)

LEMMA ReturnStep ==
    ASSUME TableInv, Orderly, NEW c \in Conns, NEW r, Becomes(c, r), OnItsWire(c),
           conn[c].hook = "replay", conn[c].recorded # None, r.recorded = None,
           NEW k \in Keys, k = conn[c].running, Returns(c, k)
    PROVE  TableInv' /\ Elsewhere(c) /\ Std!FinishReplay(c)
<1> DEFINE d == conn[c].recorded
<1>1. d \in Data /\ heldBar[c] = d /\ keyBar[c] = k /\ pcBar[c] = "replaying"
  BY ProperIs, StdClient
<1>2. \A o \in Conns \ {c} : \A x \in Data : RecordedBy(o, x) => x # d
  BY OthersKept
<1>3. \A x \in Data : ~RecordedBy(c, x) /\ ~RecordedBy(c, x)'
  BY RecordersAfter, NoneIs DEF RecordedBy
<1>4. ReturnToCache(k, d, clock)
  BY DEF Returns
<1> HIDE DEF d
<1>5. heap \in [Data -> Seq(Part) \cup {None}]
  BY DEF TableInv, WireInv, TypesOK
<1>6. ASSUME NEW ds, heap' = Released(ds)
      PROVE  heapBar' = Std!Released(ds) /\ heap' \in [Data -> Seq(Part) \cup {None}]
  <2>1. /\ heap' \in [Data -> Seq(Part) \cup {None}]
        /\ \A x \in Data : heap'[x] = IF x \in ds THEN None ELSE heap[x]
    BY <1>5, <1>6 DEF Released
  <2>2. \A x \in Data : heapBar'[x] = IF x \in ds THEN None ELSE heapBar[x]
    BY <1>3, <2>1, BarStep
  <2> QED BY <2>1, <2>2, BarTypes, SameFreed
<1>7. ASSUME heap' = heap
      PROVE  heapBar' = heapBar /\ heap' \in [Data -> Seq(Part) \cup {None}]
  <2>1. \A x \in Data : heapBar'[x] = heapBar[x]
    BY <1>3, <1>7, BarStep
  <2> QED BY <1>5, <1>7, <2>1, BarTypes
<1>8. /\ Std!ReturnToCache(k, d, clock) /\ heap' \in [Data -> Seq(Part) \cup {None}]
      /\ \A o \in Conns \ {c}, x \in Data : RecordedBy(o, x) => heap'[x] = heap[x]
      /\ \A j \in Keys : Cached(j)' => Cached(j)
  <2>1. CASE ReturnCopied(d)
    <3>1. heap' = Released({d}) /\ cache' = cache /\ DataCopy
      BY <2>1 DEF ReturnCopied
    <3>2. \A o \in Conns \ {c}, x \in Data : RecordedBy(o, x) => heap'[x] = heap[x]
      BY <1>2, <3>1 DEF Released
    <3> QED BY <1>6, <3>1, <3>2 DEF Std!ReturnToCache, Std!ReturnCopied, Cached
  <2>2. CASE ReturnShared(k, clock) /\ ~Cached(k)
    <3>1. cache' = cache /\ heap' = heap /\ ~DataCopy
      BY <2>2 DEF ReturnShared
    <3> QED BY <1>7, <2>2, <3>1, SameTable DEF Std!ReturnToCache, Std!ReturnShared, Cached
  <2>3. CASE ReturnShared(k, clock) /\ Cached(k) /\ LastReturn(k, clock)
    <3>1. cache' = Without(k) /\ heap' = Released({cache[k].cached_query}) /\ ~DataCopy
      BY <2>3 DEF ReturnShared
    <3>2. \A o \in Conns \ {c}, x \in Data : RecordedBy(o, x) => heap'[x] = heap[x]
      BY <2>3, <3>1, OthersKept DEF Released
    <3>3. \A j \in Keys : Cached(j)' => Cached(j)
      BY <3>1 DEF Without, Cached, TableInv, WireInv, TypesOK
    <3> QED BY <1>6, <2>3, <3>1, <3>2, <3>3, SameTable DEF Std!ReturnToCache, Std!ReturnShared
  <2>4. CASE ReturnShared(k, clock) /\ Cached(k) /\ ~LastReturn(k, clock)
    <3>1. /\ cache' = [cache EXCEPT ![k].references = Dec(@)]
          /\ heap' = heap /\ ~DataCopy
      BY <2>4 DEF ReturnShared
    <3>2. \A j \in Keys : Cached(j)' => Cached(j)
      BY <2>4, <3>1 DEF Cached, TableInv, WireInv, TypesOK
    <3>3. cache' = [cache EXCEPT ![k].references = Std!Dec(@)]
      BY <3>1 DEF Dec, Std!Dec
    <3> QED BY <1>7, <2>4, <3>1, <3>2, <3>3, SameTable DEF Std!ReturnToCache, Std!ReturnShared
  <2> QED BY <1>4, <2>1, <2>2, <2>3, <2>4 DEF ReturnToCache
<1>9. Std!FinishReplay(c)
  <2>1. Std!Become(c, "idle", None, None)
    BY RoleStep DEF Std!Become
  <2>2. Std!Now(c) = clock
    BY StdClient
  <2> QED BY <1>1, <1>8, <2>1, <2>2 DEF Std!FinishReplay, OnItsWire
<1>10. ContainersOnly(c)
  BY <1>8 DEF ContainersOnly
<1> QED BY <1>9, <1>10, TableStep DEF Std!NextProtocol, Std!ProtocolStep

LEMMA TidyAfter ==
    ASSUME TableInv, NEW c \in Conns, NEW r, Becomes(c, r),
           OrderlyConn(r, net'[c]), Holds(r, heap'[r.recorded])
    PROVE  Tidy(c)'
<1>1. conn'[c] = r
  BY RecordersAfter
<1>2. OrderlyConn(conn'[c], net'[c]) /\ Holds(conn'[c], heap'[conn'[c].recorded])
  BY <1>1
<1> QED BY <1>2 DEF Tidy

\* The others are as tidy as they were.
LEMMA TidyElsewhere ==
    ASSUME TableInv, NEW c \in Conns, Elsewhere(c), NEW o \in Conns \ {c}, Tidy(o)
    PROVE  Tidy(o)'
<1>1. conn'[o] = conn[o] /\ net'[o] = net[o]
  BY DEF Elsewhere, OnItsWire
<1>2. Holds(conn[o], heap'[conn[o].recorded])
  <2>1. CASE conn[o].hook = "record"
    <3>1. conn[o].recorded \in Data /\ RecordedBy(o, conn[o].recorded)
      BY <2>1, ConnIs DEF RecordedBy
    <3>2. heap'[conn[o].recorded] = heap[conn[o].recorded]
      BY <3>1 DEF Elsewhere
    <3> QED BY <3>2 DEF Tidy
  <2>2. CASE conn[o].hook # "record"
    BY <2>2 DEF Holds
  <2> QED BY <2>1, <2>2
<1>3. OrderlyConn(conn'[o], net'[o]) /\ Holds(conn'[o], heap'[conn'[o].recorded])
  BY <1>1, <1>2 DEF Tidy
<1> QED BY <1>3 DEF Tidy

\* A step of a connection that has the original functions in the end.
LEMMA PlainStep ==
    ASSUME TableInv, Orderly, NEW c \in Conns, NEW r, conn' = [conn EXCEPT ![c] = r],
           conn[c].recorded = None, r.hook = "original", OrderlyConn(r, net'[c]),
           OnItsWire(c), UNCHANGED <<cache, heap>>
    PROVE  TableInv' /\ Elsewhere(c) /\ Tidy(c)' /\ UNCHANGED Std!vars
<1>1. Becomes(c, r) /\ r.recorded = None
  BY OrderlyIsProper DEF Becomes, OrderlyConn
<1>2. TableInv' /\ Elsewhere(c) /\ UNCHANGED Std!vars
  BY <1>1, IdleStep
<1>3. Tidy(c)'
  BY <1>1, TidyAfter DEF Holds
<1> QED BY <1>2, <1>3

\* A connection that has read the first result of q to its end.
LEMMA AfterFirstIs ==
    ASSUME NEW q \in ResultSets, NEW r \in ConnectionData, NEW w,
           r.hook = "original", r.recorded = None, r.should = r.active, r.running = q,
           r.active <=> q \in Cacheable,
           r.state = IF 2 < Parts(q) THEN "more" ELSE "ready",
           w = From(q, 3) \/ (w = <<>> /\ r.active)
    PROVE  OrderlyConn(r, w)
<1>1. q \in Keys /\ Parts(q) \in {2, 4} /\ (Parts(q) = 4 <=> q \in Multi)
  BY FirstResultIs, PartsAre, PartsOfMulti
<1>2. CASE Parts(q) = 2
  <2>1. From(q, 3) = <<>>
    BY <1>1, <1>2, Ends
  <2>2. r.state = "ready" /\ w = <<>>
    BY <1>2, <2>1
  <2>3. Plain(r, w)
    BY <2>2 DEF Plain
  <2> QED BY <2>2, <2>3, EmptySeq DEF OrderlyConn
<1>3. CASE Parts(q) = 4
  <2>1. From(q, 3) \in Seq(Part)
    BY <1>1, <1>3, Received
  <2>2. r.state = "more" /\ q \in Multi
    BY <1>1, <1>3
  <2>3. Plain(r, w)
    BY <1>1, <2>2 DEF Plain
  <2>4. w \in Seq(Part)
    BY <2>1, EmptySeq
  <2> QED BY <2>3, <2>4 DEF OrderlyConn
<1> QED BY <1>1, <1>2, <1>3

\* What the server answers next.
LEMMA NextFromServer ==
    ASSUME WireInv, NEW c \in Conns, conn[c].hook # "replay",
           NEW q \in Keys, NEW i \in 1..Parts(q), net[c] = From(q, i)
    PROVE  /\ MayReceive(c) /\ NextPart(c) = <<q, i>>
           /\ Receive(c) => /\ net' \in [Conns -> Seq(Part)]
                            /\ \A o \in Conns \ {c} : net'[o] = net[o]
                            /\ net'[c] = From(q, i + 1) /\ net'[c] \in Seq(Part)
<1>1. /\ From(q, i) \in Seq(Part) /\ From(q, i) # <<>>
      /\ Head(From(q, i)) = <<q, i>> /\ Tail(From(q, i)) = From(q, i + 1)
  BY Received
<1>2. Tail(From(q, i)) \in Seq(Part)
  BY <1>1, HeadTailProperties
<1>3. net \in [Conns -> Seq(Part)]
  BY DEF WireInv, TypesOK
<1> QED BY <1>1, <1>2, <1>3 DEF MayReceive, NextPart, Receive

\* What is replayed next.
LEMMA NextFromCache ==
    ASSUME TableInv, NEW c \in Conns, Tidy(c), conn[c].hook = "replay"
    PROVE  /\ net[c] = <<>> /\ conn[c].key \in ResultSets
           /\ heap[conn[c].recorded] = FirstResult(conn[c].key)
           /\ MayReceive(c)
           /\ NextPart(c) = <<conn[c].key, IF conn[c].state = "sent" THEN 1 ELSE 2>>
<1>1. /\ net[c] = <<>> /\ conn[c].key \in ResultSets /\ conn[c].recorded # None
      /\ conn[c].pos = IF conn[c].state = "sent" THEN 0 ELSE 1
      /\ conn[c].key = conn[c].running
  BY ConnIs DEF Hooked
<1>2. heap[conn[c].recorded] = FirstResult(conn[c].key)
  BY <1>1, ReplayedData DEF AnswerTo
<1>3. /\ FirstResult(conn[c].key) \in Seq(Part) /\ Len(FirstResult(conn[c].key)) = 2
      /\ FirstResult(conn[c].key)[1] = <<conn[c].key, 1>>
      /\ FirstResult(conn[c].key)[2] = <<conn[c].key, 2>>
  BY <1>1, FirstResultIs
<1> QED BY <1>1, <1>2, <1>3, NoneIs DEF MayReceive, NextPart

-----------------------------------------------------------------------------
(***************************************************************************)
(* Sending a statement                                                     *)
(***************************************************************************)

\* A connection that expects nothing and points to no container.
Idle(c) == /\ conn[c].state = "ready" /\ conn[c].hook # "record" /\ conn[c].recorded = None
           /\ net[c] = <<>>

LEMMA SentFields ==
    ASSUME WireInv, NEW c \in Conns, NEW q \in Keys
    PROVE  LET r == Sent(Classify(c, q), q)
           IN  /\ r \in ConnectionData
               /\ r.state = "sent" /\ r.running = q
               /\ r.hook = conn[c].hook /\ r.recorded = conn[c].recorded
               /\ r.should = r.active /\ (r.active <=> q \in Cacheable)
<1> DEFINE s == q \in Cacheable
           a == Eligible(q)
<1>1. conn[c] \in ConnectionData
  BY DEF WireInv, TypesOK
<1>2. s \in BOOLEAN /\ a \in BOOLEAN /\ a = s
  BY DEF Eligible, WireInv
<1>3. Sent(Classify(c, q), q)
          = [conn[c] EXCEPT !.should = s, !.active = a, !.state = "sent", !.running = q]
  BY <1>1 DEF Sent, Classify, ConnectionData
<1>4. s <=> q \in Cacheable
  OBVIOUS
<1> HIDE DEF s, a
<1> QED BY <1>1, <1>2, <1>3, <1>4 DEF ConnectionData, States

\* A connection that may send is idle and has the original functions.
LEMMA MaySendIs ==
    ASSUME Orderly, NEW c \in Conns, Tidy(c), MaySend(c)
    PROVE  Idle(c) /\ conn[c].hook = "original"
<1>1. conn[c].state # "gone"
  BY ConnIs DEF Plain, Hooked
<1>2. conn[c].state = "ready"
  BY <1>1 DEF MaySend, InSync, Orderly
<1> QED BY <1>2, ConnIs DEF Plain, Hooked, Idle

LEMMA TransmitIs ==
    ASSUME WireInv, NEW c \in Conns, NEW q \in Keys, NEW hook, net[c] = <<>>,
           Transmit(c, q, hook)
    PROVE  /\ net' \in [Conns -> Seq(Part)]
           /\ \A o \in Conns \ {c} : net'[o] = net[o]
           /\ net'[c] = IF hook = "replay" THEN <<>> ELSE From(q, 1)
           /\ From(q, 1) \in Seq(Part)
<1>1. net \in [Conns -> Seq(Part)]
  BY DEF WireInv, TypesOK
<1>2. Answer(q) \in Seq(Part) /\ From(q, 1) = Answer(q)
  BY AnswerIs, Ends
<1>3. net[c] \o Answer(q) = Answer(q)
  BY <1>2, ConcatEmptySeq
<1> QED BY <1>1, <1>2, <1>3 DEF Transmit

LEMMA SendPlainMaps ==
    ASSUME TableInv, Orderly, NEW c \in Conns, Idle(c), conn[c].hook = "original",
           NEW q \in Keys, SendPlain(c, q)
    PROVE  TableInv' /\ Elsewhere(c) /\ Tidy(c)' /\ UNCHANGED Std!vars
<1> DEFINE r == Sent(Classify(c, q), q)
<1>1. /\ r \in ConnectionData /\ r.state = "sent" /\ r.running = q
      /\ r.hook = "original" /\ r.recorded = None
      /\ r.should = r.active /\ (r.active <=> q \in Cacheable)
  BY SentFields DEF TableInv, Idle
<1>2. /\ conn' = [conn EXCEPT ![c] = r] /\ UNCHANGED <<cache, heap, clock, conditional>>
      /\ Transmit(c, q, conn[c].hook) /\ q \notin Cacheable
  BY DEF SendPlain, Update, InSync, environment, Eligible, Idle
<1> HIDE DEF r
<1>3. /\ OnItsWire(c) /\ net'[c] = From(q, 1) /\ net'[c] \in Seq(Part)
  BY <1>2, TransmitIs DEF TableInv, Idle, OnItsWire
<1>4. OrderlyConn(r, net'[c])
  BY <1>1, <1>2, <1>3 DEF OrderlyConn, Plain
<1> QED BY <1>1, <1>2, <1>3, <1>4, PlainStep DEF Idle

LEMMA SendMissMaps ==
    ASSUME TableInv, Orderly, NEW c \in Conns, Idle(c), NEW q \in Keys, SendMiss(c, q)
    PROVE  TableInv' /\ Elsewhere(c) /\ Tidy(c)' /\ Std!LookupMiss(c, q)
<1>1. PICK d \in Fresh :
        /\ heap' = [Released(FreedByLookup(q, clock)) EXCEPT ![d] = <<>>]
        /\ Update(c, [Sent(Classify(c, q), q) EXCEPT
                          !.hook = "record", !.recorded = d, !.key = q])
  BY DEF SendMiss, Recorder, Idle
<1> DEFINE s == Sent(Classify(c, q), q)
           r == [s EXCEPT !.hook = "record", !.recorded = d, !.key = q]
<1>2. /\ s \in ConnectionData /\ s.state = "sent" /\ s.running = q
      /\ s.should = s.active /\ (s.active <=> q \in Cacheable)
  BY SentFields DEF TableInv
<1>3. conn' = [conn EXCEPT ![c] = r]
  BY <1>1 DEF Update
<1> HIDE DEF s
<1>4. d \in Data /\ d # None
  BY FreshIs, NoneIs
<1>5. /\ r \in ConnectionData /\ r.state = "sent" /\ r.running = q /\ r.key = q
      /\ r.hook = "record" /\ r.recorded = d
      /\ r.should = r.active /\ (r.active <=> q \in Cacheable)
  BY <1>2, <1>4 DEF ConnectionData, Hooks
<1> HIDE DEF r
<1>6. /\ FindMiss(q, clock) /\ clock' = clock /\ conditional' = conditional
      /\ Transmit(c, q, "record") /\ q \in Cacheable
  BY DEF SendMiss, environment, Eligible, TableInv, WireInv
<1>7. /\ OnItsWire(c) /\ net'[c] = From(q, 1) /\ net'[c] \in Seq(Part)
  BY <1>6, TransmitIs DEF TableInv, Idle, OnItsWire
<1>8. OrderlyConn(r, net'[c])
  BY <1>4, <1>5, <1>6, <1>7 DEF OrderlyConn, Hooked
<1>9. Becomes(c, r)
  BY <1>3, <1>5, <1>8, OrderlyIsProper DEF Becomes, Recordable
<1>10. PICK x \in Seq(Part) : x = <<>>
  BY EmptySeq
<1>11. RecordsInto(q, d, x) /\ conn[c].recorded = None
  BY <1>1, <1>6, <1>10 DEF RecordsInto, Idle
<1>12. TableInv' /\ Elsewhere(c) /\ Std!LookupMiss(c, q) /\ heap'[d] = x
  BY <1>5, <1>7, <1>9, <1>11, MissStep
<1>13. Holds(r, heap'[r.recorded])
  BY <1>5, <1>10, <1>12, Ends DEF Holds
<1> QED BY <1>8, <1>9, <1>12, <1>13, TidyAfter

LEMMA SendHitMaps ==
    ASSUME TableInv, Orderly, NEW c \in Conns, Idle(c), NEW q \in Keys, SendHit(c, q)
    PROVE  TableInv' /\ Elsewhere(c) /\ Tidy(c)' /\ Std!LookupHit(c, q)
<1>1. PICK d \in Data :
        /\ Serves(q, d)
        /\ Update(c, [Sent(Classify(c, q), q) EXCEPT
                          !.hook = "replay", !.recorded = d, !.pos = 0, !.key = q])
  BY DEF SendHit, Serves
<1> DEFINE s == Sent(Classify(c, q), q)
           r == [s EXCEPT !.hook = "replay", !.recorded = d, !.pos = 0, !.key = q]
<1>2. /\ s \in ConnectionData /\ s.state = "sent" /\ s.running = q
      /\ s.should = s.active /\ (s.active <=> q \in Cacheable)
  BY SentFields DEF TableInv
<1>3. conn' = [conn EXCEPT ![c] = r]
  BY <1>1 DEF Update
<1> HIDE DEF s
<1>4. d # None
  BY NoneIs
<1>5. /\ r \in ConnectionData /\ r.state = "sent" /\ r.running = q /\ r.key = q
      /\ r.hook = "replay" /\ r.recorded = d /\ r.pos = 0
      /\ r.should = r.active /\ (r.active <=> q \in Cacheable)
  BY <1>2, <1>4 DEF ConnectionData, Hooks
<1> HIDE DEF r
<1>6. /\ clock' = clock /\ conditional' = conditional
      /\ Transmit(c, q, "replay") /\ q \in Cacheable
  BY DEF SendHit, environment, Eligible, TableInv, WireInv
<1>7. Cached(q)
  BY <1>1 DEF Serves, FindHit, FindShared, FindCopied, Servable
<1>8. /\ OnItsWire(c) /\ net'[c] = <<>> /\ net'[c] \in Seq(Part)
  BY <1>6, TransmitIs, EmptySeq DEF TableInv, Idle, OnItsWire
<1>9. q \in ResultSets
  BY <1>7, EntryContainer
<1>10. OrderlyConn(r, net'[c])
  BY <1>4, <1>5, <1>6, <1>8, <1>9 DEF OrderlyConn, Hooked
<1>11. Becomes(c, r)
  BY <1>3, <1>5, <1>10, OrderlyIsProper DEF Becomes
<1>12. conn[c].recorded = None
  BY DEF Idle
<1>13. TableInv' /\ Elsewhere(c) /\ Std!LookupHit(c, q)
  BY <1>1, <1>5, <1>8, <1>11, <1>12, HitStep
<1>14. Holds(r, heap'[r.recorded])
  BY <1>5 DEF Holds
<1> QED BY <1>10, <1>11, <1>13, <1>14, TidyAfter

-----------------------------------------------------------------------------
(***************************************************************************)
(* reap_query                                                              *)
(***************************************************************************)

\* A connection that waits for the header.
LEMMA SentIsOrderly ==
    ASSUME NEW c \in Conns, Tidy(c), conn[c].state = "sent", conn[c].hook # "replay",
           NEW q, q = conn[c].running
    PROVE  /\ q \in Keys /\ 1 \in 1..Parts(q) /\ net[c] = From(q, 1)
           /\ conn[c].hook = "original" => conn[c].active = FALSE /\ q \notin Cacheable
           /\ conn[c].hook = "record" => conn[c].key = q /\ q \in Cacheable
                                           /\ conn[c].active = TRUE
<1>1. /\ q \in Keys /\ net[c] = From(q, 1)
      /\ conn[c].hook = "original" => conn[c].active = FALSE /\ q \notin Cacheable
      /\ conn[c].hook = "record" => conn[c].key = q /\ q \in Cacheable
                                      /\ conn[c].active = TRUE
  BY ConnIs DEF Plain, Hooked, Hooks, ConnectionData
<1> QED BY <1>1, PartsAre

LEMMA UpToIs ==
    ASSUME NEW q \in Keys, NEW i \in 0..Parts(q)
    PROVE  UpTo(q, i) \in Seq(Part)
<1>1. Answer(q) \in Seq(Part) /\ Len(Answer(q)) = Parts(q) /\ Parts(q) \in Nat
  BY AnswerIs, PartsAre
<1>2. \A j \in 1..i : Answer(q)[j] \in Part
  BY <1>1, ElementOfSeq
<1> QED BY <1>1, <1>2, SubSeqProperties DEF UpTo

\* What receive_record adds.
LEMMA RecordIs ==
    ASSUME TableInv, NEW c \in Conns, conn[c].hook = "record",
           NEW q \in Keys, NEW i \in 1..Parts(q), NextPart(c) = <<q, i>>,
           heap[conn[c].recorded] = UpTo(q, i - 1)
    PROVE  /\ HeapAfterReceive(c) \in [Data -> Seq(Part) \cup {None}]
           /\ HeapAfterReceive(c)[conn[c].recorded] = UpTo(q, i)
           /\ heap[conn[c].recorded] # None /\ UpTo(q, i) # None
           /\ \A d \in Data : d # conn[c].recorded => HeapAfterReceive(c)[d] = heap[d]
<1>1. conn[c].recorded \in Data /\ heap \in [Data -> Seq(Part) \cup {None}]
  BY ProperIs DEF TableInv, WireInv, TypesOK
<1>2. i - 1 \in 0..Parts(q) /\ i \in 0..Parts(q)
  BY PartsAre
<1>3. UpTo(q, i - 1) \in Seq(Part) /\ UpTo(q, i) \in Seq(Part)
  BY <1>2, UpToIs
<1>4. Append(UpTo(q, i - 1), <<q, i>>) = UpTo(q, i)
  BY Recorded
<1>5. HeapAfterReceive(c) = [heap EXCEPT ![conn[c].recorded] = UpTo(q, i)]
  BY <1>4 DEF HeapAfterReceive
<1> QED BY <1>1, <1>3, <1>5, NoneIs

\* A connection with swapped functions keeps them, and reads on.
LEMMA HookedStep ==
    ASSUME TableInv, Orderly, NEW c \in Conns, NEW r, conn' = [conn EXCEPT ![c] = r],
           conn[c].recorded # None, r.hook = conn[c].hook, r.recorded = conn[c].recorded,
           r.running = conn[c].running, OnItsWire(c), UNCHANGED cache, Fills(c),
           OrderlyConn(r, net'[c]), Holds(r, heap'[r.recorded])
    PROVE  TableInv' /\ Elsewhere(c) /\ Tidy(c)' /\ UNCHANGED Std!vars
<1>1. conn[c].recorded \in Data
  BY ProperIs
<1>2. Becomes(c, r)
  BY <1>1, OrderlyIsProper DEF Becomes, Recordable, RecordedBy
<1> QED BY <1>2, ReadingStep, TidyAfter

LEMMA ReapResultSetMaps ==
    ASSUME TableInv, Orderly, NEW c \in Conns, Tidy(c), ReapResultSet(c)
    PROVE  TableInv' /\ Elsewhere(c) /\ Tidy(c)' /\ UNCHANGED Std!vars
<1> DEFINE q == conn[c].running
           r == [ConnAfterReceive(c) EXCEPT !.state = "fetching"]
<1>1. /\ conn[c] \in ConnectionData /\ conn[c].hook \in Hooks
      /\ (conn[c].hook = "original" <=> conn[c].recorded = None)
      /\ conn[c].should = conn[c].active
  BY ConnIs
<1>2. /\ conn[c].state = "sent" /\ HasFields(c) /\ Receive(c)
      /\ heap' = HeapAfterReceive(c) /\ conn' = [conn EXCEPT ![c] = r]
      /\ UNCHANGED <<cache, clock, conditional>>
  BY DEF ReapResultSet, Update, environment
<1>3. heap \in [Data -> Seq(Part) \cup {None}] /\ net \in [Conns -> Seq(Part)] /\ WireInv
  BY DEF TableInv, WireInv, TypesOK
<1>4. /\ r \in ConnectionData /\ r.state = "fetching" /\ r.hook = conn[c].hook
      /\ r.recorded = conn[c].recorded /\ r.key = conn[c].key /\ r.running = q
      /\ r.active = conn[c].active /\ r.should = conn[c].should
      /\ r.pos = IF conn[c].hook = "replay" THEN conn[c].pos + 1 ELSE conn[c].pos
  BY <1>1 DEF ConnAfterReceive, ConnectionData, States
<1> HIDE DEF r
<1>5. CASE conn[c].hook = "replay"
  <2>1. Hooked(conn[c], net[c])
    BY <1>5, ConnIs
  <2>2. net' = net /\ heap' = heap
    BY <1>2, <1>5 DEF Receive, HeapAfterReceive
  <2>3. OrderlyConn(r, net'[c])
    BY <1>1, <1>2, <1>3, <1>4, <1>5, <2>1, <2>2 DEF OrderlyConn, Hooked
  <2>4. Holds(r, heap'[r.recorded])
    BY <1>4, <1>5 DEF Holds
  <2>5. OnItsWire(c) /\ Fills(c) /\ conn[c].recorded # None
    BY <1>1, <1>2, <1>3, <1>5, <2>2 DEF OnItsWire, Fills
  <2> QED BY <1>2, <1>4, <2>3, <2>4, <2>5, HookedStep
<1>6. CASE conn[c].hook # "replay"
  <2>1. /\ q \in Keys /\ 1 \in 1..Parts(q) /\ net[c] = From(q, 1)
        /\ conn[c].hook = "original" => conn[c].active = FALSE /\ q \notin Cacheable
        /\ conn[c].hook = "record" => conn[c].key = q /\ q \in Cacheable
                                        /\ conn[c].active = TRUE
    BY <1>2, <1>6, SentIsOrderly
  <2>2. /\ NextPart(c) = <<q, 1>>
        /\ net' \in [Conns -> Seq(Part)] /\ \A o \in Conns \ {c} : net'[o] = net[o]
        /\ net'[c] = From(q, 1 + 1) /\ net'[c] \in Seq(Part)
    BY <1>2, <1>3, <1>6, <2>1, NextFromServer
  <2>3. q \in ResultSets
    BY <1>2, <2>2 DEF HasFields
  <2>4. net'[c] = From(q, 2) /\ OnItsWire(c)
    BY <1>2, <2>2 DEF OnItsWire
  <2>5. CASE conn[c].hook = "original"
    <3>1. Plain(r, net'[c])
      BY <1>4, <2>1, <2>3, <2>4, <2>5 DEF Plain
    <3>2. OrderlyConn(r, net'[c])
      BY <1>1, <1>4, <2>2, <2>5, <3>1 DEF OrderlyConn
    <3>3. heap' = heap
      BY <1>2, <2>5 DEF HeapAfterReceive
    <3> QED BY <1>1, <1>2, <1>4, <2>4, <2>5, <3>2, <3>3, PlainStep
  <2>6. CASE conn[c].hook = "record"
    <3>1. heap[conn[c].recorded] = UpTo(q, 1 - 1)
      BY <1>2, <2>1, <2>6, ConnIs DEF Holds
    <3>2. /\ heap' \in [Data -> Seq(Part) \cup {None}]
          /\ heap'[conn[c].recorded] = UpTo(q, 1)
          /\ heap[conn[c].recorded] # None /\ UpTo(q, 1) # None
          /\ \A d \in Data : d # conn[c].recorded => heap'[d] = heap[d]
      BY <1>2, <2>1, <2>2, <2>6, <3>1, RecordIs
    <3>3. OrderlyConn(r, net'[c])
      BY <1>1, <1>4, <2>1, <2>2, <2>3, <2>4, <2>6 DEF OrderlyConn, Hooked
    <3>4. Holds(r, heap'[r.recorded])
      BY <1>4, <2>1, <2>6, <3>2 DEF Holds
    <3>5. Fills(c) /\ conn[c].recorded # None
      BY <1>1, <2>6, <3>2 DEF RecordedBy, Fills
    <3> QED BY <1>2, <1>4, <2>4, <3>3, <3>4, <3>5, HookedStep
  <2> QED BY <1>1, <1>6, <2>5, <2>6 DEF Hooks
<1> QED BY <1>5, <1>6

LEMMA ReapNoResultMaps ==
    ASSUME TableInv, Orderly, NEW c \in Conns, Tidy(c), ReapNoResult(c)
    PROVE  TableInv' /\ Elsewhere(c) /\ Tidy(c)' /\ (UNCHANGED Std!vars \/ Std!Abandon(c))
<1> DEFINE q == conn[c].running
           s == [ConnAfterReceive(c) EXCEPT !.state = "ready"]
<1>1. /\ conn[c] \in ConnectionData /\ conn[c].hook \in Hooks
      /\ (conn[c].hook = "original" <=> conn[c].recorded = None)
      /\ conn[c].should = conn[c].active
  BY ConnIs
<1>2. /\ conn[c].state = "sent" /\ ~HasFields(c) /\ Receive(c)
      /\ GiveUpRecording(c, s) /\ UNCHANGED <<cache, clock, conditional>>
  BY DEF ReapNoResult, environment
<1>3. conn[c].hook # "replay"
  <2> SUFFICES ASSUME conn[c].hook = "replay" PROVE FALSE
    OBVIOUS
  <2>1. NextPart(c) = <<conn[c].key, 1>> /\ conn[c].key \in ResultSets
    BY <1>2, NextFromCache
  <2> QED BY <1>2, <2>1 DEF HasFields
<1>4. /\ s \in ConnectionData /\ s.state = "ready" /\ s.hook = conn[c].hook
      /\ s.recorded = conn[c].recorded /\ s.active = conn[c].active /\ s.should = conn[c].should
  BY <1>1, <1>3 DEF ConnAfterReceive, ConnectionData, States
<1> HIDE DEF s
<1>5. /\ q \in Keys /\ 1 \in 1..Parts(q) /\ net[c] = From(q, 1)
      /\ conn[c].hook = "original" => conn[c].active = FALSE
      /\ conn[c].hook = "record" => conn[c].active = TRUE
  BY <1>2, <1>3, SentIsOrderly
<1>6. /\ NextPart(c) = <<q, 1>>
      /\ net' \in [Conns -> Seq(Part)] /\ \A o \in Conns \ {c} : net'[o] = net[o]
      /\ net'[c] = From(q, 1 + 1)
  BY <1>2, <1>3, <1>5, NextFromServer DEF TableInv
<1>7. net'[c] = <<>> /\ OnItsWire(c)
  BY <1>2, <1>5, <1>6, PartsAre, Ends DEF HasFields, OnItsWire
<1>8. CASE conn[c].hook = "original"
  <2>1. heap' = heap /\ conn' = [conn EXCEPT ![c] = s]
    BY <1>2, <1>5, <1>8 DEF GiveUpRecording, HeapAfterReceive, Update
  <2>2. OrderlyConn(s, net'[c])
    BY <1>1, <1>4, <1>7, <1>8, EmptySeq DEF OrderlyConn, Plain
  <2> QED BY <1>1, <1>2, <1>4, <1>7, <1>8, <2>1, <2>2, PlainStep
<1>9. CASE conn[c].hook = "record"
  <2> DEFINE r == Unhooked(s)
  <2>1. /\ r \in ConnectionData /\ r.state = "ready" /\ r.hook = "original"
        /\ r.recorded = None /\ r.should = r.active
    BY <1>1, <1>4 DEF Unhooked, ConnectionData, Hooks
  <2>2. Discards(c) /\ conn' = [conn EXCEPT ![c] = r]
    BY <1>2, <1>5, <1>9 DEF GiveUpRecording, Update, Discards
  <2> HIDE DEF r
  <2>3. OrderlyConn(r, net'[c]) /\ Holds(r, heap'[r.recorded])
    BY <1>7, <2>1, EmptySeq DEF OrderlyConn, Plain, Holds
  <2>4. Becomes(c, r)
    BY <2>1, <2>2, <2>3, OrderlyIsProper DEF Becomes
  <2> QED BY <1>7, <1>9, <2>1, <2>2, <2>3, <2>4, FreeStep, TidyAfter
<1> QED BY <1>1, <1>3, <1>8, <1>9 DEF Hooks

-----------------------------------------------------------------------------
(***************************************************************************)
(* store_result                                                            *)
(***************************************************************************)

LEMMA RowsFields ==
    ASSUME WireInv, NEW c \in Conns, AfterRows(c) \in States
    PROVE  LET r == RowsRead(c)
           IN  /\ r \in ConnectionData
               /\ r.state = AfterRows(c) /\ r.running = conn[c].running
               /\ r.hook = conn[c].hook /\ r.recorded = conn[c].recorded
               /\ r.key = conn[c].key
               /\ r.active = conn[c].active /\ r.should = conn[c].should
<1>1. conn[c] \in ConnectionData
  BY DEF WireInv, TypesOK
<1> QED BY <1>1 DEF RowsRead, ConnAfterReceive, ConnectionData

LEMMA FinishedFields ==
    ASSUME WireInv, NEW c \in Conns, AfterRows(c) \in States
    PROVE  LET r == Finished(c)
           IN  /\ r \in ConnectionData
               /\ r.state = AfterRows(c) /\ r.running = conn[c].running
               /\ r.hook = "original" /\ r.recorded = None /\ r.key = None
               /\ r.active = conn[c].active /\ r.should = conn[c].should
<1>1. LET s == RowsRead(c)
      IN  /\ s \in ConnectionData
          /\ s.state = AfterRows(c) /\ s.running = conn[c].running
          /\ s.active = conn[c].active /\ s.should = conn[c].should
  BY RowsFields
<1> QED BY <1>1 DEF Finished, Unhooked, ConnectionData, Hooks

LEMMA AfterRowsIs ==
    ASSUME NEW c \in Conns, NEW q \in Keys, NEW i \in {2, 4}, NextPart(c) = <<q, i>>
    PROVE  /\ AfterRows(c) = IF i < Parts(q) THEN "more" ELSE "ready"
           /\ AfterRows(c) \in States
BY DEF AfterRows, States

\* A result that is not for the cache, or not the first of its statement.
LEMMA StorePlainMaps ==
    ASSUME TableInv, Orderly, NEW c \in Conns, Tidy(c), StoreInactive(c) \/ StoreUnhooked(c)
    PROVE  TableInv' /\ Elsewhere(c) /\ Tidy(c)' /\ UNCHANGED Std!vars
<1> DEFINE q == conn[c].running
<1>1. /\ conn[c].hook \in Hooks /\ conn[c].should = conn[c].active
      /\ (conn[c].hook = "original" <=> conn[c].recorded = None) /\ WireInv
  BY ConnIs DEF TableInv
<1>2. conn[c].hook = "original" /\ conn[c].state = "fetching" /\ Receive(c)
  BY ConnIs DEF Hooked, StoreInactive, StoreUnhooked, MayStore
<1>3. heap' = heap /\ UNCHANGED <<cache, clock, conditional>>
  BY <1>2 DEF StoreInactive, StoreUnhooked, HeapAfterReceive, environment
<1>4. PICK i \in {2, 4} :
        /\ q \in Keys /\ net[c] = From(q, i) /\ i \in 1..Parts(q)
        /\ (conn[c].active <=> q \in Cacheable)
        /\ IF i = 2 THEN q \in ResultSets ELSE q \in Multi
  <2>1. \/ /\ q \in Keys /\ (conn[c].active <=> q \in Cacheable)
           /\ q \in ResultSets /\ net[c] = From(q, 2)
        \/ /\ q \in Keys /\ (conn[c].active <=> q \in Cacheable)
           /\ q \in Multi /\ net[c] = From(q, 4)
    BY <1>2, ConnIs DEF Plain
  <2> QED BY <2>1, PartsAre, PartsOfMulti
<1>5. /\ NextPart(c) = <<q, i>>
      /\ net' \in [Conns -> Seq(Part)] /\ \A o \in Conns \ {c} : net'[o] = net[o]
      /\ net'[c] = From(q, i + 1) /\ net'[c] \in Seq(Part)
  BY <1>1, <1>2, <1>4, NextFromServer
<1>6. AfterRows(c) = (IF i < Parts(q) THEN "more" ELSE "ready") /\ AfterRows(c) \in States
  BY <1>4, <1>5, AfterRowsIs
<1>7. PICK r : /\ conn' = [conn EXCEPT ![c] = r]
               /\ r \in ConnectionData
               /\ r.state = AfterRows(c) /\ r.running = q
               /\ r.hook = "original" /\ r.recorded = None
               /\ r.active = conn[c].active /\ r.should = conn[c].should
  <2>1. CASE StoreInactive(c)
    BY <1>1, <1>2, <1>6, <2>1, RowsFields DEF StoreInactive, Update
  <2>2. CASE StoreUnhooked(c)
    BY <1>1, <1>6, <2>2, FinishedFields DEF StoreUnhooked, Update
  <2> QED BY <2>1, <2>2
<1>8. OrderlyConn(r, net'[c])
  <2>1. CASE i = 2
    <3>1. net'[c] = From(q, 3) /\ q \in ResultSets
      BY <1>4, <1>5, <2>1
    <3>2. r.active <=> q \in Cacheable
      BY <1>4, <1>7
    <3> QED BY <1>1, <1>6, <1>7, <2>1, <3>1, <3>2, AfterFirstIs
  <2>2. CASE i = 4
    <3>1. Parts(q) = 4
      BY <1>4, <2>2, PartsOfMulti
    <3>2. net'[c] = <<>> /\ r.state = "ready"
      BY <1>4, <1>5, <1>6, <1>7, <2>2, <3>1, Ends
    <3> QED BY <1>1, <1>7, <3>2, EmptySeq DEF OrderlyConn, Plain
  <2> QED BY <2>1, <2>2
<1>9. OnItsWire(c) /\ conn[c].recorded = None
  BY <1>1, <1>2, <1>3, <1>5 DEF OnItsWire
<1> QED BY <1>3, <1>7, <1>8, <1>9, PlainStep

\* The end of a recording: the rows arrive, and the functions are restored.
LEMMA RecordedIs ==
    ASSUME TableInv, NEW c \in Conns, Tidy(c), StoreRecorded(c), NEW q, q = conn[c].key
    PROVE  /\ conn[c].hook = "record" /\ q \in ResultSets /\ q = conn[c].running
           /\ conn[c].should /\ OnItsWire(c) /\ Completes(c, q)
           /\ Becomes(c, Finished(c)) /\ Finished(c).hook = "original"
           /\ Finished(c).recorded = None /\ OrderlyConn(Finished(c), net'[c])
<1>1. /\ conn[c].hook = "record" /\ conn[c].state = "fetching" /\ Receive(c)
      /\ conn' = [conn EXCEPT ![c] = Finished(c)] /\ UNCHANGED <<clock, conditional>>
      /\ conn[c].active /\ WireInv
  BY DEF StoreRecorded, MayStore, Update, environment, TableInv
<1>2. /\ q \in ResultSets /\ q \in Keys /\ q \in Cacheable /\ conn[c].running = q
      /\ net[c] = From(q, 2) /\ conn[c].recorded \in Data /\ conn[c].should = conn[c].active
      /\ heap[conn[c].recorded] = UpTo(q, 1)
  BY <1>1, ConnIs DEF Hooked, Holds
<1>3. 2 \in 1..Parts(q)
  BY <1>2, PartsAre
<1>4. /\ NextPart(c) = <<q, 2>>
      /\ net' \in [Conns -> Seq(Part)] /\ \A o \in Conns \ {c} : net'[o] = net[o]
      /\ net'[c] = From(q, 2 + 1)
  BY <1>1, <1>2, <1>3, NextFromServer
<1>5. AfterRows(c) = (IF 2 < Parts(q) THEN "more" ELSE "ready") /\ AfterRows(c) \in States
  BY <1>2, <1>4, AfterRowsIs
<1>6. LET r == Finished(c)
      IN  /\ r \in ConnectionData
          /\ r.state = AfterRows(c) /\ r.running = q
          /\ r.hook = "original" /\ r.recorded = None
          /\ r.active = conn[c].active /\ r.should = conn[c].should
  BY <1>1, <1>2, <1>5, FinishedFields
<1>7. OrderlyConn(Finished(c), net'[c]) /\ Becomes(c, Finished(c))
  <2> DEFINE r == Finished(c)
  <2>1. /\ r \in ConnectionData
        /\ r.state = (IF 2 < Parts(q) THEN "more" ELSE "ready") /\ r.running = q
        /\ r.hook = "original" /\ r.recorded = None /\ r.should = r.active
        /\ (r.active <=> q \in Cacheable) /\ conn' = [conn EXCEPT ![c] = r]
    BY <1>1, <1>2, <1>5, <1>6
  <2> HIDE DEF r
  <2>2. OrderlyConn(r, net'[c])
    BY <1>2, <1>4, <2>1, AfterFirstIs
  <2>3. Becomes(c, r)
    BY <2>1, <2>2, OrderlyIsProper DEF Becomes
  <2> QED BY <2>2, <2>3 DEF r
<1>8. heap[conn[c].recorded] = UpTo(q, 2 - 1)
  BY <1>2
<1>9. /\ HeapAfterReceive(c) \in [Data -> Seq(Part) \cup {None}]
      /\ HeapAfterReceive(c)[conn[c].recorded] = UpTo(q, 2)
      /\ heap[conn[c].recorded] # None
      /\ \A d \in Data : d # conn[c].recorded => HeapAfterReceive(c)[d] = heap[d]
  BY <1>1, <1>2, <1>3, <1>4, <1>8, RecordIs
<1>10. UpTo(q, 2) = FirstResult(q)
  BY DEF UpTo, FirstResult
<1> QED BY <1>1, <1>2, <1>4, <1>6, <1>7, <1>9, <1>10 DEF OnItsWire, Completes

LEMMA StoreFreedMaps ==
    ASSUME TableInv, Orderly, NEW c \in Conns, Tidy(c), StoreNoTable(c) \/ StoreRefused(c)
    PROVE  TableInv' /\ Elsewhere(c) /\ Tidy(c)' /\ Std!Abandon(c)
<1> DEFINE r == Finished(c)
<1>1. StoreRecorded(c) /\ Discards(c)
  BY DEF StoreNoTable, StoreRefused, AddRefused, Discards
<1>2. /\ conn[c].hook = "record" /\ OnItsWire(c) /\ Becomes(c, r) /\ r.hook = "original"
      /\ r.recorded = None /\ OrderlyConn(r, net'[c])
  BY <1>1, RecordedIs
<1> HIDE DEF r
<1>3. Holds(r, heap'[r.recorded])
  BY <1>2 DEF Holds
<1> QED BY <1>1, <1>2, <1>3, FreeStep, TidyAfter

LEMMA StoreAddedMaps ==
    ASSUME TableInv, Orderly, NEW c \in Conns, Tidy(c), StoreAdded(c)
    PROVE  TableInv' /\ Elsewhere(c) /\ Tidy(c)' /\ Std!FinishRecord(c, Ttl)
<1> DEFINE k == conn[c].key
           r == Finished(c)
<1>1. StoreRecorded(c) /\ TakesOver(c, k)
  BY DEF StoreAdded, TakesOver
<1>2. /\ conn[c].hook = "record" /\ k \in ResultSets /\ k = conn[c].running
      /\ OnItsWire(c) /\ Completes(c, k) /\ Becomes(c, r) /\ r.hook = "original"
      /\ r.recorded = None /\ OrderlyConn(r, net'[c])
  BY <1>1, RecordedIs
<1> HIDE DEF k, r
<1>3. Holds(r, heap'[r.recorded])
  BY <1>2 DEF Holds
<1> QED BY <1>1, <1>2, <1>3, AddStep, TidyAfter

LEMMA StoreReplayedMaps ==
    ASSUME TableInv, Orderly, NEW c \in Conns, Tidy(c), StoreReplayed(c)
    PROVE  TableInv' /\ Elsewhere(c) /\ Tidy(c)' /\ Std!FinishReplay(c)
<1> DEFINE k == conn[c].key
           r == Finished(c)
<1>1. /\ conn[c].hook = "replay" /\ conn[c].state = "fetching" /\ conn[c].active
      /\ Receive(c) /\ Returns(c, k) /\ conn' = [conn EXCEPT ![c] = r]
      /\ UNCHANGED <<clock, conditional>>
  BY DEF StoreReplayed, MayStore, Update, environment, Returns
<1>2. /\ k \in ResultSets /\ k \in Keys /\ k \in Cacheable /\ conn[c].running = k
      /\ conn[c].recorded # None /\ conn[c].should = conn[c].active /\ net[c] = <<>>
      /\ NextPart(c) = <<k, 2>>
  BY <1>1, ConnIs, NextFromCache DEF Hooked
<1>3. AfterRows(c) = (IF 2 < Parts(k) THEN "more" ELSE "ready") /\ AfterRows(c) \in States
  BY <1>2, AfterRowsIs
<1>4. /\ r \in ConnectionData
      /\ r.state = (IF 2 < Parts(k) THEN "more" ELSE "ready") /\ r.running = k
      /\ r.hook = "original" /\ r.recorded = None /\ r.should = r.active
      /\ (r.active <=> k \in Cacheable)
  BY <1>1, <1>2, <1>3, FinishedFields DEF TableInv
<1> HIDE DEF k, r
<1>5. net' = net
  BY <1>1 DEF Receive
<1>6. OnItsWire(c)
  BY <1>1, <1>5 DEF OnItsWire, TableInv, WireInv, TypesOK
<1>7. OrderlyConn(r, net'[c]) /\ Holds(r, heap'[r.recorded])
  BY <1>1, <1>2, <1>4, <1>5, AfterFirstIs DEF Holds
<1>8. Becomes(c, r)
  BY <1>1, <1>4, <1>7, OrderlyIsProper DEF Becomes
<1> QED BY <1>1, <1>2, <1>4, <1>6, <1>7, <1>8, ReturnStep, TidyAfter

-----------------------------------------------------------------------------
(***************************************************************************)
(* Every step                                                              *)
(***************************************************************************)

LEMMA NextResultMaps ==
    ASSUME TableInv, Orderly, NEW c \in Conns, Tidy(c), NextResult(c)
    PROVE  TableInv' /\ Elsewhere(c) /\ Tidy(c)' /\ UNCHANGED Std!vars
<1> DEFINE q == conn[c].running
           r == [ConnAfterReceive(c) EXCEPT !.state = "fetching"]
<1>1. /\ conn[c].state = "more" /\ MayReceive(c) /\ Receive(c) /\ heap' = HeapAfterReceive(c)
      /\ conn' = [conn EXCEPT ![c] = r] /\ UNCHANGED <<cache, clock, conditional>>
  BY DEF NextResult, Update, environment
<1>2. /\ conn[c].hook = "original" /\ conn[c] \in ConnectionData /\ conn[c].recorded = None
      /\ conn[c].should = conn[c].active /\ Plain(conn[c], net[c])
  BY <1>1, ConnIs DEF Hooked
<1>3. /\ q \in Multi /\ q \in Keys /\ (conn[c].active <=> q \in Cacheable)
      /\ net[c] = From(q, 3)
  <2>1. net[c] # <<>>
    BY <1>1, <1>2 DEF MayReceive
  <2> QED BY <1>1, <1>2, <2>1 DEF Plain
<1>4. 3 \in 1..Parts(q)
  BY <1>3, PartsOfMulti
<1>5. /\ net' \in [Conns -> Seq(Part)] /\ \A o \in Conns \ {c} : net'[o] = net[o]
      /\ net'[c] = From(q, 3 + 1) /\ net'[c] \in Seq(Part)
  BY <1>1, <1>2, <1>3, <1>4, NextFromServer DEF TableInv
<1>6. /\ r \in ConnectionData /\ r.state = "fetching" /\ r.hook = "original"
      /\ r.recorded = None /\ r.running = q /\ r.active = conn[c].active
      /\ r.should = conn[c].should
  BY <1>2 DEF ConnAfterReceive, ConnectionData, States
<1>7. heap' = heap
  BY <1>1, <1>2 DEF HeapAfterReceive
<1> HIDE DEF r
<1>8. Plain(r, net'[c])
  BY <1>3, <1>5, <1>6 DEF Plain
<1>9. OrderlyConn(r, net'[c])
  BY <1>2, <1>5, <1>6, <1>8 DEF OrderlyConn
<1>10. OnItsWire(c)
  BY <1>1, <1>5 DEF OnItsWire
<1> QED BY <1>1, <1>2, <1>6, <1>7, <1>9, <1>10, PlainStep

LEMMA OpenedMaps ==
    ASSUME TableInv, Orderly, NEW c \in Conns, Tidy(c), Close(c) \/ Connect(c)
    PROVE  TableInv' /\ Elsewhere(c) /\ Tidy(c)' /\ UNCHANGED Std!vars
<1>1. conn[c].state \in {"ready", "closed"}
  <2>1. conn[c].state \in {"ready", "gone", "closed"}
    BY DEF Close, Connect, Orderly
  <2> QED BY <2>1, ConnIs DEF Plain, Hooked
<1>2. conn[c].recorded = None /\ net[c] = <<>>
  BY <1>1, ConnIs DEF Plain, Hooked
<1>3. PICK r \in {Closed, Connected} : conn' = [conn EXCEPT ![c] = r]
  BY DEF Close, Connect, Update
<1>4. /\ r \in ConnectionData /\ r.hook = "original" /\ r.recorded = None
      /\ r.state \in {"closed", "ready"} /\ r.should = r.active
  <2>1. /\ Closed \in ConnectionData /\ Closed.hook = "original" /\ Closed.recorded = None
        /\ Closed.state = "closed" /\ Closed.should = Closed.active
    BY DEF Closed, ConnectionData, States, Hooks
  <2>2. /\ Connected \in ConnectionData /\ Connected.hook = "original"
        /\ Connected.recorded = None /\ Connected.state = "ready"
        /\ Connected.should = Connected.active
    BY DEF Connected, Closed, ConnectionData, States, Hooks
  <2>3. r = Closed \/ r = Connected
    BY <1>3
  <2> QED BY <2>1, <2>2, <2>3
<1>5. net \in [Conns -> Seq(Part)]
  BY DEF TableInv, WireInv, TypesOK
<1>6. UNCHANGED <<cache, heap>> /\ OnItsWire(c) /\ net'[c] = <<>>
  BY <1>2, <1>5, EmptySeq DEF Close, Connect, environment, OnItsWire
<1>7. OrderlyConn(r, net'[c])
  BY <1>4, <1>6, EmptySeq DEF OrderlyConn, Plain
<1> QED BY <1>2, <1>3, <1>4, <1>6, <1>7, PlainStep

LEMMA TickMaps ==
    ASSUME TableInv, Orderly, Tick
    PROVE  TableInv' /\ Std!Tick /\ \A c \in Conns : Tidy(c) => Tidy(c)'
<1>1. UNCHANGED <<cache, heap, conditional, conn, net>> /\ clock < MaxClock /\ clock' = clock + 1
  BY DEF Tick
<1>2. heapBar' = heapBar /\ pcBar' = pcBar /\ keyBar' = keyBar /\ heldBar' = heldBar
  BY <1>1 DEF heapBar, pcBar, keyBar, heldBar, Recorders, AnswerTo, FirstResult, Answer, Parts
<1>3. Std!Tick
  BY <1>1, <1>2 DEF Std!Tick, Std!clientVars
<1>4. WireInv'
  BY <1>1 DEF TableInv, WireInv, TypesOK, Cached
<1>5. \A c \in Conns : Proper(conn[c])'
  BY <1>1 DEF TableInv, Proper, ConnectionData, States, Hooks
<1>6. TableInv'
  BY <1>3, <1>4, <1>5, StdStep DEF TableInv, Std!NextProtocol
<1>7. \A c \in Conns : Tidy(c) => Tidy(c)'
  BY <1>1 DEF Tidy, OrderlyConn, Holds, Plain, Hooked
<1> QED BY <1>3, <1>6, <1>7

\* Nothing happens.
LEMMA Unmoved ==
    ASSUME TableInv, Orderly, UNCHANGED <<cache, heap, clock, conditional, conn, net>>
    PROVE  TableInv' /\ UNCHANGED Std!vars /\ \A c \in Conns : Tidy(c) => Tidy(c)'
<1>1. UNCHANGED Std!vars
  BY DEF Std!vars, heapBar, pcBar, keyBar, heldBar, Recorders, AnswerTo, FirstResult, Answer, Parts
<1>2. WireInv'
  BY DEF TableInv, WireInv, TypesOK, Cached
<1>3. \A c \in Conns : Proper(conn[c])'
  BY DEF TableInv, Proper, ConnectionData, States, Hooks
<1>4. TableInv'
  BY <1>1, <1>2, <1>3, StdStep DEF TableInv
<1>5. \A c \in Conns : Tidy(c) => Tidy(c)'
  BY DEF Tidy, OrderlyConn, Holds, Plain, Hooked
<1> QED BY <1>1, <1>4, <1>5

\* What only happens to scripts that are not orderly.
LEMMA Disabled ==
    ASSUME TableInv, Orderly, NEW c \in Conns, Tidy(c)
    PROVE  /\ ~UseResult(c) /\ ~Reconnect(c) /\ ~ReadRows(c)
           /\ ~ReapFails(c) /\ ~StoreFails(c) /\ ~StoreRejected(c)
           /\ \A q \in Keys : ~SendHitRefused(c, q) /\ ~SendMissRefused(c, q)
<1>1. ~UseResult(c) /\ ~Reconnect(c)
  BY DEF UseResult, Reconnect, Orderly
<1>2. ~ReadRows(c)
  BY ConnIs DEF ReadRows, Plain, Hooked
<1>3. \A q \in Keys : ~SendHitRefused(c, q) /\ ~SendMissRefused(c, q)
  BY MaySendIs DEF SendHitRefused, SendMissRefused, InSync, Idle
<1>4. ~ReapFails(c) /\ ~StoreFails(c)
  BY NextFromCache DEF ReapFails, StoreFails, ReceiveFails, Orderly
<1>5. ASSUME StoreRejected(c)
      PROVE  FALSE
  <2>1. conn[c].should
    BY <1>5, RecordedIs DEF StoreRejected
  <2> QED BY <1>5, <2>1 DEF StoreRejected, Wanted
<1> QED BY <1>1, <1>2, <1>3, <1>4, <1>5

\* What becomes of a statement that was sent.
LEMMA AnswerMaps ==
    ASSUME TableInv, Orderly, NEW c \in Conns, Tidy(c), ReapQuery(c) \/ StoreResult(c)
    PROVE  /\ TableInv' /\ Elsewhere(c) /\ Tidy(c)'
           /\ UNCHANGED Std!vars \/ Std!ProtocolStep(c)
<1>1. CASE ReapQuery(c)
  BY <1>1, ReapResultSetMaps, ReapNoResultMaps, Disabled DEF ReapQuery, Std!ProtocolStep
<1>2. CASE StoreResult(c)
  BY <1>2, StorePlainMaps, StoreReplayedMaps, StoreFreedMaps, StoreAddedMaps, Disabled
     DEF StoreResult, Std!ProtocolStep
<1> QED BY <1>1, <1>2

LEMMA ConnMaps ==
    ASSUME TableInv, Orderly, NEW c \in Conns, Tidy(c),
           \/ \E q \in Keys : SendQuery(c, q)
           \/ ReapQuery(c) \/ StoreResult(c)
           \/ UseResult(c) \/ ReadRows(c) \/ NextResult(c)
           \/ Close(c) \/ Connect(c) \/ Reconnect(c)
    PROVE  /\ TableInv' /\ Elsewhere(c) /\ Tidy(c)'
           /\ UNCHANGED Std!vars \/ Std!ProtocolStep(c)
<1>1. ASSUME NEW q \in Keys, SendQuery(c, q)
      PROVE  /\ TableInv' /\ Elsewhere(c) /\ Tidy(c)'
             /\ UNCHANGED Std!vars \/ Std!ProtocolStep(c)
  <2>1. SendPlain(c, q) \/ SendHit(c, q) \/ SendMiss(c, q)
    BY <1>1, Disabled DEF SendQuery
  <2>2. Idle(c) /\ conn[c].hook = "original"
    BY <2>1, MaySendIs DEF SendPlain, SendHit, SendMiss
  <2> QED BY <2>1, <2>2, SendPlainMaps, SendHitMaps, SendMissMaps DEF Std!ProtocolStep
<1>2. CASE NextResult(c) \/ Close(c) \/ Connect(c)
  BY <1>2, NextResultMaps, OpenedMaps
<1> QED BY <1>1, <1>2, AnswerMaps, Disabled

\* Every step is a step of StdCache and leaves tables and connections in order.
LEMMA StepMaps ==
    ASSUME OrderlyInv, Orderly, [Next]_vars
    PROVE  OrderlyInv' /\ [Std!NextProtocol]_(Std!vars)
<1>1. TableInv /\ \A c \in Conns : Tidy(c)
  BY DEF OrderlyInv
<1>2. CASE UNCHANGED vars
  BY <1>1, <1>2, Unmoved DEF vars, environment, OrderlyInv
<1>3. CASE Tick
  BY <1>1, <1>3, TickMaps DEF Std!NextProtocol, OrderlyInv
<1>4. CASE \E c \in Conns :
             \/ \E q \in Keys : SendQuery(c, q)
             \/ ReapQuery(c) \/ StoreResult(c)
             \/ UseResult(c) \/ ReadRows(c) \/ NextResult(c)
             \/ Close(c) \/ Connect(c) \/ Reconnect(c)
  <2> PICK c \in Conns :
             \/ \E q \in Keys : SendQuery(c, q)
             \/ ReapQuery(c) \/ StoreResult(c)
             \/ UseResult(c) \/ ReadRows(c) \/ NextResult(c)
             \/ Close(c) \/ Connect(c) \/ Reconnect(c)
    BY <1>4
  <2>1. /\ TableInv' /\ Elsewhere(c) /\ Tidy(c)'
        /\ UNCHANGED Std!vars \/ Std!ProtocolStep(c)
    BY <1>1, ConnMaps
  <2>2. \A o \in Conns \ {c} : Tidy(o)'
    BY <1>1, <2>1, TidyElsewhere
  <2> QED BY <2>1, <2>2 DEF OrderlyInv, Std!NextProtocol
<1>5. ~SetCacheCondition
  BY DEF SetCacheCondition, Orderly
<1> QED BY <1>2, <1>3, <1>4, <1>5 DEF Next

LEMMA TableInit ==
    ASSUME Orderly, Init
    PROVE  TableInv /\ Std!Init /\ \A c \in Conns : Idle(c) /\ conn[c].hook = "original"
<1>1. /\ Connected \in ConnectionData /\ Connected.hook = "original"
      /\ Connected.recorded = None /\ Connected.state = "ready"
  BY DEF Connected, Closed, ConnectionData, States, Hooks
<1>2. \A c \in Conns : conn[c] = Connected /\ net[c] = <<>>
  BY DEF Init
<1>3. WireInv
  <2>1. TypesOK
    BY IInvInit DEF IInv
  <2>2. \A k \in Keys : ~Cached(k)
    BY DEF Init, HandlerInit, Cached
  <2> QED BY <2>1, <2>2 DEF Init, WireInv
<1>4. Std!Init
  <2>1. heapBar = [d \in Data |-> None]
    BY DEF Init, HandlerInit, heapBar
  <2>2. /\ pcBar = [c \in Conns |-> "idle"] /\ keyBar = [c \in Conns |-> None]
        /\ heldBar = [c \in Conns |-> None]
    BY <1>1, <1>2 DEF pcBar, keyBar, heldBar
  <2> QED BY <2>1, <2>2 DEF Init, HandlerInit, Std!Init, Std!HandlerInit, NoEntry, Std!NoEntry
<1>5. Std!IInv
  BY <1>4, StdAssumptions, Std!InitIInv
<1>6. \A c \in Conns : Proper(conn[c])
  BY <1>1, <1>2 DEF Proper
<1> QED BY <1>1, <1>2, <1>3, <1>4, <1>5, <1>6 DEF TableInv, Idle

LEMMA OrderlyInit == Orderly /\ Init => OrderlyInv /\ Std!Init
<1> SUFFICES ASSUME Orderly, Init PROVE OrderlyInv /\ Std!Init
  OBVIOUS
<1>1. \A c \in Conns : conn[c] = Connected /\ net[c] = <<>>
  BY DEF Init
<1>2. OrderlyConn(Connected, <<>>) /\ Connected.hook # "record"
  BY EmptySeq DEF OrderlyConn, Plain, Connected, Closed, ConnectionData, States, Hooks
<1>3. \A c \in Conns : Tidy(c)
  BY <1>1, <1>2 DEF Tidy, Holds
<1> QED BY <1>3, TableInit DEF OrderlyInv

\* Orderly connections keep the hooks, the wire, the table and the containers
\* consistent.
THEOREM OrderlyConsistent == Orderly => (Spec => []OrderlyInv)
<1> SUFFICES ASSUME Orderly PROVE Spec => []OrderlyInv
  OBVIOUS
<1>1. Init => OrderlyInv
  BY OrderlyInit
<1>2. OrderlyInv /\ [Next]_vars => OrderlyInv'
  BY StepMaps
<1> QED BY <1>1, <1>2, PTL DEF Spec

\* The hooks implement the protocol of module StdCache: whatever orderly
\* scripts do, each look-up, each return and each offer of a recording happens
\* when StdCache lets a client do it.
THEOREM OrderlyRefinement == Orderly => (Spec => ImplementsStdCache)
<1> SUFFICES ASSUME Orderly PROVE Spec => ImplementsStdCache
  OBVIOUS
<1>1. Init => Std!Init
  BY OrderlyInit
<1>2. OrderlyInv /\ [Next]_vars => [Std!NextProtocol]_(Std!vars)
  BY StepMaps
<1> QED BY <1>1, <1>2, OrderlyConsistent, PTL DEF Spec, ImplementsStdCache
-----------------------------------------------------------------------------
(***************************************************************************)
(* What follows from the invariant                                         *)
(***************************************************************************)

\* StdCache counts the readers of an entry; they are the connections that replay.
LEMMA ReadersReplay ==
    ASSUME OrderlyInv
    PROVE  LentToReplays
<1> SUFFICES ASSUME NEW k \in Keys, Cached(k)
             PROVE  cache[k].references = IF DataCopy THEN 0 ELSE Cardinality(Replays(k))
  BY DEF LentToReplays
<1>1. Std!CountersAreReaders /\ Std!Cached(k)
  BY SameTable DEF OrderlyInv, TableInv, Std!IInv, Std!Consistent
<1>2. cache[k].references = IF DataCopy THEN 0 ELSE Std!Cardinality(Std!Readers(k))
  BY <1>1 DEF Std!CountersAreReaders
<1>3. Std!Readers(k) = Replays(k)
  <2> SUFFICES ASSUME NEW c \in Conns
               PROVE  pcBar[c] = "replaying" /\ keyBar[c] = k
                          <=> conn[c].hook = "replay" /\ conn[c].key = k
    BY DEF Std!Readers, Replays
  <2> QED BY ConnIs, StdClient DEF OrderlyInv, Hooks, Hooked
<1>4. \A S : Std!Cardinality(S) = Cardinality(S)
  BY DEF Cardinality, Std!Cardinality, IsFiniteSet, Std!IsFiniteSet
<1> QED BY <1>2, <1>3, <1>4

\* A recording is never freed: StdCache holds an answer in its place.
LEMMA HeldData ==
    ASSUME OrderlyInv, NEW c \in Conns, conn[c].hook # "original"
    PROVE  heap[conn[c].recorded] # None
<1>1. CASE conn[c].hook = "replay"
  BY <1>1, NextFromCache, FirstResultIs, NoneIs DEF OrderlyInv
<1>2. CASE conn[c].hook = "record"
  <2> DEFINE i == IF conn[c].state = "sent" THEN 0 ELSE 1
             q == conn[c].key
  <2>1. /\ q \in Keys /\ heap[conn[c].recorded] = UpTo(q, i)
    BY <1>2, ConnIs DEF OrderlyInv, Hooked, Holds
  <2>2. i \in 0..Parts(q)
    BY <2>1, PartsAre
  <2> QED BY <2>1, <2>2, UpToIs, NoneIs
<1> QED BY <1>1, <1>2, ConnIs DEF Hooks, OrderlyInv

LEMMA UsesNothingFreed ==
    ASSUME OrderlyInv
    PROVE  NoUseAfterFree
<1>1. \A k \in Keys : Cached(k) => heap[cache[k].cached_query] # None
  BY EntryContainer, FirstResultIs, NoneIs DEF OrderlyInv
<1> QED BY <1>1, HeldData DEF NoUseAfterFree

\* Whoever uses a container for StdCache points to it.
LEMMA LeaksNothing ==
    ASSUME TableInv
    PROVE  NothingLeaks
<1> SUFFICES ASSUME NEW d \in Data, heap[d] # None
             PROVE  Pointed(d) \/ \E k \in Keys : Cached(k) /\ cache[k].cached_query = d
  BY DEF NothingLeaks
<1>1. Std!NothingLeaks
  BY DEF TableInv, Std!IInv, Std!Consistent
<1>2. CASE \E c \in Conns : RecordedBy(c, d)
  BY <1>2 DEF RecordedBy, Pointed
<1>3. CASE \A c \in Conns : ~RecordedBy(c, d)
  <2>1. heapBar[d] # None
    BY <1>3, Apart, BarIs DEF BarHolds, BarAt
  <2>2. Std!InUse(d)
    BY <1>1, <2>1 DEF Std!NothingLeaks
  <2>3. \/ \E k \in Keys : Cached(k) /\ cache[k].cached_query = d
        \/ \E c \in Conns : heldBar[c] = d
    BY <2>2, SameTable DEF Std!InUse
  <2> QED BY <2>3 DEF heldBar, Pointed
<1> QED BY <1>2, <1>3

LEMMA PlainReachesServer ==
    ASSUME OrderlyInv
    PROVE  StatementsReachServer
<1> SUFFICES ASSUME NEW c \in Conns, conn[c].hook = "replay"
             PROVE  Eligible(conn[c].running)
  BY DEF StatementsReachServer
<1> QED BY ConnIs DEF OrderlyInv, Hooked, Eligible

LEMMA OwnAnswerNext ==
    ASSUME OrderlyInv
    PROVE  ReadsOwnAnswer
<1> SUFFICES ASSUME NEW c \in Conns, NEW q, q = conn[c].running
             PROVE  /\ conn[c].state = "sent" => NextPart(c) \in {<<q, 1>>, <<q, 3>>}
                    /\ conn[c].state \in {"fetching", "rows"} =>
                           NextPart(c) \in {<<q, 2>>, <<q, 4>>}
  BY DEF ReadsOwnAnswer
<1>1. CASE conn[c].hook = "replay"
  BY <1>1, NextFromCache, ConnIs DEF OrderlyInv, Hooked
<1>2. CASE conn[c].hook # "replay" /\ conn[c].state = "sent"
  <2>1. q \in Keys /\ 1 \in 1..Parts(q) /\ net[c] = From(q, 1)
    BY <1>2, SentIsOrderly DEF OrderlyInv
  <2> QED BY <1>2, <2>1, Received DEF NextPart
<1>3. CASE conn[c].hook # "replay" /\ conn[c].state \in {"fetching", "rows"}
  <2>1. /\ q \in Keys
        /\ \/ q \in ResultSets /\ net[c] = From(q, 2)
           \/ q \in Multi /\ net[c] = From(q, 4)
    BY <1>3, ConnIs DEF OrderlyInv, Plain, Hooked, Hooks
  <2>2. (q \in ResultSets => 2 \in 1..Parts(q)) /\ (q \in Multi => 4 \in 1..Parts(q))
    BY <2>1, PartsAre, PartsOfMulti
  <2>3. /\ 2 \in 1..Parts(q) => Head(From(q, 2)) = <<q, 2>>
        /\ 4 \in 1..Parts(q) => Head(From(q, 4)) = <<q, 4>>
    BY <2>1, Received
  <2> QED BY <1>3, <2>1, <2>2, <2>3 DEF NextPart
<1> QED BY <1>1, <1>2, <1>3

\* Only after the first result of a multi statement came from the cache does a
\* script wait for a second one in vain.
LEMMA AnswerComes ==
    ASSUME OrderlyInv, Multi \cap Cacheable = {}
    PROVE  AnswerOnItsWay
<1> SUFFICES ASSUME NEW c \in Conns, conn[c].state \in {"sent", "fetching", "rows", "more"},
                    conn[c].hook # "replay"
             PROVE  net[c] # <<>>
  BY DEF AnswerOnItsWay
<1>1. \E q \in Keys : \E i \in 1..Parts(q) : net[c] = From(q, i)
  <2>1. CASE conn[c].hook = "original"
    <3> DEFINE q == conn[c].running
    <3>1. \/ q \in Keys /\ net[c] = From(q, 1)
          \/ q \in Keys /\ q \in ResultSets /\ net[c] = From(q, 2)
          \/ q \in Keys /\ q \in Multi /\ net[c] = From(q, 4)
          \/ q \in Keys /\ q \in Multi /\ net[c] = From(q, 3)
      BY <2>1, ConnIs DEF OrderlyInv, Plain
    <3>2. q \in Keys => /\ 1 \in 1..Parts(q)
                        /\ q \in ResultSets => 2 \in 1..Parts(q)
                        /\ q \in Multi => {3, 4} \subseteq 1..Parts(q)
      BY PartsAre, PartsOfMulti
    <3> QED BY <3>1, <3>2
  <2>2. CASE conn[c].hook = "record"
    <3> DEFINE q == conn[c].key
    <3>1. /\ q \in Keys
          /\ \/ net[c] = From(q, 1)
             \/ q \in ResultSets /\ net[c] = From(q, 2)
      BY <2>2, ConnIs DEF OrderlyInv, Hooked
    <3>2. /\ 1 \in 1..Parts(q)
          /\ q \in ResultSets => 2 \in 1..Parts(q)
      BY <3>1, PartsAre
    <3> QED BY <3>1, <3>2
  <2> QED BY <2>1, <2>2, ConnIs DEF Hooks, OrderlyInv
<1> QED BY <1>1, Received

\* The counter of an entry is the number of connections that replay it: none is
\* lent for ever, and none is freed under a reader.
THEOREM EntriesAreLentToReplays == Orderly => (Spec => []LentToReplays)
<1> SUFFICES ASSUME Orderly PROVE Spec => []LentToReplays
  OBVIOUS
<1>1. OrderlyInv => LentToReplays
  BY ReadersReplay
<1> QED BY <1>1, OrderlyConsistent, PTL

\* Every container that holds data is in the cache or in the hands of a
\* connection.
THEOREM OrderlyLeaksNothing == Orderly => (Spec => []NothingLeaks)
<1> SUFFICES ASSUME Orderly PROVE Spec => []NothingLeaks
  OBVIOUS
<1>1. OrderlyInv => NothingLeaks
  BY LeaksNothing DEF OrderlyInv
<1> QED BY <1>1, OrderlyConsistent, PTL

\* No connection reads or fills freed memory and no entry points to it, without
\* std_data_copy as well.
THEOREM OrderlyUsesNothingFreed == Orderly => (Spec => []NoUseAfterFree)
<1> SUFFICES ASSUME Orderly PROVE Spec => []NoUseAfterFree
  OBVIOUS
<1>1. OrderlyInv => NoUseAfterFree
  BY UsesNothingFreed
<1> QED BY <1>1, OrderlyConsistent, PTL

\* A statement that is not for the cache never goes through send_replay.
THEOREM PlainStatementsReachServer == Orderly => (Spec => []StatementsReachServer)
<1> SUFFICES ASSUME Orderly PROVE Spec => []StatementsReachServer
  OBVIOUS
<1>1. OrderlyInv => StatementsReachServer
  BY PlainReachesServer
<1> QED BY <1>1, OrderlyConsistent, PTL

\* Without std_data_copy as well a statement reads the parts of its own answer in
\* their order, every entry is the whole first result of its statement, and
\* nobody else points to a container that is being recorded.
THEOREM OrderlyAnswersBelong ==
    Orderly => (Spec => [](ReadsOwnAnswer /\ CachesWholeResult /\ RecordsPrivately))
<1> SUFFICES ASSUME Orderly
             PROVE  Spec => [](ReadsOwnAnswer /\ CachesWholeResult /\ RecordsPrivately)
  OBVIOUS
<1>1. OrderlyInv => ReadsOwnAnswer
  BY OwnAnswerNext
<1>2. OrderlyInv => CachesWholeResult
  BY EntryContainer DEF OrderlyInv, CachesWholeResult
<1>3. OrderlyInv => RecordsPrivately
  BY FromStd DEF OrderlyInv, RecordsPrivately
<1> QED BY <1>1, <1>2, <1>3, OrderlyConsistent, PTL

\* Unless a multi statement is for the cache, no connection waits for something
\* the server will not send.
THEOREM NobodyWaitsInVain ==
    Orderly /\ Multi \cap Cacheable = {} => (Spec => []AnswerOnItsWay)
<1> SUFFICES ASSUME Orderly, Multi \cap Cacheable = {} PROVE Spec => []AnswerOnItsWay
  OBVIOUS
<1>1. OrderlyInv => AnswerOnItsWay
  BY AnswerComes
<1> QED BY <1>1, OrderlyConsistent, PTL

-----------------------------------------------------------------------------
(***************************************************************************)
(* The statistics                                                          *)
(***************************************************************************)

Is(b) == IF b THEN 1 ELSE 0

\* Statements that have been counted as sent and not as answered.
Waiting(r) == r.state = "sent" /\ r.active

\* Statements that have been counted as found and not as hits.
Replaying(r) == r.hook = "replay"

\* Statements that have been counted as answered and not as stored.
Storing(r) == r.state = "fetching" /\ r.hook # "original"

WaitingNow == {c \in Conns : Waiting(conn[c])}
ReplayingNow == {c \in Conns : Replaying(conn[c])}
StoringNow == {c \in Conns : Storing(conn[c])}

\* n counts events, of which w statements wait, h replay and s are to be stored.
Balanced(n, w, h, s) ==
    /\ n["could_cache"] + n["other"] + n["not_cached"] + w
           = n["should_cache"] + n["should_not_cache"]
    /\ 2 * (n["could_cache"] - n["put"] - n["no_table"] - n["found"] - s + h)
           = n["hit"] - n["found"] + h
    /\ n["miss"] = n["put"] + n["no_table"]

Ledger ==
    /\ clock <= MaxClock
    /\ \A c \in Conns : conn[c].pos \in 0..2
    /\ stat \in [Counters -> Nat]
    /\ Balanced(stat, Cardinality(WaitingNow), Cardinality(ReplayingNow), Cardinality(StoringNow))

\* One element enters or leaves a set.
LEMMA OneMoreOrLess ==
    ASSUME NEW S, NEW T, NEW c, IsFiniteSet(S), \A x : x # c => (x \in T <=> x \in S)
    PROVE  /\ IsFiniteSet(T) /\ Cardinality(S) \in Nat
           /\ Cardinality(T) = Cardinality(S) + Is(c \in T) - Is(c \in S)
<1>1. Cardinality(S) \in Nat
  BY FS_CardinalityType
<1>2. CASE c \in T
  <2>1. T = S \cup {c}
    BY <1>2
  <2> QED BY <1>1, <1>2, <2>1, FS_AddElement DEF Is
<1>3. CASE c \notin T
  <2>1. T = S \ {c}
    BY <1>3
  <2> QED BY <1>1, <1>3, <2>1, FS_RemoveElement DEF Is
<1> QED BY <1>1, <1>2, <1>3

LEMMA BalancedSum ==
    ASSUME NEW m \in [Counters -> Nat], NEW n \in [Counters -> Nat], NEW k \in [Counters -> Nat],
           \A e \in Counters : k[e] = m[e] + n[e],
           NEW w \in Int, NEW h \in Int, NEW s \in Int,
           NEW x \in Int, NEW y \in Int, NEW z \in Int,
           Balanced(m, w, h, s), Balanced(n, x, y, z)
    PROVE  Balanced(k, w + x, h + y, s + z)
<1>1. \A e \in Counters : m[e] \in Int /\ n[e] \in Int /\ k[e] = m[e] + n[e]
  OBVIOUS
<1>2. k["could_cache"] + k["other"] + k["not_cached"] + (w + x)
          = k["should_cache"] + k["should_not_cache"]
  <2>1. \A a, b, c, d, e, f, g, i, j, l \in Int :
            a + b + c + w = d + e /\ f + g + i + x = j + l
            => (a + f) + (b + g) + (c + i) + (w + x) = (d + j) + (e + l)
    OBVIOUS
  <2> QED BY <1>1, <2>1 DEF Balanced, Counters
<1>3. 2 * (k["could_cache"] - k["put"] - k["no_table"] - k["found"] - (s + z) + (h + y))
          = k["hit"] - k["found"] + (h + y)
  <2> DEFINE Rest(v) == v["could_cache"] - v["put"] - v["no_table"] - v["found"]
             Hits(v) == v["hit"] - v["found"]
  <2>1. /\ Rest(m) \in Int /\ Rest(n) \in Int /\ Rest(k) = Rest(m) + Rest(n)
        /\ Hits(m) \in Int /\ Hits(n) \in Int /\ Hits(k) = Hits(m) + Hits(n)
    BY <1>1 DEF Counters
  <2>2. 2 * (Rest(m) - s + h) = Hits(m) + h /\ 2 * (Rest(n) - z + y) = Hits(n) + y
    BY DEF Balanced
  <2> HIDE DEF Rest, Hits
  <2>3. 2 * (Rest(k) - (s + z) + (h + y)) = Hits(k) + (h + y)
    BY <2>1, <2>2
  <2> QED BY <2>3 DEF Rest, Hits
<1>4. k["miss"] = k["put"] + k["no_table"]
  BY <1>1 DEF Balanced, Counters
<1> QED BY <1>2, <1>3, <1>4 DEF Balanced

LEMMA ReplayersStep ==
    ASSUME OrderlyInv, Orderly, NEW c \in Conns, NEW r, conn' = [conn EXCEPT ![c] = r]
    PROVE  /\ Cardinality(ReplayingNow) \in Nat
           /\ Cardinality(ReplayingNow') = Cardinality(ReplayingNow)
                                               + Is(Replaying(r)) - Is(Replaying(conn[c]))
<1>1. conn'[c] = r /\ \A o \in Conns \ {c} : conn'[o] = conn[o]
  BY DEF OrderlyInv, TableInv, WireInv, TypesOK
<1>2. IsFiniteSet(ReplayingNow)
  BY FS_Subset DEF Orderly, ReplayingNow
<1>3. \A x : x # c => (x \in ReplayingNow' <=> x \in ReplayingNow)
  BY <1>1 DEF ReplayingNow, Replaying
<1>4. (c \in ReplayingNow' <=> Replaying(r)) /\ (c \in ReplayingNow <=> Replaying(conn[c]))
  BY <1>1 DEF ReplayingNow, Replaying
<1> HIDE DEF ReplayingNow
<1>5. /\ Cardinality(ReplayingNow) \in Nat
      /\ Cardinality(ReplayingNow') = Cardinality(ReplayingNow)
                                          + Is(c \in ReplayingNow') - Is(c \in ReplayingNow)
  BY <1>2, <1>3, OneMoreOrLess
<1> QED BY <1>4, <1>5 DEF Is

\* A step of one connection, and n counted with it.
LEMMA LedgerStep ==
    ASSUME OrderlyInv, Orderly, Ledger, NEW c \in Conns, NEW r, conn' = [conn EXCEPT ![c] = r],
           clock' = clock, r.pos \in 0..2,
           NEW n \in [Counters -> Nat], stat' = [s \in Counters |-> stat[s] + n[s]],
           Balanced(n, Is(Waiting(r)) - Is(Waiting(conn[c])),
                       Is(Replaying(r)) - Is(Replaying(conn[c])),
                       Is(Storing(r)) - Is(Storing(conn[c])))
    PROVE  Ledger'
<1>1. conn'[c] = r /\ \A o \in Conns \ {c} : conn'[o] = conn[o]
  BY DEF OrderlyInv, TableInv, WireInv, TypesOK
<1>2. IsFiniteSet(WaitingNow) /\ IsFiniteSet(StoringNow)
  BY FS_Subset DEF Orderly, WaitingNow, StoringNow
<1>3. /\ Cardinality(WaitingNow) \in Nat
      /\ Cardinality(WaitingNow') = Cardinality(WaitingNow)
                                        + Is(Waiting(r)) - Is(Waiting(conn[c]))
  <2>1. \A x : x # c => (x \in WaitingNow' <=> x \in WaitingNow)
    BY <1>1 DEF WaitingNow, Waiting
  <2>2. (c \in WaitingNow' <=> Waiting(r)) /\ (c \in WaitingNow <=> Waiting(conn[c]))
    BY <1>1 DEF WaitingNow, Waiting
  <2> HIDE DEF WaitingNow
  <2>3. /\ Cardinality(WaitingNow) \in Nat
        /\ Cardinality(WaitingNow') = Cardinality(WaitingNow)
                                          + Is(c \in WaitingNow') - Is(c \in WaitingNow)
    BY <1>2, <2>1, OneMoreOrLess
  <2> QED BY <2>2, <2>3 DEF Is
<1>4. /\ Cardinality(ReplayingNow) \in Nat
      /\ Cardinality(ReplayingNow') = Cardinality(ReplayingNow)
                                          + Is(Replaying(r)) - Is(Replaying(conn[c]))
  BY ReplayersStep
<1>5. /\ Cardinality(StoringNow) \in Nat
      /\ Cardinality(StoringNow') = Cardinality(StoringNow)
                                        + Is(Storing(r)) - Is(Storing(conn[c]))
  <2>1. \A x : x # c => (x \in StoringNow' <=> x \in StoringNow)
    BY <1>1 DEF StoringNow, Storing
  <2>2. (c \in StoringNow' <=> Storing(r)) /\ (c \in StoringNow <=> Storing(conn[c]))
    BY <1>1 DEF StoringNow, Storing
  <2> HIDE DEF StoringNow
  <2>3. /\ Cardinality(StoringNow) \in Nat
        /\ Cardinality(StoringNow') = Cardinality(StoringNow)
                                          + Is(c \in StoringNow') - Is(c \in StoringNow)
    BY <1>2, <2>1, OneMoreOrLess
  <2> QED BY <2>2, <2>3 DEF Is
<1>6. stat' \in [Counters -> Nat] /\ \A s \in Counters : stat'[s] = stat[s] + n[s]
  BY DEF Ledger
<1>7. Balanced(stat', Cardinality(WaitingNow'), Cardinality(ReplayingNow'),
               Cardinality(StoringNow'))
  <2> DEFINE w == Is(Waiting(r)) - Is(Waiting(conn[c]))
             h == Is(Replaying(r)) - Is(Replaying(conn[c]))
             s == Is(Storing(r)) - Is(Storing(conn[c]))
  <2>1. w \in Int /\ h \in Int /\ s \in Int
    BY DEF Is
  <2>2. \A k \in Counters : stat[k] \in Nat /\ n[k] \in Nat /\ stat'[k] = stat[k] + n[k]
    BY <1>6 DEF Ledger
  <2>3. /\ Cardinality(WaitingNow') = Cardinality(WaitingNow) + w
        /\ Cardinality(ReplayingNow') = Cardinality(ReplayingNow) + h
        /\ Cardinality(StoringNow') = Cardinality(StoringNow) + s
    BY <1>3, <1>4, <1>5, <2>1 DEF Is
  <2>4. Balanced(n, w, h, s)
    OBVIOUS
  <2> HIDE DEF w, h, s
  <2>5. Balanced(stat', Cardinality(WaitingNow) + w, Cardinality(ReplayingNow) + h,
                 Cardinality(StoringNow) + s)
    <3> DEFINE a == Cardinality(WaitingNow)
               b == Cardinality(ReplayingNow)
               d == Cardinality(StoringNow)
    <3>1. a \in Int /\ b \in Int /\ d \in Int /\ Balanced(stat, a, b, d)
      BY <1>3, <1>4, <1>5 DEF Ledger
    <3> HIDE DEF a, b, d
    <3>2. stat \in [Counters -> Nat] /\ stat' \in [Counters -> Nat]
      BY <1>6 DEF Ledger
    <3>3. Balanced(stat', a + w, b + h, d + s)
      BY <1>6, <2>1, <2>4, <3>1, <3>2, BalancedSum
    <3> QED BY <3>3 DEF a, b, d
  <2> QED BY <2>3, <2>5
<1> QED BY <1>1, <1>6, <1>7 DEF Ledger

Booked(E) == [s \in Counters |-> Is(s \in E)]

\* The same, for a step that counts the events E.
LEMMA BookedStep ==
    ASSUME OrderlyInv, Orderly, Ledger, NEW c \in Conns, NEW r, conn' = [conn EXCEPT ![c] = r],
           clock' = clock, r.pos \in 0..2,
           NEW E \in SUBSET Counters, Count(E),
           Balanced(Booked(E), Is(Waiting(r)) - Is(Waiting(conn[c])),
                               Is(Replaying(r)) - Is(Replaying(conn[c])),
                               Is(Storing(r)) - Is(Storing(conn[c])))
    PROVE  Ledger'
<1>1. Booked(E) \in [Counters -> Nat]
  BY DEF Booked, Is
<1>2. stat' = [s \in Counters |-> stat[s] + Booked(E)[s]]
  BY DEF Count, Booked, Is
<1> QED BY <1>1, <1>2, LedgerStep

\* A step that counts nothing, of a connection with the original functions.
LEMMA QuietStep ==
    ASSUME OrderlyInv, Orderly, Ledger, NEW c \in Conns, NEW r, conn' = [conn EXCEPT ![c] = r],
           clock' = clock, r.pos \in 0..2, stat' = stat,
           conn[c].hook = "original", r.hook = "original", ~Waiting(r)
    PROVE  Ledger'
<1>1. Count({})
  BY DEF Count, Ledger
<1>2. ~Waiting(conn[c]) /\ ~Replaying(conn[c]) /\ ~Storing(conn[c]) /\ ~Replaying(r) /\ ~Storing(r)
  BY ConnIs DEF Waiting, Replaying, Storing, OrderlyInv, Plain
<1>3. Balanced(Booked({}), Is(Waiting(r)) - Is(Waiting(conn[c])),
                           Is(Replaying(r)) - Is(Replaying(conn[c])),
                           Is(Storing(r)) - Is(Storing(conn[c])))
  BY <1>2 DEF Balanced, Booked, Counters, Is
<1> QED BY <1>1, <1>3, BookedStep

LEMMA SendBooks ==
    ASSUME OrderlyInv, Orderly, Ledger, NEW c \in Conns, NEW q \in Keys,
           SendPlain(c, q) \/ SendHit(c, q) \/ SendMiss(c, q)
    PROVE  Ledger'
<1> DEFINE s == Sent(Classify(c, q), q)
<1>1. /\ conn[c].state = "ready" /\ conn[c].hook = "original" /\ clock' = clock
      /\ conn[c] \in ConnectionData /\ conn[c].pos \in 0..2
  BY MaySendIs, ConnIs DEF SendPlain, SendHit, SendMiss, environment, Ledger, OrderlyInv, Idle
<1>2. /\ s \in ConnectionData /\ s.state = "sent" /\ s.hook = "original"
      /\ (s.active <=> q \in Cacheable)
  BY <1>1, SentFields DEF OrderlyInv, TableInv
<1>3. s.pos = conn[c].pos
  BY <1>1 DEF Sent, Classify, ConnectionData
<1>4. ~Waiting(conn[c]) /\ ~Replaying(conn[c]) /\ ~Storing(conn[c])
  BY <1>1 DEF Waiting, Replaying, Storing
<1>5. Eligible(q) <=> q \in Cacheable
  BY DEF Eligible, OrderlyInv, TableInv, WireInv
<1>6. CASE SendPlain(c, q)
  <2> DEFINE E == {"should_not_cache", "not_cached"}
  <2>1. conn' = [conn EXCEPT ![c] = s] /\ Count(E) /\ ~s.active
    BY <1>1, <1>2, <1>5, <1>6 DEF SendPlain, InSync, Update, Classified
  <2>2. ~Waiting(s) /\ ~Replaying(s) /\ ~Storing(s)
    BY <1>2, <2>1 DEF Waiting, Replaying, Storing
  <2>3. Balanced(Booked(E), Is(Waiting(s)) - Is(Waiting(conn[c])),
                            Is(Replaying(s)) - Is(Replaying(conn[c])),
                            Is(Storing(s)) - Is(Storing(conn[c])))
    BY <1>4, <2>2 DEF Balanced, Booked, Counters, Is
  <2> HIDE DEF s
  <2> QED BY <1>1, <1>3, <2>1, <2>3, BookedStep DEF Counters
<1>7. CASE SendHit(c, q)
  <2>1. PICK d \in Data : conn' = [conn EXCEPT ![c] =
            [s EXCEPT !.hook = "replay", !.recorded = d, !.pos = 0, !.key = q]]
    BY <1>7 DEF SendHit, Update
  <2> DEFINE r == [s EXCEPT !.hook = "replay", !.recorded = d, !.pos = 0, !.key = q]
             E == {"should_cache", "found"}
  <2>2. Count(E) /\ q \in Cacheable
    BY <1>5, <1>7 DEF SendHit, Classified
  <2> HIDE DEF s
  <2>3. r.state = "sent" /\ r.hook = "replay" /\ r.pos \in 0..2 /\ (r.active <=> q \in Cacheable)
    BY <1>2 DEF ConnectionData
  <2>4. conn' = [conn EXCEPT ![c] = r]
    BY <2>1
  <2> HIDE DEF r
  <2>5. Waiting(r) /\ Replaying(r) /\ ~Storing(r)
    BY <2>2, <2>3 DEF Waiting, Replaying, Storing
  <2>6. Balanced(Booked(E), Is(Waiting(r)) - Is(Waiting(conn[c])),
                            Is(Replaying(r)) - Is(Replaying(conn[c])),
                            Is(Storing(r)) - Is(Storing(conn[c])))
    BY <1>4, <2>5 DEF Balanced, Booked, Counters, Is
  <2> QED BY <1>1, <2>2, <2>3, <2>4, <2>6, BookedStep DEF Counters
<1>8. CASE SendMiss(c, q)
  <2>1. PICK d : conn' = [conn EXCEPT ![c] =
            [s EXCEPT !.hook = "record", !.recorded = d, !.key = q]]
    BY <1>8 DEF SendMiss, Update
  <2> DEFINE r == [s EXCEPT !.hook = "record", !.recorded = d, !.key = q]
             E == {"should_cache"}
  <2>2. Count(E) /\ q \in Cacheable
    BY <1>5, <1>8 DEF SendMiss, Classified
  <2> HIDE DEF s
  <2>3. /\ r.state = "sent" /\ r.hook = "record" /\ r.pos = conn[c].pos
        /\ (r.active <=> q \in Cacheable)
    BY <1>2, <1>3 DEF ConnectionData
  <2>4. conn' = [conn EXCEPT ![c] = r]
    BY <2>1
  <2> HIDE DEF r
  <2>5. Waiting(r) /\ ~Replaying(r) /\ ~Storing(r)
    BY <2>2, <2>3 DEF Waiting, Replaying, Storing
  <2>6. Balanced(Booked(E), Is(Waiting(r)) - Is(Waiting(conn[c])),
                            Is(Replaying(r)) - Is(Replaying(conn[c])),
                            Is(Storing(r)) - Is(Storing(conn[c])))
    BY <1>4, <2>5 DEF Balanced, Booked, Counters, Is
  <2> QED BY <1>1, <2>2, <2>3, <2>4, <2>6, BookedStep DEF Counters
<1> QED BY <1>6, <1>7, <1>8

LEMMA ReapBooks ==
    ASSUME OrderlyInv, Orderly, Ledger, NEW c \in Conns, ReapResultSet(c) \/ ReapNoResult(c)
    PROVE  Ledger'
<1>1. /\ conn[c].state = "sent" /\ conn[c] \in ConnectionData /\ conn[c].hook \in Hooks
      /\ conn[c].pos \in 0..2 /\ (conn[c].hook = "original" <=> conn[c].recorded = None)
      /\ clock' = clock
  BY ConnIs DEF ReapResultSet, ReapNoResult, OrderlyInv, Ledger, environment
<1>2. /\ conn[c].active <=> conn[c].hook # "original"
      /\ conn[c].hook = "replay" => conn[c].pos = 0
  BY <1>1, ConnIs DEF OrderlyInv, Plain, Hooked
<1>3. /\ Waiting(conn[c]) <=> conn[c].hook # "original"
      /\ ~Storing(conn[c])
  BY <1>1, <1>2 DEF Waiting, Storing
<1>4. ASSUME NEW st \in {"fetching", "ready"}, NEW r,
             r = [ConnAfterReceive(c) EXCEPT !.state = st]
      PROVE  /\ r \in ConnectionData /\ r.state = st /\ r.hook = conn[c].hook
             /\ r.pos \in 0..2 /\ r.active = conn[c].active
  BY <1>1, <1>2, <1>4 DEF ConnAfterReceive, ConnectionData, States
<1>5. CASE ReapResultSet(c)
  <2> DEFINE r == [ConnAfterReceive(c) EXCEPT !.state = "fetching"]
             E == IF conn[c].hook # "original" THEN {"could_cache"} ELSE {}
  <2>1. conn' = [conn EXCEPT ![c] = r] /\ Count(E)
    BY <1>2, <1>5 DEF ReapResultSet, Update
  <2>2. r.state = "fetching" /\ r.hook = conn[c].hook /\ r.pos \in 0..2
    BY <1>4
  <2> HIDE DEF r
  <2>3. /\ ~Waiting(r) /\ (Replaying(r) <=> Replaying(conn[c]))
        /\ Storing(r) <=> conn[c].hook # "original"
    BY <2>2 DEF Waiting, Replaying, Storing
  <2>4. Balanced(Booked(E), Is(Waiting(r)) - Is(Waiting(conn[c])),
                            Is(Replaying(r)) - Is(Replaying(conn[c])),
                            Is(Storing(r)) - Is(Storing(conn[c])))
    BY <1>3, <2>3 DEF Balanced, Booked, Counters, Is
  <2> QED BY <1>1, <2>1, <2>2, <2>4, BookedStep DEF Counters
<1>6. CASE ReapNoResult(c)
  <2> DEFINE s == [ConnAfterReceive(c) EXCEPT !.state = "ready"]
             r == IF conn[c].active THEN Unhooked(s) ELSE s
             E == IF conn[c].hook # "original" THEN {"other"} ELSE {}
  <2>1. conn' = [conn EXCEPT ![c] = r] /\ Count(E)
    BY <1>2, <1>6 DEF ReapNoResult, GiveUpRecording, Update
  <2>2. conn[c].hook # "replay"
    <3> SUFFICES ASSUME conn[c].hook = "replay" PROVE FALSE
      OBVIOUS
    <3>1. NextPart(c) = <<conn[c].key, 1>> /\ conn[c].key \in ResultSets
      BY <1>1, NextFromCache DEF OrderlyInv
    <3> QED BY <1>6, <3>1 DEF ReapNoResult, HasFields
  <2>3. s \in ConnectionData /\ s.state = "ready" /\ s.hook = conn[c].hook /\ s.pos \in 0..2
    BY <1>4
  <2> HIDE DEF s
  <2>4. r.state = "ready" /\ r.hook = "original" /\ r.pos \in 0..2
    BY <1>2, <2>3 DEF Unhooked, ConnectionData
  <2> HIDE DEF r
  <2>5. ~Waiting(r) /\ ~Replaying(r) /\ ~Storing(r) /\ ~Replaying(conn[c])
    BY <2>2, <2>4 DEF Waiting, Replaying, Storing
  <2>6. Balanced(Booked(E), Is(Waiting(r)) - Is(Waiting(conn[c])),
                            Is(Replaying(r)) - Is(Replaying(conn[c])),
                            Is(Storing(r)) - Is(Storing(conn[c])))
    BY <1>3, <2>5 DEF Balanced, Booked, Counters, Is
  <2> QED BY <1>1, <2>1, <2>4, <2>6, BookedStep DEF Counters
<1> QED BY <1>5, <1>6

\* The connection after store_result.
LEMMA AfterStore ==
    ASSUME OrderlyInv, Ledger, NEW c \in Conns, conn[c].state = "fetching"
    PROVE  /\ RowsRead(c).hook = conn[c].hook /\ Finished(c).hook = "original"
           /\ RowsRead(c).pos \in 0..2 /\ Finished(c).pos \in 0..2
           /\ ~Waiting(RowsRead(c)) /\ ~Waiting(Finished(c))
<1>1. AfterRows(c) \in {"more", "ready"} /\ AfterRows(c) \in States
  BY DEF AfterRows, States
<1>2. conn[c] \in ConnectionData /\ conn[c].pos \in 0..2 /\ (conn[c].hook = "replay" => conn[c].pos = 1)
  BY ConnIs DEF OrderlyInv, Ledger, Hooked
<1>3. /\ RowsRead(c).hook = conn[c].hook /\ RowsRead(c).state = AfterRows(c)
      /\ Finished(c).hook = "original" /\ Finished(c).state = AfterRows(c)
  BY <1>1, RowsFields, FinishedFields DEF OrderlyInv, TableInv
<1>4. RowsRead(c).pos \in 0..2 /\ Finished(c).pos = RowsRead(c).pos
  BY <1>1, <1>2 DEF RowsRead, Finished, Unhooked, ConnAfterReceive, ConnectionData
<1> QED BY <1>1, <1>3, <1>4 DEF Waiting

LEMMA StoreBooks ==
    ASSUME OrderlyInv, Orderly, Ledger, NEW c \in Conns, StoreResult(c)
    PROVE  Ledger'
<1> DEFINE r == Finished(c)
<1>1. StoreInactive(c) \/ StoreUnhooked(c) \/ StoreReplayed(c)
        \/ StoreNoTable(c) \/ StoreAdded(c) \/ StoreRefused(c)
  BY Disabled DEF OrderlyInv, StoreResult
<1>2. conn[c].state = "fetching" /\ clock' = clock
  BY <1>1 DEF StoreInactive, StoreUnhooked, StoreReplayed, StoreNoTable, StoreAdded, StoreRefused,
              StoreRecorded, MayStore, environment
<1>3. /\ RowsRead(c).hook = conn[c].hook /\ r.hook = "original"
      /\ RowsRead(c).pos \in 0..2 /\ r.pos \in 0..2
      /\ ~Waiting(RowsRead(c)) /\ ~Waiting(r)
  BY <1>2, AfterStore
<1> HIDE DEF r
<1>4. CASE StoreInactive(c) \/ StoreUnhooked(c)
  <2>1. conn[c].hook = "original"
    BY <1>2, <1>4, ConnIs DEF OrderlyInv, Hooked, StoreInactive, StoreUnhooked
  <2>2. /\ stat' = stat
        /\ conn' = [conn EXCEPT ![c] = RowsRead(c)] \/ conn' = [conn EXCEPT ![c] = r]
    BY <1>4 DEF StoreInactive, StoreUnhooked, Update, r
  <2> QED BY <1>2, <1>3, <2>1, <2>2, QuietStep
<1>5. ~Waiting(conn[c]) /\ ~Replaying(r) /\ ~Storing(r)
  BY <1>2, <1>3 DEF Waiting, Replaying, Storing
<1>6. CASE StoreReplayed(c)
  <2>1. conn[c].hook = "replay" /\ conn' = [conn EXCEPT ![c] = r] /\ Count({"hit"})
    BY <1>6 DEF StoreReplayed, Update, r
  <2>2. Replaying(conn[c]) /\ Storing(conn[c])
    BY <1>2, <2>1 DEF Replaying, Storing
  <2>3. Balanced(Booked({"hit"}), Is(Waiting(r)) - Is(Waiting(conn[c])),
                                  Is(Replaying(r)) - Is(Replaying(conn[c])),
                                  Is(Storing(r)) - Is(Storing(conn[c])))
    BY <1>3, <1>5, <2>2 DEF Balanced, Booked, Counters, Is
  <2> QED BY <1>2, <1>3, <2>1, <2>3, BookedStep DEF Counters
<1>7. CASE StoreNoTable(c) \/ StoreAdded(c)
  <2>1. /\ conn[c].hook = "record" /\ conn' = [conn EXCEPT ![c] = r]
        /\ Count({"miss", "no_table"}) \/ Count({"miss", "put"})
    BY <1>7 DEF StoreNoTable, StoreAdded, StoreRecorded, Update, r
  <2>2. ~Replaying(conn[c]) /\ Storing(conn[c])
    BY <1>2, <2>1 DEF Replaying, Storing
  <2>3. ASSUME NEW x \in {"no_table", "put"}
        PROVE  Balanced(Booked({"miss", x}), Is(Waiting(r)) - Is(Waiting(conn[c])),
                                             Is(Replaying(r)) - Is(Replaying(conn[c])),
                                             Is(Storing(r)) - Is(Storing(conn[c])))
    BY <1>3, <1>5, <2>2 DEF Balanced, Booked, Counters, Is
  <2> QED BY <1>2, <1>3, <2>1, <2>3, BookedStep DEF Counters
<1>8. CASE StoreRefused(c)
  <2> DEFINE n == [s \in Counters |-> IF s = "hit" THEN 2 ELSE 0]
  <2>1. conn[c].hook = "record" /\ conn' = [conn EXCEPT ![c] = r] /\ CountRefused
    BY <1>8 DEF StoreRefused, StoreRecorded, Update, r
  <2>2. ~Replaying(conn[c]) /\ Storing(conn[c])
    BY <1>2, <2>1 DEF Replaying, Storing
  <2>3. n \in [Counters -> Nat] /\ stat' = [s \in Counters |-> stat[s] + n[s]]
    <3>1. stat \in [Counters -> Nat] /\ "hit" \in Counters
      BY DEF Ledger, Counters
    <3>2. stat' = [stat EXCEPT !["hit"] = @ + 2]
      <4>1. stat["hit"] \in Nat /\ \A i \in Nat : i + 1 + 1 = i + 2
        BY <3>1
      <4>2. stat["hit"] + 1 + 1 = stat["hit"] + 2
        BY <4>1
      <4> QED BY <2>1, <4>2 DEF CountRefused
    <3>3. \A s \in Counters : stat'[s] = stat[s] + n[s]
      BY <3>1, <3>2
    <3>4. n \in [Counters -> Nat]
      OBVIOUS
    <3> HIDE DEF n
    <3> QED BY <3>1, <3>2, <3>3, <3>4
  <2>4. Balanced(n, Is(Waiting(r)) - Is(Waiting(conn[c])),
                    Is(Replaying(r)) - Is(Replaying(conn[c])),
                    Is(Storing(r)) - Is(Storing(conn[c])))
    BY <1>3, <1>5, <2>2 DEF Balanced, Counters, Is
  <2> HIDE DEF n
  <2> QED BY <1>2, <1>3, <2>1, <2>3, <2>4, LedgerStep
<1> QED BY <1>1, <1>4, <1>6, <1>7, <1>8

LEMMA OtherBooks ==
    ASSUME OrderlyInv, Orderly, Ledger, NEW c \in Conns, NextResult(c) \/ Close(c) \/ Connect(c)
    PROVE  Ledger'
<1>1. stat' = stat /\ clock' = clock /\ conn[c] \in ConnectionData /\ conn[c].pos \in 0..2
  BY ConnIs DEF NextResult, Close, Connect, environment, OrderlyInv, Ledger
<1>2. conn[c].hook = "original"
  <2>1. conn[c].state \in {"more", "ready", "gone", "closed"}
    BY DEF NextResult, Close, Connect, Orderly
  <2> QED BY <2>1, ConnIs DEF OrderlyInv, Hooked
<1>3. CASE NextResult(c)
  <2> DEFINE r == [ConnAfterReceive(c) EXCEPT !.state = "fetching"]
  <2>1. conn' = [conn EXCEPT ![c] = r]
    BY <1>3 DEF NextResult, Update
  <2>2. r.hook = "original" /\ r.state = "fetching" /\ r.pos \in 0..2
    BY <1>1, <1>2 DEF ConnAfterReceive, ConnectionData
  <2> HIDE DEF r
  <2> QED BY <1>1, <1>2, <2>1, <2>2, QuietStep DEF Waiting
<1>4. CASE Close(c) \/ Connect(c)
  <2>1. PICK r \in {Closed, Connected} : conn' = [conn EXCEPT ![c] = r]
    BY <1>4 DEF Close, Connect, Update
  <2>2. r.hook = "original" /\ r.state \in {"closed", "ready"} /\ r.pos \in 0..2
    BY DEF Closed, Connected
  <2> QED BY <1>1, <1>2, <2>1, <2>2, QuietStep DEF Waiting
<1> QED BY <1>3, <1>4

LEMMA LedgerKept == OrderlyInv /\ Orderly /\ Ledger /\ [Next]_vars => Ledger'
<1> SUFFICES ASSUME OrderlyInv, Orderly, Ledger, [Next]_vars PROVE Ledger'
  OBVIOUS
<1>1. ASSUME UNCHANGED <<conn, stat>>, clock' <= MaxClock
      PROVE  Ledger'
  BY <1>1 DEF Ledger, Balanced, WaitingNow, ReplayingNow, StoringNow, Waiting, Replaying, Storing
<1>2. CASE UNCHANGED vars
  BY <1>1, <1>2 DEF vars, environment, Ledger
<1>3. CASE Tick
  <2>1. clock' <= MaxClock
    BY <1>3, ConnectionAssumption DEF Tick, ConnectionAssumption, OrderlyInv, TableInv, WireInv, TypesOK
  <2> QED BY <1>1, <1>3, <2>1 DEF Tick
<1>4. ASSUME NEW c \in Conns, NEW q \in Keys, SendQuery(c, q)
      PROVE  Ledger'
  BY <1>4, SendBooks, Disabled DEF OrderlyInv, SendQuery
<1>5. ASSUME NEW c \in Conns, ReapQuery(c)
      PROVE  Ledger'
  BY <1>5, ReapBooks, Disabled DEF OrderlyInv, ReapQuery
<1>6. ~SetCacheCondition
  BY DEF SetCacheCondition, Orderly
<1> QED BY <1>2, <1>3, <1>4, <1>5, <1>6, StoreBooks, OtherBooks, Disabled DEF OrderlyInv, Next

LEMMA LedgerInit == Orderly /\ Init => Ledger
<1> SUFFICES ASSUME Orderly, Init PROVE Ledger
  OBVIOUS
<1>1. \A c \in Conns : conn[c].state = "ready" /\ conn[c].hook = "original" /\ conn[c].pos = 0
  BY DEF Init, Connected, Closed
<1>2. WaitingNow = {} /\ ReplayingNow = {} /\ StoringNow = {}
  BY <1>1 DEF WaitingNow, ReplayingNow, StoringNow, Waiting, Replaying, Storing
<1>3. \A s \in Counters : stat[s] = 0
  BY DEF Init
<1>4. Cardinality(WaitingNow) = 0 /\ Cardinality(ReplayingNow) = 0 /\ Cardinality(StoringNow) = 0
  BY <1>2, FS_EmptySet
<1>5. Balanced(stat, 0, 0, 0)
  BY <1>3 DEF Balanced, Counters
<1>6. stat \in [Counters -> Nat] /\ clock <= MaxClock /\ \A c \in Conns : conn[c].pos \in 0..2
  BY <1>1, ConnectionAssumption DEF Init, ConnectionAssumption
<1> QED BY <1>4, <1>5, <1>6 DEF Ledger

LEMMA LedgerAlways == Orderly => (Spec => []Ledger)
<1> SUFFICES ASSUME Orderly PROVE Spec => []Ledger
  OBVIOUS
<1>1. Init => Ledger
  BY LedgerInit
<1>2. OrderlyInv /\ Ledger /\ [Next]_vars => Ledger'
  BY LedgerKept
<1> QED BY <1>1, <1>2, OrderlyConsistent, PTL DEF Spec

\* Once no statement is on its way every statement that was counted is counted
\* under one outcome.
THEOREM StatisticsAddUp == Orderly => (Spec => []OutcomesAddUp)
<1> SUFFICES ASSUME Orderly PROVE Spec => []OutcomesAddUp
  OBVIOUS
<1>1. OrderlyInv /\ Ledger => OutcomesAddUp
  <2> SUFFICES ASSUME OrderlyInv, Ledger, Quiet PROVE OutcomesAddUp
    BY DEF OutcomesAddUp
  <2>1. WaitingNow = {} /\ ReplayingNow = {} /\ StoringNow = {}
    BY ConnIs DEF Quiet, OrderlyInv, Hooked, WaitingNow, ReplayingNow, StoringNow,
                  Waiting, Replaying, Storing
  <2>2. Balanced(stat, 0, 0, 0)
    BY <2>1, FS_EmptySet DEF Ledger
  <2>3. \A s \in Counters : stat[s] \in Nat
    BY DEF Ledger
  <2> QED BY <2>2, <2>3 DEF OutcomesAddUp, Balanced, Counters
<1> QED BY <1>1, OrderlyConsistent, LedgerAlways, PTL

\* Types; and recorded_data is set exactly as long as the functions are swapped.
THEOREM OrderlyTypes == Orderly => (Spec => []TypeOK)
<1> SUFFICES ASSUME Orderly PROVE Spec => []TypeOK
  OBVIOUS
<1>1. OrderlyInv /\ Ledger => TypeOK
  <2> SUFFICES ASSUME OrderlyInv, Ledger PROVE TypeOK
    OBVIOUS
  <2>1. \A c \in Conns : conn[c] \in Connection
    BY ConnIs DEF OrderlyInv, Ledger, ConnectionData, Connection
  <2>2. conn \in [Conns -> Connection]
    BY <2>1 DEF OrderlyInv, TableInv, WireInv, TypesOK
  <2>3. clock \in 0..MaxClock
    BY ConnectionAssumption DEF ConnectionAssumption, OrderlyInv, TableInv, WireInv, TypesOK, Ledger
  <2> QED BY <2>2, <2>3, ConnIs DEF TypeOK, OrderlyInv, TableInv, WireInv, TypesOK, Ledger
<1> QED BY <1>1, OrderlyConsistent, LedgerAlways, PTL

=============================================================================
