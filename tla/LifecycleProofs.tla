---------------------------- MODULE LifecycleProofs ----------------------------
(***************************************************************************)
(* What the plugin keeps of a script, for any callbacks, objects and       *)
(* number of requests: the reference counts are exact, and nothing but     *)
(* what the properties of Lifecycle name loses data or stops the process.  *)
(***************************************************************************)
EXTENDS Lifecycle, Integers, TLAPS

Memory ==
    [handler : Handlers, std_data_copy : BOOLEAN,
     names : Callbacks \cup {None}, query_is_select : Callbacks \cup {None},
     handler_object : Objects \cup {None}, new_handler_object : Objects \cup {None},
     memc : BOOLEAN, refcount : [Values -> Int]]

History ==
    [failed : BOOLEAN, ever : BOOLEAN, nop : BOOLEAN, memcache : BOOLEAN,
     switched : BOOLEAN, select : Nat]

TypeOK ==
    /\ mem \in Memory
    /\ request \in Nat \ {0} /\ running \in BOOLEAN
    /\ held \subseteq Values
    /\ past \in History /\ past.select <= request

\* A handler has what it works with, and another one has not.
HasItsOwn(m) ==
    /\ m.handler = "user" => m.names # None
    /\ m.handler_object # None => m.handler = "object"
    /\ m.handler = "memcache" => m.memc

\* The references to a callback, and to an object.
CountsCallback(c) ==
    mem.refcount[c] = Bit(c \in held) + Bit(mem.handler = "user" /\ mem.names = c)
        + Bit(running /\ mem.query_is_select = c /\ past.select = request)

CountsObject(o) == mem.refcount[o] = Bit(o \in held) + Bit(mem.handler_object = o)

Counts ==
    /\ ~past.failed => \A c \in Callbacks : CountsCallback(c)
    /\ \A o \in Objects : CountsObject(o)

\* The callback an earlier request has left is dead, and stays so: its memory is
\* not used again as long as the plugin points to it.
LeftIsDead ==
    running /\ past.select < request =>
        \A c \in Callbacks : mem.query_is_select = c =>
            mem.refcount[c] = 0 /\ c \notin held /\ mem.names # c

\* What only a refused change or a choice of the script leads to.
UnlessFailed ==
    /\ ~past.failed => /\ mem.names # None => mem.handler = "user"
                       /\ mem.handler = "nop" => past.nop
    /\ ~past.ever => /\ mem.new_handler_object = None
                     /\ mem.handler = "object" => mem.handler_object # None
    /\ mem.handler = "memcache" => past.memcache

\* The object that is started is the one that is kept.
KeepsStarted == running => started = {mem.handler_object} \ {None}

\* What a connection has in hand is the current handler's, unless it was changed.
OwnData ==
    ~past.switched =>
        /\ statement = "shared" => mem.handler = "default" /\ ~mem.std_data_copy
        /\ statement = "copy" =>
              /\ mem.handler # "nop"
              /\ mem.handler = "default" => mem.std_data_copy
              /\ mem.handler = "object" => mem.handler_object # None

NotShared == mem.std_data_copy => statement # "shared"

\* Between two requests there is nothing of the script.
AtRest ==
    ~running => /\ fault = "none" /\ statement = "none"
                /\ mem.handler = "default"

IInv ==
    /\ TypeOK /\ HasItsOwn(mem)
    /\ Counts /\ LeftIsDead /\ UnlessFailed
    /\ KeepsStarted /\ OwnData /\ NotShared /\ AtRest
    /\ SafeUnlessMisused /\ DataComesBack

-----------------------------------------------------------------------------
(***************************************************************************)
(* What the functions of the memory do                                     *)
(***************************************************************************)

\* n differs from m in reference counts only.
SameButCounts(n, m) ==
    /\ n.handler = m.handler /\ n.std_data_copy = m.std_data_copy
    /\ n.names = m.names /\ n.query_is_select = m.query_is_select
    /\ n.handler_object = m.handler_object
    /\ n.new_handler_object = m.new_handler_object /\ n.memc = m.memc

LEMMA AddRefIs ==
    ASSUME NEW m \in Memory, NEW v \in Values
    PROVE  /\ AddRef(m, v) \in Memory /\ SameButCounts(AddRef(m, v), m)
           /\ \A w \in Values : AddRef(m, v).refcount[w] = m.refcount[w] + Bit(v = w)
BY DEF AddRef, Memory, SameButCounts, Bit

LEMMA PtrDtorIs ==
    ASSUME NEW m \in Memory, NEW v \in Values
    PROVE  /\ PtrDtor(m, v) \in Memory /\ SameButCounts(PtrDtor(m, v), m)
           /\ \A w \in Values : PtrDtor(m, v).refcount[w] = m.refcount[w] - Bit(v = w)
BY DEF PtrDtor, Memory, SameButCounts, Bit

LEMMA Disjoint ==
    /\ None \notin Values
    /\ \A c \in Callbacks : c \in Values /\ c \notin Objects /\ c # None
    /\ \A o \in Objects : o \in Values /\ o \notin Callbacks /\ o # None
BY LifecycleAssumption DEF LifecycleAssumption, Values

LEMMA ShutdownIs ==
    ASSUME NEW m \in Memory, HasItsOwn(m), NEW s, s = ChangeShutdown(m)
    PROVE  /\ s \in Memory
           /\ s.handler = m.handler /\ s.std_data_copy = m.std_data_copy
           /\ s.query_is_select = m.query_is_select
           /\ s.new_handler_object = m.new_handler_object
           /\ s.handler_object = None
           /\ s.names = IF m.handler = "user" THEN None ELSE m.names
           /\ m.handler # "memcache" => s.memc = m.memc
           /\ \A c \in Callbacks :
                 s.refcount[c] = m.refcount[c] - Bit(m.handler = "user" /\ m.names = c)
           /\ \A o \in Objects : s.refcount[o] = m.refcount[o] - Bit(m.handler_object = o)
<1>1. m.handler = "user" => m.names \in Callbacks /\ m.handler_object = None
  BY DEF HasItsOwn, Memory
<1>2. m.handler_object \in Objects \cup {None}
  BY DEF Memory
<1>3. CASE m.handler = "user"
  <2>1. s = [PtrDtor(m, m.names) EXCEPT !.names = None]
    BY <1>3 DEF ChangeShutdown
  <2>2. PtrDtor(m, m.names) \in Memory /\ SameButCounts(PtrDtor(m, m.names), m)
    BY <1>1, <1>3, Disjoint, PtrDtorIs
  <2>3. s \in Memory /\ s.names = None /\ s.refcount = PtrDtor(m, m.names).refcount
        /\ s.handler = m.handler /\ s.std_data_copy = m.std_data_copy
        /\ s.query_is_select = m.query_is_select
        /\ s.new_handler_object = m.new_handler_object
        /\ s.handler_object = None /\ s.memc = m.memc
    BY <1>1, <1>3, <2>1, <2>2 DEF Memory, SameButCounts
  <2>4. \A c \in Values : s.refcount[c] = m.refcount[c] - Bit(m.names = c)
    BY <1>1, <1>3, <2>3, Disjoint, PtrDtorIs
  <2>5. \A o \in Objects : s.refcount[o] = m.refcount[o]
    BY <1>1, <1>3, <2>4, Disjoint DEF Bit, Memory
  <2>6. \A o \in Objects : Bit(m.handler_object = o) = 0
    BY <1>1, <1>3, Disjoint DEF Bit
  <2>7. \A o \in Objects : m.refcount[o] \in Int
    BY Disjoint DEF Memory
  <2> QED BY <1>3, <2>3, <2>4, <2>5, <2>6, <2>7, Disjoint
<1>4. CASE m.handler = "object" /\ m.handler_object # None
  <2>1. s = [PtrDtor(m, m.handler_object) EXCEPT !.handler_object = None]
    BY <1>4 DEF ChangeShutdown
  <2>2. PtrDtor(m, m.handler_object) \in Memory
    BY <1>2, <1>4, Disjoint, PtrDtorIs
  <2>3. s \in Memory /\ s.names = m.names
        /\ s.refcount = PtrDtor(m, m.handler_object).refcount
        /\ s.handler = m.handler /\ s.std_data_copy = m.std_data_copy
        /\ s.query_is_select = m.query_is_select
        /\ s.new_handler_object = m.new_handler_object
        /\ s.handler_object = None /\ s.memc = m.memc
    BY <1>2, <1>4, <2>1, <2>2, PtrDtorIs, Disjoint DEF Memory, SameButCounts
  <2>4. \A c \in Values : s.refcount[c] = m.refcount[c] - Bit(m.handler_object = c)
    BY <1>2, <1>4, <2>3, Disjoint, PtrDtorIs
  <2>5. \A c \in Callbacks : s.refcount[c] = m.refcount[c] - 0
    BY <1>2, <2>4, Disjoint DEF Bit
  <2> QED BY <1>4, <2>3, <2>4, <2>5, Disjoint DEF Bit
<1>5. CASE m.handler # "user" /\ m.handler_object = None
  <2>1. s = m \/ (m.handler = "memcache" /\ s = [m EXCEPT !.memc = FALSE])
    BY <1>5 DEF ChangeShutdown
  <2>2. s \in Memory /\ s.names = m.names /\ s.refcount = m.refcount
        /\ s.handler = m.handler /\ s.std_data_copy = m.std_data_copy
        /\ s.query_is_select = m.query_is_select
        /\ s.new_handler_object = m.new_handler_object
        /\ s.handler_object = None /\ (m.handler # "memcache" => s.memc = m.memc)
    BY <1>5, <2>1 DEF Memory
  <2>3. \A v \in Values : m.refcount[v] - 0 = m.refcount[v]
    BY DEF Memory
  <2> QED BY <1>5, <2>2, <2>3, Disjoint DEF Bit
<1> QED BY <1>2, <1>3, <1>4, <1>5 DEF HasItsOwn

LEMMA InitIs ==
    ASSUME NEW m \in Memory, NEW to \in Handlers, NEW n, n = ChangeInit(m, to),
           to = "user" => m.names # None, to = "object" => m.new_handler_object # None
    PROVE  /\ n \in Memory
           /\ n.handler = m.handler /\ n.std_data_copy = m.std_data_copy
           /\ n.query_is_select = m.query_is_select /\ n.names = m.names
           /\ n.new_handler_object = IF to = "object" THEN None ELSE m.new_handler_object
           /\ n.handler_object = IF to = "object" THEN m.new_handler_object ELSE m.handler_object
           /\ n.memc = (to = "memcache" \/ m.memc)
           /\ \A c \in Callbacks :
                 n.refcount[c] = m.refcount[c] + Bit(to = "user" /\ m.names = c)
           /\ \A o \in Objects :
                 n.refcount[o] = m.refcount[o] + Bit(to = "object" /\ m.new_handler_object = o)
<1>0. \A v \in Values : m.refcount[v] + 0 = m.refcount[v]
  BY DEF Memory
<1>1. CASE to = "user"
  <2>1. n = AddRef(m, m.names) /\ m.names \in Callbacks
    BY <1>1 DEF ChangeInit, Memory
  <2>2. /\ n \in Memory /\ SameButCounts(n, m)
        /\ \A w \in Values : n.refcount[w] = m.refcount[w] + Bit(m.names = w)
    BY <2>1, Disjoint, AddRefIs
  <2>3. \A o \in Objects : n.refcount[o] = m.refcount[o] + 0
    BY <2>1, <2>2, Disjoint DEF Bit
  <2> QED BY <1>1, <2>2, <2>3, Disjoint DEF SameButCounts, Bit, Memory
<1>2. CASE to = "object"
  <2>1. m.new_handler_object \in Objects
    BY <1>2 DEF Memory
  <2>2. n = [AddRef(m, m.new_handler_object) EXCEPT
               !.handler_object = m.new_handler_object, !.new_handler_object = None]
    BY <1>2 DEF ChangeInit
  <2>3. /\ AddRef(m, m.new_handler_object) \in Memory
        /\ SameButCounts(AddRef(m, m.new_handler_object), m)
        /\ \A w \in Values : AddRef(m, m.new_handler_object).refcount[w]
                            = m.refcount[w] + Bit(m.new_handler_object = w)
    BY <2>1, Disjoint, AddRefIs
  <2>4. /\ n \in Memory /\ n.refcount = AddRef(m, m.new_handler_object).refcount
        /\ n.handler = m.handler /\ n.std_data_copy = m.std_data_copy
        /\ n.query_is_select = m.query_is_select /\ n.names = m.names
        /\ n.new_handler_object = None
        /\ n.handler_object = m.new_handler_object /\ n.memc = m.memc
    BY <2>1, <2>2, <2>3 DEF Memory, SameButCounts
  <2>5. \A c \in Callbacks : n.refcount[c] = m.refcount[c] + 0
    BY <2>1, <2>3, <2>4, Disjoint DEF Bit
  <2> QED BY <1>2, <2>3, <2>4, <2>5, Disjoint DEF Bit, Memory
<1>3. CASE to \notin {"user", "object"}
  <2>1. n = m \/ (to = "memcache" /\ n = [m EXCEPT !.memc = TRUE])
    BY <1>3 DEF ChangeInit
  <2>2. to = "memcache" => n = [m EXCEPT !.memc = TRUE]
    BY DEF ChangeInit
  <2>3. /\ n \in Memory /\ n.refcount = m.refcount
        /\ n.handler = m.handler /\ n.std_data_copy = m.std_data_copy
        /\ n.query_is_select = m.query_is_select /\ n.names = m.names
        /\ n.new_handler_object = m.new_handler_object
        /\ n.handler_object = m.handler_object
        /\ n.memc = (to = "memcache" \/ m.memc)
    BY <2>1, <2>2 DEF Memory
  <2> QED BY <1>0, <1>3, <2>3, Disjoint DEF Bit
<1> QED BY <1>1, <1>2, <1>3

-----------------------------------------------------------------------------
(***************************************************************************)
(* Changes of the handler                                                  *)
(***************************************************************************)

\* The memory m a function of the script makes of mem before it asks for the
\* handler to.
Prepared(m, to) ==
    /\ m \in Memory
    /\ m.handler = mem.handler /\ m.std_data_copy = mem.std_data_copy
    /\ m.query_is_select = mem.query_is_select
    /\ m.handler_object = mem.handler_object /\ m.memc = mem.memc
    /\ to = "user" => m.names \in held \cap Callbacks
    /\ to # "user" => m.names = mem.names
    /\ to # "object" => m.new_handler_object = mem.new_handler_object
    /\ \A c \in Callbacks : m.refcount[c] = mem.refcount[c] - Bit(to = "user" /\ mem.names = c)
    /\ \A o \in Objects : m.refcount[o] = mem.refcount[o]

\* What a change of the handler has done when it returns.
Changes(to) ==
    /\ mem' \in Memory /\ HasItsOwn(mem)'
    /\ mem'.std_data_copy = mem.std_data_copy
    /\ mem'.query_is_select = mem.query_is_select
    /\ \E failed \in BOOLEAN : Changed(failed, to)
    /\ ~past'.failed => \A c \in Callbacks :
          mem'.refcount[c] + Bit(mem.handler = "user" /\ mem.names = c)
            = mem.refcount[c] + Bit(mem'.handler = "user" /\ mem'.names = c)
    /\ \A o \in Objects : mem'.refcount[o] + Bit(mem.handler_object = o)
                         = mem.refcount[o] + Bit(mem'.handler_object = o)
    /\ \A c \in Callbacks : c \notin held /\ mem.names # c =>
          mem'.refcount[c] = mem.refcount[c] /\ mem'.names # c
    /\ UnlessFailed'
    /\ KeepsStarted'

LEMMA PreparedHasItsOwn ==
    ASSUME IInv, NEW to \in Handlers, NEW m, Prepared(m, to)
    PROVE  HasItsOwn(m) /\ m \in Memory
<1>1. to = "user" => m.names # None
  BY Disjoint DEF Prepared
<1> QED BY <1>1 DEF IInv, HasItsOwn, Prepared

\* The counts of the values are numbers, and those of a value the memory points to.
LEMMA MemIs ==
    ASSUME IInv
    PROVE  /\ mem \in Memory /\ HasItsOwn(mem) /\ past \in History
           /\ \A v \in Values : mem.refcount[v] \in Int
           /\ \A b \in BOOLEAN : Bit(b) \in {0, 1}
           /\ Bit(TRUE) = 1 /\ Bit(FALSE) = 0
BY DEF IInv, TypeOK, Memory, Bit

LEMMA HistoryIs ==
    ASSUME past \in History, NEW failed \in BOOLEAN, NEW to, Changed(failed, to)
    PROVE  /\ past' \in History
           /\ past'.failed = (past.failed \/ failed) /\ past'.ever = (past.ever \/ failed)
           /\ past'.nop = (past.nop \/ to = "nop")
           /\ past'.memcache = (past.memcache \/ to = "memcache")
           /\ past'.switched = (past.switched \/ statement # "none")
           /\ past'.select = past.select
BY DEF Changed, History

LEMMA RefreshChanges ==
    ASSUME IInv, running, running' = running, NEW to \in Handlers, NEW m, Prepared(m, to),
           Refresh(m, to)
    PROVE  Changes(to)
<1> DEFINE n == ChangeInit(m, to)
<1>1. /\ mem' = n /\ started' = started /\ Changed(FALSE, to)
      /\ to = mem.handler /\ to # "object" /\ to # "memcache"
  BY DEF Refresh, Prepared
<1>2. m \in Memory /\ HasItsOwn(m)
  BY PreparedHasItsOwn
<1>3. to = "user" => m.names \in held \cap Callbacks /\ m.names # None
  BY Disjoint DEF Prepared
<1>4. /\ n \in Memory
      /\ n.handler = m.handler /\ n.std_data_copy = m.std_data_copy
      /\ n.query_is_select = m.query_is_select /\ n.names = m.names
      /\ n.new_handler_object = m.new_handler_object
      /\ n.handler_object = m.handler_object /\ n.memc = m.memc
      /\ \A c \in Callbacks :
            n.refcount[c] = m.refcount[c] + Bit(to = "user" /\ m.names = c)
      /\ \A o \in Objects : n.refcount[o] =
            m.refcount[o] + Bit(to = "object" /\ m.new_handler_object = o)
  BY <1>1, <1>2, <1>3, InitIs DEF Memory
<1> HIDE DEF n
<1>5. /\ mem'.handler = mem.handler /\ mem'.std_data_copy = mem.std_data_copy
      /\ mem'.query_is_select = mem.query_is_select /\ mem'.memc = mem.memc
      /\ mem'.new_handler_object = mem.new_handler_object
      /\ mem'.handler_object = mem.handler_object
      /\ mem'.names = IF to = "user" THEN m.names ELSE mem.names
  BY <1>1, <1>4 DEF Prepared
<1>6. \A c \in Callbacks :
        /\ mem'.refcount[c] = mem.refcount[c] - Bit(to = "user" /\ mem.names = c)
                               + Bit(to = "user" /\ m.names = c)
        /\ mem.refcount[c] \in Int
  BY <1>1, <1>4, MemIs, Disjoint DEF Prepared
<1>7. \A o \in Objects : mem'.refcount[o] = mem.refcount[o]
  <2> TAKE o \in Objects
  <2>1. mem.refcount[o] \in Int /\ m.refcount[o] = mem.refcount[o]
    BY MemIs, Disjoint DEF Prepared
  <2> QED BY <1>1, <1>4, <2>1 DEF Bit
<1>8. mem' \in Memory /\ HasItsOwn(mem)'
  BY <1>1, <1>3, <1>4, <1>5, MemIs DEF HasItsOwn
<1>9. \A c \in Callbacks :
        mem'.refcount[c] + Bit(mem.handler = "user" /\ mem.names = c)
          = mem.refcount[c] + Bit(mem'.handler = "user" /\ mem'.names = c)
  <2> TAKE c \in Callbacks
  <2>1. CASE to = "user"
    BY <1>1, <1>5, <1>6, <2>1 DEF Bit
  <2>2. CASE to # "user"
    BY <1>1, <1>5, <1>6, <2>2 DEF Bit
  <2> QED BY <2>1, <2>2
<1>10. \A c \in Callbacks : c \notin held /\ mem.names # c =>
          mem'.refcount[c] = mem.refcount[c] /\ mem'.names # c
  BY <1>3, <1>5, <1>6 DEF Bit
<1>11. UnlessFailed'
  BY <1>1, <1>5, HistoryIs, MemIs DEF IInv, UnlessFailed
<1>12. KeepsStarted'
  BY <1>1, <1>5 DEF IInv, KeepsStarted
<1> QED BY <1>1, <1>5, <1>7, <1>8, <1>9, <1>10, <1>11, <1>12 DEF Changes

\* A refused change and one that does not start stop the old handler first.
LEMMA Stopped ==
    ASSUME IInv, NEW to \in Handlers, NEW m, Prepared(m, to), NEW s, s = ChangeShutdown(m)
    PROVE  /\ s \in Memory
           /\ s.handler = mem.handler /\ s.std_data_copy = mem.std_data_copy
           /\ s.query_is_select = mem.query_is_select
           /\ s.new_handler_object = m.new_handler_object
           /\ s.handler_object = None
           /\ s.names = IF mem.handler = "user" THEN None ELSE m.names
           /\ mem.handler # "memcache" => s.memc = mem.memc
           /\ to # "user" => \A c \in Callbacks : s.refcount[c] =
                 mem.refcount[c] - Bit(mem.handler = "user" /\ mem.names = c)
           /\ to = "user" /\ mem.handler # "user" => \A c \in Callbacks :
                 s.refcount[c] = mem.refcount[c] - Bit(mem.names = c)
           /\ \A o \in Objects :
                 s.refcount[o] = mem.refcount[o] - Bit(mem.handler_object = o)
<1>1. m \in Memory /\ HasItsOwn(m)
  BY PreparedHasItsOwn
<1>2. /\ s \in Memory
      /\ s.handler = m.handler /\ s.std_data_copy = m.std_data_copy
      /\ s.query_is_select = m.query_is_select
      /\ s.new_handler_object = m.new_handler_object
      /\ s.handler_object = None
      /\ s.names = IF m.handler = "user" THEN None ELSE m.names
      /\ m.handler # "memcache" => s.memc = m.memc
      /\ \A c \in Callbacks :
            s.refcount[c] = m.refcount[c] - Bit(m.handler = "user" /\ m.names = c)
      /\ \A o \in Objects : s.refcount[o] = m.refcount[o] - Bit(m.handler_object = o)
  BY <1>1, ShutdownIs
<1>3. /\ m.handler = mem.handler /\ m.std_data_copy = mem.std_data_copy
      /\ m.query_is_select = mem.query_is_select
      /\ m.handler_object = mem.handler_object /\ m.memc = mem.memc
      /\ to # "user" => m.names = mem.names
      /\ \A c \in Callbacks :
            m.refcount[c] = mem.refcount[c] - Bit(to = "user" /\ mem.names = c)
      /\ \A o \in Objects : m.refcount[o] = mem.refcount[o]
  BY DEF Prepared
<1>4. to # "user" => \A c \in Callbacks : s.refcount[c] =
        mem.refcount[c] - Bit(mem.handler = "user" /\ mem.names = c)
  <2> SUFFICES ASSUME to # "user", NEW c \in Callbacks
               PROVE  s.refcount[c] =
                        mem.refcount[c] - Bit(mem.handler = "user" /\ mem.names = c)
    OBVIOUS
  <2>1. m.refcount[c] = mem.refcount[c] - 0 /\ mem.refcount[c] \in Int
    BY <1>3, MemIs, Disjoint DEF Bit
  <2>2. s.refcount[c] = m.refcount[c] - Bit(mem.handler = "user" /\ mem.names = c)
    BY <1>2, <1>3
  <2> QED BY <2>1, <2>2
<1>5. to = "user" /\ mem.handler # "user" => \A c \in Callbacks :
        s.refcount[c] = mem.refcount[c] - Bit(mem.names = c)
  <2> SUFFICES ASSUME to = "user", mem.handler # "user", NEW c \in Callbacks
               PROVE  s.refcount[c] = mem.refcount[c] - Bit(mem.names = c)
    OBVIOUS
  <2>1. mem.refcount[c] \in Int
    BY MemIs, Disjoint
  <2>2. s.refcount[c] = m.refcount[c] - 0
    BY <1>2, <1>3 DEF Bit
  <2>3. m.refcount[c] = mem.refcount[c] - Bit(mem.names = c)
    BY <1>3
  <2> QED BY <2>1, <2>2, <2>3 DEF Bit
<1> QED BY <1>2, <1>3, <1>4, <1>5

\* What has stopped holds no reference any more, but to callbacks of the script.
LEMMA StoppedCounts ==
    ASSUME IInv, NEW to \in Handlers, NEW m, Prepared(m, to), Stops(m, to),
           NEW s, s = ChangeShutdown(m)
    PROVE  /\ \A o \in Objects : s.refcount[o] + Bit(mem.handler_object = o)
                                = mem.refcount[o] + 0
           /\ \A c \in Callbacks : c \notin held /\ mem.names # c =>
                 s.refcount[c] = mem.refcount[c] /\ s.names # c
<1>1. \A v \in Values : mem.refcount[v] \in Int
  BY MemIs
<1>2. \A o \in Objects : s.refcount[o] = mem.refcount[o] - Bit(mem.handler_object = o)
  BY Stopped
<1>3. \A o \in Objects : s.refcount[o] + Bit(mem.handler_object = o) = mem.refcount[o] + 0
  BY <1>1, <1>2, Disjoint DEF Bit
<1>4. \A c \in Callbacks : c \notin held /\ mem.names # c => s.names # c
  <2>1. s.names = IF mem.handler = "user" THEN None ELSE m.names
    BY Stopped
  <2>2. to = "user" => m.names \in held
    BY DEF Prepared
  <2>3. to # "user" => m.names = mem.names
    BY DEF Prepared
  <2> QED BY <2>1, <2>2, <2>3, Disjoint
<1>5. \A c \in Callbacks : mem.names # c => s.refcount[c] = mem.refcount[c]
  <2> SUFFICES ASSUME NEW c \in Callbacks, mem.names # c
               PROVE  s.refcount[c] = mem.refcount[c]
    OBVIOUS
  <2>1. CASE to # "user"
    <3>1. s.refcount[c] = mem.refcount[c] - 0
      BY <2>1, Stopped DEF Bit
    <3> QED BY <1>1, <3>1, Disjoint
  <2>2. CASE to = "user"
    <3>1. mem.handler # "user"
      BY <2>2 DEF Stops, Prepared
    <3>2. s.refcount[c] = mem.refcount[c] - 0
      BY <2>2, <3>1, Stopped DEF Bit
    <3> QED BY <1>1, <3>2, Disjoint
  <2> QED BY <2>1, <2>2
<1> QED BY <1>3, <1>4, <1>5

LEMMA RefuseChanges ==
    ASSUME IInv, running, running' = running, NEW to \in Handlers, NEW m, Prepared(m, to),
           Refuse(m, to)
    PROVE  Changes(to)
<1> DEFINE s == ChangeShutdown(m)
<1>1. /\ mem' = s /\ started' = started \ {m.handler_object} /\ Changed(TRUE, to)
      /\ Stops(m, to) /\ m.handler = "object"
  BY DEF Refuse
<1>2. /\ s \in Memory
      /\ s.handler = "object" /\ s.std_data_copy = mem.std_data_copy
      /\ s.query_is_select = mem.query_is_select
      /\ s.handler_object = None
  BY <1>1, Stopped DEF Prepared
<1>3. /\ \A o \in Objects : s.refcount[o] + Bit(mem.handler_object = o) = mem.refcount[o] + 0
      /\ \A c \in Callbacks : c \notin held /\ mem.names # c =>
            s.refcount[c] = mem.refcount[c] /\ s.names # c
  BY <1>1, StoppedCounts
<1> HIDE DEF s
<1>4. HasItsOwn(mem)'
  BY <1>1, <1>2 DEF HasItsOwn
<1>5. past'.failed /\ past'.ever
  BY <1>1, MemIs, HistoryIs
<1>6. UnlessFailed'
  BY <1>1, <1>2, <1>5 DEF UnlessFailed
<1>7. KeepsStarted'
  <2>1. started' = {}
    BY <1>1 DEF IInv, KeepsStarted, Prepared
  <2> QED BY <1>1, <1>2, <2>1 DEF KeepsStarted
<1>8. \A o \in Objects : Bit(mem'.handler_object = o) = 0
  BY <1>1, <1>2, Disjoint DEF Bit
<1> QED BY <1>1, <1>2, <1>3, <1>4, <1>5, <1>6, <1>7, <1>8 DEF Changes

LEMMA StartFailsChanges ==
    ASSUME IInv, running, running' = running, NEW to \in Handlers, NEW m, Prepared(m, to),
           StartFails(m, to)
    PROVE  Changes(to)
<1> DEFINE s == ChangeShutdown(m)
           n == InitFails(s, to)
<1>1. /\ mem' = [n EXCEPT !.handler = IF to = @ THEN @ ELSE "nop"]
      /\ started' = started \ {m.handler_object} /\ Changed(TRUE, to)
      /\ Stops(m, to) /\ to \in {"memcache", "object"}
  BY DEF StartFails
<1>2. /\ s \in Memory
      /\ s.handler = mem.handler /\ s.std_data_copy = mem.std_data_copy
      /\ s.query_is_select = mem.query_is_select
      /\ s.handler_object = None
  BY Stopped
<1>3. /\ \A o \in Objects : s.refcount[o] + Bit(mem.handler_object = o) = mem.refcount[o] + 0
      /\ \A c \in Callbacks : c \notin held /\ mem.names # c =>
            s.refcount[c] = mem.refcount[c] /\ s.names # c
  BY <1>1, StoppedCounts
<1> HIDE DEF s
<1>4. /\ n \in Memory /\ n.refcount = s.refcount /\ n.names = s.names
      /\ n.handler = mem.handler /\ n.std_data_copy = mem.std_data_copy
      /\ n.query_is_select = mem.query_is_select
      /\ n.handler_object = None
      /\ to = "memcache" => n.memc
  BY <1>2 DEF InitFails, Memory
<1> HIDE DEF n
<1>5. /\ mem' \in Memory /\ mem'.refcount = s.refcount /\ mem'.names = s.names
      /\ mem'.handler = IF to = mem.handler THEN to ELSE "nop"
      /\ mem'.std_data_copy = mem.std_data_copy
      /\ mem'.query_is_select = mem.query_is_select
      /\ mem'.handler_object = None
      /\ to = "memcache" => mem'.memc
  BY <1>1, <1>4 DEF Memory, Handlers
<1>6. HasItsOwn(mem)'
  BY <1>1, <1>5 DEF HasItsOwn
<1>7. past'.failed /\ past'.ever /\ (to = "memcache" => past'.memcache)
  BY <1>1, MemIs, HistoryIs
<1>8. UnlessFailed'
  BY <1>1, <1>5, <1>7 DEF UnlessFailed
<1>9. KeepsStarted'
  <2>1. started' = {}
    BY <1>1 DEF IInv, KeepsStarted, Prepared
  <2> QED BY <1>5, <2>1 DEF KeepsStarted
<1>10. \A o \in Objects : mem'.refcount[o] + Bit(mem.handler_object = o)
                         = mem.refcount[o] + Bit(mem'.handler_object = o)
  BY <1>3, <1>5, Disjoint DEF Bit
<1> QED BY <1>1, <1>3, <1>5, <1>6, <1>7, <1>8, <1>9, <1>10 DEF Changes

LEMMA ReplaceChanges ==
    ASSUME IInv, running, running' = running, NEW to \in Handlers, NEW m, Prepared(m, to),
           Replace(m, to)
    PROVE  Changes(to)
<1> DEFINE s == ChangeShutdown(m)
           n == ChangeInit(s, to)
<1>1. /\ mem' = [n EXCEPT !.handler = to]
      /\ started' = (started \ {m.handler_object}) \cup
                       (IF to = "object" THEN {m.new_handler_object} ELSE {})
      /\ Changed(FALSE, to)
      /\ Stops(m, to) /\ CanStop(m)
      /\ to = "object" => m.new_handler_object # None
  BY DEF Replace
<1>2. /\ s \in Memory
      /\ s.handler = mem.handler /\ s.std_data_copy = mem.std_data_copy
      /\ s.query_is_select = mem.query_is_select
      /\ s.new_handler_object = m.new_handler_object
      /\ s.handler_object = None
      /\ s.names = IF mem.handler = "user" THEN None ELSE m.names
      /\ to # "user" => \A c \in Callbacks : s.refcount[c] =
            mem.refcount[c] - Bit(mem.handler = "user" /\ mem.names = c)
      /\ to = "user" /\ mem.handler # "user" => \A c \in Callbacks :
            s.refcount[c] = mem.refcount[c] - Bit(mem.names = c)
  BY Stopped
<1>3. /\ \A o \in Objects : s.refcount[o] + Bit(mem.handler_object = o) = mem.refcount[o] + 0
      /\ \A c \in Callbacks : c \notin held /\ mem.names # c =>
            s.refcount[c] = mem.refcount[c] /\ s.names # c
  BY <1>1, StoppedCounts
<1> HIDE DEF s
<1>4. to = "user" => mem.handler # "user" /\ s.names = m.names /\ m.names \in held \cap Callbacks
  BY <1>1, <1>2 DEF Stops, Prepared
<1>5. /\ n \in Memory /\ n.std_data_copy = s.std_data_copy
      /\ n.query_is_select = s.query_is_select /\ n.names = s.names
      /\ n.new_handler_object = IF to = "object" THEN None ELSE s.new_handler_object
      /\ n.handler_object = IF to = "object" THEN s.new_handler_object ELSE s.handler_object
      /\ n.memc = (to = "memcache" \/ s.memc)
      /\ \A c \in Callbacks :
            n.refcount[c] = s.refcount[c] + Bit(to = "user" /\ s.names = c)
      /\ \A o \in Objects :
            n.refcount[o] = s.refcount[o] + Bit(to = "object" /\ s.new_handler_object = o)
  <2>1. to = "user" => s.names # None
    BY <1>4, Disjoint
  <2>2. to = "object" => s.new_handler_object # None
    BY <1>1, <1>2
  <2> QED BY <1>2, <2>1, <2>2, InitIs
<1> HIDE DEF n
<1>6. /\ mem' \in Memory /\ mem'.refcount = n.refcount /\ mem'.names = s.names
      /\ mem'.handler = to
      /\ mem'.std_data_copy = mem.std_data_copy
      /\ mem'.query_is_select = mem.query_is_select
      /\ mem'.handler_object = IF to = "object" THEN m.new_handler_object ELSE None
      /\ mem'.new_handler_object = IF to = "object" THEN None ELSE m.new_handler_object
      /\ to = "memcache" => mem'.memc
  BY <1>1, <1>2, <1>5 DEF Memory
<1>7. HasItsOwn(mem)'
  BY <1>4, <1>6, Disjoint DEF HasItsOwn
<1>8. /\ past'.failed = past.failed /\ past'.ever = past.ever
      /\ past'.nop = (past.nop \/ to = "nop")
      /\ past'.memcache = (past.memcache \/ to = "memcache")
  BY <1>1, MemIs, HistoryIs DEF History
<1>9. ~past.failed => \A c \in Callbacks :
        mem'.refcount[c] + Bit(mem.handler = "user" /\ mem.names = c)
          = mem.refcount[c] + Bit(mem'.handler = "user" /\ mem'.names = c)
  <2> SUFFICES ASSUME ~past.failed, NEW c \in Callbacks
               PROVE  mem'.refcount[c] + Bit(mem.handler = "user" /\ mem.names = c)
                        = mem.refcount[c] + Bit(mem'.handler = "user" /\ mem'.names = c)
    OBVIOUS
  <2>1. mem.refcount[c] \in Int
    BY MemIs, Disjoint
  <2>2. mem'.refcount[c] = s.refcount[c] + Bit(to = "user" /\ s.names = c)
    BY <1>5, <1>6
  <2>3. CASE to # "user"
    BY <1>2, <1>6, <2>1, <2>2, <2>3 DEF Bit
  <2>4. CASE to = "user"
    <3>1. mem.handler # "user" /\ mem.names = None
      BY <1>4, <2>4 DEF IInv, UnlessFailed
    <3>2. s.refcount[c] = mem.refcount[c] - 0
      BY <1>2, <2>4, <3>1, Disjoint DEF Bit
    <3> QED BY <1>4, <1>6, <2>1, <2>2, <2>4, <3>1, <3>2 DEF Bit
  <2> QED BY <2>3, <2>4
<1>10. \A o \in Objects : mem'.refcount[o] + Bit(mem.handler_object = o)
                         = mem.refcount[o] + Bit(mem'.handler_object = o)
  <2> TAKE o \in Objects
  <2>1. mem.refcount[o] \in Int /\ s.refcount[o] \in Int
    BY <1>2, MemIs, Disjoint DEF Memory
  <2>2. s.refcount[o] + Bit(mem.handler_object = o) = mem.refcount[o]
    BY <1>3, <2>1
  <2>3. mem'.refcount[o] = s.refcount[o] + Bit(mem'.handler_object = o)
    BY <1>2, <1>5, <1>6, Disjoint DEF Bit
  <2> QED BY <2>1, <2>2, <2>3 DEF Bit
<1>11. \A c \in Callbacks : c \notin held /\ mem.names # c =>
          mem'.refcount[c] = mem.refcount[c] /\ mem'.names # c
  <2> SUFFICES ASSUME NEW c \in Callbacks, c \notin held, mem.names # c
               PROVE  mem'.refcount[c] = mem.refcount[c] /\ mem'.names # c
    OBVIOUS
  <2>1. mem.refcount[c] \in Int /\ s.refcount[c] = mem.refcount[c] /\ s.names # c
    BY <1>3, MemIs, Disjoint
  <2>2. mem'.refcount[c] = s.refcount[c] + 0
    BY <1>5, <1>6, <2>1 DEF Bit
  <2> QED BY <1>6, <2>1, <2>2
<1>12. UnlessFailed'
  <2>1. ~past.failed /\ mem'.names # None => to = "user"
    BY <1>2, <1>6 DEF IInv, UnlessFailed, Prepared
  <2>2. ~past.ever => mem'.new_handler_object = None
    BY <1>6 DEF IInv, UnlessFailed, Prepared
  <2> QED BY <1>1, <1>6, <1>8, <2>1, <2>2 DEF UnlessFailed
<1>13. KeepsStarted'
  <2>1. started \ {m.handler_object} = {}
    BY DEF IInv, KeepsStarted, Prepared
  <2> QED BY <1>1, <1>6, <2>1 DEF KeepsStarted
<1> QED BY <1>1, <1>6, <1>7, <1>8, <1>9, <1>10, <1>11, <1>12, <1>13 DEF Changes

LEMMA ChangeStep ==
    ASSUME IInv, Script, NEW to \in Handlers, NEW m, Prepared(m, to), ChangeHandler(m, to)
    PROVE  IInv'
<1>1. running' = running /\ running
      /\ UNCHANGED <<request, held, statement, lost, fault>>
  BY DEF ChangeHandler, Script
<1>2. Changes(to)
  BY <1>1, RefreshChanges, RefuseChanges, StartFailsChanges, ReplaceChanges DEF ChangeHandler
<1>3. /\ past' \in History /\ past'.select = past.select
      /\ past.failed => past'.failed
      /\ past.ever => past'.ever
      /\ past.nop => past'.nop
      /\ past.memcache => past'.memcache
      /\ past.switched => past'.switched
      /\ ~past'.switched => statement = "none"
  BY <1>2, MemIs, HistoryIs DEF Changes
<1>4. TypeOK' /\ HasItsOwn(mem)' /\ UnlessFailed' /\ KeepsStarted'
  BY <1>1, <1>2, <1>3 DEF IInv, TypeOK, Changes
<1>5. Counts'
  <2>1. ASSUME ~past'.failed, NEW c \in Callbacks PROVE CountsCallback(c)'
    <3>1. CountsCallback(c)
      BY <1>3, <2>1 DEF IInv, Counts
    <3>2. mem'.refcount[c] + Bit(mem.handler = "user" /\ mem.names = c)
            = mem.refcount[c] + Bit(mem'.handler = "user" /\ mem'.names = c)
      BY <1>2, <2>1 DEF Changes
    <3>3. mem'.query_is_select = mem.query_is_select
      BY <1>2 DEF Changes
    <3>4. mem'.refcount[c] \in Int
      BY <1>4, Disjoint DEF TypeOK, Memory
    <3> QED BY <1>1, <1>3, <3>1, <3>2, <3>3, <3>4 DEF CountsCallback, Bit
  <2>2. ASSUME NEW o \in Objects PROVE CountsObject(o)'
    <3>1. CountsObject(o)
      BY DEF IInv, Counts
    <3>2. mem'.refcount[o] + Bit(mem.handler_object = o)
            = mem.refcount[o] + Bit(mem'.handler_object = o)
      BY <1>2 DEF Changes
    <3>3. mem'.refcount[o] \in Int
      BY <1>4, Disjoint DEF TypeOK, Memory
    <3> QED BY <1>1, <3>1, <3>2, <3>3 DEF CountsObject, Bit
  <2> QED BY <2>1, <2>2 DEF Counts
<1>6. LeftIsDead'
  BY <1>1, <1>2, <1>3 DEF IInv, LeftIsDead, Changes
<1>7. OwnData' /\ NotShared' /\ AtRest'
  BY <1>1, <1>2, <1>3 DEF IInv, OwnData, NotShared, AtRest, Changes
<1>8. SafeUnlessMisused' /\ DataComesBack'
  BY <1>1, <1>2, <1>3 DEF IInv, SafeUnlessMisused, DataComesBack, Changes
<1> QED BY <1>4, <1>5, <1>6, <1>7, <1>8 DEF IInv

LEMMA SetStorageHandlerStep ==
    ASSUME IInv, NEW to \in Handlers, SetStorageHandler(to) PROVE IInv'
<1>1. Script /\ to \in {"default", "nop", "memcache"} /\ ChangeHandler(mem, to)
  BY DEF SetStorageHandler
<1>2. \A c \in Callbacks : mem.refcount[c] = mem.refcount[c] - 0
  BY MemIs, Disjoint
<1>3. Prepared(mem, to)
  BY <1>1, <1>2, MemIs DEF Prepared, Bit
<1> QED BY <1>1, <1>3, ChangeStep

LEMMA SetObjectStep ==
    ASSUME IInv, Script, NEW m \in Memory, SameButCounts([m EXCEPT !.new_handler_object = None],
             [mem EXCEPT !.new_handler_object = None]),
           m.refcount = mem.refcount, ChangeHandler(m, "object")
    PROVE  IInv'
<1>1. \A c \in Callbacks : mem.refcount[c] = mem.refcount[c] - 0
  BY MemIs, Disjoint
<1>2. Prepared(m, "object")
  BY <1>1, MemIs DEF Prepared, Bit, SameButCounts, Memory
<1>3. "object" \in Handlers
  BY DEF Handlers
<1> QED BY <1>2, <1>3, ChangeStep

LEMMA SetHandlerObjectStep ==
    ASSUME IInv, NEW o \in Objects, SetHandlerObject(o) PROVE IInv'
<1> DEFINE m == [mem EXCEPT !.new_handler_object = o]
<1>1. Script /\ ChangeHandler(m, "object")
  BY DEF SetHandlerObject
<1>2. m \in Memory /\ m.refcount = mem.refcount
      /\ SameButCounts([m EXCEPT !.new_handler_object = None],
                       [mem EXCEPT !.new_handler_object = None])
  BY MemIs DEF Memory, SameButCounts
<1> QED BY <1>1, <1>2, SetObjectStep

LEMMA SetObjectByNameStep ==
    ASSUME IInv, SetObjectByName PROVE IInv'
BY MemIs, SetObjectStep DEF SetObjectByName, SameButCounts

LEMMA SetUserHandlersStep ==
    ASSUME IInv, NEW c \in Callbacks, SetUserHandlers(c) PROVE IInv'
<1> DEFINE released == IF mem.names = None THEN mem ELSE PtrDtor(mem, mem.names)
           m == [released EXCEPT !.names = c]
<1>1. Script /\ c \in held /\ ChangeHandler(m, "user")
  BY DEF SetUserHandlers
<1>2. /\ released \in Memory /\ SameButCounts(released, mem)
      /\ \A v \in Values : released.refcount[v] = mem.refcount[v] - Bit(mem.names = v)
  <2>1. CASE mem.names = None
    BY <2>1, MemIs, Disjoint DEF SameButCounts, Bit
  <2>2. CASE mem.names # None
    <3>1. mem.names \in Callbacks
      BY <2>2, MemIs DEF Memory
    <3> QED BY <2>2, <3>1, MemIs, Disjoint, PtrDtorIs
  <2> QED BY <2>1, <2>2
<1> HIDE DEF released
<1>3. /\ m \in Memory /\ m.refcount = released.refcount /\ m.names = c
      /\ m.handler = mem.handler /\ m.std_data_copy = mem.std_data_copy
      /\ m.query_is_select = mem.query_is_select
      /\ m.handler_object = mem.handler_object /\ m.memc = mem.memc
      /\ m.new_handler_object = mem.new_handler_object
  BY <1>2 DEF Memory, SameButCounts
<1> HIDE DEF m
<1>4. \A o \in Objects : m.refcount[o] = mem.refcount[o]
  <2> TAKE o \in Objects
  <2>1. mem.names # o
    BY MemIs, Disjoint DEF Memory
  <2>2. m.refcount[o] = mem.refcount[o] - 0 /\ mem.refcount[o] \in Int
    BY <1>2, <1>3, <2>1, MemIs, Disjoint DEF Bit
  <2> QED BY <2>2
<1>5. \A d \in Callbacks : m.refcount[d] = mem.refcount[d] - Bit("user" = "user" /\ mem.names = d)
  BY <1>2, <1>3, Disjoint DEF Bit
<1>6. "user" \in Handlers
  BY DEF Handlers
<1>7. Prepared(m, "user")
  BY <1>1, <1>3, <1>4, <1>5 DEF Prepared
<1> QED BY <1>1, <1>6, <1>7, ChangeStep

-----------------------------------------------------------------------------
(***************************************************************************)
(* The other steps                                                         *)
(***************************************************************************)

LEMMA IInvInit == Init => IInv
<1> SUFFICES ASSUME Init PROVE IInv
  OBVIOUS
<1>1. PICK copy \in BOOLEAN :
        mem = [handler |-> "default", std_data_copy |-> copy, names |-> None,
               query_is_select |-> None, handler_object |-> None,
               new_handler_object |-> None, memc |-> FALSE,
               refcount |-> [v \in Values |-> 0]]
  BY DEF Init
<1>2. TypeOK /\ HasItsOwn(mem)
  BY <1>1 DEF Init, TypeOK, Memory, Handlers, History, HasItsOwn
<1>3. Counts /\ LeftIsDead
  BY <1>1, Disjoint DEF Init, Counts, CountsCallback, CountsObject, Bit, LeftIsDead
<1>4. UnlessFailed /\ KeepsStarted /\ OwnData /\ NotShared /\ AtRest
  BY <1>1 DEF Init, UnlessFailed, KeepsStarted, OwnData, NotShared, AtRest
<1>5. SafeUnlessMisused /\ DataComesBack
  BY <1>1 DEF Init, SafeUnlessMisused, DataComesBack
<1> QED BY <1>2, <1>3, <1>4, <1>5 DEF IInv

LEMMA FaultStep ==
    ASSUME IInv, Script, NEW why, Fault(why), SafeUnlessMisused',
           mem.std_data_copy => why # "loan"
    PROVE  IInv'
<1>1. UNCHANGED <<mem, request, running, held, started, statement, lost, past>> /\ running
      /\ fault' = why
  BY DEF Fault, Script
<1>2. TypeOK' /\ HasItsOwn(mem)' /\ LeftIsDead' /\ UnlessFailed' /\ KeepsStarted'
  BY <1>1 DEF IInv, TypeOK, HasItsOwn, LeftIsDead, UnlessFailed, KeepsStarted
<1>3. Counts' /\ OwnData' /\ NotShared' /\ AtRest'
  BY <1>1 DEF IInv, Counts, CountsCallback, CountsObject, OwnData, NotShared, AtRest
<1>4. DataComesBack'
  BY <1>1 DEF IInv, DataComesBack
<1> QED BY <1>2, <1>3, <1>4 DEF IInv

\* A callback of this request the plugin points to is alive, and so is a variable.
LEMMA KeptIsAlive ==
    ASSUME IInv, Script
    PROVE  /\ \A o \in Objects : o \in held \/ mem.handler_object = o => Alive(o)
           /\ ~past.failed => \A c \in Callbacks :
                \/ c \in held
                \/ mem.names = c
                \/ mem.query_is_select = c /\ past.select = request
                => Alive(c)
<1>1. running
  BY DEF Script
<1>2. \A o \in Objects : CountsObject(o)
  BY DEF IInv, Counts
<1>3. ~past.failed => \A c \in Callbacks :
        CountsCallback(c) /\ (mem.names = c => mem.handler = "user")
  BY Disjoint DEF IInv, Counts, UnlessFailed
<1>4. \A o \in Objects : o \in held \/ mem.handler_object = o => Alive(o)
  BY <1>2 DEF CountsObject, Bit, Alive
<1>5. ~past.failed => \A c \in Callbacks :
        \/ c \in held
        \/ mem.names = c
        \/ mem.query_is_select = c /\ past.select = request
        => Alive(c)
  BY <1>1, <1>3 DEF CountsCallback, Bit, Alive
<1> QED BY <1>4, <1>5

LEMMA FaultSteps ==
    ASSUME IInv,
           \/ \E v \in Values : UseDeadVariable(v)
           \/ CallDeadObject \/ TouchDeadNames \/ TouchDeadIsSelect \/ CallNop
           \/ ReturnToStranger
    PROVE  IInv'
<1>1. ASSUME NEW v \in Values, UseDeadVariable(v) PROVE IInv'
  <2>1. Script /\ Fault("variable") /\ v \in held /\ ~Alive(v)
    BY <1>1 DEF UseDeadVariable
  <2>2. past.failed
    BY <2>1, KeptIsAlive DEF Values
  <2>3. SafeUnlessMisused'
    BY <2>1, <2>2 DEF Fault, SafeUnlessMisused
  <2> QED BY <2>1, <2>3, FaultStep
<1>2. CASE CallDeadObject
  <2>1. Script /\ Fault("object") /\ mem.new_handler_object # None
    BY <1>2 DEF CallDeadObject
  <2>2. past.ever
    BY <2>1 DEF IInv, UnlessFailed
  <2>3. SafeUnlessMisused'
    BY <2>1, <2>2 DEF Fault, SafeUnlessMisused
  <2> QED BY <2>1, <2>3, FaultStep
<1>3. CASE TouchDeadNames
  <2>1. Script /\ Fault("names") /\ mem.names \in Callbacks /\ ~Alive(mem.names)
    BY <1>3, MemIs DEF TouchDeadNames, Memory
  <2>2. past.failed
    BY <2>1, KeptIsAlive
  <2>3. SafeUnlessMisused'
    BY <2>1, <2>2 DEF Fault, SafeUnlessMisused
  <2> QED BY <2>1, <2>3, FaultStep
<1>4. CASE TouchDeadIsSelect
  <2>1. /\ Script /\ Fault("select")
        /\ mem.query_is_select \in Callbacks /\ ~Alive(mem.query_is_select)
    BY <1>4, MemIs DEF TouchDeadIsSelect, Memory
  <2>2. past.select < request \/ past.failed
    BY <2>1, KeptIsAlive DEF IInv, TypeOK, History
  <2>3. SafeUnlessMisused'
    BY <2>1, <2>2 DEF Fault, SafeUnlessMisused
  <2> QED BY <2>1, <2>3, FaultStep
<1>5. CASE CallNop
  <2>1. Script /\ Fault("nop") /\ mem.handler = "nop"
    BY <1>5 DEF CallNop
  <2>2. past.failed \/ past.nop
    BY <2>1 DEF IInv, UnlessFailed
  <2>3. SafeUnlessMisused'
    BY <2>1, <2>2 DEF Fault, SafeUnlessMisused
  <2> QED BY <2>1, <2>3, FaultStep
<1>6. CASE ReturnToStranger
  <2>1. /\ Script /\ Fault("loan")
        /\ \/ statement = "shared" /\ Frees
           \/ statement = "copy" /\ mem.handler = "default" /\ ~mem.std_data_copy
    BY <1>6 DEF ReturnToStranger
  <2>2. past.switched
    BY <2>1 DEF IInv, OwnData, Frees, UserFrees, ObjectFrees, MemcacheFrees, DefaultFrees
  <2>3. ~mem.std_data_copy
    BY <2>1 DEF IInv, NotShared
  <2>4. SafeUnlessMisused'
    BY <2>1, <2>2 DEF Fault, SafeUnlessMisused
  <2> QED BY <2>1, <2>3, <2>4, FaultStep
<1> QED BY <1>1, <1>2, <1>3, <1>4, <1>5, <1>6

\* A step that changes nothing but references and variables of the script.
LEMMA ReferenceStep ==
    ASSUME IInv, Script, mem' \in Memory, SameButCounts(mem', mem), held' \subseteq Values,
           UNCHANGED <<request, running, started, statement, lost, fault, past>>,
           Counts', LeftIsDead'
    PROVE  IInv'
<1>1. TypeOK' /\ HasItsOwn(mem)' /\ UnlessFailed' /\ KeepsStarted'
  BY DEF IInv, TypeOK, HasItsOwn, UnlessFailed, KeepsStarted, SameButCounts
<1>2. OwnData' /\ NotShared' /\ AtRest'
  BY DEF IInv, OwnData, NotShared, AtRest, SameButCounts
<1>3. SafeUnlessMisused' /\ DataComesBack'
  BY DEF IInv, SafeUnlessMisused, DataComesBack, SameButCounts
<1> QED BY <1>1, <1>2, <1>3 DEF IInv

LEMMA CreateStep ==
    ASSUME IInv, NEW v \in Values, Create(v) PROVE IInv'
<1>1. /\ Script /\ running /\ mem' = AddRef(mem, v) /\ held' = held \cup {v}
      /\ v \notin held /\ v # mem.names /\ v # mem.query_is_select /\ v # mem.handler_object
      /\ UNCHANGED <<request, running, started, statement, lost, fault, past>>
  BY DEF Create, Script, Pointers
<1>2. /\ mem' \in Memory /\ SameButCounts(mem', mem)
      /\ \A w \in Values : mem'.refcount[w] = mem.refcount[w] + Bit(v = w)
  BY <1>1, MemIs, AddRefIs
<1>3. \A w \in Values : mem.refcount[w] \in Int
  BY MemIs
<1>4. Counts'
  <2>1. ASSUME ~past.failed, NEW c \in Callbacks PROVE CountsCallback(c)'
    <3>1. CountsCallback(c)
      BY <2>1 DEF IInv, Counts
    <3>2. mem'.refcount[c] = mem.refcount[c] + Bit(v = c) /\ mem.refcount[c] \in Int
      BY <1>2, <1>3, Disjoint
    <3> QED BY <1>1, <1>2, <3>1, <3>2 DEF CountsCallback, Bit, SameButCounts
  <2>2. ASSUME NEW o \in Objects PROVE CountsObject(o)'
    <3>1. CountsObject(o)
      BY DEF IInv, Counts
    <3>2. mem'.refcount[o] = mem.refcount[o] + Bit(v = o) /\ mem.refcount[o] \in Int
      BY <1>2, <1>3, Disjoint
    <3> QED BY <1>1, <1>2, <3>1, <3>2 DEF CountsObject, Bit, SameButCounts
  <2> QED BY <1>1, <2>1, <2>2 DEF Counts
<1>5. LeftIsDead'
  <2> SUFFICES ASSUME past.select < request, NEW c \in Callbacks, mem.query_is_select = c
               PROVE  mem'.refcount[c] = 0 /\ c \notin held' /\ mem.names # c
    BY <1>1, <1>2 DEF LeftIsDead, SameButCounts
  <2>1. mem.refcount[c] = 0 /\ c \notin held /\ mem.names # c
    BY <1>1 DEF IInv, LeftIsDead
  <2> QED BY <1>1, <1>2, <2>1, Disjoint DEF Bit
<1>6. held' \subseteq Values
  BY <1>1 DEF IInv, TypeOK
<1> QED BY <1>1, <1>2, <1>4, <1>5, <1>6, ReferenceStep

LEMMA UnsetStep ==
    ASSUME IInv, NEW v \in Values, Unset(v) PROVE IInv'
<1>1. /\ Script /\ running /\ mem' = PtrDtor(mem, v) /\ held' = held \ {v} /\ v \in held
      /\ UNCHANGED <<request, running, started, statement, lost, fault, past>>
  BY DEF Unset, Script
<1>2. /\ mem' \in Memory /\ SameButCounts(mem', mem)
      /\ \A w \in Values : mem'.refcount[w] = mem.refcount[w] - Bit(v = w)
  BY <1>1, MemIs, PtrDtorIs
<1>3. \A w \in Values : mem.refcount[w] \in Int
  BY MemIs
<1>4. Counts'
  <2>1. ASSUME ~past.failed, NEW c \in Callbacks PROVE CountsCallback(c)'
    <3>1. CountsCallback(c)
      BY <2>1 DEF IInv, Counts
    <3>2. mem'.refcount[c] = mem.refcount[c] - Bit(v = c) /\ mem.refcount[c] \in Int
      BY <1>2, <1>3, Disjoint
    <3> QED BY <1>1, <1>2, <3>1, <3>2 DEF CountsCallback, Bit, SameButCounts
  <2>2. ASSUME NEW o \in Objects PROVE CountsObject(o)'
    <3>1. CountsObject(o)
      BY DEF IInv, Counts
    <3>2. mem'.refcount[o] = mem.refcount[o] - Bit(v = o) /\ mem.refcount[o] \in Int
      BY <1>2, <1>3, Disjoint
    <3> QED BY <1>1, <1>2, <3>1, <3>2 DEF CountsObject, Bit, SameButCounts
  <2> QED BY <1>1, <2>1, <2>2 DEF Counts
<1>5. LeftIsDead'
  <2> SUFFICES ASSUME past.select < request, NEW c \in Callbacks, mem.query_is_select = c
               PROVE  mem'.refcount[c] = 0 /\ c \notin held' /\ mem.names # c
    BY <1>1, <1>2 DEF LeftIsDead, SameButCounts
  <2>1. mem.refcount[c] = 0 /\ c \notin held /\ mem.names # c
    BY <1>1 DEF IInv, LeftIsDead
  <2> QED BY <1>1, <1>2, <2>1, Disjoint DEF Bit
<1>6. held' \subseteq Values
  BY <1>1 DEF IInv, TypeOK
<1> QED BY <1>1, <1>2, <1>4, <1>5, <1>6, ReferenceStep

LEMMA SetIsSelectStep ==
    ASSUME IInv, NEW c \in Callbacks, SetIsSelect(c) PROVE IInv'
<1> DEFINE released == IF mem.query_is_select = None THEN mem
                       ELSE PtrDtor(mem, mem.query_is_select)
           m == [released EXCEPT !.query_is_select = c]
<1>1. /\ Script /\ running /\ c \in held /\ SelectCallable
      /\ mem' = AddRef(m, c)
      /\ past' = [past EXCEPT !.select = request]
      /\ UNCHANGED <<request, running, held, started, statement, lost, fault>>
  BY DEF SetIsSelect, Script
<1>2. /\ released \in Memory /\ SameButCounts(released, mem)
      /\ \A v \in Values :
            released.refcount[v] = mem.refcount[v] - Bit(mem.query_is_select = v)
  <2>1. CASE mem.query_is_select = None
    BY <2>1, MemIs, Disjoint DEF SameButCounts, Bit
  <2>2. CASE mem.query_is_select # None
    <3>1. mem.query_is_select \in Callbacks
      BY <2>2, MemIs DEF Memory
    <3> QED BY <2>2, <3>1, MemIs, Disjoint, PtrDtorIs
  <2> QED BY <2>1, <2>2
<1> HIDE DEF released
<1>3. /\ m \in Memory /\ m.refcount = released.refcount /\ m.names = mem.names
      /\ m.handler = mem.handler /\ m.std_data_copy = mem.std_data_copy
      /\ m.query_is_select = c
      /\ m.handler_object = mem.handler_object /\ m.memc = mem.memc
      /\ m.new_handler_object = mem.new_handler_object
  BY <1>2 DEF Memory, SameButCounts
<1> HIDE DEF m
<1>4. /\ mem' \in Memory /\ SameButCounts(mem', m)
      /\ \A v \in Values : mem'.refcount[v] = m.refcount[v] + Bit(c = v)
  BY <1>1, <1>3, Disjoint, AddRefIs
<1>5. \A v \in Values :
        /\ mem'.refcount[v] = mem.refcount[v] - Bit(mem.query_is_select = v) + Bit(c = v)
        /\ mem.refcount[v] \in Int
  BY <1>2, <1>3, <1>4, MemIs
<1>6. past' \in History /\ past'.select = request /\ past'.failed = past.failed
      /\ past'.ever = past.ever /\ past'.nop = past.nop /\ past'.memcache = past.memcache
      /\ past'.switched = past.switched
  BY <1>1, MemIs DEF History, IInv, TypeOK
<1>7. TypeOK' /\ HasItsOwn(mem)' /\ UnlessFailed' /\ KeepsStarted'
  BY <1>1, <1>3, <1>4, <1>6
     DEF IInv, TypeOK, HasItsOwn, UnlessFailed, KeepsStarted, SameButCounts
<1>8. Counts'
  <2>1. ASSUME ~past.failed, NEW d \in Callbacks PROVE CountsCallback(d)'
    <3>1. CountsCallback(d)
      BY <2>1 DEF IInv, Counts
    <3>2. mem.query_is_select = d => past.select = request
      <4>1. ~(past.select < request) => past.select = request
        BY DEF IInv, TypeOK, History
      <4>2. mem.query_is_select = d => mem.refcount[d] # 0
        BY <1>1, <1>5, Disjoint DEF SelectCallable, Alive
      <4> QED BY <1>1, <4>1, <4>2 DEF IInv, LeftIsDead
    <3>3. mem'.query_is_select = c /\ mem'.names = mem.names /\ mem'.handler = mem.handler
      BY <1>3, <1>4 DEF SameButCounts
    <3>4. mem.refcount[d] \in Int
          /\ mem'.refcount[d] = mem.refcount[d] - Bit(mem.query_is_select = d) + Bit(c = d)
      BY <1>5, Disjoint
    <3> QED BY <1>1, <1>6, <3>1, <3>2, <3>3, <3>4 DEF CountsCallback, Bit
  <2>2. ASSUME NEW o \in Objects PROVE CountsObject(o)'
    <3>1. CountsObject(o)
      BY DEF IInv, Counts
    <3>2. mem.query_is_select # o /\ c # o
      BY MemIs, Disjoint DEF Memory
    <3>3. mem'.refcount[o] = mem.refcount[o]
      BY <1>5, <3>2, Disjoint DEF Bit
    <3>4. mem'.handler_object = mem.handler_object
      BY <1>3, <1>4 DEF SameButCounts
    <3> QED BY <1>1, <3>1, <3>3, <3>4 DEF CountsObject
  <2> QED BY <1>6, <2>1, <2>2 DEF Counts
<1>9. LeftIsDead'
  BY <1>1, <1>6 DEF LeftIsDead, IInv, TypeOK
<1>10. OwnData' /\ NotShared' /\ AtRest'
  BY <1>1, <1>3, <1>4, <1>6 DEF IInv, OwnData, NotShared, AtRest, SameButCounts
<1>11. SafeUnlessMisused' /\ DataComesBack'
  BY <1>1, <1>3, <1>4, <1>6 DEF IInv, Script, SafeUnlessMisused, DataComesBack, SameButCounts
<1> QED BY <1>7, <1>8, <1>9, <1>10, <1>11 DEF IInv

\* A step of a statement.
LEMMA StatementStep ==
    ASSUME IInv, Script,
           UNCHANGED <<mem, request, running, held, started, fault, past>>,
           OwnData', NotShared', DataComesBack'
    PROVE  IInv'
<1>1. TypeOK' /\ HasItsOwn(mem)' /\ LeftIsDead' /\ UnlessFailed' /\ KeepsStarted'
  BY DEF IInv, TypeOK, HasItsOwn, LeftIsDead, UnlessFailed, KeepsStarted
<1>2. Counts' /\ AtRest' /\ SafeUnlessMisused'
  BY DEF IInv, Counts, CountsCallback, CountsObject, AtRest, SafeUnlessMisused, Script
<1> QED BY <1>1, <1>2 DEF IInv

LEMMA SendQueryStep ==
    ASSUME IInv, SendQuery PROVE IInv'
<1>1. /\ Script /\ mem.handler # "nop" /\ ObjectMakesKey
      /\ statement' \in {Lends, "recording"}
      /\ UNCHANGED <<mem, request, running, held, started, lost, fault, past>>
  BY DEF SendQuery
<1>2. OwnData'
  BY <1>1 DEF OwnData, Lends, ObjectMakesKey
<1>3. NotShared'
  BY <1>1 DEF NotShared, Lends
<1>4. DataComesBack'
  BY <1>1 DEF IInv, DataComesBack
<1> QED BY <1>1, <1>2, <1>3, <1>4, StatementStep

LEMMA StoreSteps ==
    ASSUME IInv, StoreReplayed \/ StoreRecorded PROVE IInv'
<1>1. PICK losing :
        /\ Stored(losing)
        /\ "loan" \in losing =>
              \/ statement = "shared" /\ mem.handler # "default"
              \/ statement = "copy" /\ ~Frees
        /\ "recording" \in losing => MemcacheFrees
  BY DEF StoreReplayed, StoreRecorded
<1>2. /\ Script /\ mem.handler # "nop" /\ statement' = "none" /\ lost' = lost \cup losing
      /\ UNCHANGED <<mem, request, running, held, started, fault, past>>
  BY <1>1 DEF Stored
<1>3. mem.handler \in Handlers
  BY MemIs DEF Memory
<1>4. ~Frees => \/ mem.handler = "default" /\ ~mem.std_data_copy
                \/ mem.handler = "object" /\ mem.handler_object = None
  BY <1>2, <1>3 DEF Frees, UserFrees, ObjectFrees, MemcacheFrees, DefaultFrees, Handlers
<1>5. "loan" \in losing => past.switched
  BY <1>1, <1>4 DEF IInv, OwnData
<1>6. "loan" \in losing /\ mem.std_data_copy => past.ever
  BY <1>1, <1>4 DEF IInv, NotShared, UnlessFailed
<1>7. "recording" \in losing => past.memcache
  BY <1>1 DEF IInv, UnlessFailed, MemcacheFrees
<1>8. DataComesBack'
  BY <1>2, <1>5, <1>6, <1>7 DEF IInv, DataComesBack
<1>9. OwnData' /\ NotShared'
  BY <1>2 DEF OwnData, NotShared
<1> QED BY <1>2, <1>8, <1>9, StatementStep

LEMMA EndRequestStep ==
    ASSUME IInv, EndRequest PROVE IInv'
<1> DEFINE s == IF mem.handler \in {"user", "object"} THEN ChangeShutdown(mem) ELSE mem
           r == IF mem.query_is_select = None THEN s ELSE PtrDtor(s, mem.query_is_select)
<1>1. /\ Script /\ running /\ statement = "none" /\ fault = "none" /\ SelectCallable
      /\ mem' = [r EXCEPT !.handler = "default"] /\ running' = FALSE
      /\ UNCHANGED <<request, held, started, statement, lost, fault, past>>
  BY DEF EndRequest, Script
<1>2. mem \in Memory /\ HasItsOwn(mem)
  BY MemIs
<1>3. /\ s \in Memory
      /\ s.std_data_copy = mem.std_data_copy
      /\ s.query_is_select = mem.query_is_select
      /\ s.new_handler_object = mem.new_handler_object
      /\ s.handler_object = None
      /\ s.names = IF mem.handler = "user" THEN None ELSE mem.names
      /\ \A c \in Callbacks :
            s.refcount[c] = mem.refcount[c] - Bit(mem.handler = "user" /\ mem.names = c)
      /\ \A o \in Objects : s.refcount[o] = mem.refcount[o] - Bit(mem.handler_object = o)
  <2>1. CASE mem.handler \in {"user", "object"}
    BY <1>2, <2>1, ShutdownIs
  <2>2. CASE mem.handler \notin {"user", "object"}
    <3>1. s = mem /\ mem.handler_object = None
      BY <1>2, <2>2 DEF HasItsOwn
    <3>2. \A v \in Values : mem.refcount[v] = mem.refcount[v] - 0
      BY MemIs
    <3> QED BY <1>2, <2>2, <3>1, <3>2, Disjoint DEF Bit
  <2> QED BY <2>1, <2>2
<1> HIDE DEF s
<1>4. /\ r \in Memory /\ SameButCounts(r, s)
      /\ \A v \in Values : r.refcount[v] = s.refcount[v] - Bit(mem.query_is_select = v)
  <2>1. CASE mem.query_is_select = None
    <3>1. \A v \in Values : s.refcount[v] = s.refcount[v] - 0
      BY <1>3 DEF Memory
    <3> QED BY <1>3, <2>1, <3>1, Disjoint DEF SameButCounts, Bit
  <2>2. CASE mem.query_is_select # None
    <3>1. mem.query_is_select \in Callbacks
      BY <1>2, <2>2 DEF Memory
    <3> QED BY <1>3, <2>2, <3>1, Disjoint, PtrDtorIs
  <2> QED BY <2>1, <2>2
<1> HIDE DEF r
<1>5. /\ mem' \in Memory /\ mem'.handler = "default"
      /\ mem'.std_data_copy = mem.std_data_copy
      /\ mem'.new_handler_object = mem.new_handler_object
      /\ mem'.handler_object = None
      /\ mem'.names = IF mem.handler = "user" THEN None ELSE mem.names
      /\ mem'.refcount = r.refcount
  BY <1>1, <1>3, <1>4 DEF Memory, SameButCounts, Handlers
<1>6. HasItsOwn(mem)' /\ TypeOK' /\ UnlessFailed' /\ KeepsStarted' /\ LeftIsDead'
  BY <1>1, <1>5 DEF IInv, HasItsOwn, TypeOK, UnlessFailed, KeepsStarted, LeftIsDead
<1>7. Counts'
  <2>1. ASSUME ~past.failed, NEW c \in Callbacks PROVE CountsCallback(c)'
    <3>1. CountsCallback(c)
      BY <2>1 DEF IInv, Counts
    <3>2. mem.query_is_select = c => past.select = request
      <4>1. ~(past.select < request) => past.select = request
        BY DEF IInv, TypeOK, History
      <4>2. mem.query_is_select = c => mem.refcount[c] > 0
        BY <1>1, Disjoint DEF SelectCallable, Alive
      <4> QED BY <1>1, <4>1, <4>2 DEF IInv, LeftIsDead
    <3>3. /\ mem.refcount[c] \in Int /\ s.refcount[c] \in Int
          /\ s.refcount[c] = mem.refcount[c] - Bit(mem.handler = "user" /\ mem.names = c)
          /\ mem'.refcount[c] = s.refcount[c] - Bit(mem.query_is_select = c)
      BY <1>2, <1>3, <1>4, <1>5, Disjoint DEF Memory
    <3> QED BY <1>1, <1>5, <3>1, <3>2, <3>3 DEF CountsCallback, Bit
  <2>2. ASSUME NEW o \in Objects PROVE CountsObject(o)'
    <3>1. CountsObject(o)
      BY DEF IInv, Counts
    <3>2. mem.query_is_select # o
      BY <1>2, Disjoint DEF Memory
    <3>3. /\ mem.refcount[o] \in Int /\ s.refcount[o] \in Int
          /\ s.refcount[o] = mem.refcount[o] - Bit(mem.handler_object = o)
          /\ mem'.refcount[o] = s.refcount[o] - Bit(mem.query_is_select = o)
      BY <1>2, <1>3, <1>4, <1>5, Disjoint DEF Memory
    <3> QED BY <1>1, <1>5, <3>1, <3>2, <3>3, Disjoint DEF CountsObject, Bit
  <2> QED BY <1>1, <2>1, <2>2 DEF Counts
<1>8. OwnData' /\ NotShared' /\ AtRest'
  BY <1>1, <1>5 DEF OwnData, NotShared, AtRest
<1>9. SafeUnlessMisused' /\ DataComesBack'
  BY <1>1, <1>5 DEF IInv, SafeUnlessMisused, DataComesBack
<1> QED BY <1>6, <1>7, <1>8, <1>9 DEF IInv

LEMMA NextRequestStep ==
    ASSUME IInv, NextRequest PROVE IInv'
<1>1. /\ ~running /\ running' = TRUE /\ request' = request + 1
      /\ mem' = [mem EXCEPT !.handler = "default", !.names = None,
                            !.refcount = [v \in Values |-> 0]]
      /\ held' = {} /\ started' = {}
      /\ past' = [past EXCEPT !.failed = FALSE, !.nop = FALSE]
      /\ UNCHANGED <<statement, lost, fault>>
  BY DEF NextRequest
<1>2. mem.handler = "default" /\ fault = "none" /\ statement = "none" /\ mem.handler_object = None
  BY <1>1, MemIs DEF IInv, AtRest, HasItsOwn
<1>3. /\ mem' \in Memory /\ mem'.handler = "default" /\ mem'.names = None
      /\ mem'.std_data_copy = mem.std_data_copy /\ mem'.handler_object = None
      /\ mem'.new_handler_object = mem.new_handler_object
      /\ \A v \in Values : mem'.refcount[v] = 0
  <2>1. /\ mem'.handler = "default" /\ mem'.names = None
        /\ mem'.std_data_copy = mem.std_data_copy /\ mem'.handler_object = None
        /\ mem'.new_handler_object = mem.new_handler_object
        /\ mem'.refcount = [v \in Values |-> 0]
    BY <1>1, <1>2, MemIs DEF Memory
  <2>2. [v \in Values |-> 0] \in [Values -> Int]
    OBVIOUS
  <2>3. mem' \in Memory
    BY <1>1, <2>2, MemIs DEF Memory, Handlers
  <2> QED BY <2>1, <2>3
<1>4. /\ past' \in History /\ past'.select = past.select /\ past'.ever = past.ever
      /\ past'.memcache = past.memcache /\ past'.switched = past.switched
  BY <1>1, MemIs DEF History
<1>5. /\ request' \in Nat \ {0} /\ past'.select < request'
  BY <1>1, <1>4 DEF IInv, TypeOK, History
<1>6. TypeOK' /\ HasItsOwn(mem)' /\ KeepsStarted'
  <2>1. past'.select <= request'
    BY <1>4, <1>5 DEF History
  <2>2. TypeOK'
    BY <1>1, <1>3, <1>4, <1>5, <2>1 DEF TypeOK
  <2>3. started' = {mem'.handler_object} \ {None}
    BY <1>1, <1>3
  <2> QED BY <1>3, <2>2, <2>3 DEF HasItsOwn, KeepsStarted
<1>7. Counts' /\ LeftIsDead'
  BY <1>1, <1>3, <1>4, <1>5, Disjoint
     DEF Counts, CountsCallback, CountsObject, Bit, LeftIsDead, History
<1>8. UnlessFailed' /\ OwnData' /\ NotShared' /\ AtRest'
  BY <1>1, <1>2, <1>3, <1>4 DEF IInv, UnlessFailed, OwnData, NotShared, AtRest
<1>9. SafeUnlessMisused' /\ DataComesBack'
  BY <1>1, <1>2, <1>3, <1>4 DEF IInv, SafeUnlessMisused, DataComesBack
<1> QED BY <1>6, <1>7, <1>8, <1>9 DEF IInv

LEMMA Stutters ==
    ASSUME IInv, UNCHANGED vars PROVE IInv'
<1> USE DEF vars
<1>1. TypeOK' /\ HasItsOwn(mem)' /\ Counts' /\ LeftIsDead' /\ UnlessFailed'
  BY DEF IInv, TypeOK, HasItsOwn, Counts, CountsCallback, CountsObject, LeftIsDead, UnlessFailed
<1>2. KeepsStarted' /\ OwnData' /\ NotShared' /\ AtRest'
  BY DEF IInv, KeepsStarted, OwnData, NotShared, AtRest
<1>3. SafeUnlessMisused' /\ DataComesBack'
  BY DEF IInv, SafeUnlessMisused, DataComesBack
<1> QED BY <1>1, <1>2, <1>3 DEF IInv

LEMMA IInvStep == IInv /\ [Next]_vars => IInv'
<1> SUFFICES ASSUME IInv, [Next]_vars PROVE IInv'
  OBVIOUS
<1>1. CASE UNCHANGED vars
  BY <1>1, Stutters
<1>2. ASSUME NEW v \in Values, Create(v) \/ Unset(v) \/ UseDeadVariable(v) PROVE IInv'
  BY <1>2, CreateStep, UnsetStep, FaultSteps
<1>3. ASSUME NEW to \in Handlers, SetStorageHandler(to) PROVE IInv'
  BY <1>3, SetStorageHandlerStep
<1>4. ASSUME NEW o \in Objects, SetHandlerObject(o) PROVE IInv'
  BY <1>4, SetHandlerObjectStep
<1>5. CASE SetObjectByName \/ CallDeadObject
  BY <1>5, SetObjectByNameStep, FaultSteps
<1>6. ASSUME NEW c \in Callbacks, SetUserHandlers(c) \/ SetIsSelect(c) PROVE IInv'
  BY <1>6, SetUserHandlersStep, SetIsSelectStep
<1>7. CASE TouchDeadNames \/ TouchDeadIsSelect \/ CallNop \/ ReturnToStranger
  BY <1>7, FaultSteps
<1>8. CASE SendQuery \/ StoreReplayed \/ StoreRecorded
  BY <1>8, SendQueryStep, StoreSteps
<1>9. CASE EndRequest \/ NextRequest
  BY <1>9, EndRequestStep, NextRequestStep
<1> QED BY <1>1, <1>2, <1>3, <1>4, <1>5, <1>6, <1>7, <1>8, <1>9 DEF Next

-----------------------------------------------------------------------------
(***************************************************************************)
(* The theorems                                                            *)
(***************************************************************************)

LEMMA Invariance == Spec => []IInv
BY IInvInit, IInvStep, PTL DEF Spec

\* The reference count of a value is that of its users, whatever handlers come
\* and go, until a change of the handler fails.
THEOREM CountsAreExact == Spec => []OwnsWhatItKeeps
<1>1. IInv => OwnsWhatItKeeps
  <2> SUFFICES ASSUME IInv, NEW v \in Values, v \in Callbacks => ~past.failed
               PROVE  mem.refcount[v] = Bit(v \in held) + Owned(v)
    BY DEF OwnsWhatItKeeps, IInv, HasItsOwn
  <2>1. CASE v \in Callbacks
    <3>1. CountsCallback(v) /\ mem.handler_object # v
      BY <2>1, MemIs, Disjoint DEF IInv, Counts, Memory
    <3> QED BY <3>1 DEF CountsCallback, Owned, Bit
  <2>2. CASE v \in Objects
    <3>1. CountsObject(v) /\ mem.names # v /\ mem.query_is_select # v
      BY <2>2, MemIs, Disjoint DEF IInv, Counts, Memory
    <3> QED BY <3>1 DEF CountsObject, Owned, Bit
  <2> QED BY <2>1, <2>2 DEF Values
<1> QED BY <1>1, Invariance, PTL

\* An object of the script is started once, and the plugin keeps the one it started.
THEOREM StartsOneObject == Spec => []OneObjectStarted
<1>1. IInv => OneObjectStarted
  BY DEF IInv, KeepsStarted, HasItsOwn, OneObjectStarted
<1> QED BY <1>1, Invariance, PTL

\* A process stops only for the reasons SafeUnlessMisused names.
THEOREM SafeForScripts == Spec => []SafeUnlessMisused
<1>1. IInv => SafeUnlessMisused
  BY DEF IInv
<1> QED BY <1>1, Invariance, PTL

\* What a handler lent comes back to it, however the handler is changed between
\* statements, and while one is under way if the default handler copies.
THEOREM LentComesBack == Spec => []DataComesBack
<1>1. IInv => DataComesBack
  BY DEF IInv
<1> QED BY <1>1, Invariance, PTL
=============================================================================
