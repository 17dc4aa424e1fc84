------------------------------- MODULE Lifecycle -------------------------------
(***************************************************************************)
(* Requests of one PHP process, the current storage handler and what the   *)
(* plugin keeps of a script: the callbacks of the user handler, the object *)
(* of the object handler and the is_select callback (php_mysqlnd_qc.c,     *)
(* mysqlnd_qc_user_handler.c, mysqlnd_qc_object_handler.c).  A script may  *)
(* change the handler at any time, also between sending a statement and    *)
(* storing its result, which then is the business of another handler.      *)
(*                                                                         *)
(* A value of the script lives while its reference count is not 0; a       *)
(* process that touches a dead value, calls a method that is not there or  *)
(* frees what the cache still uses stops with a fault.                     *)
(*                                                                         *)
(* Left out: what the handlers store (StdCache, ApcHandler), callbacks     *)
(* that call the plugin again, one connection closed with a result         *)
(* pending (Connections).  The seven callbacks of the user handler are     *)
(* one value.  The globals start as zero, as those of a build without      *)
(* threads do: init_globals leaves new_handler_object alone.  The APC and   *)
(* SQLite handlers are left out.                                           *)
(***************************************************************************)
EXTENDS Naturals, FiniteSets

CONSTANTS
    Callbacks,   \* functions of the scripts
    Objects,     \* handler objects of the scripts
    None,
    MaxRequests

ASSUME LifecycleAssumption ==
    /\ Callbacks \cap Objects = {} /\ None \notin Callbacks \cup Objects
    /\ MaxRequests \in Nat

VARIABLES
    mem,        \* globals of the plugin, and the reference counts of the engine:
                \*   handler, std_data_copy, names, query_is_select, handler_object,
                \*   new_handler_object, memc (there is a memcache client), refcount
    request,    \* number of the request
    running,    \* the script runs: RSHUTDOWN is still to come
    held,       \* values the script holds in a variable
    started,    \* objects after a successful init() and before shutdown()
    statement,  \* what the connection has in hand between send and store_result:
                \*   "none", "shared" data of an entry of the default handler, a
                \*   "copy", or a "recording"
    lost,       \* containers nobody frees any more, by what they were
    fault,      \* why the process crashed, or "none":
                \*   "names", "object", "select": a callback or object was dead;
                \*   "variable": a variable of the script was; "nop": a method is
                \*   NULL; "loan": data was freed that the cache still uses, or the
                \*   counter of an entry nobody had was lowered
    past        \* history:
                \*   failed, ever: a change of the handler failed in this request,
                \*   or in an earlier one; nop: its script asked for the nop
                \*   handler; memcache: a script asked for the memcache handler;
                \*   switched: the handler was changed while a result was pending;
                \*   select: the request in which query_is_select was set

vars == <<mem, request, running, held, started, statement, lost, fault, past>>

Values == Callbacks \cup Objects

Handlers == {"default", "nop", "memcache", "user", "object"}

Init ==
    /\ \E copy \in BOOLEAN :
          mem = [handler |-> "default", std_data_copy |-> copy, names |-> None,
                 query_is_select |-> None, handler_object |-> None,
                 new_handler_object |-> None, memc |-> FALSE,
                 refcount |-> [v \in Values |-> 0]]
    /\ request = 1 /\ running = TRUE /\ held = {} /\ started = {}
    /\ statement = "none" /\ lost = {} /\ fault = "none"
    /\ past = [failed |-> FALSE, ever |-> FALSE, nop |-> FALSE, memcache |-> FALSE,
               switched |-> FALSE, select |-> 0]

Alive(v) == mem.refcount[v] > 0

Fault(why) ==
    /\ fault' = why
    /\ UNCHANGED <<mem, request, running, held, started, statement, lost, past>>

Script == running /\ fault = "none"

(***************************************************************************)
(* The engine: reference counts and the variables of the script.           *)
(***************************************************************************)

AddRef(m, v) == [m EXCEPT !.refcount[v] = @ + 1]

PtrDtor(m, v) == [m EXCEPT !.refcount[v] = @ - 1]

Pointers == {mem.names, mem.query_is_select, mem.handler_object, mem.new_handler_object}

\* The script creates a value; memory the plugin points to is not used again.
Create(v) ==
    /\ Script /\ ~Alive(v) /\ v \notin held \cup Pointers
    /\ mem' = AddRef(mem, v) /\ held' = held \cup {v}
    /\ UNCHANGED <<request, running, started, statement, lost, fault, past>>

Unset(v) ==
    /\ Script /\ v \in held /\ Alive(v)
    /\ mem' = PtrDtor(mem, v) /\ held' = held \ {v}
    /\ UNCHANGED <<request, running, started, statement, lost, fault, past>>

UseDeadVariable(v) ==
    /\ Script /\ v \in held /\ ~Alive(v)
    /\ Fault("variable")

(***************************************************************************)
(* Changing the handler.  change_shutdown and change_init of the handlers  *)
(* as functions of the memory; whether the methods shutdown() and init()   *)
(* of an object and the memcached library agree is up to them.             *)
(***************************************************************************)

\* Mutant: the object is forgotten with its reference.
ChangeShutdownForgets(m) ==
    CASE m.handler = "user" -> [PtrDtor(m, m.names) EXCEPT !.names = None]
      [] m.handler = "object" /\ m.handler_object # None ->
            [m EXCEPT !.handler_object = None]
      [] m.handler = "memcache" -> [m EXCEPT !.memc = FALSE]
      [] OTHER -> m

ChangeShutdown(m) ==
    CASE m.handler = "user" -> [PtrDtor(m, m.names) EXCEPT !.names = None]
      [] m.handler = "object" /\ m.handler_object # None ->
            [PtrDtor(m, m.handler_object) EXCEPT !.handler_object = None]
      [] m.handler = "memcache" -> [m EXCEPT !.memc = FALSE]
      [] OTHER -> m

\* Mutant: the callbacks are kept without a reference.
ChangeInitBorrows(m, to) ==
    CASE to = "object" -> [AddRef(m, m.new_handler_object) EXCEPT
            !.handler_object = m.new_handler_object, !.new_handler_object = None]
      [] to = "memcache" -> [m EXCEPT !.memc = TRUE]
      [] OTHER -> m

ChangeInit(m, to) ==
    CASE to = "user" -> AddRef(m, m.names)
      [] to = "object" -> [AddRef(m, m.new_handler_object) EXCEPT
            !.handler_object = m.new_handler_object, !.new_handler_object = None]
      [] to = "memcache" -> [m EXCEPT !.memc = TRUE]
      [] OTHER -> m

\* memcached_create succeeded, the server was refused; or init() returned FALSE.
InitFails(m, to) == IF to = "memcache" THEN [m EXCEPT !.memc = TRUE] ELSE m

Changed(failed, to) ==
    past' = [past EXCEPT !.failed = @ \/ failed, !.ever = @ \/ failed,
                         !.nop = @ \/ to = "nop", !.memcache = @ \/ to = "memcache",
                         !.switched = @ \/ statement # "none"]

\* The same handler again; these do nothing or count the new callbacks.
Refresh(m, to) ==
    /\ to = m.handler /\ to \in {"default", "nop", "user"}
    /\ mem' = ChangeInit(m, to)
    /\ UNCHANGED started
    /\ Changed(FALSE, to)

Stops(m, to) == to # m.handler \/ to \in {"memcache", "object"}

\* Mutant: an object that refuses is kept.
RefuseKept(m, to) ==
    /\ Stops(m, to) /\ m.handler = "object"
    /\ mem' = m
    /\ started' = started \ {m.handler_object}
    /\ Changed(TRUE, to)

\* shutdown() returns FALSE, or there is no object any more: the handler stays.
Refuse(m, to) ==
    /\ Stops(m, to) /\ m.handler = "object"
    /\ mem' = ChangeShutdown(m)
    /\ started' = started \ {m.handler_object}
    /\ Changed(TRUE, to)

CanStop(m) == m.handler = "object" => m.handler_object # None

StartFails(m, to) ==
    /\ Stops(m, to) /\ CanStop(m) /\ to \in {"memcache", "object"}
    /\ LET stopped == ChangeShutdown(m) IN
          mem' = [InitFails(stopped, to) EXCEPT !.handler = IF to = @ THEN @ ELSE "nop"]
    /\ started' = started \ {m.handler_object}
    /\ Changed(TRUE, to)

Replace(m, to) ==
    /\ Stops(m, to) /\ CanStop(m)
    /\ to = "object" => m.new_handler_object # None
    /\ mem' = [ChangeInit(ChangeShutdown(m), to) EXCEPT !.handler = to]
    /\ started' = (started \ {m.handler_object}) \cup
                  (IF to = "object" THEN {m.new_handler_object} ELSE {})
    /\ Changed(FALSE, to)

\* mysqlnd_qc_set_storage_handler(), the internal function.
ChangeHandler(m, to) ==
    /\ Refresh(m, to) \/ Refuse(m, to) \/ StartFails(m, to) \/ Replace(m, to)
    /\ UNCHANGED <<request, running, held, statement, lost, fault>>

(***************************************************************************)
(* The functions of the script.                                            *)
(***************************************************************************)

SetStorageHandler(to) ==
    /\ Script /\ to \in {"default", "nop", "memcache"}
    /\ ChangeHandler(mem, to)

SetHandlerObject(o) ==
    /\ Script /\ o \in held /\ Alive(o)
    /\ ChangeHandler([mem EXCEPT !.new_handler_object = o], "object")

\* The string "object": whatever new_handler_object was left.
SetObjectByName ==
    /\ Script
    /\ mem.new_handler_object # None => Alive(mem.new_handler_object)
    /\ ChangeHandler(mem, "object")

CallDeadObject ==
    /\ Script /\ mem.new_handler_object # None /\ ~Alive(mem.new_handler_object)
    /\ Fault("object")

SetUserHandlers(c) ==
    /\ Script /\ c \in held /\ Alive(c)
    /\ mem.names # None => Alive(mem.names)
    /\ LET released == IF mem.names = None THEN mem ELSE PtrDtor(mem, mem.names) IN
          ChangeHandler([released EXCEPT !.names = c], "user")

\* The is_select callback can be called, or destroyed.
SelectCallable == mem.query_is_select # None => Alive(mem.query_is_select)

SetIsSelect(c) ==
    /\ Script /\ c \in held /\ Alive(c)
    /\ SelectCallable
    /\ LET released == IF mem.query_is_select = None THEN mem
                       ELSE PtrDtor(mem, mem.query_is_select) IN
          mem' = AddRef([released EXCEPT !.query_is_select = c], c)
    /\ past' = [past EXCEPT !.select = request]
    /\ UNCHANGED <<request, running, held, started, statement, lost, fault>>

\* set_user_handlers or a call of the user handler, set_is_select or a call of it
TouchDeadNames ==
    /\ Script /\ mem.names # None /\ ~Alive(mem.names)
    /\ Fault("names")

TouchDeadIsSelect ==
    /\ Script /\ mem.query_is_select # None /\ ~Alive(mem.query_is_select)
    /\ Fault("select")

(***************************************************************************)
(* A statement that may be cached, and its result.                         *)
(***************************************************************************)

\* The functions of the user handler can be called.
UserCallable == mem.handler = "user" => Alive(mem.names)

\* Without its object the object handler makes no hash key: nothing is cached.
ObjectMakesKey == mem.handler = "object" => mem.handler_object # None

\* The default handler lends its own data or a copy, the others make one.
Lends == IF mem.handler = "default" /\ ~mem.std_data_copy THEN "shared" ELSE "copy"

SendQuery ==
    /\ Script /\ statement = "none"
    /\ SelectCallable /\ mem.handler # "nop" /\ UserCallable /\ ObjectMakesKey
    /\ statement' \in {Lends, "recording"}
    /\ UNCHANGED <<mem, request, running, held, started, lost, fault, past>>

\* get_hash_key, add_query_to_cache_if_not_exists or return_to_cache is NULL.
CallNop ==
    /\ Script /\ mem.handler = "nop"
    /\ Fault("nop")

\* return_to_cache frees what it is given.
UserFrees == mem.handler = "user"

ObjectFrees == mem.handler = "object" /\ mem.handler_object # None

MemcacheFrees == mem.handler = "memcache"

DefaultFrees == mem.handler = "default" /\ mem.std_data_copy

\* Mutant: the default handler leaves copies to the table.
FreesForeign == UserFrees \/ ObjectFrees \/ MemcacheFrees

Frees == UserFrees \/ ObjectFrees \/ MemcacheFrees \/ DefaultFrees

Stored(losing) ==
    /\ Script /\ statement # "none" /\ mem.handler # "nop" /\ UserCallable
    /\ statement' = "none" /\ lost' = lost \cup losing
    /\ UNCHANGED <<mem, request, running, held, started, fault, past>>

\* The handler that is current now takes the data back; the object handler without
\* an object drops it.
StoreReplayed ==
    \/ statement = "shared" /\ ~Frees
         /\ Stored(IF mem.handler = "default" THEN {} ELSE {"loan"})
    \/ statement = "copy" /\ Stored(IF Frees THEN {} ELSE {"loan"})

\* The handler frees or keeps what it adds, store_result frees what is refused: the
\* memcache handler alone leaves what it added to nobody.
StoreRecorded ==
    /\ statement = "recording"
    /\ \E losing \in {{}} \cup (IF MemcacheFrees THEN {{"recording"}} ELSE {}) : Stored(losing)

\* Another handler frees the data of an entry, or the default handler decrements
\* the counter of an entry that lent nothing.
ReturnToStranger ==
    /\ Script /\ UserCallable
    /\ \/ statement = "shared" /\ Frees
       \/ statement = "copy" /\ mem.handler = "default" /\ ~mem.std_data_copy
    /\ Fault("loan")

(***************************************************************************)
(* The end of a request and the begin of the next one.                     *)
(***************************************************************************)

\* RSHUTDOWN.  No script is executing: shutdown() of the object is not called.
EndRequest ==
    /\ Script /\ statement = "none" /\ SelectCallable
    /\ LET stopped == IF mem.handler \in {"user", "object"} THEN ChangeShutdown(mem) ELSE mem
           released == IF mem.query_is_select = None THEN stopped
                       ELSE PtrDtor(stopped, mem.query_is_select) IN
          mem' = [released EXCEPT !.handler = "default"]
    /\ running' = FALSE
    /\ UNCHANGED <<request, held, started, statement, lost, fault, past>>

\* The engine frees what is left of the script; RINIT.
NextRequest ==
    /\ ~running /\ request < MaxRequests
    /\ request' = request + 1 /\ running' = TRUE
    /\ mem' = [mem EXCEPT !.handler = "default", !.names = None,
                          !.refcount = [v \in Values |-> 0]]
    /\ held' = {} /\ started' = {}
    /\ past' = [past EXCEPT !.failed = FALSE, !.nop = FALSE]
    /\ UNCHANGED <<statement, lost, fault>>

Next ==
    \/ \E v \in Values : Create(v) \/ Unset(v) \/ UseDeadVariable(v)
    \/ \E to \in Handlers : SetStorageHandler(to)
    \/ \E o \in Objects : SetHandlerObject(o)
    \/ SetObjectByName \/ CallDeadObject
    \/ \E c \in Callbacks : SetUserHandlers(c) \/ SetIsSelect(c)
    \/ TouchDeadNames \/ TouchDeadIsSelect
    \/ SendQuery \/ CallNop \/ StoreReplayed \/ StoreRecorded \/ ReturnToStranger
    \/ EndRequest \/ NextRequest

Spec == Init /\ [][Next]_vars

(***************************************************************************)
(* Properties.                                                             *)
(***************************************************************************)

\* What can bring the process down, and nothing else: callbacks die under the
\* plugin (or variables under the script) only after a change of the handler was
\* refused, an object only after an init() that failed, the is_select callback also
\* when it was left by an earlier request; the nop handler is called only when it
\* was asked for or replaces a handler that did not start; data is given back to
\* the wrong handler only when it was changed while a result was pending.
SafeUnlessMisused ==
    /\ fault \in {"names", "variable"} => past.failed
    /\ fault = "object" => past.ever
    /\ fault = "select" => past.select < request \/ past.failed
    /\ fault = "nop" => past.failed \/ past.nop
    /\ fault = "loan" => past.switched

Bit(b) == IF b THEN 1 ELSE 0

\* References of the plugin: the callbacks count only while they are used.
Owned(v) ==
    Bit(mem.handler = "user" /\ mem.names = v) + Bit(mem.handler_object = v)
      + Bit(running /\ mem.query_is_select = v /\ past.select = request)

\* The reference count of a value is that of its users: the plugin frees nothing
\* early and leaves nothing behind, whatever handlers come and go, and after
\* RSHUTDOWN only the script holds its values.  Callbacks are excepted once a change
\* of the handler has failed, objects never are.  The memcache handler always has
\* its client, even one that was refused its server.
OwnsWhatItKeeps ==
    fault = "none" =>
      /\ mem.handler = "memcache" => mem.memc
      /\ \A v \in Values : (v \in Callbacks => ~past.failed) =>
            mem.refcount[v] = Bit(v \in held) + Owned(v)

\* An object is started only after the last one was shut down, and the plugin keeps
\* the object that is started, while the script runs and no other.
OneObjectStarted ==
    running /\ fault = "none" =>
      /\ started = {mem.handler_object} \ {None}
      /\ mem.handler_object # None => mem.handler = "object"

\* Data that was lent is given back or freed exactly once, if the handler is not
\* changed while a result is pending.  When the default handler copies
\* (std_data_copy) all handlers agree on who frees what they lend: then a change
\* does no harm either, unless one failed.  Only the memcache handler loses what is
\* recorded.
DataComesBack ==
    /\ "loan" \in lost => past.switched
    /\ mem.std_data_copy => fault # "loan" /\ ("loan" \in lost => past.ever)
    /\ "recording" \in lost => past.memcache
=============================================================================
