-------------------------------- MODULE TraceLog --------------------------------
(***************************************************************************)
(* The query trace logs (mysqlnd_qc_logs.c and the hooks of mysqlnd_qc.c   *)
(* that write them), kept while connections run statements: every step of  *)
(* Connections is one of this module, which adds what the hook writes to   *)
(* the logs.                                                               *)
(*                                                                         *)
(* The trace log has an entry for each statement of a request; the hooks   *)
(* that come after send_query write to its last entry.  The normalized log *)
(* is of the process: it counts the statements of one form and keeps the   *)
(* least, the average and the greatest of their times.  A connection finds *)
(* its entry of the normalized log by a pointer that send_query has set.   *)
(* Both logs are on (collect_query_trace, collect_normalized_query_trace   *)
(* and time_statistics), every connection is the only one of its request,  *)
(* no request ends, and every statement has a form of its own.             *)
(***************************************************************************)
EXTENDS Connections, FiniteSetsExt

CONSTANTS
    ReplayTimes,  \* how long the hooks take, without and with the server
    ServerTimes,
    MaxMulti      \* multi_query is called that often

ASSUME TraceAssumption ==
    (ReplayTimes \cup ServerTimes) \subseteq Nat \ {0} /\ MaxMulti \in Nat

VARIABLES
    trace,  \* trace[c]: the query_trace_log of the request that has connection c
    norm,   \* norm[q]: the entry of q in norm_query_trace_log
    data,   \* data[c]: what the plugin keeps with connection c for the logs
    past    \* history, see Past

logs == <<trace, norm, data, past>>
tvars == <<vars, logs>>

Fields == {"eligible_for_caching", "no_table", "was_added", "was_already_in_cache"}

\* `counted` is history: the connection did not accept multi statements.
TraceEntry(q, flags, counted) ==
    [query |-> q, run_time |-> 0, store_time |-> 0, flags |-> flags, counted |-> counted]

NoTimes == [min |-> 0, avg |-> 0, max |-> 0]

NewNormEntry == [occurences |-> 0, run |-> NoTimes, store |-> NoTimes]

NewConnection == [norm_qt_log_entry |-> None, multi_q_enabled |-> FALSE]

\* What history keeps: for each connection the last eligible statement that was
\* counted and had a result set; the forms under which a statement that is not
\* for the cache was counted; and those of which a statement was counted between
\* the two hooks of another.
Past == [follows |-> [c \in Conns |-> None], strayed |-> {}, overlapped |-> {}]

TraceInit ==
    /\ Init
    /\ trace = [c \in Conns |-> <<>>]
    /\ norm = [q \in {} |-> NewNormEntry]
    /\ data = [c \in Conns |-> NewConnection]
    /\ past = Past

Last(c) == Len(trace[c])

Entries == {e \in Conns \X (1..MaxSends) : e[2] <= Len(trace[e[1]])}

At(e) == trace[e[1]][e[2]]

Times(c) == IF conn[c].hook = "replay" THEN ReplayTimes ELSE ServerTimes

\* Times after one more, the n-th; a minimum of 0 stands for no time yet.
Measured(times, t, n) ==
    [min |-> IF times.min = 0 \/ t < times.min THEN t ELSE times.min,
     max |-> IF times.min = 0 \/ t > times.max THEN t ELSE times.max,
     avg |-> (times.avg * (n - 1) + t) \div n]

-----------------------------------------------------------------------------
\* mysqlnd_qc_handle_query

\* set_server_option, which the script calls with the statement if it has to:
\* multi_query turns it on, query turns it off.
SetServerOption(c, multi) ==
    /\ multi => Cardinality({e \in Entries : ~At(e).counted}) < MaxMulti
    /\ multi # data[c].multi_q_enabled => InSync(c)

NormAdded(q, multi) ==
    IF multi THEN norm
    ELSE [k \in DOMAIN norm \cup {q} |-> IF k \in DOMAIN norm THEN norm[k] ELSE NewNormEntry]

\* Mutant: a multi statement leaves it as well.
PointerLeft(c, q, multi) ==
    IF multi \/ ~Eligible(q) THEN data[c].norm_qt_log_entry
    ELSE IF InSync(c) THEN q ELSE None

\* A statement that is not for the cache leaves the pointer of the one before it.
Pointer(c, q, multi) ==
    IF ~Eligible(q) THEN data[c].norm_qt_log_entry
    ELSE IF InSync(c) /\ ~multi THEN q ELSE None

\* send_query fails: the time it took is in the log already.
SendTime(c, q) == IF Eligible(q) /\ ~InSync(c) THEN ServerTimes ELSE {0}

SendLogged(c, q) ==
    \E multi \in BOOLEAN, t \in SendTime(c, q) :
        /\ SetServerOption(c, multi)
        /\ SendQuery(c, q)
        /\ trace' = [trace EXCEPT ![c] =
                        Append(@, [TraceEntry(q, IF Eligible(q) THEN {"eligible_for_caching"} ELSE {},
                                              ~multi) EXCEPT !.run_time = t])]
        /\ norm' = NormAdded(q, multi)
        /\ data' = [data EXCEPT ![c] = [norm_qt_log_entry |-> Pointer(c, q, multi),
                                        multi_q_enabled |-> multi]]
        /\ UNCHANGED past

-----------------------------------------------------------------------------
\* reap_query

TraceRunTime(c, t) ==
    trace' = [trace EXCEPT ![c][Last(c)].run_time = t]

NormRunTime(c, t) ==
    LET e == data[c].norm_qt_log_entry
    IN  norm' = IF e = None THEN norm
                ELSE [norm EXCEPT ![e].occurences = @ + 1,
                                  ![e].run = Measured(@, t, norm[e].occurences + 1)]

\* A statement is counted while another of its form has not been stored yet.
Overlapped(c) ==
    past.overlapped \cup
        {q \in Keys : /\ q = data[c].norm_qt_log_entry
                      /\ \E o \in Conns \ {c} : /\ conn[o].state \in {"fetching", "rows"}
                                                /\ data[o].norm_qt_log_entry = q}

Strayed(c) ==
    past.strayed \cup (IF conn[c].active THEN {} ELSE {past.follows[c]} \ {None})

ReapLogged(c) ==
    \E t \in Times(c) :
        /\ \/ /\ ReapResultSet(c)
              /\ UNCHANGED data
           \/ /\ ReapNoResult(c) \/ ReapFails(c)
              /\ data' = IF conn[c].active THEN [data EXCEPT ![c].norm_qt_log_entry = None] ELSE data
        /\ TraceRunTime(c, t)
        /\ NormRunTime(c, t)
        /\ past' = [past EXCEPT !.overlapped = Overlapped(c), !.strayed = Strayed(c),
                                !.follows[c] =
                                    IF ~conn[c].active THEN @
                                    ELSE IF conn'[c].state = "fetching" /\ trace[c][Last(c)].counted
                                         THEN conn[c].running ELSE None]

-----------------------------------------------------------------------------
\* store_result

NormStoreTime(c, t) ==
    LET e == data[c].norm_qt_log_entry
    IN  norm' = IF e = None THEN norm
                ELSE [norm EXCEPT ![e].store = Measured(@, t, norm[e].occurences)]

TraceStoreTime(c, t, flags) ==
    trace' = [trace EXCEPT ![c][Last(c)].store_time = t,
                           ![c][Last(c)].flags = @ \cup flags]

\* Mutant: a recording that was refused counts as added.
OutcomeAdded(c, flags) ==
    \/ flags = {"was_already_in_cache"} /\ StoreReplayed(c)
    \/ flags = {"no_table"} /\ StoreNoTable(c)
    \/ flags = {"was_added"} /\ (StoreAdded(c) \/ StoreRefused(c))
    \/ flags = {} /\ (StoreInactive(c) \/ StoreUnhooked(c) \/ StoreRejected(c))

Outcome(c, flags) ==
    \/ flags = {"was_already_in_cache"} /\ (StoreReplayed(c) \/ StoreRefused(c))
    \/ flags = {"no_table"} /\ StoreNoTable(c)
    \/ flags = {"was_added"} /\ StoreAdded(c)
    \/ flags = {} /\ (StoreInactive(c) \/ StoreUnhooked(c) \/ StoreRejected(c))

StoreLogged(c) ==
    \E t \in Times(c), flags \in SUBSET Fields :
        /\ Outcome(c, flags)
        /\ TraceStoreTime(c, t, flags)
        /\ NormStoreTime(c, t)
        /\ UNCHANGED <<data, past>>

-----------------------------------------------------------------------------
\* Steps of a connection that write to no log

\* The connection's data is freed, and allocated anew by connect.
CloseLogged(c) ==
    /\ Close(c) \/ Reconnect(c)
    /\ data' = [data EXCEPT ![c] = NewConnection]
    /\ past' = [past EXCEPT !.follows[c] = None]
    /\ UNCHANGED <<trace, norm>>

Unlogged(c) ==
    /\ StoreFails(c) \/ UseResult(c) \/ ReadRows(c) \/ NextResult(c) \/ Connect(c)
    /\ UNCHANGED logs

TraceNext ==
    \/ (Tick \/ SetCacheCondition) /\ UNCHANGED logs
    \/ \E c \in Conns :
         \/ \E q \in Keys : SendLogged(c, q)
         \/ ReapLogged(c) \/ StoreLogged(c)
         \/ CloseLogged(c) \/ Unlogged(c)

TraceSpec == TraceInit /\ [][TraceNext]_tvars

-----------------------------------------------------------------------------
(***************************************************************************)
(* Properties                                                              *)
(***************************************************************************)

Flagged(flag) == {e \in Entries : flag \in At(e).flags}

\* The statements that the entry of q should be about, as the traces have them:
\* answered, or stored.
Answered(q) == {e \in Entries : /\ At(e).query = q /\ At(e).counted /\ At(e).run_time > 0
                                /\ "eligible_for_caching" \in At(e).flags}

StoredEntries(q) == {e \in Answered(q) : At(e).store_time > 0}

Total(S, Time(_)) == MapThenSumSet(Time, S)

\* The least and the greatest time are those of the entries, and the average is
\* their mean as far as rounding down n times in a row lets it.
Summarizes(times, S, Time(_)) ==
    LET n == Cardinality(S)
    IN  IF S = {} THEN times = NoTimes
        ELSE /\ \E e \in S : times.min = Time(e)
             /\ \E e \in S : times.max = Time(e)
             /\ \A e \in S : times.min <= Time(e) /\ Time(e) <= times.max
             /\ 2 * (Total(S, Time) - n * times.avg) \in 0..(n * (n - 1))

\* The two logs agree on how often a statement was run and how long it took (the
\* test of the normalized log compares them), unless a statement that is not for
\* the cache was counted under the form of the one before it.  They agree on how
\* long it took to store the results as well, as long as no other statement of
\* the form is counted between the two hooks of one.
LogsAgree ==
    \A q \in DOMAIN norm \ past.strayed :
        /\ norm[q].occurences = Cardinality(Answered(q))
        /\ Summarizes(norm[q].run, Answered(q), LAMBDA e : At(e).run_time)
        /\ q \notin past.overlapped =>
              Summarizes(norm[q].store, StoredEntries(q), LAMBDA e : At(e).store_time)

\* The outcomes in the traces are those of the statistics, whichever connection
\* and whatever refused or expired in between.
TraceMatchesStatistics ==
    /\ Cardinality(Flagged("was_added")) = stat["put"]
    /\ Cardinality(Flagged("no_table")) = stat["no_table"]
    /\ Quiet => 2 * Cardinality(Flagged("was_already_in_cache")) = stat["hit"] + stat["found"]
=============================================================================
