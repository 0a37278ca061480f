------------------------------ MODULE BatchTx -------------------------------
(***************************************************************************)
(* Updates with PostgreSQL as the store: the service folds a batch into    *)
(* two maps (internal/service/metrics.go), a transaction writes them row   *)
(* by row in the order Go happens to range over each map                   *)
(* (internal/repository), and internal/database/transaction.go commits or  *)
(* rolls back under internal/retry. A single metric is one statement that  *)
(* commits by itself. PostgreSQL is external: READ COMMITTED, a row lock   *)
(* from the statement to the end of its transaction, a deadlock detector.  *)
(*                                                                         *)
(* A metric of an unknown type, or without a value, is skipped by the code *)
(* and left out of the lists here. An absent row is a row that is 0. A     *)
(* session that breaks gives up its locks at once.                         *)
(***************************************************************************)
EXTENDS Integers, Sequences, FiniteSetsExt, SequencesExt

CONSTANTS
    Handlers,    \* requests in progress, each handled once
    GaugeRows,   \* rows of the table gauges
    CounterRows, \* rows of the table counters
    Requests,    \* what clients send
    MaxInt       \* bound: the largest BIGINT, 2^63 - 1 in the code

Rows == GaugeRows \union CounterRows

Metric == [row : Rows, val : Int]

ASSUME HandlersAssumption == IsFiniteSet(Handlers)
ASSUME TablesAssumption == GaugeRows \intersect CounterRows = {}
ASSUME MaxIntAssumption == MaxInt \in Nat
ASSUME RequestsAssumption ==
    \A r \in Requests :
        /\ r.list \in Seq(Metric)
        /\ r.kind \in {"one", "batch"}
        /\ r.kind = "one" => Len(r.list) = 1

VARIABLES
    rows,     \* committed value of each row
    pc,       \* where each handler is
    request,  \* what it works on
    writes,   \* the rows its open transaction has written and holds locked
    waiting,  \* the row its current statement is about, as a set of at most one
    failures, \* how often its operation has failed
    lastErr,  \* the error of the last failure
    answer,   \* "none", "ok" or "error"
    commits   \* history: how often its changes have been committed

txVars == <<writes, waiting>>
vars == <<rows, pc, request, txVars, failures, lastErr, answer, commits>>

-----------------------------------------------------------------------------
(* The two maps of the service *)

Int64 == (-MaxInt - 1)..MaxInt
Wrap(n) == ((n + MaxInt + 1) % (2 * (MaxInt + 1))) - (MaxInt + 1)

Positions(list, row) == {i \in DOMAIN list : list[i].row = row}
Named(list, table) == {row \in table : Positions(list, row) # {}}

\* gauges[metric.ID] = *metric.Value: the last one of a name stays.
GaugeMap(list) ==
    [g \in Named(list, GaugeRows) |-> list[Max(Positions(list, g))].val]

\* A name that comes twice counts once.
CounterMap_LastWins(list) ==
    [c \in Named(list, CounterRows) |-> list[Max(Positions(list, c))].val]

\* counters[metric.ID] += *metric.Delta, on int64.
CounterMap(list) ==
    [c \in Named(list, CounterRows) |->
        FoldLeft(LAMBDA sum, m : IF m.row = c THEN Wrap(sum + m.val) ELSE sum, 0, list)]

\* Negative values are refused before anything is written.
Rejected(list) == \E i \in DOMAIN list : list[i].val < 0

NoRequest == [kind |-> "batch", list |-> <<>>]

\* The maps of every request, which only depend on it.
Folded ==
    [r \in Requests \union {NoRequest} |-> [sets |-> GaugeMap(r.list), adds |-> CounterMap(r.list)]]

Sets(h) == Folded[request[h]].sets
Adds(h) == Folded[request[h]].adds

-----------------------------------------------------------------------------
(* Errors and retries *)

MaxRetries == 3

\* database.go opens the driver lib/pq; its errors are not of pgconn's type.
DriverError(class) == [type |-> "pq", class |-> class]
Connection == DriverError("08")
OutOfRange == DriverError("22")
Deadlock   == DriverError("40")
Timeout    == [type |-> "context", class |-> "none"]
NoError    == [type |-> "none", class |-> "none"]
Errors     == {Connection, OutOfRange, Deadlock, Timeout}

\* The class alone decides, whichever driver the error comes from.
IsRetriableError_AnyDriver(e) == e.class = "08"

\* errors.As(err, &pgErr) and the class 08.
IsRetriableError(e) == e.type = "pgconn" /\ e.class = "08"

Entry(r) == IF r.kind = "one" THEN "one" ELSE "begin"

\* An error returns without rolling back.
Fail_NoRollback(h, e) ==
    /\ failures' = [failures EXCEPT ![h] = @ + 1]
    /\ lastErr' = [lastErr EXCEPT ![h] = e]
    /\ pc' = [pc EXCEPT ![h] = "done"]
    /\ answer' = [answer EXCEPT ![h] = "error"]
    /\ UNCHANGED <<request, txVars>>

\* WithRetry: the operation rolls back and returns e; a retriable error has it
\* run again, one time and three more at most.
Fail(h, e) ==
    /\ writes' = [writes EXCEPT ![h] = <<>>]
    /\ waiting' = [waiting EXCEPT ![h] = {}]
    /\ failures' = [failures EXCEPT ![h] = @ + 1]
    /\ lastErr' = [lastErr EXCEPT ![h] = e]
    /\ IF IsRetriableError(e) /\ failures[h] < MaxRetries
         THEN pc' = [pc EXCEPT ![h] = Entry(request[h])] /\ UNCHANGED answer
         ELSE /\ pc' = [pc EXCEPT ![h] = "done"]
              /\ answer' = [answer EXCEPT ![h] = "error"]
    /\ UNCHANGED request

-----------------------------------------------------------------------------
(* PostgreSQL *)

RowFree(h, row) == \A k \in Handlers \ {h} : row \notin DOMAIN writes[k]

WaitsFor(h, k) == h # k /\ waiting[h] \intersect DOMAIN writes[k] # {}

\* Each member waits for a member and is waited for by one.
IsCycle(S) ==
    /\ S # {}
    /\ \A h \in S : (\E k \in S : WaitsFor(h, k)) /\ (\E k \in S : WaitsFor(k, h))

-----------------------------------------------------------------------------
Init ==
    /\ rows = [r \in Rows |-> 0]
    /\ pc = [h \in Handlers |-> "idle"]
    /\ request = [h \in Handlers |-> NoRequest]
    /\ writes = [h \in Handlers |-> <<>>]
    /\ waiting = [h \in Handlers |-> {}]
    /\ failures = [h \in Handlers |-> 0]
    /\ lastErr = [h \in Handlers |-> NoError]
    /\ answer = [h \in Handlers |-> "none"]
    /\ commits = [h \in Handlers |-> 0]

Receive(h) ==
    /\ pc[h] = "idle"
    /\ \E r \in Requests :
         /\ request' = [request EXCEPT ![h] = r]
         /\ IF Rejected(r.list)
              THEN /\ pc' = [pc EXCEPT ![h] = "done"]
                   /\ answer' = [answer EXCEPT ![h] = "error"]
              ELSE pc' = [pc EXCEPT ![h] = Entry(r)] /\ UNCHANGED answer
    /\ UNCHANGED <<rows, txVars, failures, lastErr, commits>>

\* BeginTx has returned a transaction.
Begin(h) ==
    /\ pc[h] = "begin"
    /\ pc' = [pc EXCEPT ![h] = "gauges"]
    /\ UNCHANGED <<rows, request, txVars, failures, lastErr, answer, commits>>

\* One loop over everything, whatever the table.
Todo_OneLoop(h) == (DOMAIN Sets(h) \union DOMAIN Adds(h)) \ DOMAIN writes[h]

\* What is left of the map the current loop ranges over.
Todo(h) ==
    (IF pc[h] = "gauges" THEN DOMAIN Sets(h) ELSE DOMAIN Adds(h)) \ DOMAIN writes[h]

\* The next statement of a loop: range takes any key.
Issue(h) ==
    /\ waiting[h] = {}
    /\ \/ pc[h] \in {"gauges", "counters"} /\ \E row \in Todo(h) : waiting' = [waiting EXCEPT ![h] = {row}]
       \/ pc[h] = "one" /\ waiting' = [waiting EXCEPT ![h] = {request[h].list[1].row}]
    /\ UNCHANGED <<rows, pc, request, writes, failures, lastErr, answer, commits>>

\* ON CONFLICT DO UPDATE: a gauge is replaced, a counter added to.
Upserted(h, row) ==
    IF row \in GaugeRows THEN Sets(h)[row] ELSE rows[row] + Adds(h)[row]

\* What a transaction has written, once it has written this row too.
Written(h, row) ==
    [r \in DOMAIN writes[h] \union {row} |-> IF r = row THEN Upserted(h, row) ELSE writes[h][r]]

\* The statement is run outside the transaction and commits by itself.
Exec_OnPool(h) ==
    /\ pc[h] \in {"gauges", "counters"}
    /\ \E row \in waiting[h] :
         /\ RowFree(h, row) /\ Upserted(h, row) \in Int64
         /\ writes' = [writes EXCEPT ![h] = Written(h, row)]
         /\ rows' = [rows EXCEPT ![row] = Upserted(h, row)]
    /\ waiting' = [waiting EXCEPT ![h] = {}]
    /\ UNCHANGED <<pc, request, failures, lastErr, answer, commits>>

\* stmt.ExecContext inside the transaction; BIGINT does not wrap but fails.
Exec(h) ==
    /\ pc[h] \in {"gauges", "counters"}
    /\ \E row \in waiting[h] :
         /\ RowFree(h, row)
         /\ IF Upserted(h, row) \in Int64
              THEN /\ writes' = [writes EXCEPT ![h] = Written(h, row)]
                   /\ waiting' = [waiting EXCEPT ![h] = {}]
                   /\ UNCHANGED <<pc, request, failures, lastErr, answer>>
              ELSE Fail(h, OutOfRange)
    /\ UNCHANGED <<rows, commits>>

\* UpsertBatch has returned; AddBatch follows.
GaugesDone(h) ==
    /\ pc[h] = "gauges"
    /\ Todo(h) = {}
    /\ pc' = [pc EXCEPT ![h] = "counters"]
    /\ UNCHANGED <<rows, request, txVars, failures, lastErr, answer, commits>>

CountersDone(h) == pc[h] = "counters" /\ Todo(h) = {}

\* The transaction's rows, or the single statement's, are in the database.
Committed(h, changes) ==
    /\ rows' = [r \in Rows |-> IF r \in DOMAIN changes THEN changes[r] ELSE rows[r]]
    /\ commits' = [commits EXCEPT ![h] = @ + 1]

Succeed(h) ==
    /\ pc' = [pc EXCEPT ![h] = "done"]
    /\ answer' = [answer EXCEPT ![h] = "ok"]
    /\ writes' = [writes EXCEPT ![h] = <<>>]
    /\ waiting' = [waiting EXCEPT ![h] = {}]
    /\ UNCHANGED <<request, failures, lastErr>>

\* Commit: done and answered, or the answer is lost, on either side of it.
Commit(h) ==
    /\ CountersDone(h)
    /\ \/ Committed(h, writes[h]) /\ Succeed(h)
       \/ \E e \in {Connection, Timeout} :
            /\ Fail(h, e)
            /\ Committed(h, writes[h]) \/ UNCHANGED <<rows, commits>>

\* Upsert and Add of a single metric commit by themselves.
ExecOne(h) ==
    /\ pc[h] = "one"
    /\ \E row \in waiting[h] :
         /\ RowFree(h, row)
         /\ IF Upserted(h, row) \in Int64
              THEN LET changes == [r \in {row} |-> Upserted(h, row)]
                   IN  \/ Committed(h, changes) /\ Succeed(h)
                       \/ \E e \in {Connection, Timeout} : Fail(h, e) /\ Committed(h, changes)
              ELSE Fail(h, OutOfRange) /\ UNCHANGED <<rows, commits>>

\* A connection breaks, or the five seconds of the service are over, or the
\* client has gone, before the commit.
Break(h) ==
    /\ pc[h] \in {"begin", "gauges", "counters", "one"}
    /\ \E e \in {Connection, Timeout} : Fail(h, e)
    /\ UNCHANGED <<rows, commits>>

\* PostgreSQL ends a deadlock by failing one of its transactions.
AbortDeadlock ==
    \E S \in SUBSET Handlers :
        /\ IsCycle(S)
        /\ \E h \in S : Fail(h, Deadlock)
        /\ UNCHANGED <<rows, commits>>

HandlerStep(h) == Begin(h) \/ Issue(h) \/ Exec(h) \/ GaugesDone(h) \/ Commit(h) \/ ExecOne(h)

Next ==
    \/ \E h \in Handlers : Receive(h) \/ HandlerStep(h) \/ Break(h)
    \/ AbortDeadlock

Spec == Init /\ [][Next]_vars

\* Handlers run and PostgreSQL looks for deadlocks. Requests and failures come
\* or not: no timeout is needed for progress.
Fairness ==
    /\ \A h \in Handlers : WF_vars(HandlerStep(h))
    /\ WF_vars(AbortDeadlock)

FairSpec == Spec /\ Fairness

-----------------------------------------------------------------------------
(* Properties *)

TypeOK ==
    /\ rows \in [Rows -> Int64]
    /\ pc \in [Handlers -> {"idle", "begin", "gauges", "counters", "one", "done"}]
    /\ request \in [Handlers -> Requests \union {NoRequest}]
    /\ writes \in [Handlers -> UNION {[S -> Int64] : S \in SUBSET Rows}]
    /\ waiting \in [Handlers -> SUBSET Rows]
    /\ \A h \in Handlers :
         /\ \A r, s \in waiting[h] : r = s
         /\ pc[h] \notin {"gauges", "counters"} => writes[h] = <<>>
    /\ failures \in [Handlers -> 0..MaxRetries + 1]
    /\ lastErr \in [Handlers -> Errors \union {NoError}]
    /\ answer \in [Handlers -> {"none", "ok", "error"}]
    /\ commits \in [Handlers -> Nat]

\* What the list of a request says of a counter, without the code's maps.
Said ==
    [r \in Requests \union {NoRequest} |-> [c \in CounterRows |->
        SumFunction([i \in DOMAIN r.list |-> IF r.list[i].row = c THEN r.list[i].val ELSE 0])]]

Given(c) == SumFunction([h \in Handlers |-> commits[h] * Said[request[h]][c]])

\* Transactions that add to a counter at the same time lose nothing: it is the
\* sum of everything committed, up to the wrap of int64 inside one batch.
NoLostAdds == \A c \in CounterRows : Wrap(rows[c]) = Wrap(Given(c))

\* A request's changes are committed once at most, exactly once when it is
\* answered with success, and never when the error came from before the commit.
CommittedOnce ==
    \A h \in Handlers :
        /\ commits[h] <= 1
        /\ answer[h] = "ok" => commits[h] = 1
        /\ lastErr[h] \in {Deadlock, OutOfRange} => commits[h] = 0

\* All gauges of a batch are written before its counters, so a transaction of a
\* deadlock and the one it waits for are in the same loop: no deadlock crosses the
\* tables, and the cause of each is the order of one map.
DeadlockInOneTable ==
    \A S \in SUBSET Handlers : IsCycle(S) =>
        \A h, k \in S : WaitsFor(h, k) =>
            \E table \in {GaugeRows, CounterRows} : waiting[h] \union waiting[k] \subseteq table

\* Every request is answered: a deadlock is broken, a rollback frees its rows.
RequestsAnswered == \A h \in Handlers : pc[h] # "idle" ~> answer[h] # "none"

\* To the clients the database is a store that settles each request in one step.
Atomic == INSTANCE AtomicStore WITH
    Clients <- Handlers,
    Changes <- {Folded[r] : r \in Requests},
    change <- [h \in Handlers |-> Folded[request[h]]]

ImplementsAtomicStore == Atomic!StoreSpec

\* "Package retry provides retry logic with exponential backoff for transient
\* failures" (retry.go 1): a lost connection ends a request only after the first
\* try and MaxRetries more.
TransientErrorsRetried ==
    \A h \in Handlers : answer[h] = "error" /\ lastErr[h].class = "08" => failures[h] = MaxRetries + 1
=============================================================================
