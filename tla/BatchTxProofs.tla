--------------------------- MODULE BatchTxProofs ----------------------------
(***************************************************************************)
(* Proofs about BatchTx, for any finite set of requests in progress, any   *)
(* tables, any requests and any width of BIGINT.                           *)
(***************************************************************************)
EXTENDS BatchTx, SumProofs, TLAPS

-----------------------------------------------------------------------------
(* The inductive invariant *)

\* One request: what it has still to do, and how it has ended.
HandlerInv(h) ==
    /\ pc[h] = "idle" => request[h] = NoRequest
    /\ pc[h] \notin {"idle", "done"} => request[h] \in Requests
    /\ pc[h] = "one" => request[h].kind = "one"
    /\ pc[h] # "done" => /\ answer[h] = "none" /\ commits[h] = 0
                         /\ failures[h] = 0 /\ lastErr[h] = NoError
    /\ pc[h] = "done" => answer[h] # "none"
    /\ pc[h] \notin {"gauges", "counters", "one"} => waiting[h] = {}

\* A transaction is in the loop over the gauges, or through with it.
LoopInv(h) ==
    /\ waiting[h] \intersect DOMAIN writes[h] = {}
    /\ pc[h] = "gauges" => waiting[h] \union DOMAIN writes[h] \subseteq DOMAIN Sets(h)
    /\ pc[h] = "counters" =>
         /\ waiting[h] \subseteq DOMAIN Adds(h)
         /\ DOMAIN Sets(h) \subseteq DOMAIN writes[h]
         /\ DOMAIN writes[h] \subseteq DOMAIN Sets(h) \union DOMAIN Adds(h)
    /\ pc[h] = "one" => waiting[h] \subseteq {request[h].list[1].row}

\* What it has written is still right, for nobody else can have changed the row.
ValueInv(h) == \A r \in DOMAIN writes[h] : writes[h][r] = Upserted(h, r)

LockInv == \A h, k \in Handlers : h # k => DOMAIN writes[h] \intersect DOMAIN writes[k] = {}

IInv ==
    /\ TypeOK /\ CommittedOnce
    /\ \A h \in Handlers : HandlerInv(h) /\ LoopInv(h) /\ ValueInv(h)
    /\ LockInv

-----------------------------------------------------------------------------
(* The maps of a request *)

LEMMA EmptyFunction == ASSUME NEW f, f = [x \in {} |-> f[x]] PROVE f = <<>>
OBVIOUS

LEMMA NothingFolded == GaugeMap(<<>>) = <<>> /\ CounterMap(<<>>) = <<>>
<1>1. \A t : Named(<<>>, t) = {}
  BY DEF Named, Positions
<1>2. GaugeMap(<<>>) = [x \in Named(<<>>, GaugeRows) |-> GaugeMap(<<>>)[x]]
  BY DEF GaugeMap
<1>3. CounterMap(<<>>) = [x \in Named(<<>>, CounterRows) |-> CounterMap(<<>>)[x]]
  BY Zenon DEF CounterMap
<1> QED BY <1>1, <1>2, <1>3, EmptyFunction

\* The gauges of a request are rows of one table, its counters rows of the other.
LEMMA FoldedRows ==
    ASSUME NEW r \in Requests \union {NoRequest}
    PROVE  /\ Folded[r].sets = GaugeMap(r.list) /\ Folded[r].adds = CounterMap(r.list)
           /\ DOMAIN Folded[r].sets \subseteq GaugeRows /\ DOMAIN Folded[r].adds \subseteq CounterRows
           /\ DOMAIN Folded[r].sets = Named(r.list, GaugeRows)
           /\ DOMAIN Folded[r].adds = Named(r.list, CounterRows)
BY DEF Folded, GaugeMap, CounterMap, Named

\* A single metric is one row of one of the tables.
LEMMA OneRow ==
    ASSUME NEW r \in Requests, r.kind = "one"
    PROVE  /\ r.list[1].row \in Rows
           /\ DOMAIN Folded[r].sets \union DOMAIN Folded[r].adds = {r.list[1].row}
<1>1. r.list \in Seq(Metric) /\ Len(r.list) = 1
  BY RequestsAssumption
<1>2. DOMAIN r.list = {1} /\ r.list[1] \in Metric
  BY <1>1
<1>3. r.list[1].row \in GaugeRows \union CounterRows
  BY <1>2 DEF Metric, Rows
<1>4. \A t : Named(r.list, t) = t \intersect {r.list[1].row}
  BY <1>2 DEF Named, Positions
<1> QED BY <1>3, <1>4, FoldedRows DEF Rows

\* Errors of the driver are never of the type that is retried.
LEMMA NothingIsRetried == \A e \in Errors : ~IsRetriableError(e)
BY DEF Errors, Connection, OutOfRange, Deadlock, Timeout, DriverError, IsRetriableError

-----------------------------------------------------------------------------
(* The initial states *)

LEMMA NoWrites == <<>> \in UNION {[S -> Int64] : S \in SUBSET Rows}
<1>1. <<>> \in [{} -> Int64]
  OBVIOUS
<1> QED BY <1>1

LEMMA InvInit == Init => IInv
<1> SUFFICES ASSUME Init PROVE IInv
  OBVIOUS
<1>1. 0 \in Int64
  BY MaxIntAssumption DEF Int64
<1>3. TypeOK
  <2>1. rows \in [Rows -> Int64] /\ commits \in [Handlers -> Nat] /\ failures \in [Handlers -> 0..MaxRetries + 1]
    BY <1>1 DEF Init, MaxRetries
  <2>2. writes \in [Handlers -> UNION {[S -> Int64] : S \in SUBSET Rows}]
    BY NoWrites DEF Init
  <2>3. waiting \in [Handlers -> SUBSET Rows] /\ request \in [Handlers -> Requests \union {NoRequest}]
    BY DEF Init
  <2>4. lastErr \in [Handlers -> Errors \union {NoError}] /\ answer \in [Handlers -> {"none", "ok", "error"}]
    BY DEF Init
  <2>5. \A h \in Handlers : writes[h] = <<>> /\ waiting[h] = {} /\ pc[h] = "idle"
    BY DEF Init
  <2>7. pc \in [Handlers -> {"idle", "begin", "gauges", "counters", "one", "done"}]
    BY DEF Init
  <2> QED BY <2>1, <2>2, <2>3, <2>4, <2>5, <2>7 DEF TypeOK
<1>4. CommittedOnce
  BY DEF Init, CommittedOnce, NoError, Deadlock, OutOfRange, DriverError
<1>5. ASSUME NEW h \in Handlers PROVE HandlerInv(h) /\ LoopInv(h) /\ ValueInv(h)
  BY DEF Init, HandlerInv, LoopInv, ValueInv
<1>6. LockInv
  BY DEF Init, LockInv
<1> QED BY <1>3, <1>4, <1>5, <1>6 DEF IInv

-----------------------------------------------------------------------------
(* The steps *)

\* What a step of another request leaves alone.
LEMMA OthersKeep ==
    ASSUME NEW k \in Handlers, HandlerInv(k), LoopInv(k), ValueInv(k),
           request'[k] = request[k], pc'[k] = pc[k], writes'[k] = writes[k],
           waiting'[k] = waiting[k], failures'[k] = failures[k], lastErr'[k] = lastErr[k],
           answer'[k] = answer[k], commits'[k] = commits[k],
           \A r \in DOMAIN writes[k] : rows'[r] = rows[r]
    PROVE  HandlerInv(k)' /\ LoopInv(k)' /\ ValueInv(k)'
BY DEF HandlerInv, LoopInv, ValueInv, Sets, Adds, Upserted

\* Every failure is the last: the request is over and holds nothing.
LEMMA FailEnds ==
    ASSUME NEW h \in Handlers, NEW e \in Errors, Fail(h, e)
    PROVE  /\ pc' = [pc EXCEPT ![h] = "done"] /\ answer' = [answer EXCEPT ![h] = "error"]
           /\ writes' = [writes EXCEPT ![h] = <<>>] /\ waiting' = [waiting EXCEPT ![h] = {}]
           /\ failures' = [failures EXCEPT ![h] = @ + 1] /\ lastErr' = [lastErr EXCEPT ![h] = e]
           /\ request' = request
BY NothingIsRetried DEF Fail

\* A request ends, with or without a commit of what it has written: rows that
\* others hold are not changed, and it is committed once at most.
LEMMA EndKeepsInv ==
    ASSUME IInv, NEW h \in Handlers, NEW changes,
           \/ Succeed(h) /\ Committed(h, changes)
           \/ \E e \in Errors : Fail(h, e) /\ UNCHANGED <<rows, commits>>
           \/ \E e \in {Connection, Timeout} : Fail(h, e) /\ Committed(h, changes),
           pc[h] \in {"begin", "gauges", "counters", "one"},
           \A r \in Rows \intersect DOMAIN changes :
               /\ changes[r] \in Int64
               /\ \A k \in Handlers \ {h} : r \notin DOMAIN writes[k]
    PROVE  IInv'
<1>1. /\ pc' = [pc EXCEPT ![h] = "done"] /\ writes' = [writes EXCEPT ![h] = <<>>]
      /\ waiting' = [waiting EXCEPT ![h] = {}] /\ request' = request
      /\ \/ /\ answer' = [answer EXCEPT ![h] = "ok"] /\ UNCHANGED <<failures, lastErr>>
            /\ Committed(h, changes)
         \/ /\ answer' = [answer EXCEPT ![h] = "error"] /\ failures' = [failures EXCEPT ![h] = @ + 1]
            /\ \/ UNCHANGED <<rows, commits>> /\ \E e \in Errors : lastErr' = [lastErr EXCEPT ![h] = e]
               \/ Committed(h, changes) /\ \E e \in {Connection, Timeout} : lastErr' = [lastErr EXCEPT ![h] = e]
  BY FailEnds DEF Succeed, Errors
<1>2. TypeOK /\ CommittedOnce /\ LockInv /\ HandlerInv(h)
  BY DEF IInv
<1>3. failures[h] = 0 /\ commits[h] = 0 /\ lastErr[h] = NoError
  BY <1>2 DEF HandlerInv
<1>4. rows' \in [Rows -> Int64] /\ commits' \in [Handlers -> Nat]
  <2>1. CASE UNCHANGED <<rows, commits>>
    BY <1>2, <2>1 DEF TypeOK
  <2>2. CASE Committed(h, changes)
    <3>1. rows' = [r \in Rows |-> IF r \in DOMAIN changes THEN changes[r] ELSE rows[r]]
      BY <2>2 DEF Committed
    <3>2. rows \in [Rows -> Int64] /\ \A r \in Rows \intersect DOMAIN changes : changes[r] \in Int64
      BY <1>2 DEF TypeOK
    <3>3. rows' \in [Rows -> Int64]
      BY <3>1, <3>2
    <3>4. commits' \in [Handlers -> Nat]
      BY <1>2, <2>2 DEF TypeOK, Committed
    <3> QED BY <3>3, <3>4
  <2> QED BY <1>1, <2>1, <2>2
<1>5. TypeOK'
  <2>1. pc' \in [Handlers -> {"idle", "begin", "gauges", "counters", "one", "done"}]
    BY <1>1, <1>2 DEF TypeOK
  <2>2. request' \in [Handlers -> Requests \union {NoRequest}]
    BY <1>1, <1>2 DEF TypeOK
  <2>3. writes' \in [Handlers -> UNION {[S -> Int64] : S \in SUBSET Rows}]
    BY <1>1, <1>2, NoWrites DEF TypeOK
  <2>4. waiting' \in [Handlers -> SUBSET Rows]
    BY <1>1, <1>2 DEF TypeOK
  <2>5. ASSUME NEW k \in Handlers
        PROVE  (\A r, s \in waiting'[k] : r = s) /\ (pc'[k] \notin {"gauges", "counters"} => writes'[k] = <<>>)
    BY <1>1, <1>2 DEF TypeOK
  <2>6. failures' \in [Handlers -> 0..MaxRetries + 1]
    <3>1. failures \in [Handlers -> 0..MaxRetries + 1]
      BY <1>2 DEF TypeOK
    <3> QED BY <1>1, <1>3, <3>1 DEF MaxRetries
  <2>7. lastErr' \in [Handlers -> Errors \union {NoError}]
    BY <1>1, <1>2 DEF TypeOK, Errors
  <2>8. answer' \in [Handlers -> {"none", "ok", "error"}]
    BY <1>1, <1>2 DEF TypeOK
  <2> QED BY <1>4, <2>1, <2>2, <2>3, <2>4, <2>5, <2>6, <2>7, <2>8 DEF TypeOK
<1>6. CommittedOnce'
  <2>1. ASSUME NEW k \in Handlers, k # h
        PROVE  commits'[k] = commits[k] /\ answer'[k] = answer[k] /\ lastErr'[k] = lastErr[k]
    BY <1>1, <1>2, <2>1 DEF TypeOK, Committed
  <2>2. /\ commits'[h] <= 1 /\ (answer'[h] = "ok" => commits'[h] = 1)
        /\ lastErr'[h] \in {Deadlock, OutOfRange} => commits'[h] = 0
    <3>1. \A e \in {Connection, Timeout, NoError} : e \notin {Deadlock, OutOfRange}
      BY DEF Connection, Timeout, NoError, Deadlock, OutOfRange, DriverError
    <3>2. CASE Committed(h, changes) /\ lastErr'[h] \in {Connection, Timeout, NoError}
      <4>1. commits'[h] = 1
        BY <1>2, <1>3, <3>2 DEF TypeOK, Committed
      <4>2. lastErr'[h] \notin {Deadlock, OutOfRange}
        BY <3>1, <3>2, Zenon
      <4> QED BY <4>1, <4>2
    <3>3. CASE UNCHANGED commits /\ answer'[h] = "error"
      <4>1. commits'[h] = 0
        BY <1>3, <3>3, Zenon
      <4> QED BY <3>3, <4>1
    <3>4. answer \in [Handlers -> {"none", "ok", "error"}] /\ lastErr \in [Handlers -> Errors \union {NoError}]
      BY <1>2 DEF TypeOK
    <3>5. \/ Committed(h, changes) /\ lastErr'[h] \in {Connection, Timeout, NoError}
          \/ UNCHANGED commits /\ answer'[h] = "error"
      BY <1>1, <1>3, <3>4
    <3> QED BY <3>2, <3>3, <3>5
  <2> QED BY <1>2, <2>1, <2>2 DEF CommittedOnce
<1>7. ASSUME NEW k \in Handlers PROVE HandlerInv(k)' /\ LoopInv(k)' /\ ValueInv(k)'
  <2>1. CASE k = h
    BY <1>1, <1>2, <2>1 DEF TypeOK, HandlerInv, LoopInv, ValueInv
  <2>2. CASE k # h
    <3>1. \A r \in DOMAIN writes[k] : rows'[r] = rows[r]
      <4>1. DOMAIN writes[k] \subseteq Rows
        BY <1>2 DEF TypeOK
      <4> QED BY <1>1, <2>2, <4>1 DEF Committed
    <3>2. /\ request'[k] = request[k] /\ pc'[k] = pc[k] /\ writes'[k] = writes[k]
          /\ waiting'[k] = waiting[k] /\ failures'[k] = failures[k] /\ lastErr'[k] = lastErr[k]
          /\ answer'[k] = answer[k] /\ commits'[k] = commits[k]
      BY <1>1, <1>2, <2>2 DEF TypeOK, Committed
    <3> QED BY <3>1, <3>2, OthersKeep DEF IInv
  <2> QED BY <2>1, <2>2
<1>8. LockInv'
  BY <1>1, <1>2 DEF TypeOK, LockInv
<1> QED BY <1>5, <1>6, <1>7, <1>8 DEF IInv

\* Any other step of a request: what it does to the others is nothing, and the
\* rows it takes are free.
LEMMA StepKeepsInv ==
    ASSUME IInv, NEW h \in Handlers,
           UNCHANGED <<rows, failures, lastErr, commits>>, TypeOK',
           HandlerInv(h)', LoopInv(h)', ValueInv(h)',
           answer'[h] = "ok" => answer[h] = "ok",
           \A k \in Handlers \ {h} :
               /\ request'[k] = request[k] /\ pc'[k] = pc[k] /\ writes'[k] = writes[k]
               /\ waiting'[k] = waiting[k] /\ answer'[k] = answer[k]
               /\ DOMAIN writes'[h] \intersect DOMAIN writes[k] = {}
    PROVE  IInv'
<1>1. CommittedOnce'
  BY DEF IInv, CommittedOnce
<1>2. ASSUME NEW k \in Handlers PROVE HandlerInv(k)' /\ LoopInv(k)' /\ ValueInv(k)'
  <2>1. CASE k = h
    BY <2>1
  <2>2. CASE k # h
    <3>1. /\ failures'[k] = failures[k] /\ lastErr'[k] = lastErr[k] /\ commits'[k] = commits[k]
          /\ \A r \in DOMAIN writes[k] : rows'[r] = rows[r]
      OBVIOUS
    <3> QED BY <2>2, <3>1, OthersKeep DEF IInv
  <2> QED BY <2>1, <2>2
<1>3. LockInv'
  BY DEF IInv, LockInv
<1> QED BY <1>1, <1>2, <1>3 DEF IInv

LEMMA ReceiveKeepsInv == ASSUME IInv, NEW h \in Handlers, Receive(h) PROVE IInv'
<1>1. PICK r \in Requests :
        /\ request' = [request EXCEPT ![h] = r]
        /\ \/ /\ pc' = [pc EXCEPT ![h] = "done"] /\ answer' = [answer EXCEPT ![h] = "error"]
           \/ pc' = [pc EXCEPT ![h] = Entry(r)] /\ UNCHANGED answer
  BY DEF Receive
<1>2. /\ pc[h] = "idle" /\ UNCHANGED <<rows, writes, waiting, failures, lastErr, commits>>
  BY DEF Receive, txVars
<1>3. TypeOK /\ HandlerInv(h) /\ LockInv
  BY DEF IInv
<1>4. Entry(r) \in {"one", "begin"} /\ (Entry(r) = "one" => r.kind = "one")
  BY DEF Entry
<1>5. waiting[h] = {} /\ writes[h] = <<>>
  BY <1>2, <1>3 DEF HandlerInv, TypeOK
<1>6. TypeOK'
  BY <1>1, <1>2, <1>3, <1>4, <1>5 DEF TypeOK
<1>7. HandlerInv(h)' /\ LoopInv(h)' /\ ValueInv(h)'
  BY <1>1, <1>2, <1>3, <1>4, <1>5 DEF HandlerInv, LoopInv, ValueInv, TypeOK
<1>8. /\ answer'[h] = "ok" => answer[h] = "ok"
      /\ \A k \in Handlers \ {h} :
            /\ request'[k] = request[k] /\ pc'[k] = pc[k] /\ writes'[k] = writes[k]
            /\ waiting'[k] = waiting[k] /\ answer'[k] = answer[k]
            /\ DOMAIN writes'[h] \intersect DOMAIN writes[k] = {}
  BY <1>1, <1>2, <1>3 DEF TypeOK, LockInv
<1> QED BY <1>2, <1>6, <1>7, <1>8, StepKeepsInv

\* Begin and GaugesDone: on to the next loop.
LEMMA NextLoopKeepsInv ==
    ASSUME IInv, NEW h \in Handlers, Begin(h) \/ GaugesDone(h)
    PROVE  IInv'
<1>1. /\ UNCHANGED <<rows, request, writes, waiting, failures, lastErr, answer, commits>>
      /\ \/ pc[h] = "begin" /\ pc' = [pc EXCEPT ![h] = "gauges"]
         \/ pc[h] = "gauges" /\ Todo(h) = {} /\ pc' = [pc EXCEPT ![h] = "counters"]
  BY DEF Begin, GaugesDone, txVars
<1>2. TypeOK /\ HandlerInv(h) /\ LoopInv(h) /\ ValueInv(h) /\ LockInv
  BY DEF IInv
<1>3. TypeOK'
  BY <1>1, <1>2 DEF TypeOK
<1>4. /\ \A k \in Handlers \ {h} : pc'[k] = pc[k] /\ DOMAIN writes'[h] \intersect DOMAIN writes[k] = {}
      /\ pc'[h] = IF pc[h] = "begin" THEN "gauges" ELSE "counters"
  BY <1>1, <1>2 DEF TypeOK, LockInv
<1>5. pc[h] = "begin" => waiting[h] = {} /\ DOMAIN writes[h] = {}
  <2>1. pc[h] = "begin" => waiting[h] = {} /\ writes[h] = <<>>
    BY <1>2 DEF HandlerInv, TypeOK
  <2> QED BY <2>1
<1>6. pc[h] = "gauges" => /\ DOMAIN Sets(h) = DOMAIN writes[h] /\ waiting[h] \subseteq DOMAIN Sets(h)
                          /\ waiting[h] = {}
  BY <1>1, <1>2 DEF LoopInv, Todo
<1>7. HandlerInv(h)' /\ LoopInv(h)' /\ ValueInv(h)'
  <2>1. HandlerInv(h)'
    BY <1>1, <1>2, <1>4 DEF HandlerInv
  <2>2. ValueInv(h)'
    BY <1>1, <1>2 DEF ValueInv, Upserted, Sets, Adds
  <2>3. LoopInv(h)'
    BY <1>1, <1>4, <1>5, <1>6 DEF LoopInv, Sets, Adds
  <2> QED BY <2>1, <2>2, <2>3
<1> QED BY <1>1, <1>3, <1>4, <1>7, StepKeepsInv

LEMMA IssueKeepsInv == ASSUME IInv, NEW h \in Handlers, Issue(h) PROVE IInv'
<1>1. PICK row :
        /\ waiting' = [waiting EXCEPT ![h] = {row}]
        /\ \/ pc[h] \in {"gauges", "counters"} /\ row \in Todo(h)
           \/ pc[h] = "one" /\ row = request[h].list[1].row
  BY DEF Issue
<1>2. UNCHANGED <<rows, pc, request, writes, failures, lastErr, answer, commits>>
  BY DEF Issue
<1>3. TypeOK /\ HandlerInv(h) /\ LoopInv(h) /\ ValueInv(h) /\ LockInv
  BY DEF IInv
<1>4. waiting'[h] = {row} /\ \A k \in Handlers \ {h} : waiting'[k] = waiting[k]
  BY <1>1, <1>3 DEF TypeOK
<1>5. row \in Rows
  <2>1. request[h] \in Requests \/ pc[h] = "idle"
    BY <1>1, <1>3 DEF HandlerInv
  <2>2. CASE pc[h] = "one"
    BY <1>1, <1>3, <2>1, <2>2, OneRow DEF HandlerInv
  <2>3. CASE pc[h] \in {"gauges", "counters"}
    BY <1>1, <2>1, <2>3, FoldedRows DEF Todo, Sets, Adds, Rows
  <2> QED BY <1>1, <2>2, <2>3
<1>6. TypeOK'
  <2>1. waiting' \in [Handlers -> SUBSET Rows]
    BY <1>1, <1>3, <1>5 DEF TypeOK
  <2>2. ASSUME NEW k \in Handlers PROVE \A r, s \in waiting'[k] : r = s
    <3>1. CASE k = h
      BY <1>4, <3>1
    <3>2. CASE k # h
      BY <1>3, <1>4, <3>2 DEF TypeOK
    <3> QED BY <3>1, <3>2
  <2> QED BY <1>2, <1>3, <2>1, <2>2 DEF TypeOK
<1>7. HandlerInv(h)' /\ ValueInv(h)'
  BY <1>1, <1>2, <1>3 DEF HandlerInv, ValueInv, Upserted, Sets, Adds
<1>8. LoopInv(h)'
  <2>1. pc[h] = "one" => DOMAIN writes[h] = {}
    <3>1. pc[h] = "one" => writes[h] = <<>>
      BY <1>3 DEF TypeOK
    <3> QED BY <3>1
  <2> QED BY <1>1, <1>2, <1>3, <1>4, <2>1 DEF LoopInv, Todo, Sets, Adds
<1> QED BY <1>2, <1>3, <1>4, <1>6, <1>7, <1>8, StepKeepsInv DEF LockInv

LEMMA ExecKeepsInv == ASSUME IInv, NEW h \in Handlers, Exec(h) PROVE IInv'
<1>1. PICK row \in waiting[h] :
        /\ RowFree(h, row)
        /\ IF Upserted(h, row) \in Int64
             THEN /\ writes' = [writes EXCEPT ![h] = Written(h, row)]
                  /\ waiting' = [waiting EXCEPT ![h] = {}]
                  /\ UNCHANGED <<pc, request, failures, lastErr, answer>>
             ELSE Fail(h, OutOfRange)
  BY DEF Exec
<1>2. pc[h] \in {"gauges", "counters"} /\ UNCHANGED <<rows, commits>>
  BY DEF Exec
<1>3. CASE Upserted(h, row) \notin Int64
  <2>1. Fail(h, OutOfRange) /\ OutOfRange \in Errors
    BY <1>1, <1>3 DEF Errors
  <2> QED BY <1>2, <2>1, EndKeepsInv, DOMAIN <<>> = {}
<1>4. CASE Upserted(h, row) \in Int64
  <2>1. TypeOK /\ HandlerInv(h) /\ LoopInv(h) /\ ValueInv(h) /\ LockInv
    BY DEF IInv
  <2>2. /\ writes' = [writes EXCEPT ![h] = Written(h, row)] /\ waiting' = [waiting EXCEPT ![h] = {}]
        /\ UNCHANGED <<pc, request, failures, lastErr, answer>>
    BY <1>1, <1>4
  <2>3. /\ writes'[h] = Written(h, row) /\ waiting'[h] = {}
        /\ \A k \in Handlers \ {h} : writes'[k] = writes[k] /\ waiting'[k] = waiting[k]
    BY <2>1, <2>2 DEF TypeOK
  <2>4. row \in Rows /\ DOMAIN writes[h] \subseteq Rows /\ \A r \in DOMAIN writes[h] : writes[h][r] \in Int64
    BY <1>1, <2>1 DEF TypeOK
  <2>5. DOMAIN Written(h, row) = DOMAIN writes[h] \union {row}
    BY DEF Written
  <2>6. Written(h, row) \in UNION {[S -> Int64] : S \in SUBSET Rows}
    <3>1. Written(h, row) \in [DOMAIN writes[h] \union {row} -> Int64]
      BY <1>4, <2>4 DEF Written
    <3> QED BY <2>4, <3>1
  <2>7. TypeOK'
    <3>1. writes' \in [Handlers -> UNION {[S -> Int64] : S \in SUBSET Rows}]
      BY <2>1, <2>2, <2>6 DEF TypeOK
    <3>2. waiting' \in [Handlers -> SUBSET Rows]
      BY <2>1, <2>2 DEF TypeOK
    <3>3. ASSUME NEW k \in Handlers PROVE \A r, s \in waiting'[k] : r = s
      <4>1. CASE k = h
        BY <2>3, <4>1
      <4>2. CASE k # h
        BY <2>1, <2>3, <4>2 DEF TypeOK
      <4> QED BY <4>1, <4>2
    <3>4. ASSUME NEW k \in Handlers, pc'[k] \notin {"gauges", "counters"} PROVE writes'[k] = <<>>
      BY <1>2, <2>1, <2>2, <2>3, <3>4 DEF TypeOK
    <3> QED BY <1>2, <2>1, <2>2, <3>1, <3>2, <3>3, <3>4 DEF TypeOK
  <2>8. HandlerInv(h)'
    BY <1>2, <2>1, <2>2, <2>3 DEF HandlerInv
  <2>9. LoopInv(h)'
    BY <1>1, <1>2, <2>1, <2>2, <2>3, <2>5 DEF LoopInv, Sets, Adds
  <2>10. ValueInv(h)'
    <3>1. ASSUME NEW r \in DOMAIN writes[h] \union {row} PROVE Written(h, row)[r] = Upserted(h, r)
      BY <2>1 DEF Written, ValueInv
    <3>2. \A r : Upserted(h, r)' = Upserted(h, r)
      BY <1>2, <2>2 DEF Upserted, Sets, Adds
    <3> QED BY <2>3, <2>5, <3>1, <3>2 DEF ValueInv
  <2>11. \A k \in Handlers \ {h} : DOMAIN writes'[h] \intersect DOMAIN writes[k] = {}
    BY <1>1, <2>1, <2>3, <2>5 DEF RowFree, LockInv
  <2> QED BY <1>2, <2>2, <2>3, <2>7, <2>8, <2>9, <2>10, <2>11, StepKeepsInv
<1> QED BY <1>3, <1>4

LEMMA CommitKeepsInv == ASSUME IInv, NEW h \in Handlers, Commit(h) PROVE IInv'
<1>1. TypeOK /\ LockInv
  BY DEF IInv
<1>2. /\ pc[h] = "counters"
      /\ \/ Succeed(h) /\ Committed(h, writes[h])
         \/ \E e \in {Connection, Timeout} : Fail(h, e) /\ Committed(h, writes[h])
         \/ \E e \in Errors : Fail(h, e) /\ UNCHANGED <<rows, commits>>
  BY DEF Commit, CountersDone, Errors
<1>3. \A r \in Rows \intersect DOMAIN writes[h] :
        /\ writes[h][r] \in Int64
        /\ \A k \in Handlers \ {h} : r \notin DOMAIN writes[k]
  BY <1>1 DEF TypeOK, LockInv
<1> QED BY <1>2, <1>3, EndKeepsInv

LEMMA ExecOneKeepsInv == ASSUME IInv, NEW h \in Handlers, ExecOne(h) PROVE IInv'
<1>1. PICK row \in waiting[h] :
        /\ RowFree(h, row)
        /\ IF Upserted(h, row) \in Int64
             THEN LET changes == [r \in {row} |-> Upserted(h, row)]
                  IN  \/ Committed(h, changes) /\ Succeed(h)
                      \/ \E e \in {Connection, Timeout} : Fail(h, e) /\ Committed(h, changes)
             ELSE Fail(h, OutOfRange) /\ UNCHANGED <<rows, commits>>
  BY DEF ExecOne
<1>2. pc[h] = "one"
  BY DEF ExecOne
<1>3. CASE Upserted(h, row) \notin Int64
  <2>1. Fail(h, OutOfRange) /\ OutOfRange \in Errors /\ UNCHANGED <<rows, commits>>
    BY <1>1, <1>3 DEF Errors
  <2> QED BY <1>2, <2>1, EndKeepsInv, DOMAIN <<>> = {}
<1>4. CASE Upserted(h, row) \in Int64
  <2> DEFINE changes == [r \in {row} |-> Upserted(h, row)]
  <2>1. \A r \in Rows \intersect DOMAIN changes :
          /\ changes[r] \in Int64
          /\ \A k \in Handlers \ {h} : r \notin DOMAIN writes[k]
    BY <1>1, <1>4 DEF RowFree
  <2>2. \/ Succeed(h) /\ Committed(h, changes)
        \/ \E e \in {Connection, Timeout} : Fail(h, e) /\ Committed(h, changes)
    BY <1>1, <1>4
  <2> HIDE DEF changes
  <2> QED BY <1>2, <2>1, <2>2, EndKeepsInv
<1> QED BY <1>3, <1>4

LEMMA BreakKeepsInv == ASSUME IInv, NEW h \in Handlers, Break(h) PROVE IInv'
<1>1. /\ pc[h] \in {"begin", "gauges", "counters", "one"}
      /\ \E e \in Errors : Fail(h, e) /\ UNCHANGED <<rows, commits>>
  BY DEF Break, Errors
<1> QED BY <1>1, EndKeepsInv, DOMAIN <<>> = {}

\* Whoever is in a deadlock is waiting, so in the middle of a request.
LEMMA AbortKeepsInv == ASSUME IInv, AbortDeadlock PROVE IInv'
<1>0. PICK S \in SUBSET Handlers :
        IsCycle(S) /\ (\E h \in S : Fail(h, Deadlock)) /\ UNCHANGED <<rows, commits>>
  BY DEF AbortDeadlock
<1>1. PICK h \in S : Fail(h, Deadlock)
  BY <1>0
<1>2. h \in Handlers /\ waiting[h] # {}
  BY <1>0, <1>1 DEF IsCycle, WaitsFor
<1>3. pc[h] \in {"begin", "gauges", "counters", "one"}
  BY <1>2 DEF IInv, HandlerInv
<1>4. \E e \in Errors : Fail(h, e) /\ UNCHANGED <<rows, commits>>
  BY <1>0, <1>1 DEF Errors
<1> QED BY <1>2, <1>3, <1>4, EndKeepsInv, DOMAIN <<>> = {}

LEMMA InvNext == IInv /\ [Next]_vars => IInv'
<1> SUFFICES ASSUME IInv, [Next]_vars PROVE IInv'
  OBVIOUS
<1>1. CASE UNCHANGED vars
  BY <1>1 DEF vars, txVars, IInv, TypeOK, CommittedOnce, HandlerInv, LoopInv, ValueInv, LockInv,
              Upserted, Sets, Adds
<1>2. CASE Next
  BY <1>2, ReceiveKeepsInv, NextLoopKeepsInv, IssueKeepsInv, ExecKeepsInv, CommitKeepsInv,
     ExecOneKeepsInv, BreakKeepsInv, AbortKeepsInv DEF Next, HandlerStep
<1> QED BY <1>1, <1>2

LEMMA Inductive == Spec => []IInv
BY InvInit, InvNext, PTL DEF Spec

-----------------------------------------------------------------------------
(* Safety *)

\* Every variable keeps its type: a committed row stays within BIGINT, and a
\* statement waits for one row at a time.
THEOREM TypeCorrect == Spec => []TypeOK
BY Inductive, PTL DEF IInv

\* Whatever breaks, a request is committed once at most, and once if it was
\* answered with success.
THEOREM NeverCommittedTwice == Spec => []CommittedOnce
BY Inductive, PTL DEF IInv

\* A request waits for one row, that one other request holds.
LEMMA OneHolder ==
    ASSUME IInv, NEW h \in Handlers, NEW j \in Handlers, NEW k \in Handlers,
           WaitsFor(h, j), WaitsFor(h, k)
    PROVE  j = k
<1>1. waiting[h] \subseteq Rows /\ (\A r, s \in waiting[h] : r = s) /\ LockInv
  BY DEF IInv, TypeOK
<1>2. PICK r \in waiting[h] : r \in DOMAIN writes[j]
  BY DEF WaitsFor
<1>3. PICK s \in waiting[h] : s \in DOMAIN writes[k]
  BY DEF WaitsFor
<1>4. r = s
  BY <1>1
<1> QED BY <1>1, <1>2, <1>3, <1>4 DEF LockInv

\* On a finite cycle everybody is waited for by one: who waits for a transaction
\* that writes counters is writing counters, for those that do wait for each other
\* and leave none to a transaction that is still writing gauges.
THEOREM DeadlocksStayInOneTable == Spec => []DeadlockInOneTable
<1>1. IInv => DeadlockInOneTable
  <2> SUFFICES ASSUME IInv, NEW S \in SUBSET Handlers, IsCycle(S),
                      NEW h \in S, NEW k \in S, WaitsFor(h, k)
               PROVE  \E table \in {GaugeRows, CounterRows} : waiting[h] \union waiting[k] \subseteq table
    BY DEF DeadlockInOneTable
  <2> DEFINE C == {s \in S : pc[s] = "counters"}
             f == [s \in S |-> CHOOSE t \in S : WaitsFor(s, t)]
             g == [s \in C |-> f[s]]
  <2>1. IsFiniteSet(S) /\ IsFiniteSet(C)
    BY HandlersAssumption, FS_Subset
  <2>2. \A s, t \in S : WaitsFor(s, t) <=> f[s] = t
    BY OneHolder DEF IsCycle
  <2>3. \A s \in S : f[s] \in S
    BY DEF IsCycle
  <2>4. ASSUME NEW s \in S
        PROVE  /\ pc[s] \in {"gauges", "counters"}
               /\ pc[s] = "gauges" => waiting[s] \subseteq GaugeRows
               /\ pc[s] = "counters" => waiting[s] \subseteq CounterRows
               /\ pc[s] = "gauges" => DOMAIN writes[s] \subseteq GaugeRows
    <3>1. DOMAIN writes[s] # {}
      BY DEF IsCycle, WaitsFor
    <3>2. pc[s] \in {"gauges", "counters"}
      <4>1. CASE writes[s] = <<>>
        BY <3>1, <4>1
      <4>2. CASE writes[s] # <<>>
        BY <4>2 DEF IInv, TypeOK
      <4> QED BY <4>1, <4>2
    <3>3. HandlerInv(s) /\ LoopInv(s)
      BY DEF IInv
    <3>4. request[s] \in Requests
      BY <3>2, <3>3 DEF HandlerInv
    <3> QED BY <3>2, <3>3, <3>4, FoldedRows DEF LoopInv, Sets, Adds
  <2>5. ASSUME NEW s \in C PROVE f[s] \in C
    <3>1. f[s] \in S /\ WaitsFor(s, f[s])
      BY <2>2, <2>3
    <3>2. PICK r \in waiting[s] : r \in DOMAIN writes[f[s]]
      BY <3>1 DEF WaitsFor
    <3>3. r \in CounterRows
      BY <2>4, <3>2
    <3> HIDE DEF f
    <3> QED BY <2>4, <3>1, <3>2, <3>3, TablesAssumption
  <2>6. \A s, t \in S : f[s] = f[t] => s = t
    <3>1. f \in Surjection(S, S)
      BY <2>2, <2>3 DEF Surjection, IsCycle
    <3>2. f \in Injection(S, S)
      BY <2>1, <3>1, FS_Surjection
    <3> HIDE DEF f
    <3> QED BY <3>2 DEF Injection, IsInjective
  <2>7. \A t \in C : \E s \in C : f[s] = t
    <3>1. g \in Injection(C, C)
      BY <2>5, <2>6 DEF Injection, IsInjective
    <3>2. g \in Surjection(C, C)
      BY <2>1, <3>1, FS_Injection
    <3> QED BY <3>2 DEF Surjection
  <2>8. h \in C <=> k \in C
    <3> HIDE DEF f, g
    <3> QED BY <2>2, <2>5, <2>6, <2>7
  <2> QED BY <2>4, <2>8
<1> QED BY <1>1, Inductive, PTL

-----------------------------------------------------------------------------
(* The store is atomic *)

Change == [h \in Handlers |-> Folded[request[h]]]

LEMMA NothingAsked == Folded[NoRequest] = Atomic!NoChange
<1>1. Folded[NoRequest] = [sets |-> GaugeMap(<<>>), adds |-> CounterMap(<<>>)]
  BY Zenon DEF Folded, NoRequest
<1> QED BY <1>1, NothingFolded DEF Atomic!NoChange

\* What a transaction has written at its commit is all that was asked for, and
\* right for the rows as they are then.
LEMMA CommitChangesAll ==
    ASSUME IInv, NEW h \in Handlers, CountersDone(h), Committed(h, writes[h])
    PROVE  rows' = Atomic!Changed(Folded[request[h]], rows)
<1> DEFINE u == Folded[request[h]]
<1>1. LoopInv(h) /\ ValueInv(h) /\ request[h] \in Requests /\ pc[h] = "counters"
  BY DEF IInv, HandlerInv, CountersDone
<1>2. DOMAIN writes[h] = DOMAIN u.sets \union DOMAIN u.adds
  BY <1>1 DEF LoopInv, CountersDone, Todo, Sets, Adds
<1>3. DOMAIN u.sets \subseteq GaugeRows /\ DOMAIN u.adds \subseteq CounterRows
  BY <1>1, FoldedRows
<1>4. \A r \in DOMAIN writes[h] :
        writes[h][r] = IF r \in GaugeRows THEN u.sets[r] ELSE rows[r] + u.adds[r]
  BY <1>1 DEF ValueInv, Upserted, Sets, Adds
<1>5. rows' = [r \in Rows |-> IF r \in DOMAIN writes[h] THEN writes[h][r] ELSE rows[r]]
  BY DEF Committed
<1> HIDE DEF u
<1>6. rows' = Atomic!Changed(u, rows)
  BY <1>2, <1>3, <1>4, <1>5, TablesAssumption DEF Atomic!Changed
<1> QED BY <1>6 DEF u

\* So is what the statement of a single metric writes.
LEMMA OneChangesAll ==
    ASSUME IInv, NEW h \in Handlers, pc[h] = "one", NEW row \in waiting[h],
           Committed(h, [r \in {row} |-> Upserted(h, row)])
    PROVE  rows' = Atomic!Changed(Folded[request[h]], rows)
<1> DEFINE u == Folded[request[h]]
<1>1. request[h] \in Requests /\ request[h].kind = "one" /\ row = request[h].list[1].row
  BY DEF IInv, HandlerInv, LoopInv
<1>2. DOMAIN u.sets \union DOMAIN u.adds = {row}
  BY <1>1, OneRow
<1>3. DOMAIN u.sets \subseteq GaugeRows /\ DOMAIN u.adds \subseteq CounterRows
  BY <1>1, FoldedRows
<1>4. Upserted(h, row) = IF row \in GaugeRows THEN u.sets[row] ELSE rows[row] + u.adds[row]
  BY DEF Upserted, Sets, Adds
<1>5. rows' = [r \in Rows |-> IF r = row THEN Upserted(h, row) ELSE rows[r]]
  BY DEF Committed
<1> HIDE DEF u
<1>6. rows' = Atomic!Changed(u, rows)
  BY <1>2, <1>3, <1>4, <1>5, TablesAssumption DEF Atomic!Changed
<1> QED BY <1>6 DEF u

\* The end of a request, with everything or with nothing, is where it is settled.
LEMMA EndSettles ==
    ASSUME IInv, NEW h \in Handlers,
           pc[h] \in {"begin", "gauges", "counters", "one"},
           \/ Succeed(h) /\ rows' = Atomic!Changed(Folded[request[h]], rows)
           \/ (\E e \in Errors : Fail(h, e)) /\ rows' \in {rows, Atomic!Changed(Folded[request[h]], rows)}
    PROVE  Atomic!Settle(h)
<1>1. answer[h] = "none" /\ Change[h] = Folded[request[h]]
  BY DEF IInv, HandlerInv, Change
<1>2. request' = request
  BY FailEnds DEF Succeed
<1>3. CASE Succeed(h) /\ rows' = Atomic!Changed(Folded[request[h]], rows)
  BY <1>1, <1>2, <1>3 DEF Succeed, Atomic!Settle, Change
<1>4. CASE (\E e \in Errors : Fail(h, e)) /\ rows' \in {rows, Atomic!Changed(Folded[request[h]], rows)}
  BY <1>1, <1>2, <1>4, FailEnds DEF Atomic!Settle, Change
<1> QED BY <1>3, <1>4

\* The transactions, with their statements, locks, deadlocks and broken connections,
\* are a store that settles each request in one step.
THEOREM TransactionsAreAtomic == Spec => ImplementsAtomicStore
<1>1. Init => Atomic!StoreInit
  BY NothingAsked DEF Init, Atomic!StoreInit
<1>2. IInv /\ [Next]_vars => [Atomic!StoreNext]_(Atomic!storeVars)
  <2> SUFFICES ASSUME IInv, [Next]_vars
               PROVE  Atomic!StoreNext \/ UNCHANGED <<rows, Change, answer>>
    BY DEF Atomic!storeVars, Change
  <2>1. ASSUME NEW h \in Handlers, Receive(h) PROVE Atomic!StoreNext
    <3>1. PICK r \in Requests :
            /\ request' = [request EXCEPT ![h] = r]
            /\ answer' \in {answer, [answer EXCEPT ![h] = "error"]}
      BY <2>1 DEF Receive
    <3>2. pc[h] = "idle" /\ rows' = rows
      BY <2>1 DEF Receive
    <3>3. answer[h] = "none" /\ Change[h] = Atomic!NoChange
      BY <3>2, NothingAsked DEF IInv, HandlerInv, Change
    <3>4. Change' = [Change EXCEPT ![h] = Folded[r]]
      BY <3>1 DEF Change, IInv, TypeOK
    <3>5. Atomic!Ask(h)
      BY <3>1, <3>2, <3>3, <3>4 DEF Atomic!Ask, Change
    <3> QED BY <3>5 DEF Atomic!StoreNext
  <2>2. ASSUME NEW h \in Handlers, Begin(h) \/ Issue(h) \/ GaugesDone(h)
        PROVE  UNCHANGED <<rows, Change, answer>>
    BY <2>2 DEF Begin, Issue, GaugesDone, Change
  <2>3. ASSUME NEW h \in Handlers, Exec(h)
        PROVE  Atomic!StoreNext \/ UNCHANGED <<rows, Change, answer>>
    <3>1. /\ pc[h] \in {"begin", "gauges", "counters", "one"} /\ UNCHANGED rows
          /\ UNCHANGED <<request, answer>> \/ Fail(h, OutOfRange)
      BY <2>3 DEF Exec
    <3>2. CASE Fail(h, OutOfRange)
      BY <3>1, <3>2, EndSettles DEF Errors, Atomic!StoreNext
    <3>3. CASE UNCHANGED <<request, answer>>
      BY <3>1, <3>3 DEF Change
    <3> QED BY <3>1, <3>2, <3>3
  <2>4. ASSUME NEW h \in Handlers, Commit(h) PROVE Atomic!StoreNext
    <3>1. /\ CountersDone(h) /\ pc[h] = "counters"
          /\ \/ Committed(h, writes[h]) /\ Succeed(h)
             \/ /\ \E e \in Errors : Fail(h, e)
                /\ Committed(h, writes[h]) \/ UNCHANGED rows
      BY <2>4 DEF Commit, CountersDone, Errors
    <3>2. Atomic!Settle(h)
      BY <3>1, CommitChangesAll, EndSettles
    <3> QED BY <3>2 DEF Atomic!StoreNext
  <2>5. ASSUME NEW h \in Handlers, ExecOne(h) PROVE Atomic!StoreNext
    <3>1. PICK row \in waiting[h] :
            LET changes == [r \in {row} |-> Upserted(h, row)]
            IN  \/ Committed(h, changes) /\ Succeed(h)
                \/ /\ \E e \in Errors : Fail(h, e)
                   /\ Committed(h, changes) \/ UNCHANGED rows
      BY <2>5 DEF ExecOne, Errors
    <3>2. pc[h] = "one"
      BY <2>5 DEF ExecOne
    <3>3. Atomic!Settle(h)
      BY <3>1, <3>2, OneChangesAll, EndSettles
    <3> QED BY <3>3 DEF Atomic!StoreNext
  <2>6. ASSUME NEW h \in Handlers, Break(h) PROVE Atomic!StoreNext
    BY <2>6, EndSettles DEF Break, Errors, Atomic!StoreNext
  <2>7. CASE AbortDeadlock
    <3>1. PICK h \in Handlers : waiting[h] # {} /\ Fail(h, Deadlock) /\ UNCHANGED rows
      BY <2>7 DEF AbortDeadlock, IsCycle, WaitsFor
    <3>2. pc[h] \in {"begin", "gauges", "counters", "one"}
      BY <3>1 DEF IInv, HandlerInv
    <3> QED BY <3>1, <3>2, EndSettles DEF Errors, Atomic!StoreNext
  <2>8. CASE UNCHANGED vars
    BY <2>8 DEF vars, Change
  <2> QED BY <2>1, <2>2, <2>3, <2>4, <2>5, <2>6, <2>7, <2>8 DEF Next, HandlerStep
<1> QED BY <1>1, <1>2, Inductive, PTL DEF Spec, ImplementsAtomicStore, Atomic!StoreSpec

-----------------------------------------------------------------------------
(* Integers modulo the width of BIGINT *)

\* The number of values an integer has.
Span == 2 * (MaxInt + 1)

\* Equal up to any number of wraps.
Same(a, b) == \E k \in Int : a = b + k * Span

\* What the remainder is, and that it is the only one.
LEMMA ModDef ==
    ASSUME NEW n \in Int, NEW m \in Nat, m > 0
    PROVE  n % m \in 0..(m - 1) /\ \E q \in Int : n = q * m + (n % m)
<1>1. n % m \in 0..(m - 1)
  OBVIOUS
<1>2. n = (n \div m) * m + (n % m)
  OBVIOUS
<1>3. n \div m \in Int
  OBVIOUS
<1> QED BY <1>1, <1>2, <1>3

LEMMA ModUnique ==
    ASSUME NEW m \in Nat, m > 0, NEW q \in Int, NEW p \in Int,
           NEW r \in 0..(m - 1), NEW s \in 0..(m - 1), q * m + r = p * m + s
    PROVE  r = s
<1>1. CASE q = p
  BY <1>1
<1>2. CASE q >= p + 1
  <2>1. (q - p - 1) * m >= 0
    BY <1>2
  <2>2. (q - p - 1) * m = q * m - p * m - m
    OBVIOUS
  <2> QED BY <2>1, <2>2
<1>3. CASE p >= q + 1
  <2>1. (p - q - 1) * m >= 0
    BY <1>3
  <2>2. (p - q - 1) * m = p * m - q * m - m
    OBVIOUS
  <2> QED BY <2>1, <2>2
<1> QED BY <1>1, <1>2, <1>3

LEMMA SpanType == Span \in Nat /\ Span > 0 /\ Span = (MaxInt + 1) + (MaxInt + 1)
BY MaxIntAssumption DEF Span

LEMMA SameIsEquivalence ==
  /\ \A a \in Int : Same(a, a)
  /\ \A a, b \in Int : Same(a, b) => Same(b, a)
  /\ \A a, b, c \in Int : Same(a, b) /\ Same(b, c) => Same(a, c)
<1>0. Span \in Int
  BY SpanType
<1>1. ASSUME NEW a \in Int PROVE Same(a, a)
  <2>1. a = a + 0 * Span
    BY <1>0
  <2> QED BY <2>1 DEF Same
<1>2. ASSUME NEW a \in Int, NEW b \in Int, Same(a, b) PROVE Same(b, a)
  <2>1. PICK k \in Int : a = b + k * Span
    BY <1>2 DEF Same
  <2>2. -k \in Int /\ b = a + (-k) * Span
    BY <1>0, <2>1
  <2> QED BY <2>2 DEF Same
<1>3. ASSUME NEW a \in Int, NEW b \in Int, NEW c \in Int, Same(a, b), Same(b, c) PROVE Same(a, c)
  <2>1. PICK k \in Int : a = b + k * Span
    BY <1>3 DEF Same
  <2>2. PICK l \in Int : b = c + l * Span
    BY <1>3 DEF Same
  <2>3. k + l \in Int /\ a = c + (k + l) * Span
    BY <1>0, <2>1, <2>2
  <2> QED BY <2>3 DEF Same
<1> QED BY <1>1, <1>2, <1>3

\* Sums of integers that are the same are the same.
LEMMA SameSum ==
  ASSUME NEW a \in Int, NEW b \in Int, NEW c \in Int, NEW d \in Int, Same(a, b), Same(c, d)
  PROVE  Same(a + c, b + d)
<1>0. Span \in Int
  BY SpanType
<1>1. PICK k \in Int : a = b + k * Span
  BY DEF Same
<1>2. PICK l \in Int : c = d + l * Span
  BY DEF Same
<1>3. k + l \in Int /\ a + c = (b + d) + (k + l) * Span
  BY <1>0, <1>1, <1>2
<1> QED BY <1>3 DEF Same

\* Wrapping fits an integer in, and keeps it the same.
LEMMA WrapKeeps ==
    ASSUME NEW n \in Int PROVE Wrap(n) \in Int64 /\ Same(Wrap(n), n)
<1> DEFINE h == MaxInt + 1
<1>0. h \in Nat /\ Span = h + h /\ Span \in Nat /\ Span > 0
  BY SpanType, MaxIntAssumption
<1>1. Wrap(n) = ((n + h) % Span) - h
  BY MaxIntAssumption DEF Wrap, Span
<1>a. Int64 = (-h)..(h - 1)
  BY MaxIntAssumption DEF Int64
<1> HIDE DEF h
<1>2. (n + h) % Span \in 0..(Span - 1)
  BY <1>0, ModDef
<1>3. PICK q \in Int : n + h = q * Span + ((n + h) % Span)
  BY <1>0, ModDef
<1> DEFINE r == (n + h) % Span
<1>r. r \in Int /\ n + h = q * Span + r /\ Wrap(n) = r - h /\ r >= 0 /\ r < h + h
  BY <1>0, <1>1, <1>2, <1>3
<1> HIDE DEF r
<1>4. -q \in Int /\ Wrap(n) = n + (-q) * Span
  BY <1>0, <1>r
<1>5. Wrap(n) \in Int64
  BY <1>0, <1>a, <1>r
<1> QED BY <1>4, <1>5 DEF Same

\* Of the integers that are the same one fits.
LEMMA SameInt64 ==
    ASSUME NEW a \in Int64, NEW b \in Int64, Same(a, b) PROVE a = b
<1> DEFINE h == MaxInt + 1
<1>0. h \in Nat /\ Span = h + h /\ Span \in Nat /\ Span > 0 /\ Int64 = (-h)..(h - 1)
  BY SpanType, MaxIntAssumption DEF Int64
<1>1. PICK k \in Int : a = b + k * Span
  BY DEF Same
<1> HIDE DEF h
<1>2. a \in Int /\ b \in Int /\ a + h \in 0..(Span - 1) /\ b + h \in 0..(Span - 1)
  BY <1>0
<1>3. 0 * Span + (a + h) = k * Span + (b + h)
  BY <1>0, <1>1, <1>2
<1>4. a + h = b + h
  BY <1>0, <1>2, <1>3, ModUnique
<1> QED BY <1>0, <1>2, <1>4

LEMMA WrapSame ==
    ASSUME NEW a \in Int, NEW b \in Int PROVE Wrap(a) = Wrap(b) <=> Same(a, b)
<1>0. Wrap(a) \in Int /\ Wrap(b) \in Int
  BY WrapKeeps, MaxIntAssumption DEF Int64
<1>1. ASSUME Same(a, b) PROVE Wrap(a) = Wrap(b)
  BY <1>0, <1>1, WrapKeeps, SameIsEquivalence, SameInt64
<1>2. ASSUME Wrap(a) = Wrap(b) PROVE Same(a, b)
  BY <1>0, <1>2, WrapKeeps, SameIsEquivalence
<1> QED BY <1>1, <1>2

-----------------------------------------------------------------------------
(* The fold and the sum *)

\* What each metric of a list adds to a counter.
Shares(list, c) == [i \in DOMAIN list |-> IF list[i].row = c THEN list[i].val ELSE 0]

\* The fold of the service, which takes the last metric off first.
FoldStep(list, c, g, s) ==
    IF s = {} THEN 0
    ELSE LET x == Max(s) IN IF list[x].row = c THEN Wrap(g[s \ {x}] + list[x].val) ELSE g[s \ {x}]

FoldFcn(list, c) == CHOOSE g : g = [s \in SUBSET DOMAIN list |-> FoldStep(list, c, g, s)]

LEMMA FoldExpanded ==
    ASSUME NEW list, NEW c \in Named(list, CounterRows)
    PROVE  CounterMap(list)[c] = FoldFcn(list, c)[DOMAIN list]
BY DEF CounterMap, FoldLeft, MapThenFoldSet, FoldFcn, FoldStep

\* A nonempty set of positions has a largest one.
LEMMA MaxIsElement ==
    ASSUME NEW S, IsFiniteSet(S), S \subseteq Int, NEW s \in SUBSET S, s # {}
    PROVE  Max(s) \in s
<1> DEFINE HasMax(t) == \E x \in t : \A y \in t : x >= y
           T == {t \in SUBSET S : t # {} => HasMax(t)}
<1>1. ASSUME NEW t \in SUBSET S, NEW x \in t, t \ {x} \in T PROVE t \in T
  <2>1. CASE t \ {x} = {}
    <3>1. \A y \in t : x >= y
      BY <2>1
    <3> QED BY <3>1
  <2>2. CASE t \ {x} # {}
    <3>1. PICK m \in t \ {x} : \A y \in t \ {x} : m >= y
      BY <1>1, <2>2
    <3>2. CASE m >= x
      BY <3>1, <3>2
    <3>3. CASE x >= m
      <4>1. \A y \in t : x >= y
        BY <3>1, <3>3
      <4> QED BY <4>1
    <3> QED BY <3>2, <3>3
  <2> QED BY <2>1, <2>2
<1>2. \A t \in SUBSET S : t # {} => \E x \in t : t \ {x} \in T => t \in T
  BY <1>1
<1>3. {} \in T
  OBVIOUS
<1>4. SUBSET S \subseteq T
  <2> HIDE DEF T
  <2> QED BY <1>2, <1>3, InductionOverSubsets
<1> QED BY <1>4 DEF Max

\* The fold's function is there, and satisfies its equation.
LEMMA FoldFcnDef ==
    ASSUME NEW list \in Seq(Metric), NEW c, NEW s \in SUBSET DOMAIN list
    PROVE  FoldFcn(list, c)[s] = FoldStep(list, c, FoldFcn(list, c), s)
<1> DEFINE S == DOMAIN list
           V == Int
           pick == [t \in SUBSET S |-> Max(t)]
           op == [p \in S \X V |-> IF list[p[1]].row = c THEN Wrap(p[2] + list[p[1]].val) ELSE p[2]]
           k == FoldFcn(list, c)
<1>1. IsFiniteSet(S) /\ S \subseteq Int /\ \A i \in S : list[i].val \in Int
  <2>1. S = 1..Len(list) /\ \A i \in S : list[i] \in Metric
    OBVIOUS
  <2> QED BY <2>1, FS_Interval DEF Metric
<1>2. \A x \in S, v \in V : op[<<x, v>>] = IF list[x].row = c THEN Wrap(v + list[x].val) ELSE v
  OBVIOUS
<1>3. 0 \in V /\ Stays(op, S, V)
  <2>1. \A n \in Int : Wrap(n) \in Int
    BY WrapKeeps, MaxIntAssumption DEF Int64
  <2>2. ASSUME NEW x \in S, NEW v \in Int PROVE op[<<x, v>>] \in Int
    <3>1. v + list[x].val \in Int
      BY <1>1
    <3> HIDE DEF op
    <3> QED BY <1>2, <2>1, <3>1
  <2> HIDE DEF op
  <2> QED BY <2>2 DEF Stays
<1>4. Picks(pick, S)
  BY <1>1, MaxIsElement DEF Picks
<1> HIDE DEF S, V, op
<1>5. PICK g \in [SUBSET S -> V] : Recursion(g, S, 0, pick, op)
  BY <1>1, <1>3, <1>4, RecursionExists
<1>6. \A t \in SUBSET S : g[t] = FoldStep(list, c, g, t)
  <2> SUFFICES ASSUME NEW t \in SUBSET S PROVE g[t] = FoldStep(list, c, g, t)
    OBVIOUS
  <2>1. CASE t = {}
    BY <1>5, <2>1 DEF Recursion, Step, FoldStep
  <2>2. CASE t # {}
    <3>1. pick[t] = Max(t) /\ Max(t) \in S /\ g[t \ {Max(t)}] \in V
      BY <1>4, <2>2 DEF Picks
    <3>2. g[t] = op[<<Max(t), g[t \ {Max(t)}]>>]
      BY <1>5, <2>2, <3>1 DEF Recursion, Step
    <3> QED BY <1>2, <2>2, <3>1, <3>2 DEF FoldStep
  <2> QED BY <2>1, <2>2
<1>7. g = [t \in SUBSET S |-> FoldStep(list, c, g, t)]
  BY <1>6
<1>8. k = [t \in SUBSET DOMAIN list |-> FoldStep(list, c, k, t)]
  BY <1>7, Zenon DEF FoldFcn, S
<1> HIDE DEF k
<1> QED BY <1>8 DEF k

\* Whatever wraps on the way, the fold is the sum up to the width of an integer.
LEMMA FoldIsSum ==
    ASSUME NEW list \in Seq(Metric), NEW c \in Named(list, CounterRows)
    PROVE  /\ CounterMap(list)[c] \in Int64
           /\ Same(CounterMap(list)[c], SumFunction(Shares(list, c)))
<1> DEFINE S == DOMAIN list
           F == Shares(list, c)
           k == FoldFcn(list, c)
           T == {s \in SUBSET S : k[s] \in Int64 /\ Same(k[s], SumFunctionOnSet(F, s))}
<1>1. IsFiniteSet(S) /\ S \subseteq Int /\ \A i \in S : list[i].val \in Int
  <2>1. S = 1..Len(list) /\ \A i \in S : list[i] \in Metric
    OBVIOUS
  <2> QED BY <2>1, FS_Interval DEF Metric
<1>2. Integral(F, S) /\ \A i \in S : F[i] = IF list[i].row = c THEN list[i].val ELSE 0
  BY <1>1 DEF Integral, Shares
<1>3. \A s \in SUBSET S : k[s] = FoldStep(list, c, k, s)
  BY FoldFcnDef
<1>4. 0 \in Int64 /\ Int64 \subseteq Int
  BY MaxIntAssumption DEF Int64
<1> HIDE DEF k, F
<1>5. {} \in T
  BY <1>3, <1>4, SumOfNothing, SameIsEquivalence DEF FoldStep
<1>6. ASSUME NEW s \in SUBSET S, s # {} PROVE \E x \in s : s \ {x} \in T => s \in T
  <2> DEFINE x == Max(s)
             r == s \ {x}
  <2>1. x \in s
    BY <1>1, <1>6, MaxIsElement
  <2>2. k[s] = IF list[x].row = c THEN Wrap(k[r] + list[x].val) ELSE k[r]
    BY <1>3, <1>6 DEF FoldStep
  <2> HIDE DEF x
  <2>3. IsFiniteSet(s) /\ Integral(F, s) /\ IsFiniteSet(r) /\ Integral(F, r)
    BY <1>1, <1>2, FS_Subset DEF Integral
  <2>4. SumFunctionOnSet(F, s) = F[x] + SumFunctionOnSet(F, r)
    BY <2>1, <2>3, SumWithout
  <2>5. SumFunctionOnSet(F, r) \in Int /\ F[x] \in Int /\ list[x].val \in Int
    BY <1>1, <1>2, <2>1, <2>3, SumIsInt DEF Integral
  <2> DEFINE R == SumFunctionOnSet(F, r)
  <2> HIDE DEF R
  <2>6. ASSUME k[r] \in Int64, Same(k[r], R) PROVE k[s] \in Int64 /\ Same(k[s], F[x] + R)
    <3>1. k[r] \in Int /\ R \in Int
      BY <1>4, <2>5, <2>6 DEF R
    <3>2. CASE list[x].row = c
      <4>1. k[s] = Wrap(k[r] + F[x])
        BY <1>2, <2>1, <2>2, <3>2
      <4>2. /\ k[r] + F[x] \in Int /\ R + F[x] \in Int /\ R + F[x] = F[x] + R
            /\ Same(k[r] + F[x], R + F[x])
        <5>1. Same(F[x], F[x]) /\ F[x] \in Int
          BY <2>5, SameIsEquivalence
        <5>2. Same(k[r] + F[x], R + F[x])
          BY <2>6, <3>1, <5>1, SameSum
        <5> QED BY <3>1, <5>1, <5>2
      <4>3. k[s] \in Int64 /\ Same(k[s], k[r] + F[x])
        BY <4>1, <4>2, WrapKeeps
      <4> QED BY <1>4, <4>2, <4>3, SameIsEquivalence
    <3>3. CASE list[x].row # c
      <4>1. k[s] = k[r] /\ F[x] + R = R
        BY <1>2, <2>1, <2>2, <3>1, <3>3
      <4> QED BY <2>6, <4>1
    <3> QED BY <3>2, <3>3
  <2>7. r \in T => s \in T
    BY <2>4, <2>6 DEF R
  <2> QED BY <2>1, <2>7
<1> HIDE DEF S, T
<1>7. SUBSET S \subseteq T
  BY <1>1, <1>5, <1>6, InductionOverSubsets
<1>8. DOMAIN F = S
  BY DEF F, S, Shares
<1>9. k[S] \in Int64 /\ Same(k[S], SumFunctionOnSet(F, S))
  BY <1>7 DEF T
<1> QED BY <1>8, <1>9, FoldExpanded DEF F, k, S, SumFunction

LEMMA ListType == ASSUME NEW r \in Requests \union {NoRequest} PROVE r.list \in Seq(Metric)
<1>1. <<>> \in Seq(Metric)
  OBVIOUS
<1>2. CASE r = NoRequest
  BY <1>1, <1>2 DEF NoRequest
<1>3. CASE r \in Requests
  BY <1>3, RequestsAssumption
<1> QED BY <1>2, <1>3

\* What a request says of a counter it does not name is nothing.
LEMMA SaidType ==
    ASSUME NEW r \in Requests \union {NoRequest}, NEW c \in CounterRows
    PROVE  /\ Said[r][c] = SumFunction(Shares(r.list, c)) /\ Said[r][c] \in Int
           /\ c \notin Named(r.list, CounterRows) => Said[r][c] = 0
<1>0. r.list \in Seq(Metric)
  BY ListType
<1> DEFINE S == DOMAIN r.list
           F == Shares(r.list, c)
<1>1. IsFiniteSet(S) /\ Integral(F, S) /\ DOMAIN F = S
  <2>1. S = 1..Len(r.list) /\ \A i \in S : r.list[i] \in Metric
    BY <1>0
  <2>2. IsFiniteSet(S)
    <3>1. 1 \in Int /\ Len(r.list) \in Int
      BY <1>0
    <3> HIDE DEF S
    <3> QED BY <2>1, <3>1, FS_Interval
  <2> QED BY <2>1, <2>2 DEF Metric, Integral, Shares
<1>2. Said[r][c] = SumFunction(F)
  BY DEF Said, Shares
<1>3. SumFunction(F) \in Int
  BY <1>1, SumIsInt DEF SumFunction
<1>4. ASSUME c \notin Named(r.list, CounterRows) PROVE SumFunction(F) = 0
  <2>1. \A i \in S : F[i] = 0
    BY <1>4 DEF Named, Positions, Shares
  <2> HIDE DEF F
  <2> QED BY <1>1, <2>1, SumOfZeros DEF SumFunction
<1> QED BY <1>2, <1>3, <1>4

-----------------------------------------------------------------------------
(* Nothing is lost *)

\* What a handler has had committed of a counter.
Share(c) == [h \in Handlers |-> commits[h] * Said[request[h]][c]]

LEMMA ShareType ==
    ASSUME TypeOK, NEW c \in CounterRows
    PROVE  /\ Integral(Share(c), Handlers)
           /\ Given(c) = SumFunctionOnSet(Share(c), Handlers) /\ Given(c) \in Int
<1>1. \A h \in Handlers : commits[h] \in Int /\ request[h] \in Requests \union {NoRequest}
  BY DEF TypeOK
<1>2. \A h \in Handlers : Said[request[h]][c] \in Int
  BY <1>1, SaidType
<1>3. ASSUME NEW h \in Handlers PROVE Share(c)[h] \in Int
  <2>1. Share(c)[h] = commits[h] * Said[request[h]][c]
    BY DEF Share
  <2> QED BY <1>1, <1>2, <2>1
<1>4. Integral(Share(c), Handlers)
  BY <1>3 DEF Integral
<1>5. Given(c) = SumFunctionOnSet(Share(c), Handlers)
  BY DEF Given, Share, SumFunction
<1> QED BY <1>4, <1>5, HandlersAssumption, SumIsInt

\* No lost adds, as a congruence.
Balanced == \A c \in CounterRows : Same(rows[c], Given(c))

LEMMA BalancedIs == TypeOK => (NoLostAdds <=> Balanced)
<1> SUFFICES ASSUME TypeOK PROVE NoLostAdds <=> Balanced
  OBVIOUS
<1>1. \A c \in CounterRows : rows[c] \in Int /\ Given(c) \in Int
  BY ShareType, MaxIntAssumption DEF TypeOK, Rows, Int64
<1> QED BY <1>1, WrapSame DEF NoLostAdds, Balanced

\* A step commits all of one request, that nothing has been committed of before,
\* or no row changes and no request that is committed.
Commits(h) ==
    /\ rows' = Atomic!Changed(Folded[request[h]], rows)
    /\ commits[h] = 0 /\ commits' = [commits EXCEPT ![h] = @ + 1]
    /\ request' = request

CommitsNothing ==
    /\ UNCHANGED <<rows, commits>>
    /\ \A h \in Handlers : request'[h] = request[h] \/ commits[h] = 0

LEMMA EndCommits ==
    ASSUME IInv, NEW h \in Handlers, pc[h] \in {"begin", "gauges", "counters", "one"},
           Succeed(h) \/ (\E e \in Errors : Fail(h, e)),
           \/ UNCHANGED <<rows, commits>>
           \/ /\ rows' = Atomic!Changed(Folded[request[h]], rows)
              /\ commits' = [commits EXCEPT ![h] = @ + 1]
    PROVE  Commits(h) \/ CommitsNothing
<1>1. commits[h] = 0
  BY DEF IInv, HandlerInv
<1>2. request' = request
  BY FailEnds DEF Succeed
<1> QED BY <1>1, <1>2 DEF Commits, CommitsNothing

LEMMA StepCommits ==
    ASSUME IInv, [Next]_vars PROVE (\E h \in Handlers : Commits(h)) \/ CommitsNothing
<1>1. ASSUME NEW h \in Handlers, Receive(h) PROVE CommitsNothing
  <2>1. pc[h] = "idle" /\ UNCHANGED <<rows, commits>> /\ \E r : request' = [request EXCEPT ![h] = r]
    BY <1>1 DEF Receive
  <2>2. commits[h] = 0
    BY <2>1 DEF IInv, HandlerInv
  <2> QED BY <2>1, <2>2 DEF CommitsNothing, IInv, TypeOK
<1>2. ASSUME NEW h \in Handlers, Begin(h) \/ Issue(h) \/ GaugesDone(h) PROVE CommitsNothing
  BY <1>2 DEF Begin, Issue, GaugesDone, CommitsNothing
<1>3. ASSUME NEW h \in Handlers, Exec(h) PROVE CommitsNothing \/ Commits(h)
  <2>1. /\ pc[h] \in {"begin", "gauges", "counters", "one"} /\ UNCHANGED <<rows, commits>>
        /\ UNCHANGED request \/ Fail(h, OutOfRange)
    BY <1>3 DEF Exec
  <2> QED BY <2>1, EndCommits DEF Errors, CommitsNothing
<1>4. ASSUME NEW h \in Handlers, Commit(h) PROVE CommitsNothing \/ Commits(h)
  <2>1. /\ CountersDone(h) /\ pc[h] = "counters"
        /\ Succeed(h) \/ (\E e \in Errors : Fail(h, e))
        /\ Committed(h, writes[h]) \/ UNCHANGED <<rows, commits>>
    BY <1>4 DEF Commit, CountersDone, Errors
  <2> QED BY <2>1, CommitChangesAll, EndCommits DEF Committed
<1>5. ASSUME NEW h \in Handlers, ExecOne(h) PROVE CommitsNothing \/ Commits(h)
  <2>1. PICK row \in waiting[h] :
          LET changes == [r \in {row} |-> Upserted(h, row)]
          IN  /\ Succeed(h) \/ (\E e \in Errors : Fail(h, e))
              /\ Committed(h, changes) \/ UNCHANGED <<rows, commits>>
    BY <1>5 DEF ExecOne, Errors
  <2>2. pc[h] = "one"
    BY <1>5 DEF ExecOne
  <2>3. \/ UNCHANGED <<rows, commits>>
        \/ /\ rows' = Atomic!Changed(Folded[request[h]], rows)
           /\ commits' = [commits EXCEPT ![h] = @ + 1]
    BY <2>1, <2>2, OneChangesAll DEF Committed
  <2> QED BY <2>1, <2>2, <2>3, EndCommits
<1>6. ASSUME NEW h \in Handlers, Break(h) PROVE CommitsNothing \/ Commits(h)
  BY <1>6, EndCommits DEF Break, Errors
<1>7. CASE AbortDeadlock
  <2>1. PICK h \in Handlers : waiting[h] # {} /\ Fail(h, Deadlock) /\ UNCHANGED <<rows, commits>>
    BY <1>7 DEF AbortDeadlock, IsCycle, WaitsFor
  <2>2. pc[h] \in {"begin", "gauges", "counters", "one"}
    BY <2>1 DEF IInv, HandlerInv
  <2> QED BY <2>1, <2>2, EndCommits DEF Errors
<1>8. CASE UNCHANGED vars
  BY <1>8 DEF vars, CommitsNothing
<1> QED BY <1>1, <1>2, <1>3, <1>4, <1>5, <1>6, <1>7, <1>8 DEF Next, HandlerStep

\* The row grows by what the request says, up to the width of an integer, and so
\* does the sum.
LEMMA CommitLosesNothing ==
    ASSUME IInv, IInv', NoLostAdds, NEW h \in Handlers, Commits(h) PROVE NoLostAdds'
<1> SUFFICES ASSUME NEW c \in CounterRows PROVE Same(rows'[c], Given(c)')
  <2>1. TypeOK' => (NoLostAdds' <=> Balanced')
    BY BalancedIs, PTL
  <2> QED BY <2>1 DEF IInv, Balanced, Same
<1> DEFINE r == request[h]
           add == Said[r][c]
<1>1. TypeOK /\ TypeOK' /\ r \in Requests \union {NoRequest}
  BY DEF IInv, TypeOK
<1>2. Same(rows[c], Given(c)) /\ rows[c] \in Int
  BY <1>1, BalancedIs, MaxIntAssumption DEF Balanced, TypeOK, Rows, Int64
<1>3. add \in Int /\ (c \notin Named(r.list, CounterRows) => add = 0)
  BY <1>1, SaidType
<1>4. Same(rows'[c], rows[c] + add) /\ rows'[c] \in Int
  <2>1. rows'[c] = IF c \in DOMAIN Folded[r].adds THEN rows[c] + Folded[r].adds[c] ELSE rows[c]
    <3>1. c \notin DOMAIN Folded[r].sets
      BY <1>1, FoldedRows, TablesAssumption
    <3> QED BY <3>1 DEF Commits, Atomic!Changed, Rows
  <2>2. CASE c \in Named(r.list, CounterRows)
    <3>1. /\ rows'[c] = rows[c] + CounterMap(r.list)[c]
          /\ r.list \in Seq(Metric)
      BY <1>1, <2>1, <2>2, FoldedRows, ListType
    <3>2. CounterMap(r.list)[c] \in Int64 /\ Same(CounterMap(r.list)[c], add)
      BY <1>1, <2>2, <3>1, FoldIsSum, SaidType
    <3>3. CounterMap(r.list)[c] \in Int
      BY <3>2, MaxIntAssumption DEF Int64
    <3>4. Same(rows[c], rows[c])
      BY <1>2, SameIsEquivalence
    <3> HIDE DEF add
    <3>5. Same(rows[c] + CounterMap(r.list)[c], rows[c] + add)
      BY <1>2, <1>3, <3>2, <3>3, <3>4, SameSum
    <3> QED BY <1>2, <3>1, <3>3, <3>5
  <2>3. CASE c \notin Named(r.list, CounterRows)
    <3>1. rows'[c] = rows[c] /\ rows[c] + add = rows[c]
      BY <1>1, <1>2, <1>3, <2>1, <2>3, FoldedRows
    <3> QED BY <1>2, <3>1, SameIsEquivalence
  <2> QED BY <2>2, <2>3
<1>5. Given(c)' = Given(c) + add
  <2>1. /\ Integral(Share(c), Handlers) /\ Integral(Share(c)', Handlers)
        /\ Given(c) = SumFunctionOnSet(Share(c), Handlers) /\ Given(c) \in Int
        /\ Given(c)' = SumFunctionOnSet(Share(c)', Handlers)
    <3>1. TypeOK' => Integral(Share(c), Handlers)' /\ (Given(c) = SumFunctionOnSet(Share(c), Handlers))'
      BY ShareType, PTL
    <3> QED BY <1>1, <3>1, ShareType DEF Integral
  <2>2. Share(c)[h] = 0 /\ Share(c)'[h] = add
    <3>1. Share(c)[h] = 0 * add /\ Share(c)'[h] = 1 * add
      BY <1>1 DEF Commits, Share, TypeOK
    <3> QED BY <1>3, <3>1
  <2>3. \A k \in Handlers \ {h} : Share(c)'[k] = Share(c)[k]
    BY <1>1 DEF Commits, Share, TypeOK
  <2>4. Given(c)' = Given(c) - Share(c)[h] + Share(c)'[h]
    BY <2>1, <2>3, HandlersAssumption, SumAfterChange
  <2> QED BY <1>3, <2>1, <2>2, <2>4
<1>6. Given(c) \in Int
  BY <1>1, ShareType
<1> HIDE DEF add
<1>7. Same(rows[c] + add, Given(c) + add)
  BY <1>2, <1>3, <1>6, SameIsEquivalence, SameSum
<1> QED BY <1>2, <1>3, <1>4, <1>5, <1>6, <1>7, SameIsEquivalence

LEMMA RestLosesNothing ==
    ASSUME IInv, IInv', NoLostAdds, CommitsNothing PROVE NoLostAdds'
<1> SUFFICES ASSUME NEW c \in CounterRows PROVE Given(c)' = Given(c)
  BY DEF NoLostAdds, CommitsNothing, Wrap
<1>1. TypeOK /\ TypeOK'
  BY DEF IInv
<1>2. /\ Integral(Share(c), Handlers) /\ Given(c) = SumFunctionOnSet(Share(c), Handlers)
      /\ Given(c)' = SumFunctionOnSet(Share(c)', Handlers)
  <2>1. TypeOK' => (Given(c) = SumFunctionOnSet(Share(c), Handlers))'
    BY ShareType, PTL
  <2> QED BY <1>1, <2>1, ShareType
<1>3. ASSUME NEW h \in Handlers PROVE Share(c)'[h] = Share(c)[h]
  <2>1. /\ Share(c)'[h] = commits[h] * Said[request'[h]][c]
        /\ Share(c)[h] = commits[h] * Said[request[h]][c]
    BY DEF CommitsNothing, Share
  <2>2. Said[request'[h]][c] \in Int /\ Said[request[h]][c] \in Int
    BY <1>1, SaidType DEF TypeOK
  <2> QED BY <2>1, <2>2 DEF CommitsNothing
<1> QED BY <1>2, <1>3, HandlersAssumption, SumOfEqual

LEMMA NothingLostInit == Init => NoLostAdds
<1> SUFFICES ASSUME Init, NEW c \in CounterRows PROVE rows[c] = Given(c)
  BY DEF NoLostAdds
<1>1. TypeOK
  BY InvInit DEF IInv
<1>2. ASSUME NEW h \in Handlers PROVE Share(c)[h] = 0
  <2>1. Share(c)[h] = 0 * Said[request[h]][c] /\ Said[request[h]][c] \in Int
    BY <1>1, SaidType DEF Init, Share, TypeOK
  <2> QED BY <2>1
<1> QED BY <1>1, <1>2, ShareType, HandlersAssumption, SumOfZeros DEF Init, Rows

\* A counter is the sum of what all committed requests say of it, up to the wrap of
\* an integer: transactions that add to it at the same time do not lose an update,
\* a transaction that fails adds nothing, and the fold of a batch counts a name that
\* comes twice twice.
THEOREM NothingIsLost == Spec => []NoLostAdds
<1>1. IInv /\ IInv' /\ NoLostAdds /\ [Next]_vars => NoLostAdds'
  BY StepCommits, CommitLosesNothing, RestLosesNothing
<1> QED BY <1>1, NothingLostInit, Inductive, PTL DEF Spec
=============================================================================
