----------------------------- MODULE WorkerPool -----------------------------
(***************************************************************************)
(* The agent's worker pool, internal/agent/worker_pool.go: submitters put  *)
(* tasks on a bounded channel under the read side of a RWMutex, workers    *)
(* take and send them, Stop closes the channel under the write side, waits *)
(* for the workers and then cancels their context.                         *)
(*                                                                         *)
(* A task stands for one report; what SendMetricsBatch does with it is the *)
(* module Delivery's subject, here it is only known to return.             *)
(***************************************************************************)
EXTENDS Naturals, Sequences, FiniteSets

CONSTANTS
    Workers,    \* the goroutines that Start launches
    Submitters, \* goroutines that call Submit
    Stoppers,   \* goroutines that call Stop
    MaxTasks    \* bound: calls of Submit per submitter

ASSUME WorkersAssumption == IsFiniteSet(Workers) /\ Workers # {}
ASSUME MaxTasksAssumption == MaxTasks \in Nat

Task == Submitters \X (1..MaxTasks)

QueueCap == 2 * Cardinality(Workers)

VARIABLES
    queue,         \* wp.taskQueue
    closed,        \* the channel is closed
    stopped,       \* wp.stopped
    ctxDone,       \* wp.ctx is cancelled
    readers,       \* submitters holding wp.mu for reading
    writerWaiting, \* Stop waits for wp.mu: no new reader gets in
    submitPc,      \* where each submitter is in Submit
    calls,         \* calls of Submit each submitter has begun
    workerPc,      \* where each worker is in its loop
    current,       \* the task each sending worker holds, as a set of at most one
    stopOnce,      \* wp.stopOnce: "new", "running" or "done"
    stopPc,        \* where each stopper is in Stop
    accepted,      \* tasks put on the queue
    handled        \* tasks for which SendMetricsBatch has returned

lockVars   == <<stopped, readers, writerWaiting>>
submitVars == <<submitPc, calls, accepted>>
workerVars == <<workerPc, current, handled>>
stopVars   == <<stopOnce, stopPc, closed, ctxDone>>
vars == <<queue, lockVars, submitVars, workerVars, stopVars>>

-----------------------------------------------------------------------------
Init ==
    /\ queue = <<>>
    /\ closed = FALSE /\ stopped = FALSE /\ ctxDone = FALSE
    /\ readers = {} /\ writerWaiting = FALSE
    /\ submitPc = [s \in Submitters |-> "idle"]
    /\ calls = [s \in Submitters |-> 0]
    /\ workerPc = [w \in Workers |-> "waiting"]
    /\ current = [w \in Workers |-> {}]
    /\ stopOnce = "new"
    /\ stopPc = [p \in Stoppers |-> "idle"]
    /\ accepted = {} /\ handled = {}

-----------------------------------------------------------------------------
(* Bugs this code could have had; the runs' properties tell them from the     *)
(* definitions below that carry the name without the suffix.                  *)

\* Stop takes the lock only for itself.
LockAcquired_NoReaders == TRUE

\* Stop cancels without waiting for the workers.
WorkersDone_NoWait == TRUE

\* Submit looks at the context only.
Refused_NoStopped == ctxDone

\* One task more than the channel holds.
SubmitReady_OffByOne ==
    {c \in {"send", "cancelled"} :
        \/ c = "send" /\ Len(queue) <= QueueCap
        \/ c = "cancelled" /\ ctxDone}

\* The worker ignores that the channel is closed, leaves as soon as it is, or
\* leaves an empty queue, closed or not.
MayExit_IgnoresClose == ctxDone
MayExit_WhenEmpty == queue = <<>>
MayExit_NoDrain == closed \/ ctxDone

\* A failed task is put back although it has been reported.
WorkerSent_Requeues(w) ==
    /\ workerPc[w] = "sending"
    /\ handled' = handled \union current[w]
    /\ queue' = IF closed THEN queue ELSE queue \o <<CHOOSE t \in current[w] : TRUE>>
    /\ current' = [current EXCEPT ![w] = {}]
    /\ workerPc' = [workerPc EXCEPT ![w] = "waiting"]
    /\ UNCHANGED <<lockVars, submitVars, stopVars>>

-----------------------------------------------------------------------------
(* Submit *)

SubmitCall(s) ==
    /\ submitPc[s] = "idle"
    /\ calls[s] < MaxTasks
    /\ calls' = [calls EXCEPT ![s] = @ + 1]
    /\ submitPc' = [submitPc EXCEPT ![s] = "rlock"]
    /\ UNCHANGED <<queue, lockVars, accepted, workerVars, stopVars>>

\* RLock: a waiting writer keeps new readers out.
SubmitLock(s) ==
    /\ submitPc[s] = "rlock"
    /\ ~writerWaiting
    /\ readers' = readers \union {s}
    /\ submitPc' = [submitPc EXCEPT ![s] = "checking"]
    /\ UNCHANGED <<queue, stopped, writerWaiting, calls, accepted, workerVars, stopVars>>

\* The early returns on wp.stopped and on a cancelled context.
Refused == stopped \/ ctxDone

SubmitCheck(s) ==
    /\ submitPc[s] = "checking"
    /\ IF Refused
         THEN /\ submitPc' = [submitPc EXCEPT ![s] = "idle"]
              /\ readers' = readers \ {s}
         ELSE /\ submitPc' = [submitPc EXCEPT ![s] = "selecting"]
              /\ UNCHANGED readers
    /\ UNCHANGED <<queue, stopped, writerWaiting, calls, accepted, workerVars, stopVars>>

\* The cases of the second select that are ready; with none, Submit blocks and
\* goes on holding the read lock.
SubmitReady ==
    {c \in {"send", "cancelled"} :
        \/ c = "send" /\ Len(queue) < QueueCap
        \/ c = "cancelled" /\ ctxDone}

SubmitSelect(s) ==
    /\ submitPc[s] = "selecting"
    /\ \E c \in SubmitReady :
         LET sent == IF c = "send" THEN {<<s, calls[s]>>} ELSE {}
         IN  /\ accepted' = accepted \union sent
             /\ queue' = IF c = "send" THEN Append(queue, <<s, calls[s]>>) ELSE queue
    /\ readers' = readers \ {s}
    /\ submitPc' = [submitPc EXCEPT ![s] = "idle"]
    /\ UNCHANGED <<calls, stopped, writerWaiting, workerVars, stopVars>>

-----------------------------------------------------------------------------
(* worker *)

WorkerReceive(w) ==
    /\ workerPc[w] = "waiting"
    /\ queue # <<>>
    /\ current' = [current EXCEPT ![w] = {Head(queue)}]
    /\ queue' = Tail(queue)
    /\ workerPc' = [workerPc EXCEPT ![w] = "sending"]
    /\ UNCHANGED <<handled, lockVars, submitVars, stopVars>>

\* SendMetricsBatch has returned; an error is only logged.
WorkerSent(w) ==
    /\ workerPc[w] = "sending"
    /\ handled' = handled \union current[w]
    /\ current' = [current EXCEPT ![w] = {}]
    /\ workerPc' = [workerPc EXCEPT ![w] = "waiting"]
    /\ UNCHANGED <<queue, lockVars, submitVars, stopVars>>

\* The two returns: a closed channel that is drained, and a cancelled context.
MayExit == (closed /\ queue = <<>>) \/ ctxDone

WorkerExit(w) ==
    /\ workerPc[w] = "waiting"
    /\ MayExit
    /\ workerPc' = [workerPc EXCEPT ![w] = "exited"]
    /\ UNCHANGED <<queue, current, handled, lockVars, submitVars, stopVars>>

-----------------------------------------------------------------------------
(* Stop *)

LockAcquired == readers = {}
WorkersDone == \A w \in Workers : workerPc[w] = "exited"

\* stopOnce.Do: the first caller runs the function and asks for the write lock,
\* a caller that comes while it runs waits for it, a later one returns.
StopCall(p) ==
    /\ stopPc[p] = "idle"
    /\ IF stopOnce = "new"
         THEN /\ stopOnce' = "running"
              /\ writerWaiting' = TRUE
              /\ stopPc' = [stopPc EXCEPT ![p] = "locking"]
         ELSE /\ stopPc' = [stopPc EXCEPT ![p] = "once"]
              /\ UNCHANGED <<stopOnce, writerWaiting>>
    /\ UNCHANGED <<queue, closed, ctxDone, stopped, readers, submitVars, workerVars>>

\* Lock, stopped = true, close(taskQueue), Unlock: one step, for nobody that
\* needs the lock can look in between.
StopClose(p) ==
    /\ stopPc[p] = "locking"
    /\ LockAcquired
    /\ stopped' = TRUE
    /\ closed' = TRUE
    /\ writerWaiting' = FALSE
    /\ stopPc' = [stopPc EXCEPT ![p] = "joining"]
    /\ UNCHANGED <<queue, readers, ctxDone, stopOnce, submitVars, workerVars>>

\* wg.Wait, then cancelFunc.
StopJoin(p) ==
    /\ stopPc[p] = "joining"
    /\ WorkersDone
    /\ ctxDone' = TRUE
    /\ stopOnce' = "done"
    /\ stopPc' = [stopPc EXCEPT ![p] = "returned"]
    /\ UNCHANGED <<queue, closed, lockVars, submitVars, workerVars>>

StopOnceReturn(p) ==
    /\ stopPc[p] = "once"
    /\ stopOnce = "done"
    /\ stopPc' = [stopPc EXCEPT ![p] = "returned"]
    /\ UNCHANGED <<queue, closed, ctxDone, stopOnce, lockVars, submitVars, workerVars>>

-----------------------------------------------------------------------------
SubmitStep(s) == SubmitLock(s) \/ SubmitCheck(s) \/ SubmitSelect(s)
WorkerStep(w) == WorkerReceive(w) \/ WorkerSent(w) \/ WorkerExit(w)
StopStep(p)   == StopClose(p) \/ StopJoin(p) \/ StopOnceReturn(p)

Next ==
    \/ \E s \in Submitters : SubmitCall(s) \/ SubmitStep(s)
    \/ \E w \in Workers : WorkerStep(w)
    \/ \E p \in Stoppers : StopCall(p) \/ StopStep(p)

Spec == Init /\ [][Next]_vars

\* A goroutine that can run is run, and SendMetricsBatch returns: it makes at
\* most three attempts of five seconds. Nobody is obliged to call Submit or
\* Stop, so SubmitCall and StopCall have no fairness.
Fairness ==
    /\ \A s \in Submitters : WF_vars(SubmitStep(s))
    /\ \A w \in Workers : WF_vars(WorkerStep(w))
    /\ \A p \in Stoppers : WF_vars(StopStep(p))

FairSpec == Spec /\ Fairness

-----------------------------------------------------------------------------
(* Properties *)

TypeOK ==
    /\ queue \in Seq(Task) /\ Len(queue) <= QueueCap
    /\ closed \in BOOLEAN /\ stopped \in BOOLEAN
    /\ ctxDone \in BOOLEAN /\ writerWaiting \in BOOLEAN
    /\ readers \subseteq Submitters
    /\ submitPc \in [Submitters -> {"idle", "rlock", "checking", "selecting"}]
    /\ calls \in [Submitters -> 0..MaxTasks]
    /\ workerPc \in [Workers -> {"waiting", "sending", "exited"}]
    /\ current \in [Workers -> SUBSET Task]
    /\ stopOnce \in {"new", "running", "done"}
    /\ stopPc \in [Stoppers -> {"idle", "once", "locking", "joining", "returned"}]
    /\ accepted \subseteq Task /\ handled \subseteq Task

Elems(q) == {q[i] : i \in 1..Len(q)}
Distinct(q) == \A i, j \in 1..Len(q) : q[i] = q[j] => i = j
Queued == Elems(queue)
InFlight == UNION {current[w] : w \in Workers}

\* A send on a closed channel panics: whenever a submitter may reach the send
\* of Submit (line 87), Stop has not closed the channel.
NoSendOnClosedChannel ==
    \A s \in Submitters : submitPc[s] = "selecting" => ~closed

\* A task Submit has put on the queue is in the queue, with one worker, or
\* handled, and in one of them only: none is dropped on the way, none is sent
\* by two workers.
EachTaskInOnePlace ==
    /\ accepted = Queued \union InFlight \union handled
    /\ Queued \intersect InFlight = {}
    /\ handled \intersect (Queued \union InFlight) = {}
    /\ \A v, w \in Workers : v # w => current[v] \intersect current[w] = {}
    /\ Distinct(queue)

\* When Stop has returned, to its first or to any later caller, every accepted
\* task has been handled, no worker is left, and no submitter is still inside
\* the select of Submit; the context is cancelled only then.
StopDrains ==
    (ctxDone \/ \E p \in Stoppers : stopPc[p] = "returned")
        => /\ accepted = handled
           /\ \A w \in Workers : workerPc[w] = "exited"
           /\ \A s \in Submitters : submitPc[s] # "selecting"

\* Once wp.stopped is set no task is accepted any more, the channel stays closed
\* and no worker that has exited comes back.
StopIsFinal ==
    [][stopped => /\ accepted' = accepted
                  /\ stopped' /\ closed'
                  /\ \A w \in Workers : workerPc[w] = "exited" => workerPc'[w] = "exited"]_vars

\* Submit always returns: a submitter blocked on a full queue is let go by the
\* workers, even while Stop waits behind its read lock.
SubmitReturns ==
    \A s \in Submitters : submitPc[s] # "idle" ~> submitPc[s] = "idle"

\* Stop always returns, to every caller.
StopReturns ==
    \A p \in Stoppers : stopPc[p] # "idle" ~> stopPc[p] = "returned"

\* Every accepted task is eventually handled, whether or not Stop is called.
AcceptedIsHandled ==
    \A t \in Task : t \in accepted ~> t \in handled

\* The pool implements the abstract pool.
Pool == INSTANCE TaskPool WITH
    phase <- IF ~stopped THEN "open" ELSE IF ctxDone THEN "closed" ELSE "closing"

ImplementsTaskPool == Pool!PoolSpec
=============================================================================
