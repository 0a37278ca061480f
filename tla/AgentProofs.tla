---------------------------- MODULE AgentProofs -----------------------------
(***************************************************************************)
(* Proofs about the worker pool and about the agent, for any finite set of *)
(* workers, any submitters and stoppers, and any number of reports and     *)
(* collections. First the pool: each part of its inductive invariant is    *)
(* shown with the help of the parts before it. Then the agent, which uses  *)
(* the pool as its specification allows, so that all theorems of the pool  *)
(* hold of it; on top of that the order of main's shutdown gives that no   *)
(* report is dropped.                                                      *)
(***************************************************************************)
EXTENDS Agent, FiniteSetTheorems, SequenceTheorems, TLAPS

LEMMA QueueCapType == QueueCap \in Nat /\ QueueCap > 0
<1>1. Cardinality(Workers) \in Nat
  BY WorkersAssumption, FS_CardinalityType
<1>2. Cardinality(Workers) # 0
  BY WorkersAssumption, FS_EmptySet
<1> QED BY <1>1, <1>2, SMT DEF QueueCap

-----------------------------------------------------------------------------
(* Type correctness *)

\* A submitter inside Submit has begun a call: the task it carries exists.
Typed ==
    /\ TypeOK
    /\ \A s \in Submitters : submitPc[s] # "idle" => calls[s] > 0

LEMMA TypeInit == Init => Typed
<1> SUFFICES ASSUME Init PROVE Typed
  OBVIOUS
<1>1. queue \in Seq(Task) /\ Len(queue) <= QueueCap
  BY QueueCapType DEF Init
<1>2. calls \in [Submitters -> 0..MaxTasks]
  BY MaxTasksAssumption DEF Init
<1> QED BY <1>1, <1>2 DEF Init, TypeOK, Typed

LEMMA TypeNext == Typed /\ [Next]_vars => Typed'
<1> SUFFICES ASSUME Typed, [Next]_vars PROVE Typed'
  OBVIOUS
<1> USE DEF Typed, TypeOK
<1>1. ASSUME NEW s \in Submitters, SubmitCall(s) PROVE Typed'
  BY <1>1, MaxTasksAssumption DEF SubmitCall, lockVars, workerVars, stopVars
<1>2. ASSUME NEW s \in Submitters, SubmitLock(s) PROVE Typed'
  BY <1>2 DEF SubmitLock, workerVars, stopVars
<1>3. ASSUME NEW s \in Submitters, SubmitCheck(s) PROVE Typed'
  BY <1>3 DEF SubmitCheck, Refused, workerVars, stopVars
<1>4. ASSUME NEW s \in Submitters, SubmitSelect(s) PROVE Typed'
  <2> DEFINE t == <<s, calls[s]>>
  <2>1. PICK c \in SubmitReady :
          /\ accepted' = accepted \union (IF c = "send" THEN {t} ELSE {})
          /\ queue' = IF c = "send" THEN Append(queue, t) ELSE queue
    BY <1>4 DEF SubmitSelect
  <2>2. t \in Task
    BY <1>4, MaxTasksAssumption, SMT DEF SubmitSelect, Task
  <2>3. c = "send" => Len(queue) < QueueCap
    BY DEF SubmitReady
  <2>4. queue' \in Seq(Task) /\ Len(queue') <= QueueCap /\ accepted' \subseteq Task
    <3> HIDE DEF t
    <3>1. CASE c = "send"
      BY <3>1, <2>1, <2>2, <2>3, QueueCapType
    <3>2. CASE c # "send"
      BY <3>2, <2>1
    <3> QED BY <3>1, <3>2
  <2> QED
    BY <1>4, <2>4 DEF SubmitSelect, workerVars, stopVars
<1>5. ASSUME NEW w \in Workers, WorkerReceive(w) PROVE Typed'
  BY <1>5, QueueCapType DEF WorkerReceive, lockVars, submitVars, stopVars
<1>6. ASSUME NEW w \in Workers, WorkerSent(w) PROVE Typed'
  BY <1>6 DEF WorkerSent, lockVars, submitVars, stopVars
<1>7. ASSUME NEW w \in Workers, WorkerExit(w) PROVE Typed'
  BY <1>7 DEF WorkerExit, MayExit, lockVars, submitVars, stopVars
<1>8. ASSUME NEW p \in Stoppers, StopCall(p) PROVE Typed'
  BY <1>8 DEF StopCall, submitVars, workerVars
<1>9. ASSUME NEW p \in Stoppers, StopClose(p) PROVE Typed'
  BY <1>9 DEF StopClose, LockAcquired, submitVars, workerVars
<1>10. ASSUME NEW p \in Stoppers, StopJoin(p) PROVE Typed'
  BY <1>10 DEF StopJoin, WorkersDone, lockVars, submitVars, workerVars
<1>11. ASSUME NEW p \in Stoppers, StopOnceReturn(p) PROVE Typed'
  BY <1>11 DEF StopOnceReturn, lockVars, submitVars, workerVars
<1>12. ASSUME UNCHANGED vars PROVE Typed'
  BY <1>12 DEF vars, lockVars, submitVars, workerVars, stopVars
<1> QED
  BY <1>1, <1>2, <1>3, <1>4, <1>5, <1>6, <1>7, <1>8, <1>9, <1>10, <1>11, <1>12
     DEF Next, SubmitStep, WorkerStep, StopStep

\* Every variable keeps its type and the channel never holds more than its
\* capacity.
THEOREM TypeCorrect == Spec => []TypeOK
  <1>1. Typed => TypeOK
  BY DEF Typed
<1> QED BY <1>1, TypeInit, TypeNext, PTL DEF Spec

-----------------------------------------------------------------------------
(* The lock and the shutdown protocol *)

\* The read lock is held exactly by the submitters past RLock, the channel is
\* closed exactly when wp.stopped is set, and that never happens under a read
\* lock that has passed the check.
LockInv ==
    /\ closed = stopped
    /\ readers = {s \in Submitters : submitPc[s] \in {"checking", "selecting"}}
    /\ \A s \in Submitters : submitPc[s] = "selecting" => ~stopped

\* Only one stopper runs the function of stopOnce; where it is tells whether
\* the pool is stopped and the context cancelled.
StopInv ==
    /\ ctxDone <=> stopOnce = "done"
    /\ ctxDone => stopped
    /\ stopOnce = "new" => ~stopped
    /\ \A p \in Stoppers :
         /\ stopPc[p] = "locking" => stopOnce = "running" /\ ~stopped
         /\ stopPc[p] = "joining" => stopOnce = "running" /\ stopped
         /\ stopPc[p] = "returned" => ctxDone
    /\ \A p, q \in Stoppers :
         stopPc[p] \in {"locking", "joining"} /\ stopPc[q] \in {"locking", "joining"} => p = q

LEMMA LockInit == Init => LockInv
  BY DEF Init, LockInv

LEMMA LockNext == Typed /\ LockInv /\ [Next]_vars => LockInv'
<1> SUFFICES ASSUME Typed, LockInv, [Next]_vars PROVE LockInv'
  OBVIOUS
<1> USE DEF Typed, TypeOK, LockInv
<1>1. ASSUME NEW s \in Submitters, SubmitCall(s) PROVE LockInv'
  BY <1>1 DEF SubmitCall, lockVars, submitVars, workerVars, stopVars
<1>2. ASSUME NEW s \in Submitters, SubmitLock(s) PROVE LockInv'
  BY <1>2 DEF SubmitLock, lockVars, submitVars, workerVars, stopVars
<1>3. ASSUME NEW s \in Submitters, SubmitCheck(s) PROVE LockInv'
  BY <1>3 DEF SubmitCheck, Refused, lockVars, submitVars, workerVars, stopVars
<1>4. ASSUME NEW s \in Submitters, SubmitSelect(s) PROVE LockInv'
  BY <1>4 DEF SubmitSelect, lockVars, submitVars, workerVars, stopVars
<1>5. ASSUME NEW w \in Workers, WorkerReceive(w) PROVE LockInv'
  BY <1>5 DEF WorkerReceive, lockVars, submitVars, workerVars, stopVars
<1>6. ASSUME NEW w \in Workers, WorkerSent(w) PROVE LockInv'
  BY <1>6 DEF WorkerSent, lockVars, submitVars, workerVars, stopVars
<1>7. ASSUME NEW w \in Workers, WorkerExit(w) PROVE LockInv'
  BY <1>7 DEF WorkerExit, MayExit, lockVars, submitVars, workerVars, stopVars
<1>8. ASSUME NEW p \in Stoppers, StopCall(p) PROVE LockInv'
  BY <1>8 DEF StopCall, lockVars, submitVars, workerVars, stopVars
<1>9. ASSUME NEW p \in Stoppers, StopClose(p) PROVE LockInv'
  BY <1>9 DEF StopClose, LockAcquired, lockVars, submitVars, workerVars, stopVars
<1>10. ASSUME NEW p \in Stoppers, StopJoin(p) PROVE LockInv'
  BY <1>10 DEF StopJoin, WorkersDone, lockVars, submitVars, workerVars, stopVars
<1>11. ASSUME NEW p \in Stoppers, StopOnceReturn(p) PROVE LockInv'
  BY <1>11 DEF StopOnceReturn, lockVars, submitVars, workerVars, stopVars
<1>12. ASSUME UNCHANGED vars PROVE LockInv'
  BY <1>12 DEF vars, lockVars, submitVars, workerVars, stopVars
<1> QED
  BY <1>1, <1>2, <1>3, <1>4, <1>5, <1>6, <1>7, <1>8, <1>9, <1>10, <1>11, <1>12
     DEF Next, SubmitStep, WorkerStep, StopStep

LEMMA StopInit == Init => StopInv
  BY DEF Init, StopInv

LEMMA StopNext == Typed /\ StopInv /\ [Next]_vars => StopInv'
<1> SUFFICES ASSUME Typed, StopInv, [Next]_vars PROVE StopInv'
  OBVIOUS
<1> USE DEF Typed, TypeOK, StopInv
<1>1. ASSUME NEW s \in Submitters, SubmitCall(s) PROVE StopInv'
  BY <1>1 DEF SubmitCall, lockVars, submitVars, workerVars, stopVars
<1>2. ASSUME NEW s \in Submitters, SubmitLock(s) PROVE StopInv'
  BY <1>2 DEF SubmitLock, lockVars, submitVars, workerVars, stopVars
<1>3. ASSUME NEW s \in Submitters, SubmitCheck(s) PROVE StopInv'
  BY <1>3 DEF SubmitCheck, Refused, lockVars, submitVars, workerVars, stopVars
<1>4. ASSUME NEW s \in Submitters, SubmitSelect(s) PROVE StopInv'
  BY <1>4 DEF SubmitSelect, lockVars, submitVars, workerVars, stopVars
<1>5. ASSUME NEW w \in Workers, WorkerReceive(w) PROVE StopInv'
  BY <1>5 DEF WorkerReceive, lockVars, submitVars, workerVars, stopVars
<1>6. ASSUME NEW w \in Workers, WorkerSent(w) PROVE StopInv'
  BY <1>6 DEF WorkerSent, lockVars, submitVars, workerVars, stopVars
<1>7. ASSUME NEW w \in Workers, WorkerExit(w) PROVE StopInv'
  BY <1>7 DEF WorkerExit, MayExit, lockVars, submitVars, workerVars, stopVars
<1>8. ASSUME NEW p \in Stoppers, StopCall(p) PROVE StopInv'
  BY <1>8 DEF StopCall, lockVars, submitVars, workerVars, stopVars
<1>9. ASSUME NEW p \in Stoppers, StopClose(p) PROVE StopInv'
  BY <1>9 DEF StopClose, LockAcquired, lockVars, submitVars, workerVars, stopVars
<1>10. ASSUME NEW p \in Stoppers, StopJoin(p) PROVE StopInv'
  <2>1. /\ ctxDone' /\ stopOnce' = "done" /\ stopped' /\ stopped
        /\ stopPc' = [stopPc EXCEPT ![p] = "returned"]
        /\ stopPc[p] = "joining"
    BY <1>10 DEF StopJoin, WorkersDone, lockVars
  <2>2. \A q \in Stoppers : stopPc'[q] \notin {"locking", "joining"}
    BY <2>1
  <2> QED BY <2>1, <2>2
<1>11. ASSUME NEW p \in Stoppers, StopOnceReturn(p) PROVE StopInv'
  BY <1>11 DEF StopOnceReturn, lockVars, submitVars, workerVars, stopVars
<1>12. ASSUME UNCHANGED vars PROVE StopInv'
  BY <1>12 DEF vars, lockVars, submitVars, workerVars, stopVars
<1> QED
  BY <1>1, <1>2, <1>3, <1>4, <1>5, <1>6, <1>7, <1>8, <1>9, <1>10, <1>11, <1>12
     DEF Next, SubmitStep, WorkerStep, StopStep


-----------------------------------------------------------------------------
(* The workers *)

\* A worker holds one task exactly while it sends; a worker leaves only a
\* stopped pool whose queue is empty, and the context is cancelled after all
\* have left.
WorkerInv ==
    /\ \A w \in Workers :
         /\ workerPc[w] = "sending" => \E t \in Task : current[w] = {t}
         /\ workerPc[w] # "sending" => current[w] = {}
         /\ workerPc[w] = "exited" => stopped /\ queue = <<>>
    /\ ctxDone => \A w \in Workers : workerPc[w] = "exited"

LEMMA WorkerInit == Init => WorkerInv
  BY DEF Init, WorkerInv

LEMMA WorkerNext == Typed /\ LockInv /\ WorkerInv /\ [Next]_vars => WorkerInv'
<1> SUFFICES ASSUME Typed, LockInv, WorkerInv, [Next]_vars PROVE WorkerInv'
  OBVIOUS
<1> USE DEF Typed, TypeOK, LockInv, WorkerInv
<1>1. ASSUME NEW s \in Submitters, SubmitCall(s) PROVE WorkerInv'
  BY <1>1 DEF SubmitCall, lockVars, submitVars, workerVars, stopVars
<1>2. ASSUME NEW s \in Submitters, SubmitLock(s) PROVE WorkerInv'
  BY <1>2 DEF SubmitLock, lockVars, submitVars, workerVars, stopVars
<1>3. ASSUME NEW s \in Submitters, SubmitCheck(s) PROVE WorkerInv'
  BY <1>3 DEF SubmitCheck, Refused, lockVars, submitVars, workerVars, stopVars
<1>4. ASSUME NEW s \in Submitters, SubmitSelect(s) PROVE WorkerInv'
  <2>1. ~stopped /\ \A w \in Workers : workerPc[w] # "exited"
    BY <1>4 DEF SubmitSelect
  <2> QED
    BY <1>4, <2>1 DEF SubmitSelect, workerVars, stopVars
<1>5. ASSUME NEW w \in Workers, WorkerReceive(w) PROVE WorkerInv'
  <2>1. Head(queue) \in Task
    BY <1>5, HeadTailProperties DEF WorkerReceive
  <2>2. \A v \in Workers : workerPc[v] # "exited"
    BY <1>5 DEF WorkerReceive
  <2>3. /\ current' = [current EXCEPT ![w] = {Head(queue)}]
        /\ workerPc' = [workerPc EXCEPT ![w] = "sending"]
        /\ ctxDone' = ctxDone
    BY <1>5 DEF WorkerReceive, stopVars
  <2> QED BY <2>1, <2>2, <2>3
<1>6. ASSUME NEW w \in Workers, WorkerSent(w) PROVE WorkerInv'
  BY <1>6 DEF WorkerSent, lockVars, submitVars, workerVars, stopVars
<1>7. ASSUME NEW w \in Workers, WorkerExit(w) PROVE WorkerInv'
  BY <1>7 DEF WorkerExit, MayExit, lockVars, submitVars, workerVars, stopVars
<1>8. ASSUME NEW p \in Stoppers, StopCall(p) PROVE WorkerInv'
  BY <1>8 DEF StopCall, lockVars, submitVars, workerVars, stopVars
<1>9. ASSUME NEW p \in Stoppers, StopClose(p) PROVE WorkerInv'
  BY <1>9 DEF StopClose, LockAcquired, lockVars, submitVars, workerVars, stopVars
<1>10. ASSUME NEW p \in Stoppers, StopJoin(p) PROVE WorkerInv'
  BY <1>10 DEF StopJoin, WorkersDone, lockVars, submitVars, workerVars, stopVars
<1>11. ASSUME NEW p \in Stoppers, StopOnceReturn(p) PROVE WorkerInv'
  BY <1>11 DEF StopOnceReturn, lockVars, submitVars, workerVars, stopVars
<1>12. ASSUME UNCHANGED vars PROVE WorkerInv'
  BY <1>12 DEF vars, lockVars, submitVars, workerVars, stopVars
<1> QED
  BY <1>1, <1>2, <1>3, <1>4, <1>5, <1>6, <1>7, <1>8, <1>9, <1>10, <1>11, <1>12
     DEF Next, SubmitStep, WorkerStep, StopStep


-----------------------------------------------------------------------------
(* Where the tasks are *)

\* A submitter's accepted tasks are those of earlier calls.
CallInv ==
    \A s \in Submitters, k \in 1..MaxTasks :
        <<s, k>> \in accepted => k <= calls[s] /\ (submitPc[s] # "idle" => k < calls[s])

LEMMA CallInit == Init => CallInv
  BY DEF Init, CallInv

LEMMA CallNext == Typed /\ CallInv /\ [Next]_vars => CallInv'
<1> SUFFICES ASSUME Typed, CallInv, [Next]_vars PROVE CallInv'
  OBVIOUS
<1> USE DEF Typed, TypeOK, CallInv
<1>1. ASSUME NEW s \in Submitters, SubmitCall(s) PROVE CallInv'
  BY <1>1 DEF SubmitCall, lockVars, submitVars, workerVars, stopVars
<1>2. ASSUME NEW s \in Submitters, SubmitLock(s) PROVE CallInv'
  BY <1>2 DEF SubmitLock, lockVars, submitVars, workerVars, stopVars
<1>3. ASSUME NEW s \in Submitters, SubmitCheck(s) PROVE CallInv'
  BY <1>3 DEF SubmitCheck, Refused, lockVars, submitVars, workerVars, stopVars
<1>4. ASSUME NEW s \in Submitters, SubmitSelect(s) PROVE CallInv'
  <2>1. PICK c \in SubmitReady :
          accepted' = accepted \union (IF c = "send" THEN {<<s, calls[s]>>} ELSE {})
    BY <1>4 DEF SubmitSelect
  <2>2. submitPc' = [submitPc EXCEPT ![s] = "idle"] /\ calls' = calls
    BY <1>4 DEF SubmitSelect
  <2>3. submitPc[s] # "idle"
    BY <1>4 DEF SubmitSelect
  <2> QED
    BY <2>1, <2>2, <2>3
<1>5. ASSUME NEW w \in Workers, WorkerReceive(w) PROVE CallInv'
  BY <1>5 DEF WorkerReceive, lockVars, submitVars, workerVars, stopVars
<1>6. ASSUME NEW w \in Workers, WorkerSent(w) PROVE CallInv'
  BY <1>6 DEF WorkerSent, lockVars, submitVars, workerVars, stopVars
<1>7. ASSUME NEW w \in Workers, WorkerExit(w) PROVE CallInv'
  BY <1>7 DEF WorkerExit, MayExit, lockVars, submitVars, workerVars, stopVars
<1>8. ASSUME NEW p \in Stoppers, StopCall(p) PROVE CallInv'
  BY <1>8 DEF StopCall, lockVars, submitVars, workerVars, stopVars
<1>9. ASSUME NEW p \in Stoppers, StopClose(p) PROVE CallInv'
  BY <1>9 DEF StopClose, LockAcquired, lockVars, submitVars, workerVars, stopVars
<1>10. ASSUME NEW p \in Stoppers, StopJoin(p) PROVE CallInv'
  BY <1>10 DEF StopJoin, WorkersDone, lockVars, submitVars, workerVars, stopVars
<1>11. ASSUME NEW p \in Stoppers, StopOnceReturn(p) PROVE CallInv'
  BY <1>11 DEF StopOnceReturn, lockVars, submitVars, workerVars, stopVars
<1>12. ASSUME UNCHANGED vars PROVE CallInv'
  BY <1>12 DEF vars, lockVars, submitVars, workerVars, stopVars
<1> QED
  BY <1>1, <1>2, <1>3, <1>4, <1>5, <1>6, <1>7, <1>8, <1>9, <1>10, <1>11, <1>12
     DEF Next, SubmitStep, WorkerStep, StopStep


LEMMA ElemsAppend ==
  ASSUME NEW S, NEW q \in Seq(S), NEW t \in S
  PROVE  /\ Elems(Append(q, t)) = Elems(q) \union {t}
         /\ Distinct(q) /\ t \notin Elems(q) => Distinct(Append(q, t))
<1>1. /\ Len(Append(q, t)) = Len(q) + 1
      /\ Append(q, t)[Len(q) + 1] = t
      /\ \A i \in 1..Len(q) : Append(q, t)[i] = q[i]
      /\ Len(q) \in Nat
  BY AppendProperties, LenProperties
<1>2. 1..(Len(q) + 1) = (1..Len(q)) \union {Len(q) + 1}
  BY <1>1
<1> QED BY <1>1, <1>2 DEF Elems, Distinct

LEMMA ElemsTail ==
  ASSUME NEW S, NEW q \in Seq(S), q # <<>>
  PROVE  /\ Elems(q) = {Head(q)} \union Elems(Tail(q))
         /\ Distinct(q) => Distinct(Tail(q)) /\ Head(q) \notin Elems(Tail(q))
<1>1. /\ Len(q) \in Nat \ {0}
      /\ Len(Tail(q)) = Len(q) - 1
      /\ \A i \in 1..Len(Tail(q)) : Tail(q)[i] = q[i + 1]
      /\ Head(q) = q[1]
  BY HeadTailProperties, EmptySeq, LenProperties
<1>2. ASSUME NEW i \in 1..Len(q), i # 1 PROVE i - 1 \in 1..Len(Tail(q)) /\ q[i] = Tail(q)[i - 1]
  <2>1. i - 1 \in 1..Len(Tail(q)) /\ (i - 1) + 1 = i
    BY <1>1, <1>2
  <2> QED BY <1>1, <2>1
<1>3. ASSUME NEW i \in 1..Len(Tail(q)) PROVE i + 1 \in 1..Len(q)
  BY <1>1
<1>4. Elems(q) \subseteq {Head(q)} \union Elems(Tail(q))
  BY <1>1, <1>2 DEF Elems
<1>5. {Head(q)} \union Elems(Tail(q)) \subseteq Elems(q)
  BY <1>1, <1>3 DEF Elems
<1>6. ASSUME Distinct(q) PROVE Distinct(Tail(q)) /\ Head(q) \notin Elems(Tail(q))
  BY <1>1, <1>3, <1>6 DEF Elems, Distinct
<1> QED BY <1>4, <1>5, <1>6

LEMMA PlaceInit == Init => EachTaskInOnePlace
<1> SUFFICES ASSUME Init PROVE EachTaskInOnePlace
  OBVIOUS
<1>1. queue = <<>> /\ accepted = {} /\ handled = {} /\ \A w \in Workers : current[w] = {}
  BY DEF Init
<1>2. Elems(queue) = {} /\ Distinct(queue)
  BY <1>1 DEF Elems, Distinct
<1> QED BY <1>1, <1>2 DEF EachTaskInOnePlace, Queued, InFlight

LEMMA PlaceNext == Typed /\ WorkerInv /\ CallInv /\ EachTaskInOnePlace /\ [Next]_vars => EachTaskInOnePlace'
<1> SUFFICES ASSUME Typed, WorkerInv, CallInv, EachTaskInOnePlace, [Next]_vars PROVE EachTaskInOnePlace'
  OBVIOUS
<1> USE DEF EachTaskInOnePlace, Queued, InFlight
<1>1. ASSUME NEW s \in Submitters, SubmitCall(s) PROVE EachTaskInOnePlace'
  <2>1. UNCHANGED <<queue, accepted, current, handled>>
    BY <1>1 DEF SubmitCall, lockVars, submitVars, workerVars, stopVars
  <2> QED BY <2>1
<1>2. ASSUME NEW s \in Submitters, SubmitLock(s) PROVE EachTaskInOnePlace'
  <2>1. UNCHANGED <<queue, accepted, current, handled>>
    BY <1>2 DEF SubmitLock, lockVars, submitVars, workerVars, stopVars
  <2> QED BY <2>1
<1>3. ASSUME NEW s \in Submitters, SubmitCheck(s) PROVE EachTaskInOnePlace'
  <2>1. UNCHANGED <<queue, accepted, current, handled>>
    BY <1>3 DEF SubmitCheck, Refused, lockVars, submitVars, workerVars, stopVars
  <2> QED BY <2>1
<1>4. ASSUME NEW s \in Submitters, SubmitSelect(s) PROVE EachTaskInOnePlace'
  <2> DEFINE t == <<s, calls[s]>>
  <2>1. PICK c \in SubmitReady :
          /\ accepted' = accepted \union (IF c = "send" THEN {t} ELSE {})
          /\ queue' = IF c = "send" THEN Append(queue, t) ELSE queue
    BY <1>4 DEF SubmitSelect
  <2>2. UNCHANGED <<current, handled>>
    BY <1>4 DEF SubmitSelect, workerVars
  <2>3. t \in Task /\ t \notin accepted
    <3>1. submitPc[s] # "idle" /\ calls[s] \in 1..MaxTasks
      BY <1>4, MaxTasksAssumption DEF SubmitSelect, Typed, TypeOK
    <3>2. ~(calls[s] < calls[s])
      BY <3>1, MaxTasksAssumption
    <3> QED BY <3>1, <3>2 DEF Task, CallInv
  <2>4. CASE c = "send"
    <3> HIDE DEF t
    <3>1. Elems(queue') = Elems(queue) \union {t} /\ Distinct(queue')
      BY <2>1, <2>3, <2>4, ElemsAppend DEF Typed, TypeOK
    <3> QED BY <2>1, <2>2, <2>3, <2>4, <3>1
  <2>5. CASE c # "send"
    BY <2>1, <2>2, <2>5
  <2> QED BY <2>4, <2>5
<1>5. ASSUME NEW w \in Workers, WorkerReceive(w) PROVE EachTaskInOnePlace'
  <2> DEFINE t == Head(queue)
  <2>1. /\ current' = [current EXCEPT ![w] = {t}] /\ queue' = Tail(queue)
        /\ UNCHANGED <<accepted, handled>> /\ current[w] = {}
    BY <1>5 DEF WorkerReceive, submitVars, WorkerInv
  <2>2. /\ Elems(queue) = {t} \union Elems(queue')
        /\ Distinct(queue') /\ t \notin Elems(queue')
    BY <1>5, <2>1, ElemsTail DEF WorkerReceive, Typed, TypeOK
  <2> HIDE DEF t
  <2>3. \A v \in Workers : current'[v] = IF v = w THEN {t} ELSE current[v]
    BY <2>1 DEF Typed, TypeOK
  <2>4. UNION {current'[v] : v \in Workers} = (UNION {current[v] : v \in Workers}) \union {t}
    BY <2>1, <2>3
  <2>5. t \notin UNION {current[v] : v \in Workers} /\ t \notin handled
    BY <2>2
  <2> QED BY <2>1, <2>2, <2>3, <2>4, <2>5
<1>6. ASSUME NEW w \in Workers, WorkerSent(w) PROVE EachTaskInOnePlace'
  <2>1. PICK t \in Task : current[w] = {t}
    BY <1>6 DEF WorkerSent, WorkerInv
  <2>2. /\ current' = [current EXCEPT ![w] = {}] /\ handled' = handled \union {t}
        /\ UNCHANGED <<queue, accepted>>
    BY <1>6, <2>1 DEF WorkerSent, submitVars
  <2>3. \A v \in Workers : current'[v] = IF v = w THEN {} ELSE current[v]
    BY <2>2 DEF Typed, TypeOK
  <2>4. UNION {current'[v] : v \in Workers} = (UNION {current[v] : v \in Workers}) \ {t}
    BY <2>1, <2>3
  <2>5. t \in UNION {current[v] : v \in Workers}
    BY <2>1
  <2> QED BY <2>1, <2>2, <2>3, <2>4, <2>5
<1>7. ASSUME NEW w \in Workers, WorkerExit(w) PROVE EachTaskInOnePlace'
  <2>1. UNCHANGED <<queue, accepted, current, handled>>
    BY <1>7 DEF WorkerExit, MayExit, lockVars, submitVars, workerVars, stopVars
  <2> QED BY <2>1
<1>8. ASSUME NEW p \in Stoppers, StopCall(p) PROVE EachTaskInOnePlace'
  <2>1. UNCHANGED <<queue, accepted, current, handled>>
    BY <1>8 DEF StopCall, lockVars, submitVars, workerVars, stopVars
  <2> QED BY <2>1
<1>9. ASSUME NEW p \in Stoppers, StopClose(p) PROVE EachTaskInOnePlace'
  <2>1. UNCHANGED <<queue, accepted, current, handled>>
    BY <1>9 DEF StopClose, LockAcquired, lockVars, submitVars, workerVars, stopVars
  <2> QED BY <2>1
<1>10. ASSUME NEW p \in Stoppers, StopJoin(p) PROVE EachTaskInOnePlace'
  <2>1. UNCHANGED <<queue, accepted, current, handled>>
    BY <1>10 DEF StopJoin, WorkersDone, lockVars, submitVars, workerVars, stopVars
  <2> QED BY <2>1
<1>11. ASSUME NEW p \in Stoppers, StopOnceReturn(p) PROVE EachTaskInOnePlace'
  <2>1. UNCHANGED <<queue, accepted, current, handled>>
    BY <1>11 DEF StopOnceReturn, lockVars, submitVars, workerVars, stopVars
  <2> QED BY <2>1
<1>12. ASSUME UNCHANGED vars PROVE EachTaskInOnePlace'
  BY <1>12 DEF vars, lockVars, submitVars, workerVars, stopVars
<1> QED
  BY <1>1, <1>2, <1>3, <1>4, <1>5, <1>6, <1>7, <1>8, <1>9, <1>10, <1>11, <1>12
     DEF Next, SubmitStep, WorkerStep, StopStep

-----------------------------------------------------------------------------
(* The inductive invariant and what follows from it *)

IInv ==
    /\ Typed
    /\ LockInv
    /\ StopInv
    /\ WorkerInv
    /\ CallInv
    /\ EachTaskInOnePlace

LEMMA Inductive == Spec => []IInv
<1>1. Init => IInv
  BY TypeInit, LockInit, StopInit, WorkerInit, CallInit, PlaceInit DEF IInv
<1>2. IInv /\ [Next]_vars => IInv'
  BY TypeNext, LockNext, StopNext, WorkerNext, CallNext, PlaceNext DEF IInv
<1> QED BY <1>1, <1>2, PTL DEF Spec

\* No submitter ever sends on the channel Stop has closed, so Submit never
\* panics.
THEOREM SubmitNeverPanics == Spec => []NoSendOnClosedChannel
<1>1. IInv => NoSendOnClosedChannel
  BY DEF IInv, LockInv, NoSendOnClosedChannel
<1> QED BY <1>1, Inductive, PTL

\* No accepted task is lost or handled by two workers.
THEOREM TasksAreNotLost == Spec => []EachTaskInOnePlace
<1>1. IInv => EachTaskInOnePlace
  BY DEF IInv
<1> QED BY <1>1, Inductive, PTL

\* Stop returns, to any caller, only from a pool that has handled every
\* accepted task and has no worker left.
THEOREM StopDrainsThePool == Spec => []StopDrains
<1>1. ASSUME IInv, ctxDone \/ \E p \in Stoppers : stopPc[p] = "returned"
      PROVE  /\ accepted = handled
             /\ \A w \in Workers : workerPc[w] = "exited"
             /\ \A s \in Submitters : submitPc[s] # "selecting"
  <2>1. ctxDone /\ stopped
    BY <1>1 DEF IInv, StopInv
  <2>2. \A w \in Workers : workerPc[w] = "exited" /\ current[w] = {}
    BY <1>1, <2>1 DEF IInv, WorkerInv
  <2>3. queue = <<>>
    BY <1>1, <2>2, WorkersAssumption DEF IInv, WorkerInv
  <2>4. Queued = {} /\ InFlight = {}
    BY <2>2, <2>3 DEF Queued, Elems, InFlight
  <2> QED
    BY <1>1, <2>1, <2>2, <2>4 DEF IInv, EachTaskInOnePlace, LockInv
<1> QED BY <1>1, Inductive, PTL DEF StopDrains

\* Stopping cannot be undone, and nothing is accepted after it.
THEOREM StoppedStaysStopped == Spec => StopIsFinal
<1> DEFINE Final == stopped => /\ accepted' = accepted
                               /\ stopped' /\ closed'
                               /\ \A w \in Workers : workerPc[w] = "exited" => workerPc'[w] = "exited"
<1>1. IInv /\ [Next]_vars => Final
  <2> SUFFICES ASSUME IInv, [Next]_vars, stopped
               PROVE  /\ accepted' = accepted
                      /\ stopped' /\ closed'
                      /\ \A w \in Workers : workerPc[w] = "exited" => workerPc'[w] = "exited"
    OBVIOUS
  <2>1. stopped /\ closed /\ \A s \in Submitters : submitPc[s] # "selecting"
    BY DEF IInv, LockInv
  <2>2. ASSUME NEW s \in Submitters, SubmitCall(s) \/ SubmitStep(s) PROVE Final
    BY <2>1, <2>2 DEF SubmitCall, SubmitStep, SubmitLock, SubmitCheck, Refused, SubmitSelect,
                      lockVars, workerVars, stopVars
  <2>3. ASSUME NEW w \in Workers, WorkerStep(w) PROVE Final
    BY <2>1, <2>3 DEF WorkerStep, WorkerReceive, WorkerSent, WorkerExit, MayExit, lockVars,
                      submitVars, stopVars, IInv, Typed, TypeOK
  <2>4. ASSUME NEW p \in Stoppers, StopCall(p) \/ StopStep(p) PROVE Final
    BY <2>1, <2>4 DEF StopCall, StopStep, StopClose, LockAcquired, StopJoin, WorkersDone, StopOnceReturn,
                      lockVars, submitVars, workerVars
  <2>5. CASE UNCHANGED vars
    BY <2>1, <2>5 DEF vars, lockVars, submitVars, workerVars, stopVars
  <2> QED BY <2>2, <2>3, <2>4, <2>5 DEF Next
<1> QED BY <1>1, Inductive, PTL DEF Spec, StopIsFinal

-----------------------------------------------------------------------------
(* The pool implements the abstract pool *)

\* The worker pool is a TaskPool: every step of it accepts a task, handles a
\* task, closes the pool, reports it closed, or is invisible to its callers.
THEOREM PoolRefinement == Spec => ImplementsTaskPool
<1> DEFINE phase == IF ~stopped THEN "open" ELSE IF ctxDone THEN "closed" ELSE "closing"
<1>1. Init => Pool!PoolInit
  BY DEF Init, Pool!PoolInit
<1>2. IInv /\ [Next]_vars => [Pool!PoolNext]_(Pool!poolVars)
  <2> SUFFICES ASSUME IInv, [Next]_vars
               PROVE  Pool!PoolNext \/ UNCHANGED <<phase, accepted, handled>>
    BY DEF Pool!poolVars
  <2> USE DEF Pool!PoolNext
  <2>1. ASSUME NEW s \in Submitters, SubmitCall(s) \/ SubmitLock(s) \/ SubmitCheck(s)
        PROVE  UNCHANGED <<phase, accepted, handled>>
    BY <2>1 DEF SubmitCall, SubmitLock, SubmitCheck, Refused, lockVars, workerVars, stopVars
  <2>2. ASSUME NEW s \in Submitters, SubmitSelect(s)
        PROVE  Pool!PoolNext \/ UNCHANGED <<phase, accepted, handled>>
    <3> DEFINE t == <<s, calls[s]>>
    <3>1. PICK c \in SubmitReady : accepted' = accepted \union (IF c = "send" THEN {t} ELSE {})
      BY <2>2 DEF SubmitSelect
    <3>2. t \in Task /\ t \notin accepted /\ ~stopped
      <4>1. submitPc[s] = "selecting" /\ calls[s] \in 1..MaxTasks
        BY <2>2, MaxTasksAssumption DEF SubmitSelect, IInv, Typed, TypeOK
      <4>2. ~(calls[s] < calls[s])
        BY <4>1, MaxTasksAssumption
      <4> QED BY <4>1, <4>2 DEF Task, IInv, CallInv, LockInv
    <3>3. UNCHANGED <<phase, handled>>
      BY <2>2 DEF SubmitSelect, stopVars, workerVars
    <3> HIDE DEF t
    <3>4. CASE c = "send"
      BY <3>1, <3>2, <3>3, <3>4 DEF Pool!Accept
    <3>5. CASE c # "send"
      BY <3>1, <3>3, <3>5
    <3> QED BY <3>4, <3>5
  <2>3. ASSUME NEW w \in Workers, WorkerReceive(w) \/ WorkerExit(w)
        PROVE  UNCHANGED <<phase, accepted, handled>>
    BY <2>3 DEF WorkerReceive, WorkerExit, MayExit, lockVars, submitVars, stopVars
  <2>4. ASSUME NEW w \in Workers, WorkerSent(w) PROVE Pool!PoolNext
    <3>1. PICK t \in Task : current[w] = {t}
      BY <2>4 DEF WorkerSent, IInv, WorkerInv
    <3>2. t \in accepted \ handled
      <4>1. t \in InFlight
        BY <3>1 DEF InFlight
      <4> QED BY <4>1 DEF IInv, EachTaskInOnePlace
    <3>3. handled' = handled \union {t} /\ UNCHANGED <<phase, accepted>>
      BY <2>4, <3>1 DEF WorkerSent, lockVars, submitVars, stopVars
    <3> QED BY <3>2, <3>3 DEF Pool!Handle
  <2>5. ASSUME NEW p \in Stoppers, StopCall(p) \/ StopOnceReturn(p)
        PROVE  UNCHANGED <<phase, accepted, handled>>
    BY <2>5 DEF StopCall, StopOnceReturn, lockVars, submitVars, workerVars
  <2>6. ASSUME NEW p \in Stoppers, StopClose(p) PROVE Pool!PoolNext
    BY <2>6 DEF StopClose, LockAcquired, submitVars, workerVars, IInv, StopInv, Pool!Close
  <2>7. ASSUME NEW p \in Stoppers, StopJoin(p) PROVE Pool!PoolNext
    <3>1. ctxDone' /\ stopped /\ stopped' /\ ~ctxDone /\ UNCHANGED <<accepted, handled>>
      BY <2>7 DEF StopJoin, WorkersDone, lockVars, submitVars, workerVars, IInv, StopInv
    <3>2. accepted = handled
      <4>1. \A w \in Workers : workerPc[w] = "exited" /\ current[w] = {}
        BY <2>7 DEF StopJoin, WorkersDone, IInv, WorkerInv
      <4>2. queue = <<>>
        BY <4>1, WorkersAssumption DEF IInv, WorkerInv
      <4>3. Queued = {} /\ InFlight = {}
        BY <4>1, <4>2 DEF Queued, Elems, InFlight
      <4> QED BY <4>3 DEF IInv, EachTaskInOnePlace
    <3> QED BY <3>1, <3>2 DEF Pool!Closed
  <2>8. CASE UNCHANGED vars
    BY <2>8 DEF vars, lockVars, submitVars, workerVars, stopVars
  <2> QED
    BY <2>1, <2>2, <2>3, <2>4, <2>5, <2>6, <2>7, <2>8
       DEF Next, SubmitStep, WorkerStep, StopStep
<1> QED BY <1>1, <1>2, Inductive, PTL DEF Spec, ImplementsTaskPool, Pool!PoolSpec

-----------------------------------------------------------------------------
(* The agent is one submitter and one stopper of the pool *)

LEMMA AgentStepIsPoolStep == [AgentNext]_allVars => [Next]_vars
<1> SUFFICES ASSUME [AgentNext]_allVars PROVE [Next]_vars
  OBVIOUS
<1>0. Main \in Submitters /\ Reporter \in Submitters /\ Main \in Stoppers
  BY AgentAssumption
<1>1. ASSUME Submitted(Reporter, draft) PROVE Next
  BY <1>0, <1>1 DEF Submitted, Next
<1>2. ASSUME NEW r, Submitted(Main, r) PROVE Next
  BY <1>0, <1>2 DEF Submitted, Next
<1>3. ASSUME StopCall(Main) PROVE Next
  BY <1>0, <1>3 DEF Next
<1>4. ASSUME PoolStep PROVE Next
  BY <1>0, <1>4 DEF PoolStep, Next
<1>5. ASSUME UNCHANGED poolVars PROVE UNCHANGED vars
  BY <1>5 DEF poolVars, vars
<1> QED
  BY <1>1, <1>2, <1>3, <1>4, <1>5
     DEF AgentNext, ReporterStep, MainStep, ReadArgument, ReportSubmit, ReportDone, FinalReport,
         StopPool, Exit, Collect, CollectSystem, ReportTick, LeaveLoop, Signal, allVars

\* The agent never calls Submit or Stop in a way the pool's specification leaves
\* out: every property proved of the pool holds inside the agent.
THEOREM AgentUsesThePool == AgentSpec => Spec
<1>1. AgentInit => Init
  BY DEF AgentInit
<1> QED BY <1>1, AgentStepIsPoolStep, PTL DEF AgentSpec, Spec

-----------------------------------------------------------------------------
(* Types *)

AgentTyped ==
    /\ cancelled \in BOOLEAN /\ loops \subseteq Loops
    /\ polls \in 1..MaxPolls /\ sysPolls \in 0..MaxPolls
    /\ building \in {"none", "runtime", "system", "pollCount", "submit", "submitting"}
    /\ draft \in Report
    /\ mainPc \in {"running", "submitting", "stopping", "exited"}
    /\ contents \in [Task -> Report]

LEMMA AgentTypeInit == AgentInit => AgentTyped
<1> SUFFICES ASSUME AgentInit PROVE AgentTyped
  OBVIOUS
<1>1. NoReport \in Report /\ 1 \in 1..MaxPolls /\ {0, 1} \subseteq 0..MaxPolls
  BY MaxPollsAssumption DEF Report, NoReport
<1> QED BY <1>1 DEF AgentInit, AgentTyped

LEMMA AgentTypeNext == AgentTyped /\ [AgentNext]_allVars => AgentTyped'
<1> SUFFICES ASSUME AgentTyped, [AgentNext]_allVars PROVE AgentTyped'
  OBVIOUS
<1> USE DEF AgentTyped
<1>0. polls \in 0..MaxPolls /\ polls \in Nat /\ NoReport \in Report
  BY MaxPollsAssumption DEF Report, NoReport
<1>1. CASE Collect
  BY <1>1, MaxPollsAssumption DEF Collect
<1>2. CASE CollectSystem
  BY <1>2, MaxPollsAssumption DEF CollectSystem
<1>3. CASE ReportTick
  BY <1>3 DEF ReportTick
<1>4. ASSUME NEW l \in Loops, LeaveLoop(l) PROVE AgentTyped'
  BY <1>4 DEF LeaveLoop
<1>5. CASE ReadArgument
  <2>1. draft' \in Report
    BY <1>0, <1>5 DEF ReadArgument, Read, Report
  <2>2. building' \in {"system", "pollCount", "submit"}
    BY <1>5 DEF ReadArgument, Read
  <2> QED BY <1>5, <2>1, <2>2 DEF ReadArgument
<1>6. CASE ReportSubmit
  <2>1. contents' \in [Task -> Report]
    BY <1>6 DEF ReportSubmit, Submitted
  <2> QED BY <1>6, <2>1 DEF ReportSubmit
<1>7. CASE ReportDone
  BY <1>0, <1>7 DEF ReportDone
<1>8. CASE Signal
  BY <1>8 DEF Signal
<1>9. CASE FinalReport
  <2>1. [runtime |-> polls, system |-> sysPolls, pollCount |-> polls] \in Report
    BY <1>0 DEF Report
  <2>2. contents' \in [Task -> Report]
    BY <1>9, <2>1 DEF FinalReport, Submitted
  <2> QED BY <1>9, <2>2 DEF FinalReport
<1>10. CASE StopPool
  BY <1>10 DEF StopPool
<1>11. CASE Exit
  BY <1>11 DEF Exit
<1>12. CASE PoolStep
  BY <1>12 DEF PoolStep, agentVars
<1>13. CASE UNCHANGED allVars
  BY <1>13 DEF allVars, agentVars
<1> QED
  BY <1>1, <1>2, <1>3, <1>4, <1>5, <1>6, <1>7, <1>8, <1>9, <1>10, <1>11, <1>12, <1>13
     DEF AgentNext, ReporterStep, MainStep

\* Every variable of the agent keeps its type.
THEOREM AgentTypeCorrect == AgentSpec => []AgentTypeOK
<1>1. AgentTyped /\ TypeOK => AgentTypeOK
  BY DEF AgentTyped, AgentTypeOK
<1> QED BY <1>1, AgentTypeInit, AgentTypeNext, AgentUsesThePool, TypeCorrect, PTL DEF AgentSpec

-----------------------------------------------------------------------------
(* Shutdown *)

\* Main calls Submit once, after the three goroutines are gone, and Stop once,
\* after that; up to then the pool is not stopped, and from then on what the
\* collectors hold is what the last report holds.
MainInv ==
    /\ "reporter" \notin loops => building = "none"
    /\ building # "submitting" => submitPc[Reporter] = "idle"
    /\ mainPc = "running" => calls[Main] = 0 /\ submitPc[Main] = "idle"
    /\ mainPc # "running" =>
         /\ loops = {} /\ calls[Main] = 1
         /\ contents[<<Main, 1>>] = [runtime |-> polls, system |-> sysPolls, pollCount |-> polls]
    /\ mainPc \in {"running", "submitting"} => stopOnce = "new" /\ stopPc[Main] = "idle"
    /\ mainPc \in {"stopping", "exited"} => submitPc[Main] = "idle" /\ submitPc[Reporter] = "idle"
    /\ mainPc = "exited" => stopPc[Main] = "returned"

LEMMA MainInit == AgentInit => MainInv
  BY AgentAssumption DEF AgentInit, Init, MainInv, Loops

\* A step of the pool leaves the callers where they are and returns to idle at most.
LEMMA PoolStepKeepsMain ==
    Typed /\ AgentTyped /\ MainInv /\ PoolStep => MainInv'
<1> SUFFICES ASSUME Typed, AgentTyped, MainInv, PoolStep PROVE MainInv'
  OBVIOUS
<1> USE AgentAssumption DEF Typed, TypeOK, AgentTyped, MainInv
<1>0. UNCHANGED <<cancelled, loops, polls, sysPolls, building, draft, mainPc, contents>>
  BY DEF PoolStep, agentVars
<1>1. ASSUME NEW s \in Submitters, SubmitStep(s) PROVE MainInv'
  <2>1. /\ UNCHANGED <<calls, stopOnce, stopPc>>
        /\ submitPc[s] # "idle"
        /\ \A x \in Submitters : x # s => submitPc'[x] = submitPc[x]
    BY <1>1 DEF SubmitStep, SubmitLock, SubmitCheck, SubmitSelect, stopVars
  <2>2. submitPc[Main] = "idle" => submitPc'[Main] = "idle"
    BY <2>1
  <2>3. submitPc[Reporter] = "idle" => submitPc'[Reporter] = "idle"
    BY <2>1
  <2> QED BY <1>0, <2>1, <2>2, <2>3
<1>2. ASSUME NEW w \in Workers, WorkerStep(w) PROVE MainInv'
  BY <1>0, <1>2 DEF WorkerStep, WorkerReceive, WorkerSent, WorkerExit, submitVars, stopVars
<1>3. CASE StopStep(Main)
  <2>1. /\ UNCHANGED <<calls, submitPc>>
        /\ stopPc[Main] \in {"locking", "joining", "once"}
    BY <1>3 DEF StopStep, StopClose, StopJoin, StopOnceReturn, submitVars
  <2>2. mainPc = "stopping"
    BY <2>1
  <2> QED BY <1>0, <2>1, <2>2
<1> QED BY <1>1, <1>2, <1>3 DEF PoolStep

LEMMA MainNext == Typed /\ AgentTyped /\ MainInv /\ [AgentNext]_allVars => MainInv'
<1> SUFFICES ASSUME Typed, AgentTyped, MainInv, [AgentNext]_allVars PROVE MainInv'
  OBVIOUS
<1> USE AgentAssumption DEF Typed, TypeOK, AgentTyped, MainInv
<1> USE DEF poolVars, lockVars, submitVars, workerVars, stopVars
<1>1. CASE Collect
  BY <1>1 DEF Collect
<1>2. CASE CollectSystem
  BY <1>2 DEF CollectSystem
<1>3. CASE ReportTick
  BY <1>3 DEF ReportTick
<1>4. ASSUME NEW l \in Loops, LeaveLoop(l) PROVE MainInv'
  BY <1>4 DEF LeaveLoop
<1>5. CASE ReadArgument
  BY <1>5 DEF ReadArgument, Read
<1>6. CASE ReportSubmit
  <2>1. /\ building = "submit" /\ building' = "submitting"
        /\ \A t \in Task : t[1] = Main => contents'[t] = contents[t]
        /\ calls'[Main] = calls[Main] /\ submitPc'[Main] = submitPc[Main]
        /\ UNCHANGED <<stopOnce, stopPc, loops, polls, sysPolls, mainPc>>
    BY <1>6 DEF ReportSubmit, Submitted, SubmitCall
  <2>2. mainPc = "running"
    BY <2>1
  <2> QED BY <2>1, <2>2
<1>7. CASE ReportDone
  BY <1>7 DEF ReportDone
<1>8. CASE Signal
  BY <1>8 DEF Signal
<1>9. CASE FinalReport
  <2>1. calls[Main] = 0 /\ calls[Main] < MaxTasks /\ calls' = [calls EXCEPT ![Main] = 1]
    BY <1>9 DEF FinalReport, Submitted, SubmitCall
  <2>2. <<Main, 1>> \in Task
    BY <2>1, MaxTasksAssumption DEF Task
  <2>3. calls'[Main] = 1
    BY <2>1
  <2>4. contents'[<<Main, 1>>] = [runtime |-> polls, system |-> sysPolls, pollCount |-> polls]
    BY <1>9, <2>2, <2>3 DEF FinalReport, Submitted
  <2>5. submitPc'[Reporter] = submitPc[Reporter]
    BY <1>9 DEF FinalReport, Submitted, SubmitCall
  <2> QED BY <1>9, <2>3, <2>4, <2>5 DEF FinalReport, LoopsLeft, Submitted, SubmitCall
<1>10. CASE StopPool
  BY <1>10 DEF StopPool, StopCall
<1>11. CASE Exit
  BY <1>11 DEF Exit
<1>12. CASE PoolStep
  BY <1>12, PoolStepKeepsMain
<1>13. CASE UNCHANGED allVars
  BY <1>13 DEF allVars, agentVars
<1> QED
  BY <1>1, <1>2, <1>3, <1>4, <1>5, <1>6, <1>7, <1>8, <1>9, <1>10, <1>11, <1>12, <1>13
     DEF AgentNext, ReporterStep, MainStep

LEMMA MainInductive == AgentSpec => [](IInv /\ AgentTyped /\ MainInv)
<1>1. IInv => Typed
  BY DEF IInv
<1> QED
  BY <1>1, AgentTypeInit, AgentTypeNext, MainInit, MainNext, AgentUsesThePool, Inductive, PTL
     DEF AgentSpec

\* When the agent has exited, its last report holds everything it has collected.
THEOREM NothingLeftUnreported == AgentSpec => []LastReportComplete
<1>1. MainInv => LastReportComplete
  BY DEF MainInv, LastReportComplete
<1> QED BY <1>1, MainInductive, PTL

-----------------------------------------------------------------------------
(* Reports are not refused *)

\* What a goroutine has submitted is accepted, or it is still inside Submit.
SubmittedInv ==
    \A s \in Submitters : \A n \in 1..calls[s] :
        <<s, n>> \in accepted \/ (n = calls[s] /\ submitPc[s] # "idle")

LEMMA SubmittedInit == AgentInit => SubmittedInv
<1> SUFFICES ASSUME AgentInit PROVE SubmittedInv
  OBVIOUS
<1>1. \A s \in Submitters : calls[s] = 0
  BY DEF AgentInit, Init
<1> QED BY <1>1 DEF SubmittedInv

\* A goroutine of the agent is inside Submit only while the pool runs.
LEMMA NotRefused ==
    ASSUME IInv, AgentTyped, MainInv, NEW s \in Submitters, submitPc[s] # "idle"
    PROVE  ~stopped /\ ~ctxDone
<1>1. mainPc \in {"running", "submitting"}
  BY AgentAssumption DEF MainInv, AgentTyped
<1>2. stopOnce = "new"
  BY <1>1 DEF MainInv
<1> QED BY <1>2 DEF IInv, StopInv

LEMMA CallKeepsSubmitted ==
    ASSUME Typed, SubmittedInv, NEW s \in Submitters, SubmitCall(s)
    PROVE  SubmittedInv'
<1> USE DEF Typed, TypeOK
<1> SUFFICES ASSUME NEW x \in Submitters, NEW n \in 1..calls'[x]
             PROVE  <<x, n>> \in accepted' \/ (n = calls'[x] /\ submitPc'[x] # "idle")
  BY DEF SubmittedInv
<1>1. accepted' = accepted
  BY DEF SubmitCall
<1>2. CASE x # s
  <2>1. calls'[x] = calls[x] /\ submitPc'[x] = submitPc[x]
    BY <1>2 DEF SubmitCall
  <2> QED BY <1>1, <2>1 DEF SubmittedInv
<1>3. CASE x = s
  <2>1. calls'[s] = calls[s] + 1 /\ calls[s] \in Nat /\ submitPc[s] = "idle" /\ submitPc'[s] = "rlock"
    BY MaxTasksAssumption DEF SubmitCall
  <2>2. n = calls'[s] \/ n \in 1..calls[s]
    BY <1>3, <2>1
  <2>3. n \in 1..calls[s] => <<s, n>> \in accepted
    BY <2>1 DEF SubmittedInv
  <2> QED BY <1>1, <1>3, <2>1, <2>2, <2>3
<1> QED BY <1>2, <1>3

LEMMA SubmitKeepsSubmitted ==
    ASSUME IInv, AgentTyped, MainInv, SubmittedInv, NEW s \in Submitters, SubmitStep(s)
    PROVE  SubmittedInv'
<1> USE DEF IInv, Typed, TypeOK
<1>1. submitPc[s] # "idle" /\ calls' = calls
  BY DEF SubmitStep, SubmitLock, SubmitCheck, SubmitSelect
<1>2. ~stopped /\ ~ctxDone
  BY <1>1, NotRefused
<1>3. \A x \in Submitters : x # s => submitPc'[x] = submitPc[x]
  BY DEF SubmitStep, SubmitLock, SubmitCheck, SubmitSelect
<1>4. accepted \subseteq accepted'
  BY DEF SubmitStep, SubmitLock, SubmitCheck, SubmitSelect
<1>5. submitPc'[s] # "idle" \/ <<s, calls[s]>> \in accepted'
  <2>1. CASE SubmitLock(s) \/ SubmitCheck(s)
    BY <2>1, <1>2 DEF SubmitLock, SubmitCheck, Refused
  <2>2. CASE SubmitSelect(s)
    <3>1. PICK c \in SubmitReady :
            accepted' = accepted \union (IF c = "send" THEN {<<s, calls[s]>>} ELSE {})
      BY <2>2 DEF SubmitSelect
    <3>2. c = "send"
      BY <1>2 DEF SubmitReady
    <3> QED BY <3>1, <3>2
  <2> QED BY <2>1, <2>2 DEF SubmitStep
<1> SUFFICES ASSUME NEW x \in Submitters, NEW n \in 1..calls[x]
             PROVE  <<x, n>> \in accepted' \/ (n = calls[x] /\ submitPc'[x] # "idle")
  BY <1>1 DEF SubmittedInv
<1>6. <<x, n>> \in accepted \/ (n = calls[x] /\ submitPc[x] # "idle")
  BY DEF SubmittedInv
<1>7. CASE x = s
  BY <1>4, <1>5, <1>6, <1>7
<1>8. CASE x # s
  BY <1>3, <1>4, <1>6, <1>8
<1> QED BY <1>7, <1>8

LEMMA SubmittedNext ==
    IInv /\ AgentTyped /\ MainInv /\ SubmittedInv /\ [AgentNext]_allVars => SubmittedInv'
<1> SUFFICES ASSUME IInv, AgentTyped, MainInv, SubmittedInv, [AgentNext]_allVars
             PROVE  SubmittedInv'
  OBVIOUS
<1>0. Typed /\ Main \in Submitters /\ Reporter \in Submitters
  BY AgentAssumption DEF IInv
<1>1. CASE ReportSubmit
  BY <1>0, <1>1, CallKeepsSubmitted DEF ReportSubmit, Submitted
<1>2. CASE FinalReport
  BY <1>0, <1>2, CallKeepsSubmitted DEF FinalReport, Submitted
<1>3. ASSUME NEW s \in Submitters, SubmitStep(s) PROVE SubmittedInv'
  BY <1>3, SubmitKeepsSubmitted
<1>4. ASSUME UNCHANGED <<calls, submitPc, accepted>> PROVE SubmittedInv'
  BY <1>4 DEF SubmittedInv
<1>5. ASSUME UNCHANGED poolVars PROVE SubmittedInv'
  BY <1>4, <1>5 DEF poolVars, submitVars
<1>6. ASSUME NEW w \in Workers, WorkerStep(w) PROVE SubmittedInv'
  BY <1>4, <1>6 DEF WorkerStep, WorkerReceive, WorkerSent, WorkerExit, submitVars
<1>7. CASE StopStep(Main)
  BY <1>4, <1>7 DEF StopStep, StopClose, StopJoin, StopOnceReturn, submitVars
<1>8. CASE StopPool
  BY <1>4, <1>8 DEF StopPool, StopCall, submitVars
<1>9. CASE PoolStep
  BY <1>3, <1>6, <1>7, <1>9 DEF PoolStep
<1> QED
  BY <1>1, <1>2, <1>5, <1>8, <1>9
     DEF AgentNext, ReporterStep, MainStep, ReadArgument, ReportDone, Exit, Collect, CollectSystem,
         ReportTick, LeaveLoop, Signal, allVars

\* When the agent has exited every report it submitted has been accepted by the
\* pool and handled.
THEOREM EveryReportHandled == AgentSpec => []NoReportDropped
<1>1. SubmittedInv /\ MainInv /\ StopDrains => NoReportDropped
  <2> SUFFICES ASSUME SubmittedInv, MainInv, StopDrains, mainPc = "exited",
                      NEW s \in Submitters, NEW n \in 1..calls[s]
               PROVE  <<s, n>> \in handled
    BY DEF NoReportDropped
  <2>1. submitPc[s] = "idle" /\ stopPc[Main] = "returned"
    BY AgentAssumption DEF MainInv
  <2>2. accepted = handled
    BY <2>1, AgentAssumption DEF StopDrains
  <2> QED BY <2>1, <2>2 DEF SubmittedInv
<1> QED
  BY <1>1, SubmittedInit, SubmittedNext, MainInductive, AgentUsesThePool, StopDrainsThePool, PTL
     DEF AgentSpec

-----------------------------------------------------------------------------
(* Reports go forward *)

SentBy(n) == contents[<<Reporter, n>>]
LastSent == SentBy(calls[Reporter])

\* The report being built is made of collections that have been, is not older than
\* the last one submitted, and its count is read after its gauges.
DraftInv ==
    /\ building \in {"system", "pollCount", "submit"} =>
         /\ draft.runtime <= polls
         /\ calls[Reporter] > 0 => LastSent.pollCount <= draft.runtime
    /\ building \in {"pollCount", "submit"} =>
         /\ draft.system <= sysPolls
         /\ calls[Reporter] > 0 => LastSent.system <= draft.system
    /\ building = "submit" => draft.runtime <= draft.pollCount /\ draft.pollCount <= polls

SentInv ==
    /\ calls[Reporter] > 0 => LastSent.pollCount <= polls /\ LastSent.system <= sysPolls
    /\ \A n \in 1..calls[Reporter] : SentBy(n).runtime <= SentBy(n).pollCount
    /\ \A n \in 2..calls[Reporter] :
         SentBy(n - 1).pollCount <= SentBy(n).runtime /\ SentBy(n - 1).system <= SentBy(n).system

LEMMA SentType ==
  ASSUME Typed, AgentTyped, NEW n \in 1..calls[Reporter]
  PROVE  /\ <<Reporter, n>> \in Task
         /\ SentBy(n) \in [runtime : Nat, system : Nat, pollCount : Nat]
         /\ calls[Reporter] \in Nat
<1>1. calls[Reporter] \in 0..MaxTasks
  BY AgentAssumption DEF Typed, TypeOK
<1>2. n \in 1..MaxTasks
  BY <1>1, MaxTasksAssumption
<1>3. <<Reporter, n>> \in Task
  BY <1>2, AgentAssumption DEF Task
<1>4. SentBy(n) \in Report
  BY <1>3 DEF AgentTyped, SentBy
<1> QED BY <1>1, <1>3, <1>4, MaxPollsAssumption, MaxTasksAssumption DEF Report

LEMMA ForwardInit == AgentInit => DraftInv /\ SentInv
<1> SUFFICES ASSUME AgentInit PROVE DraftInv /\ SentInv
  OBVIOUS
<1>1. calls[Reporter] = 0 /\ building = "none"
  BY AgentAssumption DEF AgentInit, Init
<1> QED BY <1>1 DEF DraftInv, SentInv

\* What changes neither the reports nor the counts downwards keeps both.
LEMMA CollectingKeepsForward ==
  ASSUME Typed, AgentTyped, DraftInv, SentInv,
         UNCHANGED <<calls, contents, draft, building>>,
         polls' \in Nat, sysPolls' \in Nat, polls <= polls', sysPolls <= sysPolls'
  PROVE  DraftInv' /\ SentInv'
<1>1. calls[Reporter] \in Nat /\ polls \in Nat /\ sysPolls \in Nat
  BY AgentAssumption, MaxTasksAssumption, MaxPollsAssumption DEF Typed, TypeOK, AgentTyped
<1>2. draft \in [runtime : Nat, system : Nat, pollCount : Nat]
  BY MaxPollsAssumption DEF AgentTyped, Report
<1>3. calls[Reporter] > 0 => LastSent \in [runtime : Nat, system : Nat, pollCount : Nat]
  <2>1. calls[Reporter] > 0 => calls[Reporter] \in 1..calls[Reporter]
    BY <1>1
  <2> QED BY <2>1, SentType DEF LastSent
<1>4. LastSent' = LastSent
  BY DEF LastSent, SentBy
<1>5. DraftInv'
  BY <1>1, <1>2, <1>3, <1>4 DEF DraftInv
<1>6. SentInv'
  <2>1. calls[Reporter] > 0 => LastSent.pollCount <= polls' /\ LastSent.system <= sysPolls'
    BY <1>1, <1>3 DEF SentInv
  <2> QED BY <1>4, <2>1 DEF SentInv, SentBy
<1> QED BY <1>5, <1>6

LEMMA ReadKeepsForward ==
  ASSUME Typed, AgentTyped, DraftInv, SentInv, ReadArgument
  PROVE  DraftInv' /\ SentInv'
<1>1. calls[Reporter] \in Nat /\ polls \in Nat /\ sysPolls \in Nat
  BY AgentAssumption, MaxTasksAssumption, MaxPollsAssumption DEF Typed, TypeOK, AgentTyped
<1>2. draft \in [runtime : Nat, system : Nat, pollCount : Nat]
  BY MaxPollsAssumption DEF AgentTyped, Report
<1>3. UNCHANGED <<calls, contents, polls, sysPolls>>
  BY DEF ReadArgument, poolVars, submitVars
<1>4. LastSent' = LastSent
  BY <1>3 DEF LastSent, SentBy
<1>5. DraftInv'
  BY <1>1, <1>2, <1>3, <1>4 DEF DraftInv, SentInv, ReadArgument, Read
<1>6. SentInv'
  BY <1>3, <1>4 DEF SentInv, SentBy
<1> QED BY <1>5, <1>6

\* The report that is submitted becomes the last one.
LEMMA SubmitKeepsForward ==
  ASSUME Typed, AgentTyped, DraftInv, SentInv, ReportSubmit
  PROVE  DraftInv' /\ SentInv'
<1> DEFINE m == calls[Reporter] + 1
<1>1. calls[Reporter] \in Nat /\ calls[Reporter] < MaxTasks /\ calls'[Reporter] = m
  BY AgentAssumption, MaxTasksAssumption
     DEF Typed, TypeOK, ReportSubmit, Submitted, SubmitCall
<1>2. <<Reporter, m>> \in Task
  BY <1>1, AgentAssumption, MaxTasksAssumption DEF Task
<1>3. contents' = [contents EXCEPT ![<<Reporter, m>>] = draft]
  BY <1>1 DEF ReportSubmit, Submitted
<1>4. contents'[<<Reporter, m>>] = draft
  BY <1>2, <1>3 DEF AgentTyped
<1>5. \A n \in 1..calls[Reporter] : contents'[<<Reporter, n>>] = contents[<<Reporter, n>>]
  <2> SUFFICES ASSUME NEW n \in 1..calls[Reporter]
               PROVE  contents'[<<Reporter, n>>] = contents[<<Reporter, n>>]
    OBVIOUS
  <2>1. <<Reporter, n>> \in Task /\ <<Reporter, n>> # <<Reporter, m>>
    BY <1>1, SentType
  <2> QED BY <1>3, <2>1 DEF AgentTyped
<1>6. building = "submit" /\ building' = "submitting" /\ UNCHANGED <<polls, sysPolls>>
  BY DEF ReportSubmit
<1>7. DraftInv'
  BY <1>6 DEF DraftInv
<1>8. LastSent' = draft
  BY <1>1, <1>4 DEF LastSent, SentBy
<1>9. \A n \in 1..m : n = m \/ n \in 1..calls[Reporter]
  BY <1>1
<1>10. \A n \in 1..m : contents'[<<Reporter, n>>].runtime <= contents'[<<Reporter, n>>].pollCount
  BY <1>4, <1>5, <1>6, <1>9 DEF DraftInv, SentInv, SentBy
<1>11. ASSUME NEW n \in 2..m
       PROVE  /\ contents'[<<Reporter, n - 1>>].pollCount <= contents'[<<Reporter, n>>].runtime
              /\ contents'[<<Reporter, n - 1>>].system <= contents'[<<Reporter, n>>].system
  <2>1. n - 1 \in 1..calls[Reporter]
    BY <1>1
  <2>2. CASE n = m
    <3>1. n - 1 = calls[Reporter] /\ calls[Reporter] > 0
      BY <1>1, <2>1, <2>2
    <3>2. contents'[<<Reporter, n - 1>>] = LastSent
      BY <1>5, <2>1, <3>1 DEF LastSent, SentBy
    <3> QED BY <1>4, <1>6, <2>2, <3>1, <3>2 DEF DraftInv
  <2>3. CASE n # m
    <3>1. n \in 2..calls[Reporter] /\ n \in 1..calls[Reporter]
      BY <1>1, <2>3
    <3> QED BY <1>5, <2>1, <3>1 DEF SentInv, SentBy
  <2> QED BY <2>2, <2>3
<1>12. SentInv'
  <2>1. draft.pollCount <= polls' /\ draft.system <= sysPolls'
    BY <1>6 DEF DraftInv
  <2> QED BY <1>1, <1>8, <1>10, <1>11, <2>1 DEF SentInv, SentBy
<1> QED BY <1>7, <1>12

LEMMA ForwardNext ==
    Typed /\ AgentTyped /\ DraftInv /\ SentInv /\ [AgentNext]_allVars => DraftInv' /\ SentInv'
<1> SUFFICES ASSUME Typed, AgentTyped, DraftInv, SentInv, [AgentNext]_allVars
             PROVE  DraftInv' /\ SentInv'
  OBVIOUS
<1>0. polls \in Nat /\ sysPolls \in Nat
  BY MaxPollsAssumption DEF AgentTyped
<1>1. ASSUME UNCHANGED <<calls, contents, draft, building, polls, sysPolls>>
      PROVE  DraftInv' /\ SentInv'
  BY <1>0, <1>1, CollectingKeepsForward
<1>2. CASE Collect
  <2>1. /\ UNCHANGED <<calls, contents, draft, building>>
        /\ polls' \in Nat /\ sysPolls' \in Nat /\ polls <= polls' /\ sysPolls <= sysPolls'
    BY <1>0, <1>2 DEF Collect, poolVars, submitVars
  <2> QED BY <2>1, CollectingKeepsForward
<1>3. CASE CollectSystem
  <2>1. /\ UNCHANGED <<calls, contents, draft, building>>
        /\ polls' \in Nat /\ sysPolls' \in Nat /\ polls <= polls' /\ sysPolls <= sysPolls'
    BY <1>0, <1>3 DEF CollectSystem, poolVars, submitVars
  <2> QED BY <2>1, CollectingKeepsForward
<1>4. ASSUME UNCHANGED <<calls, contents, polls, sysPolls>>, building' \in {"none", "runtime"}
      PROVE  DraftInv' /\ SentInv'
  BY <1>4 DEF DraftInv, SentInv, LastSent, SentBy
<1>5. CASE ReportTick
  BY <1>4, <1>5 DEF ReportTick, poolVars, submitVars
<1>6. CASE ReportDone
  BY <1>4, <1>6 DEF ReportDone, poolVars, submitVars
<1>7. CASE ReadArgument
  BY <1>7, ReadKeepsForward
<1>8. CASE ReportSubmit
  BY <1>8, SubmitKeepsForward
<1>9. CASE FinalReport
  <2>1. /\ calls'[Reporter] = calls[Reporter]
        /\ UNCHANGED <<draft, building, polls, sysPolls>>
    BY <1>9, AgentAssumption DEF FinalReport, Submitted, SubmitCall, Typed, TypeOK
  <2>2. \A n : SentBy(n)' = contents'[<<Reporter, n>>] /\ contents'[<<Reporter, n>>] = SentBy(n)
    BY <1>9, AgentAssumption DEF FinalReport, Submitted, AgentTyped, SentBy
  <2> QED BY <2>1, <2>2 DEF DraftInv, SentInv, LastSent, SentBy
<1>10. CASE PoolStep
  <2>1. UNCHANGED <<calls, contents, draft, building, polls, sysPolls>>
    BY <1>10 DEF PoolStep, agentVars, SubmitStep, SubmitLock, SubmitCheck, SubmitSelect, WorkerStep,
                 WorkerReceive, WorkerSent, WorkerExit, StopStep, StopClose, StopJoin,
                 StopOnceReturn, submitVars
  <2> QED BY <1>1, <2>1
<1>11. CASE StopPool
  BY <1>1, <1>11 DEF StopPool, StopCall, submitVars
<1>12. ASSUME NEW l \in Loops, LeaveLoop(l) PROVE DraftInv' /\ SentInv'
  BY <1>1, <1>12 DEF LeaveLoop, poolVars, submitVars
<1>13. CASE Signal
  BY <1>1, <1>13 DEF Signal, poolVars, submitVars
<1>14. CASE Exit
  BY <1>1, <1>14 DEF Exit, poolVars, submitVars
<1>15. CASE UNCHANGED allVars
  BY <1>1, <1>15 DEF allVars, agentVars, poolVars, submitVars
<1> QED
  BY <1>2, <1>3, <1>5, <1>6, <1>7, <1>8, <1>9, <1>10, <1>11, <1>12, <1>13, <1>14, <1>15
     DEF AgentNext, ReporterStep, MainStep

\* Of two reports of the reporter the later one has newer counts and gauges, and in
\* every report the count is as new as the gauges: collections may come in between
\* any two of the three reads.
THEOREM ReportsAreInOrder == AgentSpec => []ReportsGoForward
<1>1. IInv /\ AgentTyped /\ MainInv /\ SentInv => ReportsGoForward
  <2> SUFFICES ASSUME IInv, AgentTyped, MainInv, SentInv PROVE ReportsGoForward
    OBVIOUS
  <2>0. Typed /\ CallInv
    BY DEF IInv
  <2>1. ASSUME NEW t \in accepted PROVE contents[t].runtime <= contents[t].pollCount
    <3>1. t \in Task
      BY <2>0 DEF Typed, TypeOK
    <3>2. PICK s \in Submitters, k \in 1..MaxTasks : t = <<s, k>>
      BY <3>1 DEF Task
    <3>3. k <= calls[s] /\ calls[s] \in 0..MaxTasks /\ k \in Nat /\ k >= 1
      BY <2>0, <2>1, <3>2, MaxTasksAssumption DEF CallInv, Typed, TypeOK
    <3>4. CASE s = Reporter
      <4>1. k \in 1..calls[Reporter]
        BY <3>3, <3>4, MaxTasksAssumption
      <4> QED BY <3>2, <3>4, <4>1 DEF SentInv, SentBy
    <3>5. CASE s = Main
      <4>1. mainPc # "running" /\ k = 1
        BY <3>3, <3>5, MaxTasksAssumption DEF MainInv
      <4>2. contents[t] = [runtime |-> polls, system |-> sysPolls, pollCount |-> polls]
        BY <3>2, <3>5, <4>1 DEF MainInv
      <4> QED BY <4>2, MaxPollsAssumption DEF AgentTyped
    <3> QED BY <3>4, <3>5, AgentAssumption
  <2> QED BY <2>1 DEF ReportsGoForward, SentInv, SentBy
<1>2. IInv => Typed
  BY DEF IInv
<1> QED BY <1>1, <1>2, ForwardInit, ForwardNext, MainInductive, PTL DEF AgentSpec
=============================================================================
