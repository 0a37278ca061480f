------------------------- MODULE MetricsServerProofs -------------------------
(***************************************************************************)
(* Proofs about the server, for any names, values and width of integers,   *)
(* any handlers, any store interval, with and without failing writes, and  *)
(* any number of requests and restarts.                                    *)
(***************************************************************************)
EXTENDS MetricsServer, SumProofs, TLAPS

-----------------------------------------------------------------------------
(* The inductive invariant *)

\* Who may be inside saveToFile, and when: a handler in its own save of the
\* synchronous mode, the periodic goroutine while it lives, main at the end.
SaverInv ==
    /\ \A h \in Handlers : savePc[h] # "none" => handlerPc[h] = "saving" /\ Saves
    /\ savePc[Periodic] # "none" => ticking
    /\ savePc[Main] # "none" => phase = "finalSave"
    /\ ticking => StoreInterval > 0

\* How far the shutdown has got tells which goroutines are done.
PhaseInv ==
    /\ ~Up(phase) \/ phase \in {"grpcStop", "persisterStop", "finalSave"} => Idle(HTTPHandlers)
    /\ ~Up(phase) \/ phase \in {"persisterStop", "finalSave"} => Idle(GRPCHandlers)
    /\ ~Up(phase) \/ phase = "finalSave" => ~ticking
    /\ ticking \/ phase \in {"persisterStop", "finalSave"} => HasPersister

\* The last save copies the final store, and nobody touches the file under it.
FinalInv ==
    /\ phase = "finalSave" =>
         /\ savePc[Main] = "counters" => snap[Main].gauges = store.gauges
         /\ savePc[Main] \in {"open", "write"} => snap[Main] = store
         /\ savePc[Main] = "write" => file = NoFile("empty")
         /\ savePc[Main] = "none" /\ ~failed[Main] => file = Full(store)
    /\ GracefulExitSaves

\* Copies on their way to the file count no more than clients have added.
CountInv ==
    /\ NothingCountedTwice
    /\ \A p \in Savers, c \in CounterNames : snap[p].counters[c] <= given[c]

-----------------------------------------------------------------------------
(* Type correctness *)

LEMMA AddInt64Type ==
  ASSUME NEW a \in Int64, NEW b \in Int64 PROVE AddInt64(a, b) \in Int64
  BY MaxIntAssumption DEF Int64, AddInt64

LEMMA AddInt64Bound ==
  ASSUME NEW a \in Int64, NEW d \in Int64, d \in Nat, NEW n \in Nat, a <= n
  PROVE  AddInt64(a, d) <= n + d
  BY MaxIntAssumption DEF Int64, AddInt64

LEMMA EmptyStoreType ==
  /\ EmptyStore \in Store
  /\ 0 \in Int64 /\ Absent \in Cell
<1>1. 0 \in Int64 /\ Absent \in Cell
  BY MaxIntAssumption DEF Int64, Cell
<1> QED BY <1>1 DEF EmptyStore, Store

LEMMA ApplyType ==
  ASSUME NEW st \in Store, NEW u \in Update PROVE Apply(st, u) \in Store
<1>1. \A n \in GaugeNames : (IF u.set[n] = Absent THEN st.gauges[n] ELSE u.set[n]) \in Cell
  BY DEF Store, Update
<1>2. \A c \in CounterNames : AddInt64(st.counters[c], u.add[c]) \in Int64
  BY AddInt64Type DEF Store, Update
<1> QED BY <1>1, <1>2 DEF Apply, Store

\* What passes validation adds a natural number to each counter.
LEMMA AcceptedAdds ==
  ASSUME NEW u \in Update, ~Rejected(u), NEW c \in CounterNames
  PROVE  u.add[c] \in Nat /\ u.add[c] <= MaxInt
<1>1. u.add[c] \in Int64 /\ ~(u.add[c] < 0)
  BY DEF Rejected, NegativeDelta, Update
<1> QED BY <1>1, MaxIntAssumption DEF Int64

LEMMA StoreTypes ==
  /\ EmptyStore \in Store
  /\ NoUpdate \in Update
  /\ \A kind \in {"absent", "empty", "garbled"} : NoFile(kind) \in File
  /\ \A st \in Store : Full(st) \in File
<1>1. NoUpdate \in Update
  BY EmptyStoreType DEF NoUpdate, Update
<1> QED BY <1>1, EmptyStoreType DEF NoFile, Full, File

\* A handler past validation works on a request that passed it.
Typed ==
    /\ TypeOK
    /\ \A h \in Handlers : handlerPc[h] \in {"saving", "answer"} => ~Rejected(request[h])

LEMMA TypeInit == Init => Typed
<1> SUFFICES ASSUME Init PROVE Typed
  OBVIOUS
<1>1. file \in File /\ store \in Store /\ snap \in [Savers -> Store]
  BY StoreTypes DEF Init, PersisterInit
<1>2. request \in [Handlers -> Update]
  BY StoreTypes DEF Init
<1>3. requests \in 0..MaxRequests /\ starts \in 0..MaxStarts
  BY BoundAssumption DEF Init
<1>4. given \in [CounterNames -> Nat] /\ acked \in [CounterNames -> Int]
  BY DEF Init
<1>5. /\ savePc \in [Savers -> {"none", "gauges", "counters", "open", "write"}]
      /\ failed \in [Savers -> BOOLEAN] /\ stopChan \in BOOLEAN /\ ticking \in BOOLEAN
      /\ met \subseteq Savers /\ owed \in BOOLEAN
  BY DEF Init, PersisterInit
<1>6. /\ phase \in Phase
      /\ handlerPc \in [Handlers -> {"idle", "update", "saving", "answer"}]
      /\ \A h \in Handlers : handlerPc[h] = "idle"
  BY DEF Init, Phase
<1> QED BY <1>1, <1>2, <1>3, <1>4, <1>5, <1>6 DEF Typed, TypeOK

LEMMA TypeNext == Typed /\ [Next]_vars => Typed'
<1> SUFFICES ASSUME Typed, [Next]_vars PROVE Typed'
  OBVIOUS
<1> USE DEF Typed, TypeOK
<1>1. ASSUME Start PROVE Typed'
  <2>1. store' \in Store
    BY <1>1, StoreTypes DEF Start, Restored, Loaded, File
  <2>2. acked' \in [CounterNames -> Int] /\ starts' \in 0..MaxStarts
    BY <1>1, <2>1, BoundAssumption, MaxIntAssumption DEF Start, Store, Int64
  <2>3. ticking' \in BOOLEAN
    BY <1>1, FlagAssumption DEF Start
  <2>4. failed' \in [Savers -> BOOLEAN] /\ stopChan' \in BOOLEAN /\ phase' \in Phase
    BY <1>1 DEF Start, Phase
  <2> QED BY <1>1, <2>1, <2>2, <2>3, <2>4 DEF Start, handlerVars
<1>2. ASSUME Die PROVE Typed'
  <2>1. store' \in Store /\ snap' \in [Savers -> Store] /\ request' \in [Handlers -> Update]
    BY <1>2, StoreTypes DEF Die
  <2> QED BY <1>2, <2>1 DEF Die, Phase
<1>3. ASSUME NEW h \in Handlers, Receive(h) PROVE Typed'
  <2>1. request' \in [Handlers -> Update]
    BY <1>3, RequestsAssumption DEF Receive
  <2>2. requests' \in 0..MaxRequests
    BY <1>3, BoundAssumption DEF Receive
  <2>3. handlerPc' = [handlerPc EXCEPT ![h] = "update"] /\ \A k \in Handlers : k # h => request'[k] = request[k]
    BY <1>3 DEF Receive
  <2> QED BY <1>3, <2>1, <2>2, <2>3 DEF Receive, persisterVars, saveHistory
<1>4. ASSUME NEW h \in Handlers, UpdateStore(h) PROVE Typed'
  <2>1. CASE Rejected(request[h])
    <3>1. request' = [request EXCEPT ![h] = NoUpdate] /\ handlerPc' = [handlerPc EXCEPT ![h] = "idle"]
      BY <1>4, <2>1 DEF UpdateStore
    <3> QED BY <1>4, <2>1, <3>1, StoreTypes DEF UpdateStore, saveHistory
  <2>2. CASE ~Rejected(request[h])
    <3>1. store' \in Store
      BY <1>4, <2>2, ApplyType DEF UpdateStore
    <3>2. given' \in [CounterNames -> Nat]
      BY <1>4, <2>2, AcceptedAdds DEF UpdateStore
    <3>3. /\ savePc' \in [Savers -> {"none", "gauges", "counters", "open", "write"}]
          /\ met' \subseteq Savers /\ owed' \in BOOLEAN
      BY <1>4, <2>2, ProcessAssumption DEF UpdateStore, SaveCall, saveHistory
    <3>4. /\ handlerPc' \in [Handlers -> {"idle", "update", "saving", "answer"}]
          /\ \A k \in Handlers : k # h => handlerPc'[k] = handlerPc[k]
          /\ request' = request
      BY <1>4, <2>2 DEF UpdateStore
    <3> QED BY <1>4, <2>2, <3>1, <3>2, <3>3, <3>4 DEF UpdateStore
  <2> QED BY <2>1, <2>2
<1>5. ASSUME NEW h \in Handlers, Saved(h) PROVE Typed'
  BY <1>5 DEF Saved, persisterVars, saveHistory, serverVars, handlerVars
<1>6. ASSUME NEW h \in Handlers, Answer(h) PROVE Typed'
  <2>1. acked' \in [CounterNames -> Int]
    BY <1>6, AcceptedAdds DEF Answer
  <2>2. request' \in [Handlers -> Update]
    BY <1>6, StoreTypes DEF Answer
  <2>3. /\ handlerPc' = [handlerPc EXCEPT ![h] = "idle"]
        /\ \A k \in Handlers : k # h => request'[k] = request[k]
    BY <1>6 DEF Answer
  <2> QED BY <1>6, <2>1, <2>2, <2>3 DEF Answer, persisterVars, saveHistory
<1>7. ASSUME Signal PROVE Typed'
  BY <1>7 DEF Signal, persisterVars, saveHistory, handlerVars, Phase
<1>8. ASSUME Drained PROVE Typed'
  BY <1>8 DEF Drained, persisterVars, saveHistory, handlerVars, Phase
<1>9. ASSUME GRPCStopped PROVE Typed'
  BY <1>9, FlagAssumption DEF GRPCStopped, saveHistory, handlerVars, Phase
<1>10. ASSUME PersisterStopped PROVE Typed'
  BY <1>10, ProcessAssumption DEF PersisterStopped, SaveCall, handlerVars, Phase
<1>11. ASSUME FinalSaved PROVE Typed'
  BY <1>11 DEF FinalSaved, persisterVars, saveHistory, handlerVars, Phase
<1>12. ASSUME NEW p \in Savers, SaveGauges(p), UNCHANGED <<serverVars, handlerVars>> PROVE Typed'
  <2>1. snap' \in [Savers -> Store]
    BY <1>12 DEF SaveGauges, Store
  <2> QED BY <1>12, <2>1 DEF SaveGauges, saveHistory, serverVars, handlerVars
<1>13. ASSUME NEW p \in Savers, SaveCounters(p), UNCHANGED <<serverVars, handlerVars>> PROVE Typed'
  <2>1. snap' \in [Savers -> Store]
    BY <1>13 DEF SaveCounters, Store
  <2> QED BY <1>13, <2>1 DEF SaveCounters, SaveReturn, saveHistory, serverVars, handlerVars
<1>14. ASSUME NEW p \in Savers, SaveOpen(p), UNCHANGED <<serverVars, handlerVars>> PROVE Typed'
  <2>1. file' \in File
    BY <1>14, StoreTypes DEF SaveOpen
  <2> QED BY <1>14, <2>1 DEF SaveOpen, SaveReturn, saveHistory, serverVars, handlerVars
<1>15. ASSUME NEW p \in Savers, SaveWrite(p), UNCHANGED <<serverVars, handlerVars>> PROVE Typed'
  <2>1. file' \in File
    BY <1>15, StoreTypes DEF SaveWrite, Written
  <2> QED BY <1>15, <2>1 DEF SaveWrite, SaveReturn, serverVars, handlerVars
<1>16. ASSUME Tick PROVE Typed'
  BY <1>16, PeriodicAssumption DEF Tick, PeriodicTick, SaveCall, serverVars, handlerVars
<1>17. ASSUME TickerExit PROVE Typed'
  BY <1>17 DEF TickerExit, PeriodicExit, StopSeen, persisterVars, saveHistory, serverVars, handlerVars
<1>18. ASSUME UNCHANGED vars PROVE Typed'
  BY <1>18 DEF vars, persisterVars, saveHistory, serverVars, handlerVars
<1> QED
  BY <1>1, <1>2, <1>3, <1>4, <1>5, <1>6, <1>7, <1>8, <1>9, <1>10, <1>11, <1>12, <1>13, <1>14, <1>15, <1>16, <1>17, <1>18
     DEF Next, Crash, ShutdownTimeout, HandlerStep, MainStep, Persistence, SaveStep

\* Every variable keeps its type; in particular the file is always absent, empty,
\* garbled or one whole copy of a store.
THEOREM TypeCorrect == Spec => []TypeOK
<1>1. Typed => TypeOK
  BY DEF Typed
<1> QED BY <1>1, TypeInit, TypeNext, PTL DEF Spec

-----------------------------------------------------------------------------
(* Phases and savers *)

LEMMA PhaseInit == Init => PhaseInv
  BY DEF Init, PersisterInit, PhaseInv, Idle, Up, Handlers

LEMMA PhaseNext == Typed /\ PhaseInv /\ [Next]_vars => PhaseInv'
<1> SUFFICES ASSUME Typed, PhaseInv, [Next]_vars PROVE PhaseInv'
  OBVIOUS
<1> USE DEF Typed, TypeOK, PhaseInv, Idle, Up, Phase
<1>1. ASSUME Start PROVE PhaseInv'
  BY <1>1 DEF Start, Restored, Loaded, persisterVars, saveHistory, serverVars, handlerVars
<1>2. ASSUME Die PROVE PhaseInv'
  BY <1>2 DEF Die, Handlers
<1>3. ASSUME NEW h \in Handlers, Receive(h) PROVE PhaseInv'
  <2>1. /\ phase' = phase /\ ticking' = ticking
        /\ handlerPc' = [handlerPc EXCEPT ![h] = "update"]
        /\ phase = "running" \/ (phase = "draining" /\ h \in GRPCHandlers)
    BY <1>3 DEF Receive, Serves, persisterVars, saveHistory
  <2> QED BY <2>1
<1>4. ASSUME NEW h \in Handlers, UpdateStore(h) PROVE PhaseInv'
  <2>1. phase' = phase /\ ticking' = ticking
    BY <1>4 DEF UpdateStore, persisterVars, saveHistory, serverVars
  <2>2. handlerPc[h] # "idle" /\ \A k \in Handlers : k # h => handlerPc'[k] = handlerPc[k]
    BY <1>4 DEF UpdateStore
  <2> QED BY <2>1, <2>2 DEF Handlers
<1>5. ASSUME NEW h \in Handlers, Saved(h) PROVE PhaseInv'
  <2>1. phase' = phase /\ ticking' = ticking
    BY <1>5 DEF Saved, persisterVars, saveHistory, serverVars
  <2>2. handlerPc[h] # "idle" /\ \A k \in Handlers : k # h => handlerPc'[k] = handlerPc[k]
    BY <1>5 DEF Saved
  <2> QED BY <2>1, <2>2 DEF Handlers
<1>6. ASSUME NEW h \in Handlers, Answer(h) PROVE PhaseInv'
  <2>1. phase' = phase /\ ticking' = ticking
    BY <1>6 DEF Answer, persisterVars, saveHistory, serverVars
  <2>2. handlerPc[h] # "idle" /\ \A k \in Handlers : k # h => handlerPc'[k] = handlerPc[k]
    BY <1>6 DEF Answer
  <2> QED BY <2>1, <2>2 DEF Handlers
<1>7. ASSUME Signal PROVE PhaseInv'
  BY <1>7 DEF Signal, persisterVars, saveHistory, serverVars, handlerVars
<1>8. ASSUME Drained PROVE PhaseInv'
  BY <1>8 DEF Drained, persisterVars, saveHistory, serverVars, handlerVars
<1>9. ASSUME GRPCStopped PROVE PhaseInv'
  BY <1>9 DEF GRPCStopped, persisterVars, saveHistory, serverVars, handlerVars
<1>10. ASSUME PersisterStopped PROVE PhaseInv'
  BY <1>10 DEF PersisterStopped, TickerGone, SaveCall, persisterVars, saveHistory, serverVars, handlerVars
<1>11. ASSUME FinalSaved PROVE PhaseInv'
  BY <1>11 DEF FinalSaved, persisterVars, saveHistory, serverVars, handlerVars
<1>12. ASSUME NEW p \in Savers, SaveGauges(p), UNCHANGED <<serverVars, handlerVars>> PROVE PhaseInv'
  BY <1>12 DEF SaveGauges, persisterVars, saveHistory, serverVars, handlerVars
<1>13. ASSUME NEW p \in Savers, SaveCounters(p), UNCHANGED <<serverVars, handlerVars>> PROVE PhaseInv'
  BY <1>13 DEF SaveCounters, SaveReturn, persisterVars, saveHistory, serverVars, handlerVars
<1>14. ASSUME NEW p \in Savers, SaveOpen(p), UNCHANGED <<serverVars, handlerVars>> PROVE PhaseInv'
  BY <1>14 DEF SaveOpen, SaveReturn, persisterVars, saveHistory, serverVars, handlerVars
<1>15. ASSUME NEW p \in Savers, SaveWrite(p), UNCHANGED <<serverVars, handlerVars>> PROVE PhaseInv'
  BY <1>15 DEF SaveWrite, SaveReturn, persisterVars, saveHistory, serverVars, handlerVars
<1>16. ASSUME Tick PROVE PhaseInv'
  BY <1>16 DEF Tick, PeriodicTick, SaveCall, persisterVars, saveHistory, serverVars, handlerVars
<1>17. ASSUME TickerExit PROVE PhaseInv'
  BY <1>17 DEF TickerExit, PeriodicExit, StopSeen, persisterVars, saveHistory, serverVars, handlerVars
<1>18. ASSUME UNCHANGED vars PROVE PhaseInv'
  BY <1>18 DEF vars, persisterVars, saveHistory, serverVars, handlerVars
<1> QED
  BY <1>1, <1>2, <1>3, <1>4, <1>5, <1>6, <1>7, <1>8, <1>9, <1>10, <1>11, <1>12, <1>13, <1>14, <1>15, <1>16, <1>17, <1>18
     DEF Next, Crash, ShutdownTimeout, HandlerStep, MainStep, Persistence, SaveStep

LEMMA SaverInit == Init => SaverInv
  BY PeriodicAssumption, ProcessAssumption DEF Init, PersisterInit, SaverInv, Handlers

LEMMA SaverNext == Typed /\ PhaseInv /\ SaverInv /\ [Next]_vars => SaverInv'
<1> SUFFICES ASSUME Typed, PhaseInv, SaverInv, [Next]_vars PROVE SaverInv'
  OBVIOUS
<1> USE ProcessAssumption, IntervalAssumption DEF Typed, TypeOK, SaverInv, PhaseInv, Idle, Up
<1>1. ASSUME Start PROVE SaverInv'
  BY <1>1 DEF Start, Restored, Loaded, persisterVars, saveHistory, serverVars, handlerVars
<1>2. ASSUME Die PROVE SaverInv'
  BY <1>2 DEF Die, persisterVars, saveHistory, serverVars, handlerVars
<1>3. ASSUME NEW h \in Handlers, Receive(h) PROVE SaverInv'
  BY <1>3 DEF Receive, Serves, persisterVars, saveHistory, serverVars, handlerVars
<1>4. ASSUME NEW h \in Handlers, UpdateStore(h) PROVE SaverInv'
  BY <1>4 DEF UpdateStore, SaveCall, persisterVars, saveHistory, serverVars, handlerVars
<1>5. ASSUME NEW h \in Handlers, Saved(h) PROVE SaverInv'
  BY <1>5 DEF Saved, persisterVars, saveHistory, serverVars, handlerVars
<1>6. ASSUME NEW h \in Handlers, Answer(h) PROVE SaverInv'
  BY <1>6 DEF Answer, persisterVars, saveHistory, serverVars, handlerVars
<1>7. ASSUME Signal PROVE SaverInv'
  BY <1>7 DEF Signal, persisterVars, saveHistory, serverVars, handlerVars
<1>8. ASSUME Drained PROVE SaverInv'
  BY <1>8 DEF Drained, persisterVars, saveHistory, serverVars, handlerVars
<1>9. ASSUME GRPCStopped PROVE SaverInv'
  BY <1>9 DEF GRPCStopped, persisterVars, saveHistory, serverVars, handlerVars
<1>10. ASSUME PersisterStopped PROVE SaverInv'
  BY <1>10 DEF PersisterStopped, TickerGone, SaveCall, persisterVars, saveHistory, serverVars, handlerVars
<1>11. ASSUME FinalSaved PROVE SaverInv'
  BY <1>11 DEF FinalSaved, persisterVars, saveHistory, serverVars, handlerVars
<1>12. ASSUME NEW p \in Savers, SaveGauges(p), UNCHANGED <<serverVars, handlerVars>> PROVE SaverInv'
  BY <1>12 DEF SaveGauges, persisterVars, saveHistory, serverVars, handlerVars
<1>13. ASSUME NEW p \in Savers, SaveCounters(p), UNCHANGED <<serverVars, handlerVars>> PROVE SaverInv'
  BY <1>13 DEF SaveCounters, SaveReturn, persisterVars, saveHistory, serverVars, handlerVars
<1>14. ASSUME NEW p \in Savers, SaveOpen(p), UNCHANGED <<serverVars, handlerVars>> PROVE SaverInv'
  BY <1>14 DEF SaveOpen, SaveReturn, persisterVars, saveHistory, serverVars, handlerVars
<1>15. ASSUME NEW p \in Savers, SaveWrite(p), UNCHANGED <<serverVars, handlerVars>> PROVE SaverInv'
  BY <1>15 DEF SaveWrite, SaveReturn, persisterVars, saveHistory, serverVars, handlerVars
<1>16. ASSUME Tick PROVE SaverInv'
  BY <1>16 DEF Tick, PeriodicTick, SaveCall, persisterVars, saveHistory, serverVars, handlerVars
<1>17. ASSUME TickerExit PROVE SaverInv'
  BY <1>17 DEF TickerExit, PeriodicExit, StopSeen, persisterVars, saveHistory, serverVars, handlerVars
<1>18. ASSUME UNCHANGED vars PROVE SaverInv'
  BY <1>18 DEF vars, persisterVars, saveHistory, serverVars, handlerVars
<1> QED
  BY <1>1, <1>2, <1>3, <1>4, <1>5, <1>6, <1>7, <1>8, <1>9, <1>10, <1>11, <1>12, <1>13, <1>14, <1>15, <1>16, <1>17, <1>18
     DEF Next, Crash, ShutdownTimeout, HandlerStep, MainStep, Persistence, SaveStep

-----------------------------------------------------------------------------
(* The last save *)

\* While main saves for the last time no other saver is under way.
LEMMA OnlyMainSaves ==
  ASSUME Typed, PhaseInv, SaverInv, phase = "finalSave", NEW p \in Savers, savePc[p] # "none"
  PROVE  p = Main
  BY ProcessAssumption DEF PhaseInv, SaverInv, Idle, Up, Handlers

LEMMA FinalInit == Init => FinalInv
  BY DEF Init, PersisterInit, FinalInv, GracefulExitSaves

LEMMA FinalNext == Typed /\ PhaseInv /\ SaverInv /\ FinalInv /\ [Next]_vars => FinalInv'
<1> SUFFICES ASSUME Typed, PhaseInv, SaverInv, FinalInv, [Next]_vars PROVE FinalInv'
  OBVIOUS
<1> USE DEF FinalInv, GracefulExitSaves
<1>1. ASSUME Start PROVE FinalInv'
  BY <1>1 DEF Start, Restored, Loaded, persisterVars, saveHistory, serverVars, handlerVars
<1>2. ASSUME Die PROVE FinalInv'
  BY <1>2 DEF Die, persisterVars, saveHistory, serverVars, handlerVars
<1>3. ASSUME NEW h \in Handlers, Receive(h) PROVE FinalInv'
  <2>1. phase \notin {"finalSave", "exited"} /\ phase' = phase
    BY <1>3 DEF Receive, Serves
  <2> QED BY <2>1
<1>4. ASSUME NEW h \in Handlers, UpdateStore(h) PROVE FinalInv'
  <2>1. phase \notin {"finalSave", "exited"} /\ phase' = phase
    BY <1>4 DEF UpdateStore, serverVars, PhaseInv, Idle, Up, Handlers
  <2> QED BY <2>1
<1>5. ASSUME NEW h \in Handlers, Saved(h) PROVE FinalInv'
  <2>1. phase \notin {"finalSave", "exited"} /\ phase' = phase
    BY <1>5 DEF Saved, serverVars, PhaseInv, Idle, Up, Handlers
  <2> QED BY <2>1
<1>6. ASSUME NEW h \in Handlers, Answer(h) PROVE FinalInv'
  <2>1. phase \notin {"finalSave", "exited"} /\ phase' = phase
    BY <1>6 DEF Answer, serverVars, PhaseInv, Idle, Up, Handlers
  <2> QED BY <2>1
<1>7. ASSUME Signal PROVE FinalInv'
  BY <1>7 DEF Signal, persisterVars, saveHistory, serverVars, handlerVars
<1>8. ASSUME Drained PROVE FinalInv'
  BY <1>8 DEF Drained, persisterVars, saveHistory, serverVars, handlerVars
<1>9. ASSUME GRPCStopped PROVE FinalInv'
  BY <1>9 DEF GRPCStopped
<1>10. ASSUME PersisterStopped PROVE FinalInv'
  <2>1. phase' = "finalSave" /\ savePc'[Main] = "gauges"
    BY <1>10, ProcessAssumption DEF PersisterStopped, SaveCall, Typed, TypeOK
  <2> QED BY <2>1
<1>11. ASSUME FinalSaved PROVE FinalInv'
  BY <1>11 DEF FinalSaved, persisterVars, saveHistory, serverVars, handlerVars
<1>12. ASSUME NEW p \in Savers, SaveGauges(p), UNCHANGED <<serverVars, handlerVars>> PROVE FinalInv'
  <2>1. phase' = phase /\ savePc[p] # "none"
    BY <1>12 DEF SaveGauges, saveHistory, serverVars
  <2>2. CASE phase = "finalSave"
    <3>0. p = Main /\ Main \in Savers
      BY <2>1, <2>2, OnlyMainSaves
    <3>1. /\ savePc' = [savePc EXCEPT ![Main] = "counters"] /\ snap'[Main].gauges = store.gauges
          /\ UNCHANGED <<store, file, failed>>
      BY <1>12, <2>2, <3>0 DEF SaveGauges, Typed, TypeOK, Store
    <3> QED BY <2>1, <2>2, <3>0, <3>1 DEF Typed, TypeOK
  <2>3. CASE phase # "finalSave"
    <3>1. phase # "exited"
      BY <2>1, <2>3, ProcessAssumption DEF PhaseInv, SaverInv, Idle, Up, Handlers
    <3> QED BY <2>1, <2>3, <3>1
  <2> QED BY <2>2, <2>3
<1>13. ASSUME NEW p \in Savers, SaveCounters(p), UNCHANGED <<serverVars, handlerVars>> PROVE FinalInv'
  <2>1. phase' = phase /\ savePc[p] # "none"
    BY <1>13 DEF SaveCounters, serverVars
  <2>2. CASE phase = "finalSave"
    <3>0. p = Main /\ Main \in Savers
      BY <2>1, <2>2, OnlyMainSaves
    <3>1. snap'[Main] = store /\ UNCHANGED <<store, file>>
      <4>1. snap'[Main] = [snap[Main] EXCEPT !.counters = store.counters]
        BY <1>13, <2>2, <3>0 DEF SaveCounters, Typed, TypeOK
      <4>2. snap[Main].gauges = store.gauges /\ snap[Main] \in Store /\ store \in Store
        BY <1>13, <2>2, <3>0 DEF SaveCounters, Typed, TypeOK
      <4> QED BY <1>13, <4>1, <4>2 DEF SaveCounters, Store
    <3>2. \/ savePc'[Main] = "open"
          \/ savePc'[Main] = "none" /\ failed'[Main]
      BY <1>13, <2>2, <3>0 DEF SaveCounters, SaveReturn, Typed, TypeOK
    <3> QED BY <2>1, <2>2, <3>0, <3>1, <3>2
  <2>3. CASE phase # "finalSave"
    <3>1. phase # "exited"
      BY <2>1, <2>3, ProcessAssumption DEF PhaseInv, SaverInv, Idle, Up, Handlers
    <3> QED BY <2>1, <2>3, <3>1
  <2> QED BY <2>2, <2>3
<1>14. ASSUME NEW p \in Savers, SaveOpen(p), UNCHANGED <<serverVars, handlerVars>> PROVE FinalInv'
  <2>1. phase' = phase /\ savePc[p] # "none"
    BY <1>14 DEF SaveOpen, serverVars
  <2>2. CASE phase = "finalSave"
    <3>0. p = Main /\ Main \in Savers
      BY <2>1, <2>2, OnlyMainSaves
    <3>1. snap'[Main] = store /\ store' = store
      BY <1>14, <2>2, <3>0 DEF SaveOpen
    <3>2. \/ savePc'[Main] = "write" /\ file' = NoFile("empty")
          \/ savePc'[Main] = "none" /\ failed'[Main]
      BY <1>14, <2>2, <3>0 DEF SaveOpen, SaveReturn, Typed, TypeOK
    <3> QED BY <2>1, <2>2, <3>0, <3>1, <3>2
  <2>3. CASE phase # "finalSave"
    <3>1. phase # "exited"
      BY <2>1, <2>3, ProcessAssumption DEF PhaseInv, SaverInv, Idle, Up, Handlers
    <3> QED BY <2>1, <2>3, <3>1
  <2> QED BY <2>2, <2>3
<1>15. ASSUME NEW p \in Savers, SaveWrite(p), UNCHANGED <<serverVars, handlerVars>> PROVE FinalInv'
  <2>1. phase' = phase /\ savePc[p] # "none"
    BY <1>15 DEF SaveWrite, serverVars
  <2>2. CASE phase = "finalSave"
    <3>0. p = Main /\ Main \in Savers
      BY <2>1, <2>2, OnlyMainSaves
    <3>1. store' = store /\ snap[Main] = store /\ file = NoFile("empty")
      BY <1>15, <2>2, <3>0 DEF SaveWrite
    <3>2. /\ savePc'[Main] = "none"
          /\ failed'[Main] \/ file' = Full(store)
      BY <1>15, <2>2, <3>0, <3>1 DEF SaveWrite, SaveReturn, Written, Typed, TypeOK
    <3> QED BY <2>1, <2>2, <3>0, <3>1, <3>2
  <2>3. CASE phase # "finalSave"
    <3>1. phase # "exited"
      BY <2>1, <2>3, ProcessAssumption DEF PhaseInv, SaverInv, Idle, Up, Handlers
    <3> QED BY <2>1, <2>3, <3>1
  <2> QED BY <2>2, <2>3
<1>16. ASSUME Tick PROVE FinalInv'
  <2>1. phase \notin {"finalSave", "exited"} /\ phase' = phase
    BY <1>16 DEF Tick, PeriodicTick, PeriodicExit, serverVars, PhaseInv, Up
  <2> QED BY <2>1
<1>17. ASSUME TickerExit PROVE FinalInv'
  <2>1. phase \notin {"finalSave", "exited"} /\ phase' = phase
    BY <1>17 DEF TickerExit, PeriodicTick, PeriodicExit, serverVars, PhaseInv, Up
  <2> QED BY <2>1
<1>18. ASSUME UNCHANGED vars PROVE FinalInv'
  BY <1>18 DEF vars, persisterVars, saveHistory, serverVars, handlerVars
<1> QED
  BY <1>1, <1>2, <1>3, <1>4, <1>5, <1>6, <1>7, <1>8, <1>9, <1>10, <1>11, <1>12, <1>13, <1>14, <1>15, <1>16, <1>17, <1>18
     DEF Next, Crash, ShutdownTimeout, HandlerStep, MainStep, Persistence, SaveStep

-----------------------------------------------------------------------------
(* What the counters count *)

LEMMA CountInit == Init => CountInv
  BY DEF Init, PersisterInit, CountInv, NothingCountedTwice, EmptyStore, NoFile

LEMMA CountNext == Typed /\ CountInv /\ [Next]_vars => CountInv'
<1> SUFFICES ASSUME Typed, CountInv, [Next]_vars PROVE CountInv'
  OBVIOUS
<1> USE DEF Typed, TypeOK, CountInv, NothingCountedTwice, Store
<1>1. ASSUME Start PROVE CountInv'
  <2>1. \A c \in CounterNames : store'.counters[c] <= given[c]
    BY <1>1 DEF Start, Restored, Loaded, EmptyStore
  <2> QED BY <1>1, <2>1 DEF Start
<1>2. ASSUME Die PROVE CountInv'
  BY <1>2 DEF Die, EmptyStore
<1>3. ASSUME NEW h \in Handlers, Receive(h) PROVE CountInv'
  BY <1>3 DEF Receive, persisterVars, saveHistory, serverVars, handlerVars
<1>4. ASSUME NEW h \in Handlers, UpdateStore(h) PROVE CountInv'
  <2>1. CASE Rejected(request[h])
    BY <1>4, <2>1 DEF UpdateStore
  <2>2. CASE ~Rejected(request[h])
    <3>1. ASSUME NEW c \in CounterNames
          PROVE  /\ store'.counters[c] <= given'[c]
                 /\ given[c] <= given'[c]
      <4>1. request[h] \in Update /\ request[h].add[c] \in Nat /\ request[h].add[c] \in Int64
        <5>1. request[h] \in Update
          OBVIOUS
        <5> QED BY <2>2, <5>1, AcceptedAdds DEF Update
      <4>2. store.counters[c] \in Int64 /\ given[c] \in Nat /\ store.counters[c] <= given[c]
        OBVIOUS
      <4>3. /\ store'.counters[c] = AddInt64(store.counters[c], request[h].add[c])
            /\ given'[c] = given[c] + request[h].add[c]
        BY <1>4, <2>2 DEF UpdateStore, Apply
      <4> QED BY <4>1, <4>2, <4>3, AddInt64Bound
    <3>2. UNCHANGED <<file, snap>>
      BY <1>4 DEF UpdateStore
    <3>3. \A c \in CounterNames : /\ file.data.counters[c] \in Int64
                                  /\ given[c] \in Nat /\ given'[c] \in Nat
      <4>1. file.data \in Store
        BY DEF File
      <4>2. given' \in [CounterNames -> Nat]
        BY <1>4, <2>2, AcceptedAdds DEF UpdateStore
      <4> QED BY <4>1, <4>2
    <3>4. \A p \in Savers, c \in CounterNames : snap[p].counters[c] \in Int64
      OBVIOUS
    <3>5. \A a \in Int64, m, n \in Nat : a <= m /\ m <= n => a <= n
      BY MaxIntAssumption DEF Int64
    <3> QED BY <3>1, <3>2, <3>3, <3>4, <3>5
  <2> QED BY <2>1, <2>2
<1>5. ASSUME NEW h \in Handlers, Saved(h) PROVE CountInv'
  BY <1>5 DEF Saved, persisterVars, saveHistory, serverVars, handlerVars
<1>6. ASSUME NEW h \in Handlers, Answer(h) PROVE CountInv'
  BY <1>6 DEF Answer, persisterVars, saveHistory, serverVars, handlerVars
<1>7. ASSUME Signal PROVE CountInv'
  BY <1>7 DEF Signal, persisterVars, saveHistory, serverVars, handlerVars
<1>8. ASSUME Drained PROVE CountInv'
  BY <1>8 DEF Drained, persisterVars, saveHistory, serverVars, handlerVars
<1>9. ASSUME GRPCStopped PROVE CountInv'
  BY <1>9 DEF GRPCStopped, persisterVars, saveHistory, serverVars, handlerVars
<1>10. ASSUME PersisterStopped PROVE CountInv'
  BY <1>10 DEF PersisterStopped, TickerGone, SaveCall, persisterVars, saveHistory, serverVars, handlerVars
<1>11. ASSUME FinalSaved PROVE CountInv'
  BY <1>11 DEF FinalSaved, persisterVars, saveHistory, serverVars, handlerVars
<1>12. ASSUME NEW p \in Savers, SaveGauges(p), UNCHANGED <<serverVars, handlerVars>> PROVE CountInv'
  BY <1>12 DEF SaveGauges, persisterVars, saveHistory, serverVars, handlerVars
<1>13. ASSUME NEW p \in Savers, SaveCounters(p), UNCHANGED <<serverVars, handlerVars>> PROVE CountInv'
  BY <1>13 DEF SaveCounters, SaveReturn, persisterVars, saveHistory, serverVars, handlerVars
<1>14. ASSUME NEW p \in Savers, SaveOpen(p), UNCHANGED <<serverVars, handlerVars>> PROVE CountInv'
  <2>1. file' = file \/ file' = NoFile("empty")
    BY <1>14 DEF SaveOpen
  <2>2. UNCHANGED <<store, snap, given>>
    BY <1>14 DEF SaveOpen, serverVars
  <2> QED BY <2>1, <2>2 DEF NoFile, EmptyStore
<1>15. ASSUME NEW p \in Savers, SaveWrite(p), UNCHANGED <<serverVars, handlerVars>> PROVE CountInv'
  <2>1. file' \in {Full(snap[p]), NoFile("empty"), NoFile("garbled")}
    BY <1>15 DEF SaveWrite, Written
  <2>2. UNCHANGED <<store, snap, given>>
    BY <1>15 DEF SaveWrite, serverVars
  <2> QED BY <2>1, <2>2 DEF NoFile, EmptyStore, Full
<1>16. ASSUME Tick PROVE CountInv'
  BY <1>16 DEF Tick, PeriodicTick, SaveCall, persisterVars, saveHistory, serverVars, handlerVars
<1>17. ASSUME TickerExit PROVE CountInv'
  BY <1>17 DEF TickerExit, PeriodicExit, StopSeen, persisterVars, saveHistory, serverVars, handlerVars
<1>18. ASSUME UNCHANGED vars PROVE CountInv'
  BY <1>18 DEF vars, persisterVars, saveHistory, serverVars, handlerVars
<1> QED
  BY <1>1, <1>2, <1>3, <1>4, <1>5, <1>6, <1>7, <1>8, <1>9, <1>10, <1>11, <1>12, <1>13, <1>14, <1>15, <1>16, <1>17, <1>18
     DEF Next, Crash, ShutdownTimeout, HandlerStep, MainStep, Persistence, SaveStep

-----------------------------------------------------------------------------
(* What has been answered and what has been saved *)

\* Updates that are in the store and not answered yet.
PendingShares(c) ==
    [h \in Handlers |-> IF handlerPc[h] \in {"saving", "answer"} THEN request[h].add[c] ELSE 0]
Pending(c) == SumFunction(PendingShares(c))

\* Those of them whose save has returned.
Finished(h) == handlerPc[h] = "answer" \/ (handlerPc[h] = "saving" /\ savePc[h] = "none")
FinishedShares(c) == [h \in Handlers |-> IF Finished(h) THEN request[h].add[c] ELSE 0]
Done(c) == SumFunction(FinishedShares(c))

SumFacts ==
    \A c \in CounterNames :
        /\ Integral(PendingShares(c), Handlers)
        /\ Pending(c) = SumFunctionOnSet(PendingShares(c), Handlers)
        /\ Integral(FinishedShares(c), Handlers)
        /\ Done(c) = SumFunctionOnSet(FinishedShares(c), Handlers)
        /\ Pending(c) \in Nat /\ Done(c) \in Nat /\ Done(c) <= Pending(c)

NothingPending == \A c \in CounterNames : Pending(c) = 0 /\ Done(c) = 0

\* What is finished is pending, so its sum is at most as large.
LEMMA SumFactsHold == Typed => SumFacts
<1> SUFFICES ASSUME Typed, NEW c \in CounterNames
    PROVE  /\ Integral(PendingShares(c), Handlers)
           /\ Pending(c) = SumFunctionOnSet(PendingShares(c), Handlers)
           /\ Integral(FinishedShares(c), Handlers)
           /\ Done(c) = SumFunctionOnSet(FinishedShares(c), Handlers)
           /\ Pending(c) \in Nat /\ Done(c) \in Nat /\ Done(c) <= Pending(c)
  BY DEF SumFacts
<1>1. ASSUME NEW h \in Handlers
      PROVE  /\ PendingShares(c)[h] \in Nat /\ FinishedShares(c)[h] \in Nat
             /\ FinishedShares(c)[h] <= PendingShares(c)[h]
  <2>1. CASE handlerPc[h] \in {"saving", "answer"}
    <3>1. request[h].add[c] \in Nat
      <4>1. request[h] \in Update /\ ~Rejected(request[h])
        BY <2>1 DEF Typed, TypeOK
      <4> QED BY <4>1, AcceptedAdds
    <3>2. PendingShares(c)[h] = request[h].add[c] /\ FinishedShares(c)[h] \in {0, request[h].add[c]}
      BY <2>1 DEF PendingShares, FinishedShares
    <3> QED BY <3>1, <3>2
  <2>2. CASE handlerPc[h] \notin {"saving", "answer"}
    BY <2>2 DEF PendingShares, FinishedShares, Finished
  <2> QED BY <2>1, <2>2
<1>2. Integral(PendingShares(c), Handlers) /\ Integral(FinishedShares(c), Handlers)
  BY <1>1 DEF Integral
<1>3. /\ Pending(c) = SumFunctionOnSet(PendingShares(c), Handlers)
      /\ Done(c) = SumFunctionOnSet(FinishedShares(c), Handlers)
  BY DEF Pending, PendingShares, Done, FinishedShares, SumFunction
<1> QED BY <1>1, <1>2, <1>3, HandlersAssumption, SumIsNat, SumOfSmaller

\* Nothing is pending when no handler works.
LEMMA IdleSums == Typed /\ Idle(Handlers) => NothingPending
<1> SUFFICES ASSUME Typed, Idle(Handlers), NEW c \in CounterNames PROVE Pending(c) = 0 /\ Done(c) = 0
  BY DEF NothingPending
<1>1. \A h \in Handlers : PendingShares(c)[h] = 0 /\ FinishedShares(c)[h] = 0
  BY DEF Idle, PendingShares, FinishedShares, Finished
<1> QED BY <1>1, SumFactsHold, HandlersAssumption, SumOfZeros DEF SumFacts

\* A step of one handler changes its own share only.
LEMMA SumsChange ==
  ASSUME SumFacts, SumFacts', NEW h \in Handlers, NEW c \in CounterNames,
         \A k \in Handlers \ {h} : /\ handlerPc'[k] = handlerPc[k] /\ request'[k] = request[k]
                                   /\ savePc'[k] = savePc[k]
  PROVE  /\ Pending(c)' = Pending(c) - PendingShares(c)[h] + PendingShares(c)'[h]
         /\ Done(c)' = Done(c) - FinishedShares(c)[h] + FinishedShares(c)'[h]
<1>0. \A k \in Handlers \ {h} : /\ PendingShares(c)'[k] = PendingShares(c)[k]
                                /\ FinishedShares(c)'[k] = FinishedShares(c)[k]
  BY DEF PendingShares, FinishedShares, Finished
<1>1. /\ Integral(PendingShares(c)', Handlers) /\ Pending(c)' = SumFunctionOnSet(PendingShares(c)', Handlers)
      /\ Integral(FinishedShares(c)', Handlers) /\ Done(c)' = SumFunctionOnSet(FinishedShares(c)', Handlers)
  BY DEF SumFacts, Integral
<1>2. /\ Integral(PendingShares(c), Handlers) /\ Pending(c) = SumFunctionOnSet(PendingShares(c), Handlers)
      /\ Integral(FinishedShares(c), Handlers) /\ Done(c) = SumFunctionOnSet(FinishedShares(c), Handlers)
  BY DEF SumFacts
<1> QED BY <1>0, <1>1, <1>2, HandlersAssumption, SumAfterChange

\* A step of another goroutine leaves the sums, but for a save that returns.
LEMMA SumsKeep ==
  ASSUME SumFacts, SumFacts', NEW c \in CounterNames,
         UNCHANGED <<handlerPc, request>>
  PROVE  /\ Pending(c)' = Pending(c)
         /\ (\A h \in Handlers : savePc'[h] = "none" <=> savePc[h] = "none") => Done(c)' = Done(c)
<1>1. Done(c)' = SumFunctionOnSet(FinishedShares(c)', Handlers)
  BY DEF SumFacts
<1>2. Integral(FinishedShares(c), Handlers) /\ Done(c) = SumFunctionOnSet(FinishedShares(c), Handlers)
  BY DEF SumFacts
<1>3. Pending(c)' = Pending(c)
  BY DEF Pending, PendingShares
<1>4. ASSUME \A h \in Handlers : savePc'[h] = "none" <=> savePc[h] = "none"
      PROVE  \A h \in Handlers : FinishedShares(c)'[h] = FinishedShares(c)[h]
  BY <1>4 DEF FinishedShares, Finished
<1> QED BY <1>1, <1>2, <1>3, <1>4, HandlersAssumption, SumOfEqual

-----------------------------------------------------------------------------
(* The synchronous mode *)

\* As long as no counter has wrapped, the store holds what was restored and
\* answered, and what is pending.
StoreSums ==
    Up(phase) => \A c \in CounterNames :
        given[c] <= MaxInt => store.counters[c] = acked[c] + Pending(c)

\* A saver that has met nobody is alone, and the store has not changed since it
\* copied the counters; nobody has written into the file it has truncated.
AloneInv ==
    /\ \A p \in Savers \ met : savePc[p] # "none" => \A q \in Savers : savePc[q] # "none" => q = p
    /\ Saves => \A p \in Savers \ met : savePc[p] \in {"open", "write"} =>
                    snap[p].counters = store.counters
    /\ \A p \in Savers : savePc[p] = "write" /\ (p \notin met \/ ~owed) => file = NoFile("empty")

Truncated == file.kind = "empty" /\ (phase = "down" \/ \E p \in Savers : savePc[p] = "write")

\* The file has what is answered and what is about to be.
Durable(c) ==
    \/ acked[c] + Done(c) <= 0
    \/ file.kind = "full" /\ file.data.counters[c] >= acked[c] + Done(c)
    \/ Truncated

DurableInv == Saves /\ ~owed => \A c \in CounterNames : given[c] <= MaxInt => Durable(c)

\* Savers are part of a process that is up.
LEMMA SaversAreUp ==
  ASSUME Typed, PhaseInv, SaverInv, NEW p \in Savers, savePc[p] # "none" PROVE Up(phase)
BY ProcessAssumption DEF PhaseInv, SaverInv, Idle, Up, Handlers

LEMMA DurabilityInit == Init => StoreSums /\ AloneInv /\ DurableInv
<1> SUFFICES ASSUME Init PROVE StoreSums /\ AloneInv /\ DurableInv
  OBVIOUS
<1>1. NothingPending
  BY TypeInit, IdleSums DEF Init, Idle
<1>2. \A c \in CounterNames : acked[c] = 0 /\ Pending(c) = 0 /\ Done(c) = 0
  BY <1>1 DEF Init, NothingPending
<1>3. DurableInv
  BY <1>2 DEF DurableInv, Durable
<1> QED BY <1>3 DEF Init, PersisterInit, Up, StoreSums, AloneInv

LEMMA SumsNext ==
  Typed /\ Typed' /\ PhaseInv /\ PhaseInv' /\ CountInv /\ StoreSums /\ [Next]_vars => StoreSums'
<1> SUFFICES ASSUME Typed, Typed', PhaseInv, PhaseInv', CountInv, StoreSums, [Next]_vars,
                    Up(phase)', NEW c \in CounterNames, given'[c] <= MaxInt
             PROVE  store'.counters[c] = acked'[c] + Pending(c)'
  BY DEF StoreSums, Up
<1>0. /\ TypeOK /\ TypeOK'
      /\ SumFacts /\ SumFacts'
      /\ Pending(c) \in Int /\ Pending(c)' \in Int
      /\ given[c] \in Nat /\ given'[c] \in Nat /\ acked[c] \in Int /\ acked'[c] \in Int
      /\ store.counters[c] \in Int /\ store'.counters[c] \in Int
  <2>1. SumFacts /\ SumFacts'
    BY SumFactsHold, PTL
  <2>2. TypeOK /\ TypeOK'
    BY DEF Typed
  <2> QED BY <2>1, <2>2, MaxIntAssumption DEF SumFacts, TypeOK, Store, Int64
<1>1. CASE Start
  <2>1. Idle(Handlers)'
    BY <1>1 DEF Start, PhaseInv, Idle, Handlers, handlerVars
  <2>2. NothingPending'
    BY <2>1, IdleSums, PTL
  <2> QED BY <1>0, <1>1, <2>2 DEF Start, NothingPending
<1>2. CASE Die
  BY <1>2 DEF Die, Up
<1>3. ASSUME NEW h \in Handlers, Receive(h) PROVE store'.counters[c] = acked'[c] + Pending(c)'
  <2>1. Pending(c)' = Pending(c) - PendingShares(c)[h] + PendingShares(c)'[h]
    BY <1>0, <1>3, SumsChange DEF Receive, TypeOK, persisterVars
  <2>2. PendingShares(c)[h] = 0 /\ PendingShares(c)'[h] = 0
    BY <1>0, <1>3 DEF Receive, PendingShares, TypeOK
  <2> QED BY <1>0, <1>3, <2>1, <2>2 DEF Receive, StoreSums
<1>4. ASSUME NEW h \in Handlers, UpdateStore(h) PROVE store'.counters[c] = acked'[c] + Pending(c)'
  <2>0. h \in Savers /\ UNCHANGED <<acked, phase>>
    BY <1>4, ProcessAssumption DEF UpdateStore
  <2>1. Pending(c)' = Pending(c) - PendingShares(c)[h] + PendingShares(c)'[h]
    <3>1. \A k \in Handlers \ {h} : /\ handlerPc'[k] = handlerPc[k] /\ request'[k] = request[k]
                                    /\ savePc'[k] = savePc[k]
      BY <1>0, <1>4, <2>0, ProcessAssumption DEF UpdateStore, SaveCall, TypeOK
    <3> QED BY <1>0, <3>1, SumsChange
  <2>2. PendingShares(c)[h] = 0
    BY <1>4 DEF UpdateStore, PendingShares
  <2>3. CASE Rejected(request[h])
    <3>1. PendingShares(c)'[h] = 0 /\ UNCHANGED <<store, given>>
      BY <1>0, <1>4, <2>3 DEF UpdateStore, PendingShares, TypeOK
    <3> QED BY <1>0, <2>0, <2>1, <2>2, <3>1 DEF StoreSums
  <2>4. CASE ~Rejected(request[h])
    <3> DEFINE d == request[h].add[c]
    <3>1. d \in Nat
      BY <1>0, <2>4, AcceptedAdds DEF TypeOK
    <3>2. PendingShares(c)'[h] = d
      BY <1>0, <1>4, <2>4 DEF UpdateStore, PendingShares, TypeOK
    <3>3. given'[c] = given[c] + d /\ store'.counters[c] = AddInt64(store.counters[c], d)
      BY <1>4, <2>4 DEF UpdateStore, Apply
    <3>4. store.counters[c] <= given[c] /\ store.counters[c] \in Int64
      BY <1>0 DEF CountInv, NothingCountedTwice, TypeOK, Store
    <3> HIDE DEF d
    <3>5. store'.counters[c] = store.counters[c] + d
      BY <1>0, <3>1, <3>3, <3>4, MaxIntAssumption DEF AddInt64, Int64
    <3>6. store.counters[c] = acked[c] + Pending(c)
      BY <1>0, <2>0, <3>1, <3>3, MaxIntAssumption DEF StoreSums, Up
    <3> QED BY <1>0, <2>0, <2>1, <2>2, <3>1, <3>2, <3>5, <3>6
  <2> QED BY <2>3, <2>4
<1>5. ASSUME NEW h \in Handlers, Saved(h) PROVE store'.counters[c] = acked'[c] + Pending(c)'
  <2>1. Pending(c)' = Pending(c) - PendingShares(c)[h] + PendingShares(c)'[h]
    BY <1>0, <1>5, SumsChange DEF Saved, TypeOK, persisterVars
  <2>2. PendingShares(c)[h] = PendingShares(c)'[h] /\ PendingShares(c)[h] \in Int
    BY <1>0, <1>5 DEF Saved, PendingShares, TypeOK, SumFacts, Integral
  <2> QED BY <1>0, <1>5, <2>1, <2>2 DEF Saved, StoreSums, serverVars
<1>6. ASSUME NEW h \in Handlers, Answer(h) PROVE store'.counters[c] = acked'[c] + Pending(c)'
  <2>1. Pending(c)' = Pending(c) - PendingShares(c)[h] + PendingShares(c)'[h]
    BY <1>0, <1>6, SumsChange DEF Answer, TypeOK, persisterVars
  <2>2. PendingShares(c)[h] = request[h].add[c] /\ PendingShares(c)'[h] = 0 /\ PendingShares(c)[h] \in Int
    BY <1>0, <1>6 DEF Answer, PendingShares, TypeOK, SumFacts, Integral
  <2>3. acked'[c] = acked[c] + request[h].add[c] /\ UNCHANGED <<store, phase, given>>
    BY <1>6 DEF Answer
  <2> QED BY <1>0, <2>1, <2>2, <2>3 DEF StoreSums
<1>7. ASSUME UNCHANGED <<handlerPc, request, store, acked, given>>, Up(phase)
      PROVE  store'.counters[c] = acked'[c] + Pending(c)'
  BY <1>0, <1>7, SumsKeep DEF StoreSums
<1>8. CASE Signal
  BY <1>7, <1>8 DEF Signal, Up, handlerVars
<1>9. CASE Drained \/ GRPCStopped \/ PersisterStopped \/ FinalSaved
  BY <1>7, <1>9 DEF Drained, GRPCStopped, PersisterStopped, FinalSaved, Up, handlerVars
<1>10. ASSUME NEW p \in Savers, Persistence(p) PROVE store'.counters[c] = acked'[c] + Pending(c)'
  BY <1>7, <1>10 DEF Persistence, SaveStep, SaveGauges, SaveCounters, SaveOpen, SaveWrite, Up, serverVars, handlerVars
<1>11. CASE Tick \/ TickerExit
  BY <1>7, <1>11 DEF Tick, PeriodicTick, TickerExit, PeriodicExit, Up, serverVars, handlerVars
<1>12. CASE UNCHANGED vars
  BY <1>7, <1>12 DEF vars, Up, serverVars, handlerVars
<1> QED BY <1>1, <1>2, <1>3, <1>4, <1>5, <1>6, <1>8, <1>9, <1>10, <1>11, <1>12
     DEF Next, Crash, ShutdownTimeout, HandlerStep, MainStep

\* Who is inside when a save returns has met it.
LEMMA ReturnKeepsAlone ==
  ASSUME TypeOK, AloneInv, NEW p \in Savers, savePc[p] # "none", NEW err \in BOOLEAN, SaveReturn(p, err)
  PROVE  AloneInv'
<1>1. ASSUME NEW q \in Savers, savePc'[q] # "none" PROVE q \in met' /\ owed'
  BY <1>1 DEF AloneInv, SaveReturn, TypeOK
<1> QED BY <1>1 DEF AloneInv

LEMMA AloneNext == Typed /\ PhaseInv /\ SaverInv /\ AloneInv /\ [Next]_vars => AloneInv'
<1> SUFFICES ASSUME Typed, PhaseInv, SaverInv, AloneInv, [Next]_vars PROVE AloneInv'
  OBVIOUS
<1>0. TypeOK /\ Handlers \subseteq Savers /\ Main \in Savers
  BY ProcessAssumption DEF Typed
<1>1. CASE Start
  <2>1. \A p \in Savers : savePc'[p] = "none"
    BY <1>1, SaversAreUp DEF Start
  <2> QED BY <2>1 DEF AloneInv
<1>2. CASE Die
  BY <1>2 DEF Die, AloneInv
<1>3. ASSUME NEW h \in Handlers, Receive(h) PROVE AloneInv'
  BY <1>3 DEF Receive, persisterVars, saveHistory, AloneInv
<1>4. ASSUME NEW h \in Handlers, UpdateStore(h) PROVE AloneInv'
  <2>1. CASE UNCHANGED <<store, savePc, saveHistory>>
    BY <1>4, <2>1 DEF UpdateStore, AloneInv, saveHistory
  <2>2. CASE Saves /\ SaveCall(h) /\ UNCHANGED <<file, snap>>
    BY <1>0, <2>2 DEF SaveCall, AloneInv, TypeOK
  <2>3. CASE ~Saves /\ UNCHANGED <<savePc, saveHistory, file>>
    BY <2>3 DEF AloneInv, saveHistory
  <2> QED BY <1>4, <2>1, <2>2, <2>3 DEF UpdateStore
<1>5. ASSUME NEW h \in Handlers, Saved(h) \/ Answer(h) PROVE AloneInv'
  BY <1>5 DEF Saved, Answer, persisterVars, saveHistory, AloneInv
<1>6. CASE Signal \/ Drained \/ GRPCStopped \/ FinalSaved
  BY <1>6 DEF Signal, Drained, GRPCStopped, FinalSaved, persisterVars, saveHistory, AloneInv
<1>7. CASE PersisterStopped
  BY <1>0, <1>7 DEF PersisterStopped, SaveCall, AloneInv, TypeOK
<1>8. ASSUME NEW p \in Savers, SaveGauges(p) PROVE AloneInv'
  BY <1>0, <1>8 DEF SaveGauges, saveHistory, AloneInv, TypeOK
<1>9. ASSUME NEW p \in Savers, SaveCounters(p) PROVE AloneInv'
  <2>1. CASE SaveReturn(p, TRUE)
    BY <1>0, <1>9, <2>1, ReturnKeepsAlone DEF SaveCounters
  <2>2. CASE savePc' = [savePc EXCEPT ![p] = "open"] /\ UNCHANGED saveHistory
    <3>1. snap'[p].counters = store'.counters /\ \A q \in Savers \ {p} : snap'[q] = snap[q]
      BY <1>0, <1>9 DEF SaveCounters, TypeOK, Store
    <3> QED BY <1>0, <1>9, <2>2, <3>1 DEF SaveCounters, saveHistory, AloneInv, TypeOK
  <2> QED BY <1>9, <2>1, <2>2 DEF SaveCounters
<1>10. ASSUME NEW p \in Savers, SaveOpen(p) PROVE AloneInv'
  BY <1>0, <1>10 DEF SaveOpen, SaveReturn, saveHistory, AloneInv, TypeOK
<1>11. ASSUME NEW p \in Savers, SaveWrite(p) PROVE AloneInv'
  BY <1>0, <1>11, ReturnKeepsAlone DEF SaveWrite
<1>12. CASE Tick
  BY <1>0, <1>12, PeriodicAssumption DEF Tick, PeriodicTick, SaveCall, AloneInv, TypeOK
<1>13. CASE TickerExit
  BY <1>13 DEF TickerExit, PeriodicExit, saveHistory, AloneInv
<1>14. CASE UNCHANGED vars
  BY <1>14 DEF vars, persisterVars, saveHistory, AloneInv
<1> QED BY <1>1, <1>2, <1>3, <1>4, <1>5, <1>6, <1>7, <1>8, <1>9, <1>10, <1>11, <1>12, <1>13, <1>14
     DEF Next, Crash, ShutdownTimeout, HandlerStep, MainStep, Persistence, SaveStep

LEMMA DurableNext ==
  /\ Typed /\ PhaseInv /\ SaverInv /\ StoreSums /\ AloneInv /\ DurableInv
  /\ Typed' /\ PhaseInv' /\ [Next]_vars
  => DurableInv'
<1> SUFFICES ASSUME Typed, PhaseInv, SaverInv, StoreSums, AloneInv, DurableInv,
                    Typed', PhaseInv', [Next]_vars,
                    Saves, ~owed', NEW c \in CounterNames, given'[c] <= MaxInt
             PROVE  Durable(c)'
  BY DEF DurableInv, Saves, IsSyncMode
<1>0. /\ TypeOK /\ TypeOK' /\ SumFacts /\ SumFacts'
      /\ Done(c) \in Int /\ Done(c)' \in Int /\ Pending(c) \in Int /\ Pending(c)' \in Int
      /\ given[c] \in Nat /\ given'[c] \in Nat /\ acked[c] \in Int /\ acked'[c] \in Int
      /\ file.data.counters[c] \in Int /\ file'.data.counters[c] \in Int
      /\ Handlers \subseteq Savers /\ Main \in Savers
  <2>1. SumFacts /\ SumFacts'
    BY SumFactsHold, PTL
  <2>2. TypeOK /\ TypeOK'
    BY DEF Typed
  <2> QED BY <2>1, <2>2, MaxIntAssumption, ProcessAssumption DEF SumFacts, TypeOK, File, Store, Int64
\* Nothing that counts has changed.
<1>1. ASSUME UNCHANGED <<file, owed>>, given[c] <= given'[c],
             acked'[c] + Done(c)' <= acked[c] + Done(c),
             Truncated => Truncated'
      PROVE  Durable(c)'
  BY <1>0, <1>1, MaxIntAssumption DEF DurableInv, Durable
<1>2. ASSUME UNCHANGED <<file, owed, given, acked, handlerPc, request>>, phase' # "down", phase # "down",
             \A p \in Savers : savePc[p] # "none" =>
                 savePc'[p] # "none" /\ (savePc[p] = "write" => savePc'[p] = "write"),
             \A h \in Handlers : savePc[h] = "none" => savePc'[h] = "none"
      PROVE  Durable(c)'
  <2>1. Done(c)' = Done(c)
    BY <1>0, <1>2, SumsKeep
  <2>2. Truncated => Truncated'
    BY <1>2 DEF Truncated
  <2> QED BY <1>0, <1>1, <1>2, <2>1, <2>2
<1>3. CASE Start
  <2>1. Idle(Handlers)'
    BY <1>3 DEF Start, PhaseInv, Idle, Handlers, handlerVars
  <2>2. NothingPending'
    BY <2>1, IdleSums, PTL
  <2>3. Done(c)' = 0 /\ file' = file
    BY <1>3, <2>2 DEF NothingPending, Start
  <2>4. acked'[c] = IF HasPersister /\ RestoreFlag /\ file.kind = "full" THEN file.data.counters[c] ELSE 0
    BY <1>3 DEF Start, Restored, Loaded, EmptyStore
  <2> QED BY <1>0, <2>3, <2>4 DEF Durable
<1>4. CASE Die
  <2>1. Idle(Handlers)'
    BY <1>4 DEF Die, Idle
  <2>2. NothingPending'
    BY <2>1, IdleSums, PTL
  <2>3. Done(c)' = 0 /\ UNCHANGED <<file, owed, given, acked>> /\ phase' = "down"
    BY <1>4, <2>2 DEF NothingPending, Die
  <2>4. 0 <= Done(c)
    BY <1>0 DEF SumFacts
  <2> QED BY <1>0, <1>1, <2>3, <2>4 DEF Truncated
<1>5. ASSUME NEW h \in Handlers, Receive(h) PROVE Durable(c)'
  <2>1. Done(c)' = Done(c) - FinishedShares(c)[h] + FinishedShares(c)'[h]
    BY <1>0, <1>5, SumsChange DEF Receive, TypeOK, persisterVars
  <2>2. FinishedShares(c)[h] = 0 /\ FinishedShares(c)'[h] = 0
    BY <1>0, <1>5 DEF Receive, FinishedShares, Finished, TypeOK
  <2>3. UNCHANGED <<file, owed, given, acked, savePc, phase>>
    BY <1>5 DEF Receive, persisterVars, saveHistory
  <2> QED BY <1>0, <1>1, <2>1, <2>2, <2>3 DEF Truncated
<1>6. ASSUME NEW h \in Handlers, UpdateStore(h) PROVE Durable(c)'
  <2>1. /\ \A p \in Savers \ {h} : savePc'[p] = savePc[p]
        /\ UNCHANGED <<file, owed, acked, phase>>
    BY <1>0, <1>6 DEF UpdateStore, SaveCall, saveHistory, TypeOK
  <2>2. Done(c)' = Done(c) - FinishedShares(c)[h] + FinishedShares(c)'[h]
    <3>1. \A k \in Handlers \ {h} : handlerPc'[k] = handlerPc[k] /\ request'[k] = request[k]
      BY <1>0, <1>6 DEF UpdateStore, TypeOK
    <3> QED BY <1>0, <2>1, <3>1, SumsChange
  <2>3. FinishedShares(c)[h] = 0 /\ FinishedShares(c)'[h] = 0
    BY <1>0, <1>6 DEF UpdateStore, SaveCall, FinishedShares, Finished, TypeOK
  <2>4. Truncated => Truncated'
    <3>1. savePc[h] # "write"
      BY <1>6 DEF SaverInv, UpdateStore
    <3> QED BY <2>1, <3>1 DEF Truncated
  <2>5. given[c] <= given'[c]
    <3>1. CASE Rejected(request[h])
      BY <1>0, <1>6, <3>1 DEF UpdateStore
    <3>2. CASE ~Rejected(request[h])
      <4>1. request[h].add[c] \in Nat /\ given'[c] = given[c] + request[h].add[c]
        BY <1>0, <1>6, <3>2, AcceptedAdds DEF UpdateStore, TypeOK
      <4> QED BY <1>0, <4>1
    <3> QED BY <3>1, <3>2
  <2> QED BY <1>0, <1>1, <2>1, <2>2, <2>3, <2>4, <2>5
<1>7. ASSUME NEW h \in Handlers, Saved(h) PROVE Durable(c)'
  <2>1. Done(c)' = Done(c) - FinishedShares(c)[h] + FinishedShares(c)'[h]
    BY <1>0, <1>7, SumsChange DEF Saved, TypeOK, persisterVars
  <2>2. FinishedShares(c)[h] = FinishedShares(c)'[h] /\ FinishedShares(c)[h] \in Int
    BY <1>0, <1>7 DEF Saved, FinishedShares, Finished, TypeOK, SumFacts, Integral
  <2>3. UNCHANGED <<file, owed, given, acked, savePc, phase>>
    BY <1>7 DEF Saved, persisterVars, saveHistory, serverVars
  <2> QED BY <1>0, <1>1, <2>1, <2>2, <2>3 DEF Truncated
<1>8. ASSUME NEW h \in Handlers, Answer(h) PROVE Durable(c)'
  <2>1. Done(c)' = Done(c) - FinishedShares(c)[h] + FinishedShares(c)'[h]
    BY <1>0, <1>8, SumsChange DEF Answer, TypeOK, persisterVars
  <2>2. FinishedShares(c)[h] = request[h].add[c] /\ FinishedShares(c)'[h] = 0 /\ FinishedShares(c)[h] \in Int
    BY <1>0, <1>8 DEF Answer, FinishedShares, Finished, TypeOK, SumFacts, Integral
  <2>3. UNCHANGED <<file, owed, given, savePc, phase>> /\ acked'[c] = acked[c] + request[h].add[c]
    BY <1>8 DEF Answer, persisterVars, saveHistory
  <2>4. acked'[c] + Done(c)' = acked[c] + Done(c)
    BY <1>0, <2>1, <2>2, <2>3
  <2> QED BY <1>0, <1>1, <2>3, <2>4 DEF Truncated
<1>9. CASE Signal \/ Drained \/ GRPCStopped \/ FinalSaved
  BY <1>2, <1>9 DEF Signal, Drained, GRPCStopped, FinalSaved, persisterVars, saveHistory, handlerVars
<1>10. CASE PersisterStopped
  BY <1>0, <1>2, <1>10, ProcessAssumption DEF PersisterStopped, SaveCall, handlerVars, SaverInv, TypeOK
<1>11. CASE Tick \/ TickerExit
  <2>1. StoreInterval > 0
    BY <1>11 DEF Tick, PeriodicTick, TickerExit, PeriodicExit, SaverInv
  <2> QED BY <2>1, IntervalAssumption DEF Saves, IsSyncMode
<1>12. ASSUME NEW p \in Savers, Persistence(p) PROVE Durable(c)'
  <2>0. /\ UNCHANGED <<phase, given, acked, handlerPc, request, store>> /\ savePc[p] # "none"
        /\ Up(phase) /\ phase # "down"
    <3>1. UNCHANGED <<phase, given, acked, handlerPc, request, store>> /\ savePc[p] # "none"
      BY <1>12 DEF Persistence, SaveStep, SaveGauges, SaveCounters, SaveOpen, SaveWrite, serverVars, handlerVars
    <3> QED BY <3>1, SaversAreUp DEF Up
  <2>1. CASE SaveGauges(p)
    BY <1>0, <1>2, <2>0, <2>1 DEF SaveGauges, saveHistory, TypeOK
  <2>2. CASE SaveCounters(p)
    <3>1. ~SaveReturn(p, TRUE)
      BY DEF SaveReturn
    <3> QED BY <1>0, <1>2, <2>0, <2>2, <3>1 DEF SaveCounters, saveHistory, TypeOK
  <2>3. CASE SaveOpen(p)
    <3>1. file' = NoFile("empty") /\ savePc'[p] = "write"
      BY <1>0, <2>3 DEF SaveOpen, SaveReturn, TypeOK
    <3> QED BY <3>1 DEF Durable, Truncated, NoFile
  \* A save that has met nobody and has not failed has written what the store is.
  <2>4. CASE SaveWrite(p)
    <3>1. p \notin met /\ file' \in Written(file, snap[p]) /\ savePc[p] = "write"
      BY <2>4 DEF SaveWrite, SaveReturn
    <3>2. file = NoFile("empty") /\ snap[p].counters = store.counters
      BY <3>1 DEF AloneInv
    <3>3. file' = Full(snap[p])
      BY <3>1, <3>2 DEF Written
    <3>4. file'.kind = "full" /\ file'.data.counters[c] = store.counters[c]
      BY <3>2, <3>3 DEF Full
    <3>5. store.counters[c] = acked[c] + Pending(c)
      BY <2>0 DEF StoreSums
    <3>6. Pending(c)' = Pending(c) /\ Done(c)' <= Pending(c)'
      BY <1>0, <2>0, SumsKeep DEF SumFacts
    <3> QED BY <1>0, <2>0, <3>4, <3>5, <3>6 DEF Durable
  <2> QED BY <1>12, <2>1, <2>2, <2>3, <2>4 DEF Persistence, SaveStep
<1>13. CASE UNCHANGED vars
  <2>1. UNCHANGED <<file, owed, given, acked, handlerPc, request, savePc, phase>>
    BY <1>13 DEF vars, persisterVars, saveHistory, serverVars, handlerVars
  <2>2. Done(c)' = Done(c)
    BY <1>0, <2>1, SumsKeep
  <2> QED BY <1>0, <1>1, <2>1, <2>2 DEF Truncated
<1> QED BY <1>3, <1>4, <1>5, <1>6, <1>7, <1>8, <1>9, <1>10, <1>11, <1>12, <1>13
     DEF Next, Crash, ShutdownTimeout, HandlerStep, MainStep

-----------------------------------------------------------------------------
(* The theorems *)

IInv ==
    /\ Typed
    /\ PhaseInv
    /\ SaverInv
    /\ FinalInv
    /\ CountInv
    /\ StoreSums
    /\ AloneInv
    /\ DurableInv

LEMMA Inductive == Spec => []IInv
<1>1. Init => IInv
  BY TypeInit, PhaseInit, SaverInit, FinalInit, CountInit, DurabilityInit DEF IInv
<1>2. IInv /\ [Next]_vars => IInv'
  BY TypeNext, PhaseNext, SaverNext, FinalNext, CountNext, SumsNext, AloneNext, DurableNext DEF IInv
<1> QED BY <1>1, <1>2, PTL DEF Spec

\* After a graceful exit whose last save succeeded the file holds exactly the
\* store, whatever requests, ticks and earlier saves were under way when the
\* shutdown began.
THEOREM GracefulExit == Spec => []GracefulExitSaves
<1>1. IInv => GracefulExitSaves
  BY DEF IInv, FinalInv
<1> QED BY <1>1, Inductive, PTL

\* With a store interval other than zero no two goroutines are ever in
\* saveToFile together, although no lock keeps them apart.
THEOREM SaversAreAlone == Spec => []SaversExclude
<1>1. ASSUME IInv, StoreInterval # 0, NEW p \in Savers, NEW q \in Savers,
             savePc[p] # "none", savePc[q] # "none"
      PROVE  p = q
  <2>1. p \in {Periodic, Main} /\ q \in {Periodic, Main}
    BY <1>1, ProcessAssumption DEF IInv, SaverInv, Saves, IsSyncMode
  <2>2. ~(savePc[Periodic] # "none" /\ savePc[Main] # "none")
    BY <1>1 DEF IInv, SaverInv, PhaseInv
  <2> QED BY <1>1, <2>1, <2>2
<1>2. IInv => SaversExclude
  BY <1>1 DEF SaversExclude
<1> QED BY <1>2, Inductive, PTL

\* No save, crash, restore or overflow ever makes the store or the file count
\* more than the clients have added.
THEOREM CountsAreHonest == Spec => []NothingCountedTwice
<1>1. IInv => NothingCountedTwice
  BY DEF IInv, CountInv
<1> QED BY <1>1, Inductive, PTL

\* While the server is up and no counter has wrapped, the store is exactly what was
\* restored and what requests have added that are answered or about to be: no
\* accepted request is lost in memory or counted twice.
THEOREM StoreIsTheSum == Spec => []StoreSums
BY Inductive, PTL DEF IInv

\* In synchronous mode the file keeps what clients have been told is done, from the
\* first save that ran alone and succeeded until two saves meet or one fails, across
\* crashes and restarts, unless the crash finds the file truncated.
THEOREM SyncSavesAreDurable == Spec => []SyncSaveIsDurable
<1>1. ASSUME IInv, Saves, ~owed, NEW c \in CounterNames, acked[c] > 0, given[c] <= MaxInt
      PROVE  (file.kind = "full" /\ file.data.counters[c] >= acked[c]) \/ Truncated
  <2>1. SumFacts /\ TypeOK
    BY <1>1, SumFactsHold DEF IInv, Typed
  <2>2. acked[c] \in Int /\ Done(c) \in Nat /\ file.data.counters[c] \in Int
    BY <2>1, MaxIntAssumption DEF SumFacts, TypeOK, File, Store, Int64
  <2>3. Durable(c)
    BY <1>1 DEF IInv, DurableInv
  <2> QED BY <1>1, <2>2, <2>3 DEF Durable
<1>2. IInv => SyncSaveIsDurable
  BY <1>1 DEF SyncSaveIsDurable, Truncated
<1> QED BY <1>2, Inductive, PTL
=============================================================================
