--------------------------- MODULE MetricsServer ----------------------------
(***************************************************************************)
(* The server with the in-memory store: cmd/server/main.go starts it,      *)
(* restores the file, serves HTTP and gRPC, and shuts down step by step;   *)
(* the update handlers (internal/handler/handler.go, internal/grpcserver/  *)
(* server.go) change the store, save it in synchronous mode, publish an    *)
(* audit event and answer. The process may crash at any moment and be      *)
(* started again; the file survives.                                       *)
(***************************************************************************)
EXTENDS Persister, FiniteSets

CONSTANTS
    HTTPHandlers, \* requests the HTTP server runs at a time
    GRPCHandlers, \* the same of the gRPC server
    Main,         \* the main goroutine, the saver of the shutdown
    HasPersister, \* flagFileStoragePath # ""
    RestoreFlag,  \* flagRestore
    Requests,     \* updates the clients send
    MaxRequests,  \* bound: requests in a behaviour
    MaxStarts     \* bound: starts of the process in a behaviour

Handlers == HTTPHandlers \union GRPCHandlers

ASSUME HandlersAssumption == IsFiniteSet(Handlers)
ASSUME ProcessAssumption ==
    /\ HTTPHandlers \intersect GRPCHandlers = {}
    /\ Savers = Handlers \union {Periodic, Main}
    /\ Periodic # Main
    /\ Periodic \notin Handlers /\ Main \notin Handlers
ASSUME FlagAssumption == HasPersister \in BOOLEAN /\ RestoreFlag \in BOOLEAN
ASSUME RequestsAssumption == Requests \subseteq Update
ASSUME BoundAssumption == MaxRequests \in Nat /\ MaxStarts \in Nat

VARIABLES
    phase,     \* where main is
    handlerPc, \* where each handler is
    request,   \* the request each handler works on
    requests,  \* requests begun so far
    starts,    \* starts so far
    given,     \* history: what accepted requests have added to each counter
    acked      \* history: what was restored, and what answered requests have added

serverVars == <<phase, requests, starts, given, acked>>
handlerVars == <<handlerPc, request>>
vars == <<store, file, persisterVars, serverVars, handlerVars>>

NoUpdate ==
    [set |-> [n \in GaugeNames |-> Absent], add |-> [c \in CounterNames |-> 0], malformed |-> TRUE]

Phase == {"down", "running", "draining", "grpcStop", "persisterStop", "finalSave", "exited"}
Up(ph) == ph \notin {"down", "exited"}

Init ==
    /\ PersisterInit
    /\ store = EmptyStore
    /\ phase = "down"
    /\ handlerPc = [h \in Handlers |-> "idle"]
    /\ request = [h \in Handlers |-> NoUpdate]
    /\ requests = 0 /\ starts = 0
    /\ given = [c \in CounterNames |-> 0]
    /\ acked = [c \in CounterNames |-> 0]

-----------------------------------------------------------------------------
(* The process *)

Restored == IF HasPersister /\ RestoreFlag THEN Loaded(file) ELSE EmptyStore

\* Up to the servers: nothing else runs before Restore has returned.
Start ==
    /\ ~Up(phase)
    /\ starts < MaxStarts
    /\ starts' = starts + 1
    /\ phase' = "running"
    /\ store' = Restored
    /\ acked' = Restored.counters
    /\ stopChan' = FALSE
    /\ ticking' = (HasPersister /\ StoreInterval > 0)
    /\ failed' = [p \in Savers |-> FALSE]
    /\ met' = {} /\ owed' = FALSE
    /\ UNCHANGED <<file, savePc, snap, requests, given, handlerVars>>

\* The process ends with whatever its goroutines were doing; only the file stays.
Die ==
    /\ phase' = "down"
    /\ store' = EmptyStore
    /\ savePc' = [p \in Savers |-> "none"]
    /\ snap' = [p \in Savers |-> EmptyStore]
    /\ handlerPc' = [h \in Handlers |-> "idle"]
    /\ request' = [h \in Handlers |-> NoUpdate]
    /\ ticking' = FALSE
    /\ met' = {}
    /\ UNCHANGED <<file, failed, stopChan, owed, requests, starts, given, acked>>

Crash == Up(phase) /\ Die

-----------------------------------------------------------------------------
(* Handlers *)

\* HTTP stops taking requests when Shutdown begins, gRPC when GracefulStop does.
Serves(h) ==
    \/ phase = "running"
    \/ phase = "draining" /\ h \in GRPCHandlers

Receive(h) ==
    /\ handlerPc[h] = "idle"
    /\ Serves(h)
    /\ requests < MaxRequests
    /\ requests' = requests + 1
    /\ \E r \in Requests : request' = [request EXCEPT ![h] = r]
    /\ handlerPc' = [handlerPc EXCEPT ![h] = "update"]
    /\ UNCHANGED <<store, file, persisterVars, phase, starts, given, acked>>

Saves == HasPersister /\ IsSyncMode

\* Validation and update; a rejected request is answered with an error at once.
UpdateStore(h) ==
    /\ handlerPc[h] = "update"
    /\ IF Rejected(request[h])
         THEN /\ handlerPc' = [handlerPc EXCEPT ![h] = "idle"]
              /\ request' = [request EXCEPT ![h] = NoUpdate]
              /\ UNCHANGED <<store, given, savePc, saveHistory>>
         ELSE /\ store' = Apply(store, request[h])
              /\ given' = [c \in CounterNames |-> given[c] + request[h].add[c]]
              /\ handlerPc' = [handlerPc EXCEPT ![h] = IF Saves THEN "saving" ELSE "answer"]
              /\ IF Saves THEN SaveCall(h) ELSE UNCHANGED <<savePc, saveHistory>>
              /\ UNCHANGED request
    /\ UNCHANGED <<file, snap, failed, stopChan, ticking, phase, requests, starts, acked>>

\* The save is started and not waited for.
Saved_Async(h) ==
    /\ handlerPc[h] = "saving"
    /\ handlerPc' = [handlerPc EXCEPT ![h] = "answer"]
    /\ UNCHANGED <<store, file, persisterVars, serverVars, request>>

\* SaveSync has returned, with or without an error.
Saved(h) ==
    /\ handlerPc[h] = "saving"
    /\ savePc[h] = "none"
    /\ handlerPc' = [handlerPc EXCEPT ![h] = "answer"]
    /\ UNCHANGED <<store, file, persisterVars, serverVars, request>>

\* The audit listeners have been called (over HTTP; gRPC has none) and the
\* answer, 200 or OK, is on its way.
Answer(h) ==
    /\ handlerPc[h] = "answer"
    /\ acked' = [c \in CounterNames |-> acked[c] + request[h].add[c]]
    /\ handlerPc' = [handlerPc EXCEPT ![h] = "idle"]
    /\ request' = [request EXCEPT ![h] = NoUpdate]
    /\ UNCHANGED <<store, file, persisterVars, phase, requests, starts, given>>

-----------------------------------------------------------------------------
(* Shutdown *)

\* A signal, or a server that has failed.
Signal ==
    /\ phase = "running"
    /\ phase' = "draining"
    /\ UNCHANGED <<store, file, persisterVars, handlerVars, requests, starts, given, acked>>

\* Nobody waits for the requests in progress.
Idle_NoWait(H) == TRUE

Idle(H) == \A h \in H : handlerPc[h] = "idle"

\* server.Shutdown has seen every connection idle.
Drained ==
    /\ phase = "draining"
    /\ Idle(HTTPHandlers)
    /\ phase' = "grpcStop"
    /\ UNCHANGED <<store, file, persisterVars, handlerVars, requests, starts, given, acked>>

\* Five seconds are over: logger.Fatal exits.
ShutdownTimeout ==
    /\ phase = "draining"
    /\ ~Idle(HTTPHandlers)
    /\ Die

\* GracefulStop has returned; persister.Stop closes stopChan.
GRPCStopped ==
    /\ phase = "grpcStop"
    /\ Idle(GRPCHandlers)
    /\ phase' = IF HasPersister THEN "persisterStop" ELSE "exited"
    /\ stopChan' = HasPersister
    /\ UNCHANGED <<store, file, savePc, snap, failed, ticking, saveHistory, handlerVars,
                   requests, starts, given, acked>>

\* persister.Stop does not wait for its goroutine.
TickerGone_NoWait == TRUE

TickerGone == ~ticking

\* persister.Stop has returned: the periodic goroutine is gone.
PersisterStopped ==
    /\ phase = "persisterStop"
    /\ TickerGone
    /\ phase' = "finalSave"
    /\ SaveCall(Main)
    /\ UNCHANGED <<store, file, snap, failed, stopChan, ticking, handlerVars,
                   requests, starts, given, acked>>

FinalSaved ==
    /\ phase = "finalSave"
    /\ savePc[Main] = "none"
    /\ phase' = "exited"
    /\ UNCHANGED <<store, file, persisterVars, handlerVars, requests, starts, given, acked>>

-----------------------------------------------------------------------------
\* An audit listener never returns.
HandlerStep_AuditHangs(h) == UpdateStore(h) \/ Saved(h)

HandlerStep(h) == UpdateStore(h) \/ Saved(h) \/ Answer(h)

Persistence(p) == SaveStep(p) /\ UNCHANGED <<serverVars, handlerVars>>
Tick == PeriodicTick /\ UNCHANGED <<serverVars, handlerVars>>
TickerExit == PeriodicExit /\ UNCHANGED <<serverVars, handlerVars>>

MainStep == Drained \/ ShutdownTimeout \/ GRPCStopped \/ PersisterStopped \/ FinalSaved

Next ==
    \/ Start
    \/ Crash
    \/ \E h \in Handlers : Receive(h) \/ HandlerStep(h)
    \/ Signal
    \/ MainStep
    \/ \E p \in Savers : Persistence(p)
    \/ Tick
    \/ TickerExit

Spec == Init /\ [][Next]_vars

\* Goroutines that can run are run, the ticker ticks, and a closed stopChan is
\* picked by the select sooner or later. Starts, crashes, requests and signals
\* may come or not.
Fairness ==
    /\ \A h \in Handlers : WF_vars(HandlerStep(h))
    /\ \A p \in Savers : WF_vars(Persistence(p))
    /\ WF_vars(Tick) /\ SF_vars(TickerExit)
    /\ WF_vars(MainStep)

FairSpec == Spec /\ Fairness

-----------------------------------------------------------------------------
(* Properties *)

TypeOK ==
    /\ store \in Store /\ file \in File
    /\ savePc \in [Savers -> {"none", "gauges", "counters", "open", "write"}]
    /\ snap \in [Savers -> Store]
    /\ failed \in [Savers -> BOOLEAN]
    /\ stopChan \in BOOLEAN /\ ticking \in BOOLEAN
    /\ met \subseteq Savers /\ owed \in BOOLEAN
    /\ phase \in Phase
    /\ handlerPc \in [Handlers -> {"idle", "update", "saving", "answer"}]
    /\ request \in [Handlers -> Update]
    /\ requests \in 0..MaxRequests /\ starts \in 0..MaxStarts
    /\ given \in [CounterNames -> Nat] /\ acked \in [CounterNames -> Int]

\* A server with a file that has shut down to the end of main, and whose last
\* save returned no error, leaves exactly its store in the file: no request,
\* tick or save of another goroutine comes after the last copy (main.go 209-220).
GracefulExitSaves ==
    phase = "exited" /\ HasPersister /\ ~failed[Main] => file = Full(store)

\* The file has no lock: unless the server saves on every request, the steps of
\* its life alone keep two savers from being in saveToFile together.
SaversExclude ==
    StoreInterval # 0 =>
        \A p, q \in Savers : savePc[p] # "none" /\ savePc[q] # "none" => p = q

\* Neither the store nor the file ever counts more than clients have added, over
\* any number of saves, crashes and restores; a rejected request adds nothing.
NothingCountedTwice ==
    \A c \in CounterNames :
        /\ store.counters[c] <= given[c]
        /\ file.data.counters[c] <= given[c]

\* In synchronous mode what a client has been told is done is in the file, but
\* while a save has the file truncated, or after a crash in that moment.
SyncAckIsDurable ==
    Saves => \A c \in CounterNames : acked[c] > 0 =>
        \/ file.kind = "full" /\ file.data.counters[c] >= acked[c]
        \/ file.kind = "empty" /\ (phase = "down" \/ \E p \in Savers : savePc[p] = "write")

\* Once a save of the synchronous mode has run to its end alone and without an
\* error, the file holds every request answered so far, and does so until two
\* saves meet or one fails: across other requests, crashes and restarts, unless
\* the crash comes while the file is truncated (persistence.go 85-119).
SyncSaveIsDurable ==
    Saves /\ ~owed => \A c \in CounterNames : acked[c] > 0 /\ given[c] <= MaxInt =>
        \/ file.kind = "full" /\ file.data.counters[c] >= acked[c]
        \/ file.kind = "empty" /\ (phase = "down" \/ \E p \in Savers : savePc[p] = "write")

\* Every request is answered, unless the process dies first.
RequestsAnswered == \A h \in Handlers : handlerPc[h] # "idle" ~> handlerPc[h] = "idle"

\* A shutdown ends, however requests, ticks and the last save interleave.
ShutdownEnds == phase = "draining" ~> ~Up(phase)

\* With a store interval, a server that goes on running has its whole store in
\* the file again and again: a copy made across an update, old gauges with new
\* counters, is put right by a later one.
PeriodicCatchesUp ==
    <>[](phase = "running" /\ requests = MaxRequests) => []<>(file = Full(store))
=============================================================================
