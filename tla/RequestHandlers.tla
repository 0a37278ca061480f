-------------------------- MODULE RequestHandlers ---------------------------
(***************************************************************************)
(* The handlers of internal/handler/handler.go with the audit              *)
(* (internal/audit): what a request reads and replies while others change  *)
(* the store, and which listener hears of it. An update goes through the   *)
(* store, the save of the synchronous mode and the listeners; POST /update *)
(* then reads the metric again. The page of GET / is read in two parts.    *)
(* Updates over gRPC change the store in the same way and have no audit.   *)
(*                                                                         *)
(* The store is in memory or a database, whose calls may fail; a batch of  *)
(* the database is one step here, as BatchTx shows it to be.               *)
(***************************************************************************)
EXTENDS MemStorage, Sequences, FiniteSets

CONSTANTS
    Handlers,    \* requests served at a time
    Requests,    \* what clients send
    Modes,       \* configurations of the server
    MaxRequests, \* bound: requests in a behaviour
    MaxTries     \* RetryMax + 1 of the URL listener

Listener == {"file", "url"}

Mode ==
    [backend : {"memory", "database"}, saves : BOOLEAN,
     listeners : {<<>>, <<"file">>, <<"url">>, <<"file", "url">>}]

Updates == {"path", "json", "batch"} \* POST /update/{type}/{name}/{value}, /update, /updates
Reads == {"value", "lookup", "page", "ping"} \* GET and POST /value, GET /, GET /ping

Request ==
    [kind : Updates \union Reads, type : {"gauge", "counter"},
     name : GaugeNames \union CounterNames, update : Update]

\* A database has no persister, hence no synchronous mode.
ASSUME ModesAssumption ==
    Modes \subseteq {m \in Mode : m.backend = "database" => ~m.saves}
ASSUME RequestsAssumption ==
    /\ Requests \subseteq Request
    /\ \A r \in Requests : r.name \in IF r.type = "gauge" THEN GaugeNames ELSE CounterNames
ASSUME BoundAssumption == MaxRequests \in Nat /\ MaxTries \in Nat \ {0}

VARIABLES
    mode,      \* what main has made of the flags
    phase,     \* where main is
    store,     \* the metrics
    pc,        \* where each handler is
    task,      \* the request of each handler, with its number
    next,      \* the listener Publish of each handler is at
    tries,     \* requests the URL listener has made for the event of each handler
    reply,     \* the reply of each handler
    auditFile, \* the readable lines of the audit file: numbers of requests
    torn,      \* its last line has been written in part
    heard,     \* events the audit URL has taken
    requests,  \* requests begun so far
    accepted,  \* history: HTTP updates without an error
    turnedAway,    \* history: events the URL refused, or that were given up
    writeFailures, \* history: writes of audit lines that failed
    window     \* history: the states of the store each reader may reply from

auditVars == <<next, tries, auditFile, torn, heard, turnedAway, writeFailures>>
handlerVars == <<pc, task, reply, window>>
vars == <<mode, phase, store, requests, accepted, auditVars, handlerVars>>

NoUpdate ==
    [set |-> EmptyStore.gauges, add |-> EmptyStore.counters, malformed |-> TRUE]

NoTask == [id |-> 0, request |-> [kind |-> "none", update |-> NoUpdate]]

NoReply == [status |-> "none", value |-> Absent, page |-> EmptyStore, blind |-> FALSE]

Working(h) == pc[h] # "idle"
Kind(h) == task[h].request.kind

Init ==
    /\ mode \in Modes
    /\ phase = "running"
    /\ store = EmptyStore
    /\ pc = [h \in Handlers |-> "idle"]
    /\ task = [h \in Handlers |-> NoTask]
    /\ next = [h \in Handlers |-> 1] /\ tries = [h \in Handlers |-> 0]
    /\ reply = [h \in Handlers |-> NoReply]
    /\ auditFile = <<>> /\ torn = FALSE /\ heard = {}
    /\ requests = 0
    /\ accepted = {} /\ turnedAway = {} /\ writeFailures = 0
    /\ window = [h \in Handlers |-> <<>>]

-----------------------------------------------------------------------------
(* A request comes in and is answered *)

FirstStep(kind) ==
    IF kind \in Updates THEN "update"
    ELSE IF kind = "page" THEN "gauges"
    ELSE IF kind = "lookup" THEN "value" ELSE kind

\* The handlers that reply with a value of the store.
Replies(kind) == kind \in {"json", "value", "lookup", "page"}

Receive(h) ==
    /\ pc[h] = "idle"
    /\ phase = "running"
    /\ requests < MaxRequests
    /\ \E r \in Requests :
        /\ task' = [task EXCEPT ![h] = [id |-> requests + 1, request |-> r]]
        /\ pc' = [pc EXCEPT ![h] = FirstStep(r.kind)]
        /\ window' = [window EXCEPT ![h] = IF Replies(r.kind) THEN <<store>> ELSE <<>>]
    /\ requests' = requests + 1
    /\ UNCHANGED <<mode, phase, store, accepted, next, tries, auditFile, torn, heard,
                   turnedAway, writeFailures, reply>>

\* The reply has left and the connection is idle again.
Done(h) ==
    /\ pc[h] = "replied"
    /\ pc' = [pc EXCEPT ![h] = "idle"]
    /\ task' = [task EXCEPT ![h] = NoTask]
    /\ next' = [next EXCEPT ![h] = 1]
    /\ reply' = [reply EXCEPT ![h] = NoReply]
    /\ window' = [window EXCEPT ![h] = <<>>]
    /\ UNCHANGED <<mode, phase, store, requests, accepted, tries, auditFile, torn, heard,
                   turnedAway, writeFailures>>

GoTo(h, step) == pc' = [pc EXCEPT ![h] = step]

Answer(h, status, value, page, blind) ==
    /\ reply' = [reply EXCEPT ![h] =
        [status |-> status, value |-> value, page |-> page, blind |-> blind]]
    /\ GoTo(h, "replied")

AnswerStatus(h, status) == Answer(h, status, Absent, EmptyStore, FALSE)

Fails == mode.backend = "database"

-----------------------------------------------------------------------------
(* Updates *)

\* The store has changed: readers may reply from the new state; POST /update
\* only from its own change on.
StoreChanges(h, st) ==
    /\ store' = st
    /\ window' = [k \in Handlers |->
        IF ~Replies(Kind(k)) THEN window[k]
        ELSE IF k = h THEN <<st>>
        ELSE Append(window[k], st)]

\* Validation and the call of the service. A database may fail before its commit
\* or after it; every error is answered 400.
UpdateStore(h) ==
    /\ pc[h] = "update"
    /\ LET u == task[h].request.update IN
        IF Rejected(u)
          THEN AnswerStatus(h, "badRequest") /\ UNCHANGED <<store, window, accepted>>
          ELSE \/ /\ StoreChanges(h, Apply(store, u))
                  /\ accepted' = accepted \union {task[h].id}
                  /\ GoTo(h, IF mode.saves THEN "save" ELSE "notify")
                  /\ UNCHANGED reply
               \/ /\ Fails
                  /\ \/ StoreChanges(h, Apply(store, u))
                     \/ UNCHANGED <<store, window>>
                  /\ AnswerStatus(h, "badRequest")
                  /\ UNCHANGED accepted
    /\ UNCHANGED <<mode, phase, requests, auditVars, task>>

\* SaveSync has returned, with or without an error; the file is MetricsServer's.
Saved(h) ==
    /\ pc[h] = "save"
    /\ GoTo(h, "notify")
    /\ UNCHANGED <<mode, phase, store, requests, accepted, auditVars, task, reply, window>>

-----------------------------------------------------------------------------
(* Publish *)

AtListener(h, l) ==
    pc[h] = "notify" /\ next[h] \in DOMAIN mode.listeners /\ mode.listeners[next[h]] = l

\* The batch handler forgets the audit.
AllTold_NotOfBatches(h) == Kind(h) = "batch" \/ next[h] > Len(mode.listeners)

AllTold(h) == next[h] > Len(mode.listeners)

\* The first listener that fails ends the loop.
Told_ErrorEndsLoop(h, err) ==
    next' = [next EXCEPT ![h] = IF err THEN Len(mode.listeners) + 1 ELSE next[h] + 1]

\* Publish discards the error of a listener.
Told(h, err) == next' = [next EXCEPT ![h] = next[h] + 1]

\* FileListener writes a line under its mutex, at the end of the file. A write
\* that fails may leave a part of it, and the next line comes behind that part.
WriteLine(h) ==
    /\ AtListener(h, "file")
    /\ \/ /\ auditFile' = IF torn THEN auditFile ELSE Append(auditFile, task[h].id)
          /\ torn' = FALSE
          /\ Told(h, FALSE)
          /\ UNCHANGED writeFailures
       \/ /\ torn' \in {torn, TRUE}
          /\ writeFailures' = writeFailures + 1
          /\ Told(h, TRUE)
          /\ UNCHANGED auditFile
    /\ UNCHANGED <<mode, phase, store, requests, accepted, tries, heard, turnedAway, handlerVars>>

\* The client makes one try too many.
GivesUp_OneMore(n) == n + 1 > MaxTries

GivesUp(n) == n + 1 = MaxTries

\* URLListener posts the event. An answer below 400 is a success, one that is no
\* failure of the server is an error at once; without an answer in time, or after
\* a failure of the server, the client tries again. The event may have been taken
\* although no answer came.
Post(h) ==
    LET e == task[h].id IN
    /\ AtListener(h, "url")
    /\ \/ /\ heard' = heard \union {e}
          /\ tries' = [tries EXCEPT ![h] = 0]
          /\ Told(h, FALSE)
          /\ UNCHANGED turnedAway
       \/ /\ turnedAway' = turnedAway \union {e}
          /\ tries' = [tries EXCEPT ![h] = 0]
          /\ Told(h, TRUE)
          /\ UNCHANGED heard
       \/ /\ heard' \in {heard, heard \union {e}}
          /\ IF GivesUp(tries[h])
               THEN /\ turnedAway' = turnedAway \union {e}
                    /\ tries' = [tries EXCEPT ![h] = 0]
                    /\ Told(h, TRUE)
               ELSE /\ tries' = [tries EXCEPT ![h] = tries[h] + 1]
                    /\ UNCHANGED <<turnedAway, next>>
    /\ UNCHANGED <<mode, phase, store, requests, accepted, auditFile, torn, writeFailures, handlerVars>>

\* Every listener has been called; all but POST /update have nothing left to do.
Published(h) ==
    /\ pc[h] = "notify" /\ AllTold(h)
    /\ IF Kind(h) = "json" THEN GoTo(h, "reread") /\ UNCHANGED reply ELSE AnswerStatus(h, "ok")
    /\ UNCHANGED <<mode, phase, store, requests, accepted, auditVars, task, window>>

-----------------------------------------------------------------------------
(* Replies *)

readOnly == <<mode, phase, store, requests, accepted, auditVars, task, window>>

\* What GetGauge or GetCounter finds; a counter of zero is one that is absent.
Found(st, r) ==
    IF r.type = "gauge" THEN st.gauges[r.name]
    ELSE IF st.counters[r.name] = 0 THEN Absent ELSE st.counters[r.name]

\* JSON has no NaN: the encoder fails when 200 is on its way, and no body follows.
AnswerValue(h, v) ==
    LET lost == v = NaN /\ Kind(h) # "value"
    IN  Answer(h, "ok", IF lost THEN Absent ELSE v, EmptyStore, lost)

\* POST /update repeats the delta it was sent.
Reread_EchoesRequest(h) ==
    /\ pc[h] = "reread"
    /\ Answer(h, "ok", Found([gauges |-> task[h].request.update.set,
                             counters |-> task[h].request.update.add], task[h].request),
              EmptyStore, FALSE)
    /\ UNCHANGED readOnly

\* POST /update replies with the metric as it is now. It ignores whether the
\* read has found one, so a database that fails makes it zero.
Reread(h) ==
    /\ pc[h] = "reread"
    /\ \/ AnswerValue(h, Found(store, task[h].request))
       \/ Fails /\ Answer(h, "ok", 0, EmptyStore, TRUE)
    /\ UNCHANGED readOnly

\* GET /value/{type}/{name} and POST /value; a failing database finds nothing.
ReadValue(h) ==
    /\ pc[h] = "value"
    /\ LET v == Found(store, task[h].request) IN
        \/ IF v = Absent THEN AnswerStatus(h, "notFound") ELSE AnswerValue(h, v)
        \/ Fails /\ Answer(h, "notFound", Absent, EmptyStore, TRUE)
    /\ UNCHANGED readOnly

\* GET / reads all gauges, then all counters; a failing database has none.
ReadGauges(h) ==
    /\ pc[h] = "gauges"
    /\ \/ reply' = [reply EXCEPT ![h].page.gauges = store.gauges]
       \/ Fails /\ reply' = [reply EXCEPT ![h].blind = TRUE]
    /\ GoTo(h, "counters")
    /\ UNCHANGED readOnly

ReadCounters(h) ==
    /\ pc[h] = "counters"
    /\ LET page == reply[h].page IN
        \/ Answer(h, "ok", Absent, [page EXCEPT !.counters = store.counters], reply[h].blind)
        \/ Fails /\ Answer(h, "ok", Absent, page, TRUE)
    /\ UNCHANGED readOnly

Ping(h) ==
    /\ pc[h] = "ping"
    /\ \E status \in IF mode.backend = "database" THEN {"ok", "serverError"} ELSE {"serverError"} :
        AnswerStatus(h, status)
    /\ UNCHANGED readOnly

-----------------------------------------------------------------------------
(* Shutdown *)

\* The process ends, and with it whatever its handlers were doing.
End(ph) ==
    /\ phase' = ph
    /\ pc' = [h \in Handlers |-> "idle"]
    /\ task' = [h \in Handlers |-> NoTask]
    /\ reply' = [h \in Handlers |-> NoReply]
    /\ window' = [h \in Handlers |-> <<>>]
    /\ UNCHANGED <<mode, store, requests, accepted, auditVars>>

Idle == \A h \in Handlers : ~Working(h)

Signal ==
    /\ phase = "running"
    /\ phase' = "draining"
    /\ UNCHANGED <<mode, store, requests, accepted, auditVars, handlerVars>>

\* Shutdown has seen every request end. What main does then is MetricsServer's.
Exit == phase = "draining" /\ Idle /\ End("exited")

\* Five seconds are over, fewer than the tries of the URL listener may take.
ShutdownTimeout == phase = "draining" /\ ~Idle /\ End("killed")

-----------------------------------------------------------------------------
HandlerStep(h) ==
    \/ UpdateStore(h) \/ Saved(h)
    \/ WriteLine(h) \/ Post(h) \/ Published(h)
    \/ Reread(h) \/ ReadValue(h) \/ ReadGauges(h) \/ ReadCounters(h) \/ Ping(h) \/ Done(h)

Next ==
    \/ \E h \in Handlers : Receive(h) \/ HandlerStep(h)
    \/ Signal \/ Exit \/ ShutdownTimeout

Spec == Init /\ [][Next]_vars

-----------------------------------------------------------------------------
(* Properties *)

Reply ==
    [status : {"none", "ok", "badRequest", "notFound", "serverError"}, value : Cell \union Int64,
     page : Store, blind : BOOLEAN]

TypeOK ==
    /\ mode \in Modes
    /\ phase \in {"running", "draining", "exited", "killed"}
    /\ store \in Store
    /\ pc \in [Handlers -> {"idle", "update", "save", "notify", "reread",
                            "value", "gauges", "counters", "ping", "replied"}]
    /\ task \in [Handlers -> [id : 1..MaxRequests, request : Requests] \union {NoTask}]
    /\ next \in [Handlers -> 1..3] /\ tries \in [Handlers -> 0..(MaxTries - 1)]
    /\ reply \in [Handlers -> Reply]
    /\ auditFile \in Seq(1..MaxRequests) /\ torn \in BOOLEAN
    /\ requests \in 0..MaxRequests
    /\ heard \union accepted \union turnedAway \subseteq 1..MaxRequests
    /\ writeFailures \in Nat
    /\ window \in [Handlers -> Seq(Store)]

Lines == {auditFile[i] : i \in DOMAIN auditFile}

\* Accepted updates whose handler is done, with a process that was not killed.
Concluded == accepted \ {task[h].id : h \in {k \in Handlers : pc[k] # "replied"}}

\* Every HTTP update that was accepted has one line in the audit file by the time
\* it is answered, and at a graceful exit all have; no other request has one. A
\* failed write costs at most its own line and the next (handler.go 63-72,
\* audit.go 76-82, file.go 26-37).
AcceptedIsAudited ==
    /\ Cardinality(Lines) = Len(auditFile)
    /\ Lines \subseteq accepted
    /\ "file" \in {mode.listeners[i] : i \in DOMAIN mode.listeners} /\ phase # "killed" =>
        Cardinality(Concluded \ Lines) <= 2 * writeFailures

\* "Errors from individual listeners ... do not stop notification of others"
\* (audit.go 75): whatever becomes of the file, the URL hears of every accepted
\* update, unless it refuses the event or does not answer any of the tries.
EveryListenerIsTold ==
    /\ heard \subseteq accepted
    /\ "url" \in {mode.listeners[i] : i \in DOMAIN mode.listeners} /\ phase # "killed" =>
        Concluded \subseteq heard \union turnedAway

\* A reply holds what the store held while the request was served: POST /update
\* its own update or a later one, never an older value; a page the gauges of one
\* moment and the counters of that or a later one, so that no gauge is shown
\* ahead of the counters of its batch. The exceptions are an error of the
\* database, which the handlers cannot tell from an empty store, and a NaN that
\* is to be put in JSON, which makes an empty reply.
RepliesAreCurrent ==
    \A h \in Handlers :
        LET w == window[h] r == reply[h] IN
        pc[h] = "replied" /\ ~r.blind /\ Replies(Kind(h)) /\ r.status \in {"ok", "notFound"} =>
            IF Kind(h) = "page"
              THEN \E i, j \in DOMAIN w :
                    i <= j /\ r.page = [gauges |-> w[i].gauges, counters |-> w[j].counters]
              ELSE \E i \in DOMAIN w : r.value = Found(w[i], task[h].request)
=============================================================================
