----------------------- MODULE RequestHandlersProofs ------------------------
(***************************************************************************)
(* Proofs about the handlers, for any number of requests served at a time, *)
(* any requests, any of the configurations and any number of tries: what a *)
(* reply may show, and whom Publish tells.                                 *)
(***************************************************************************)
EXTENDS RequestHandlers, FiniteSetTheorems, TLAPS

Assigned == [id : 1..MaxRequests, request : Requests]
Steps == {"idle", "update", "save", "notify", "reread",
          "value", "gauges", "counters", "ping", "replied"}

\* A handler at work has a request.
Typed ==
    /\ TypeOK
    /\ \A h \in Handlers : Working(h) => task[h] \in Assigned

\* The request of a handler fits the step it is at.
KindInv ==
    \A h \in Handlers :
        /\ pc[h] \in {"update", "save", "notify"} => Kind(h) \in Updates
        /\ pc[h] = "reread" => Kind(h) = "json"
        /\ pc[h] = "value" => Kind(h) \in {"value", "lookup"}
        /\ pc[h] \in {"gauges", "counters"} => Kind(h) = "page"
        /\ pc[h] = "ping" => Kind(h) = "ping"

\* When the process has ended nobody works.
EndInv == phase \in {"exited", "killed"} => \A h \in Handlers : pc[h] = "idle"

UsesURL == \E i \in DOMAIN mode.listeners : mode.listeners[i] = "url"

\* The handler has an accepted update and has not passed the URL listener yet.
WillTell(h) ==
    /\ pc[h] \in {"save", "notify"}
    /\ \E i \in DOMAIN mode.listeners : mode.listeners[i] = "url" /\ next[h] <= i

\* Publish starts with the first listener; an accepted update that the URL has
\* neither taken nor turned away is in the hands of a handler still to tell it.
ToldInv ==
    /\ heard \subseteq accepted
    /\ \A h \in Handlers : pc[h] \in {"save", "notify"} => task[h].id \in accepted
    /\ phase \in {"running", "draining"} =>
         \A h \in Handlers : pc[h] \notin {"notify", "reread", "replied"} => next[h] = 1
    /\ UsesURL /\ phase # "killed" =>
         \A e \in accepted :
            e \in heard \union turnedAway \/ \E h \in Handlers : WillTell(h) /\ task[h].id = e

\* Requests at work have numbers of their own; one that is not validated yet has
\* not been accepted.
IdInv ==
    /\ accepted \subseteq 1..requests
    /\ \A h \in Handlers : Working(h) => task[h].id <= requests
    /\ \A h, k \in Handlers : h # k /\ Working(h) /\ Working(k) => task[h].id # task[k].id
    /\ \A h \in Handlers : pc[h] = "update" => task[h].id \notin accepted

UsesFile == \E i \in DOMAIN mode.listeners : mode.listeners[i] = "file"

\* The handler has an accepted update and has not passed the file listener yet.
WillWrite(h) ==
    /\ pc[h] \in {"save", "notify"}
    /\ \E i \in DOMAIN mode.listeners : mode.listeners[i] = "file" /\ next[h] <= i

\* Accepted updates without a line that nobody is going to write one for.
Missing ==
    {e \in accepted : e \notin Lines /\ \A h \in Handlers : WillWrite(h) => task[h].id # e}

LineInv ==
    /\ Lines \subseteq accepted
    /\ IsFiniteSet(Lines) /\ Cardinality(Lines) = Len(auditFile)
    /\ \A h \in Handlers : WillWrite(h) => task[h].id \notin Lines

\* A failed write costs its line and, if it has left a part of it, the next one.
MissingInv ==
    UsesFile /\ phase # "killed" =>
        Cardinality(Missing) + (IF torn THEN 1 ELSE 0) <= 2 * writeFailures

\* The last state of a reader's window is the store.
WindowFits(h) ==
    Working(h) /\ Replies(Kind(h)) => window[h] # <<>> /\ window[h][Len(window[h])] = store

\* The gauges of half a page are those of one state of the window.
HalfFits(h) ==
    pc[h] = "counters" /\ ~reply[h].blind =>
        \E i \in DOMAIN window[h] : reply[h].page.gauges = window[h][i].gauges

\* What RepliesAreCurrent says of one handler.
ReplyFits(h) ==
    pc[h] = "replied" /\ ~reply[h].blind /\ Replies(Kind(h)) /\ reply[h].status \in {"ok", "notFound"} =>
        IF Kind(h) = "page"
          THEN \E i, j \in DOMAIN window[h] :
                i <= j /\ reply[h].page = [gauges   |-> window[h][i].gauges,
                                           counters |-> window[h][j].counters]
          ELSE \E i \in DOMAIN window[h] : reply[h].value = Found(window[h][i], task[h].request)

Fits(h) == WindowFits(h) /\ HalfFits(h) /\ ReplyFits(h)

WindowInv == \A h \in Handlers : Fits(h)

-----------------------------------------------------------------------------
(* Types *)

\* The operators of the store.
LEMMA AddInt64Type ==
  ASSUME NEW a \in Int64, NEW b \in Int64 PROVE AddInt64(a, b) \in Int64
  BY MaxIntAssumption DEF Int64, AddInt64

LEMMA EmptyStoreType ==
  /\ EmptyStore \in Store
  /\ 0 \in Int64 /\ Absent \in Cell
<1>1. 0 \in Int64 /\ Absent \in Cell
  BY MaxIntAssumption DEF Int64, Cell
<1> QED BY <1>1 DEF EmptyStore, Store

LEMMA ApplyType ==
  ASSUME NEW st \in Store, NEW u \in Update PROVE Apply(st, u) \in Store
<1>1. \A n \in GaugeNames : (IF u.set[n] = Absent THEN st.gauges[n] ELSE u.set[n]) \in Cell
  BY DEF Store, Update
<1>2. \A c \in CounterNames : AddInt64(st.counters[c], u.add[c]) \in Int64
  BY AddInt64Type DEF Store, Update
<1> QED BY <1>1, <1>2 DEF Apply, Store

LEMMA NothingTypes ==
  /\ NoReply \in Reply
  /\ <<>> \in Seq(Store)
  /\ <<>> \in Seq(1..MaxRequests)
<1>1. NoReply.status = "none" /\ Absent \in Cell \union Int64 /\ EmptyStore \in Store
  BY EmptyStoreType DEF NoReply
<1> QED BY <1>1 DEF NoReply, Reply

LEMMA ListenersAreTwo ==
  ASSUME mode \in Modes
  PROVE  /\ mode.listeners \in {<<>>, <<"file">>, <<"url">>, <<"file", "url">>}
         /\ DOMAIN mode.listeners \subseteq 1..2
         /\ DOMAIN mode.listeners = 1..Len(mode.listeners)
<1>1. mode.listeners \in {<<>>, <<"file">>, <<"url">>, <<"file", "url">>}
  BY ModesAssumption DEF Mode
<1> QED BY <1>1

LEMMA NextListener ==
  ASSUME Typed, NEW h \in Handlers, NEW l, AtListener(h, l)
  PROVE  Working(h) /\ next[h] + 1 \in 1..3
<1>1. pc[h] = "notify" /\ next[h] \in DOMAIN mode.listeners
  BY DEF AtListener
<1>2. next[h] \in 1..2
  BY <1>1, ListenersAreTwo DEF Typed, TypeOK
<1> QED BY <1>1, <1>2 DEF Working

LEMMA AssignedType ==
  ASSUME Typed, NEW h \in Handlers, Working(h)
  PROVE  /\ task[h].id \in 1..MaxRequests
         /\ task[h].request \in Request
         /\ task[h].request \in Requests
         /\ task[h].request.update \in Update
         /\ \A st \in Store : Found(st, task[h].request) \in Cell \union Int64
<1>1. task[h] \in Assigned
  BY DEF Typed
<1>2. task[h].id \in 1..MaxRequests /\ task[h].request \in Requests
  BY <1>1 DEF Assigned
<1>3. task[h].request \in Request
  BY <1>2, RequestsAssumption
<1>4. \A st \in Store : Found(st, task[h].request) \in Cell \union Int64
  BY <1>2, <1>3, RequestsAssumption, EmptyStoreType DEF Found, Store, Request
<1> QED BY <1>2, <1>3, <1>4 DEF Request

LEMMA AnswerType ==
  ASSUME Typed, NEW h \in Handlers,
         NEW s \in {"none", "ok", "badRequest", "notFound", "serverError"},
         NEW v \in Cell \union Int64, NEW p \in Store, NEW b \in BOOLEAN, Answer(h, s, v, p, b)
  PROVE  reply' \in [Handlers -> Reply] /\ pc' = [pc EXCEPT ![h] = "replied"]
<1>1. [status |-> s, value |-> v, page |-> p, blind |-> b] \in Reply
  BY DEF Reply
<1> QED BY <1>1 DEF Answer, GoTo, Typed, TypeOK

LEMMA TypeInit == Init => Typed
<1> SUFFICES ASSUME Init PROVE Typed
  OBVIOUS
<1>1. task = [h \in Handlers |-> NoTask] /\ store \in Store
  BY EmptyStoreType DEF Init
<1>2. reply \in [Handlers -> Reply] /\ window \in [Handlers -> Seq(Store)]
      /\ auditFile \in Seq(1..MaxRequests)
  BY NothingTypes DEF Init
<1>3. 0 \in 0..(MaxTries - 1) /\ 0 \in 0..MaxRequests
  BY BoundAssumption
<1>4. torn \in BOOLEAN
  BY DEF Init
<1>5. /\ mode \in Modes /\ phase = "running" /\ pc = [h \in Handlers |-> "idle"]
      /\ next = [h \in Handlers |-> 1] /\ tries = [h \in Handlers |-> 0]
      /\ requests = 0 /\ heard = {} /\ accepted = {} /\ turnedAway = {} /\ writeFailures = 0
  BY DEF Init
<1>6. tries \in [Handlers -> 0..(MaxTries - 1)] /\ next \in [Handlers -> 1..3]
  BY <1>3, <1>5
<1>7. \A h \in Handlers : ~Working(h)
  BY <1>5 DEF Working
<1>8. TypeOK
  BY <1>1, <1>2, <1>3, <1>4, <1>5, <1>6 DEF TypeOK
<1> QED BY <1>7, <1>8 DEF Typed

LEMMA TypeReceive ==
  ASSUME Typed, NEW h \in Handlers, Receive(h) PROVE Typed'
<1> USE DEF Typed, TypeOK
<1>1. PICK r \in Requests :
        /\ task' = [task EXCEPT ![h] = [id |-> requests + 1, request |-> r]]
        /\ pc' = [pc EXCEPT ![h] = FirstStep(r.kind)]
        /\ window' = [window EXCEPT ![h] = IF Replies(r.kind) THEN <<store>> ELSE <<>>]
  BY DEF Receive
<1>2. [id |-> requests + 1, request |-> r] \in Assigned /\ requests' \in 0..MaxRequests
  BY BoundAssumption DEF Receive, Assigned
<1>3. FirstStep(r.kind) \in Steps
  BY RequestsAssumption DEF FirstStep, Request, Updates, Reads, Steps
<1>4. window' \in [Handlers -> Seq(Store)]
  <2>1. <<store>> \in Seq(Store) /\ <<>> \in Seq(Store)
    OBVIOUS
  <2> QED BY <1>1, <2>1
<1>5. task' \in [Handlers -> Assigned \union {NoTask}]
  BY <1>1, <1>2 DEF Assigned
<1>6. pc' \in [Handlers -> Steps]
  BY <1>1, <1>3 DEF Steps
<1>7. \A k \in Handlers : Working(k)' => task'[k] \in Assigned
  BY <1>1, <1>2 DEF Working
<1>8. UNCHANGED <<mode, phase, store, accepted, next, tries, auditFile, torn, heard,
                  turnedAway, writeFailures, reply>>
  BY DEF Receive
<1> QED BY <1>2, <1>4, <1>5, <1>6, <1>7, <1>8 DEF Steps, Assigned

LEMMA AppendStores ==
  ASSUME Typed, NEW h \in Handlers, NEW st \in Store, StoreChanges(h, st)
  PROVE  window' \in [Handlers -> Seq(Store)] /\ store' \in Store
<1>1. \A k \in Handlers : window[k] \in Seq(Store)
  BY DEF Typed, TypeOK
<1>2. <<st>> \in Seq(Store) /\ \A k \in Handlers : Append(window[k], st) \in Seq(Store)
  BY <1>1
<1> QED BY <1>1, <1>2 DEF StoreChanges

LEMMA TypeUpdate ==
  ASSUME Typed, NEW h \in Handlers, UpdateStore(h) PROVE Typed'
<1> USE DEF Typed, TypeOK
<1> DEFINE st == Apply(store, task[h].request.update)
<1>0. Working(h) /\ pc[h] = "update"
  BY DEF UpdateStore, Working
<1>1. st \in Store /\ task[h].id \in 1..MaxRequests
  BY <1>0, AssignedType, ApplyType
<1>2. UNCHANGED <<mode, phase, requests, auditVars, task>>
  BY DEF UpdateStore
<1>3. store' \in Store /\ window' \in [Handlers -> Seq(Store)]
  <2>1. StoreChanges(h, st) \/ UNCHANGED <<store, window>>
    BY DEF UpdateStore
  <2> QED BY <1>1, <2>1, AppendStores
<1>4. accepted' \subseteq 1..MaxRequests
  BY <1>1 DEF UpdateStore
<1>5. reply' \in [Handlers -> Reply]
  <2>1. AnswerStatus(h, "badRequest") \/ UNCHANGED reply
    BY DEF UpdateStore
  <2>2. ASSUME AnswerStatus(h, "badRequest") PROVE reply' \in [Handlers -> Reply]
    BY <2>2, EmptyStoreType, AnswerType DEF AnswerStatus
  <2> QED BY <2>1, <2>2
<1>6. PICK s \in {"save", "notify", "replied"} : pc' = [pc EXCEPT ![h] = s]
  BY DEF UpdateStore, AnswerStatus, Answer, GoTo
<1>7. pc' \in [Handlers -> Steps] /\ \A k \in Handlers : Working(k)' => Working(k)
  BY <1>0, <1>6 DEF Steps, Working
<1> QED BY <1>2, <1>3, <1>4, <1>5, <1>7 DEF Steps, auditVars

\* Steps that change neither the store nor the audit.
ReaderStep(h) == Reread(h) \/ ReadValue(h) \/ ReadGauges(h) \/ ReadCounters(h) \/ Ping(h)

LEMMA ReaderEffect ==
  ASSUME Typed, NEW h \in Handlers, ReaderStep(h)
  PROVE  /\ UNCHANGED readOnly
         /\ Working(h) /\ pc[h] \in {"reread", "value", "gauges", "counters", "ping"}
         /\ \/ pc' = [pc EXCEPT ![h] = "replied"]
            \/ pc[h] = "gauges" /\ pc' = [pc EXCEPT ![h] = "counters"]
         /\ reply' \in [Handlers -> Reply]
         /\ \A k \in Handlers : k # h => reply'[k] = reply[k]
<1> USE DEF Typed, TypeOK
<1>0. UNCHANGED readOnly /\ Working(h) /\ pc[h] \in {"reread", "value", "gauges", "counters", "ping"}
  BY DEF ReaderStep, Reread, ReadValue, ReadGauges, ReadCounters, Ping, Working
<1>1. Absent \in Cell \union Int64 /\ 0 \in Cell \union Int64 /\ EmptyStore \in Store
  BY EmptyStoreType
<1>2. Found(store, task[h].request) \in Cell \union Int64
  BY <1>0, AssignedType
<1>3. \/ \E s \in {"ok", "badRequest", "notFound", "serverError"}, v \in Cell \union Int64,
            p \in Store, b \in BOOLEAN : Answer(h, s, v, p, b)
      \/ ReadGauges(h)
  <2>1. CASE Reread(h)
    BY <1>1, <1>2, <2>1 DEF Reread, AnswerValue
  <2>2. CASE ReadValue(h)
    BY <1>1, <1>2, <2>2 DEF ReadValue, AnswerValue, AnswerStatus
  <2>3. CASE ReadCounters(h)
    <3>1. reply[h] \in Reply /\ reply[h].page \in Store /\ reply[h].blind \in BOOLEAN
      BY DEF Reply
    <3>2. [reply[h].page EXCEPT !.counters = store.counters] \in Store
      BY <3>1 DEF Store
    <3> QED BY <1>1, <2>3, <3>1, <3>2 DEF ReadCounters
  <2>4. CASE Ping(h)
    BY <1>1, <2>4 DEF Ping, AnswerStatus
  <2> QED BY <2>1, <2>2, <2>3, <2>4 DEF ReaderStep
<1>4. ASSUME NEW s \in {"ok", "badRequest", "notFound", "serverError"},
             NEW v \in Cell \union Int64, NEW p \in Store, NEW b \in BOOLEAN, Answer(h, s, v, p, b)
      PROVE  /\ reply' \in [Handlers -> Reply] /\ pc' = [pc EXCEPT ![h] = "replied"]
             /\ \A k \in Handlers : k # h => reply'[k] = reply[k]
  BY <1>4, AnswerType DEF Answer
<1>5. CASE ReadGauges(h)
  <2>1. /\ pc[h] = "gauges" /\ pc' = [pc EXCEPT ![h] = "counters"]
        /\ \A k \in Handlers : k # h => reply'[k] = reply[k]
    BY <1>5 DEF ReadGauges, GoTo
  <2>2. reply[h] \in Reply /\ store.gauges \in [GaugeNames -> Cell]
    BY DEF Store
  <2>3. [reply[h] EXCEPT !.page.gauges = store.gauges] \in Reply
    <3>1. [reply[h].page EXCEPT !.gauges = store.gauges] \in Store
      BY <2>2 DEF Reply, Store
    <3> QED BY <2>2, <3>1 DEF Reply
  <2>4. [reply[h] EXCEPT !.blind = TRUE] \in Reply
    BY <2>2 DEF Reply
  <2>5. reply' \in [Handlers -> Reply]
    BY <1>5, <2>3, <2>4 DEF ReadGauges
  <2> QED BY <1>0, <2>1, <2>5
<1> QED BY <1>0, <1>3, <1>4, <1>5

LEMMA TypeNext == Typed /\ [Next]_vars => Typed'
<1> SUFFICES ASSUME Typed, [Next]_vars PROVE Typed'
  OBVIOUS
<1> USE DEF Typed, TypeOK
<1>1. ASSUME NEW h \in Handlers, Receive(h) PROVE Typed'
  BY <1>1, TypeReceive
<1>2. ASSUME NEW h \in Handlers, UpdateStore(h) PROVE Typed'
  BY <1>2, TypeUpdate
<1>3. ASSUME NEW h \in Handlers, Saved(h) PROVE Typed'
  BY <1>3 DEF Saved, GoTo, auditVars, Working
<1>4. ASSUME NEW h \in Handlers, WriteLine(h) PROVE Typed'
  <2>0. AtListener(h, "file")
    BY <1>4 DEF WriteLine
  <2>1. Working(h) /\ next[h] + 1 \in 1..3
    BY <2>0, NextListener
  <2>2. auditFile' \in Seq(1..MaxRequests)
    <3>1. task[h].id \in 1..MaxRequests
      BY <2>1, AssignedType
    <3>2. Append(auditFile, task[h].id) \in Seq(1..MaxRequests)
      BY <3>1
    <3> QED BY <1>4, <3>2 DEF WriteLine
  <2>3. next' \in [Handlers -> 1..3]
    BY <1>4, <2>1 DEF WriteLine, Told
  <2>4. torn' \in BOOLEAN
    BY <1>4, Zenon DEF WriteLine
  <2>5. writeFailures' \in Nat
    <3>1. writeFailures' \in {writeFailures, writeFailures + 1}
      BY <1>4, Zenon DEF WriteLine
    <3> QED BY <3>1
  <2> QED BY <1>4, <2>2, <2>3, <2>4, <2>5 DEF WriteLine, handlerVars, Working
<1>5. ASSUME NEW h \in Handlers, Post(h) PROVE Typed'
  <2>1. Working(h) /\ next[h] + 1 \in 1..3
    BY <1>5, NextListener DEF Post
  <2>2. task[h].id \in 1..MaxRequests
    BY <2>1, AssignedType
  <2>3. heard' \subseteq 1..MaxRequests /\ turnedAway' \subseteq 1..MaxRequests
    BY <1>5, <2>2 DEF Post
  <2>4. next' \in [Handlers -> 1..3]
    BY <1>5, <2>1 DEF Post, Told
  <2>5. tries' \in [Handlers -> 0..(MaxTries - 1)]
    <3>1. 0 \in 0..(MaxTries - 1)
      BY BoundAssumption
    <3>2. \A n \in 0..(MaxTries - 1) : ~GivesUp(n) => n + 1 \in 0..(MaxTries - 1)
      BY BoundAssumption DEF GivesUp
    <3>3. ~GivesUp(tries[h]) => tries[h] + 1 \in 0..(MaxTries - 1)
      BY <3>2
    <3> QED BY <1>5, <3>1, <3>3 DEF Post
  <2> QED BY <1>5, <2>3, <2>4, <2>5 DEF Post, handlerVars, Working
<1>6. ASSUME NEW h \in Handlers, Published(h) PROVE Typed'
  <2>1. PICK s \in {"reread", "replied"} : pc' = [pc EXCEPT ![h] = s]
    BY <1>6 DEF Published, AnswerStatus, Answer, GoTo
  <2>2. reply' \in [Handlers -> Reply]
    <3>1. ASSUME AnswerStatus(h, "ok") PROVE reply' \in [Handlers -> Reply]
      BY <3>1, EmptyStoreType, AnswerType DEF AnswerStatus
    <3> QED BY <1>6, <3>1 DEF Published
  <2>3. Working(h)
    BY <1>6 DEF Published, Working
  <2>4. pc' \in [Handlers -> Steps] /\ \A k \in Handlers : Working(k)' => Working(k)
    BY <2>1, <2>3 DEF Steps, Working
  <2> QED BY <1>6, <2>2, <2>4 DEF Published, auditVars, Steps
<1>7. ASSUME NEW h \in Handlers, ReaderStep(h) PROVE Typed'
  <2>1. pc' \in [Handlers -> Steps] /\ \A k \in Handlers : Working(k)' => Working(k)
    BY <1>7, ReaderEffect DEF Steps, Working
  <2>2. UNCHANGED readOnly /\ reply' \in [Handlers -> Reply]
    BY <1>7, ReaderEffect
  <2> QED BY <2>1, <2>2 DEF readOnly, auditVars, Steps
<1>8. ASSUME NEW h \in Handlers, Done(h) PROVE Typed'
  <2>1. reply' \in [Handlers -> Reply] /\ window' \in [Handlers -> Seq(Store)]
    BY <1>8, NothingTypes DEF Done
  <2>2. pc' = [pc EXCEPT ![h] = "idle"] /\ task' = [task EXCEPT ![h] = NoTask]
    BY <1>8 DEF Done
  <2>3. next' \in [Handlers -> 1..3]
    BY <1>8 DEF Done
  <2> QED BY <1>8, <2>1, <2>2, <2>3 DEF Done, Working
<1>9. CASE Signal
  BY <1>9 DEF Signal, auditVars, handlerVars, Working
<1>10. ASSUME NEW ph \in {"exited", "killed"}, End(ph) PROVE Typed'
  <2>1. reply' \in [Handlers -> Reply] /\ window' \in [Handlers -> Seq(Store)]
    BY <1>10, NothingTypes DEF End
  <2>2. pc' = [h \in Handlers |-> "idle"] /\ task' = [h \in Handlers |-> NoTask]
    BY <1>10 DEF End
  <2> QED BY <1>10, <2>1, <2>2 DEF End, auditVars, Working
<1>11. CASE UNCHANGED vars
  BY <1>11 DEF vars, auditVars, handlerVars, Working
<1> QED
  BY <1>1, <1>2, <1>3, <1>4, <1>5, <1>6, <1>7, <1>8, <1>9, <1>10, <1>11
     DEF Next, HandlerStep, ReaderStep, Exit, ShutdownTimeout

\* Every variable of the handlers and the audit keeps its type: for instance no
\* event is posted more often than the client may try.
THEOREM TypeCorrect == Spec => []TypeOK
<1>1. Typed => TypeOK
  BY DEF Typed
<1> QED BY <1>1, TypeInit, TypeNext, PTL DEF Spec

-----------------------------------------------------------------------------
(* Requests and steps *)

LEMMA KindInit == Init => KindInv
  BY DEF Init, KindInv

LEMMA KindNext == Typed /\ KindInv /\ [Next]_vars => KindInv'
<1> SUFFICES ASSUME Typed, KindInv, [Next]_vars PROVE KindInv'
  OBVIOUS
<1>0. pc \in [Handlers -> Steps] /\ task \in [Handlers -> Assigned \union {NoTask}]
  BY DEF Typed, TypeOK, Steps, Assigned
<1>1. ASSUME NEW h \in Handlers, Receive(h) PROVE KindInv'
  <2>1. PICK r \in Requests :
          /\ task' = [task EXCEPT ![h] = [id |-> requests + 1, request |-> r]]
          /\ pc' = [pc EXCEPT ![h] = FirstStep(r.kind)]
    BY <1>1 DEF Receive
  <2>2. r.kind \in Updates \union Reads
    BY RequestsAssumption DEF Request
  <2>3. Kind(h)' = r.kind /\ pc'[h] = FirstStep(r.kind)
    BY <1>0, <2>1 DEF Kind
  <2>4. \A k \in Handlers : k # h => Kind(k)' = Kind(k) /\ pc'[k] = pc[k]
    BY <1>0, <2>1 DEF Kind
  <2>5. /\ pc'[h] \in {"update", "save", "notify"} => Kind(h)' \in Updates
        /\ pc'[h] = "reread" => Kind(h)' = "json"
        /\ pc'[h] = "value" => Kind(h)' \in {"value", "lookup"}
        /\ pc'[h] \in {"gauges", "counters"} => Kind(h)' = "page"
        /\ pc'[h] = "ping" => Kind(h)' = "ping"
    BY <2>2, <2>3 DEF FirstStep, Updates, Reads
  <2> QED BY <2>4, <2>5 DEF KindInv
<1>2. ASSUME NEW h \in Handlers, UpdateStore(h) PROVE KindInv'
  <2>1. PICK st \in {"save", "notify", "replied"} : pc' = [pc EXCEPT ![h] = st]
    BY <1>2 DEF UpdateStore, AnswerStatus, Answer, GoTo
  <2>2. pc[h] = "update" /\ task' = task
    BY <1>2 DEF UpdateStore
  <2> QED BY <1>0, <2>1, <2>2 DEF KindInv, Kind
<1>3. ASSUME NEW h \in Handlers, Saved(h) PROVE KindInv'
  BY <1>0, <1>3 DEF Saved, GoTo, KindInv, Kind
<1>4. ASSUME NEW h \in Handlers, WriteLine(h) \/ Post(h) PROVE KindInv'
  BY <1>4 DEF WriteLine, Post, handlerVars, KindInv, Kind
<1>5. ASSUME NEW h \in Handlers, Published(h) PROVE KindInv'
  <2>1. \/ Kind(h) = "json" /\ pc' = [pc EXCEPT ![h] = "reread"]
        \/ pc' = [pc EXCEPT ![h] = "replied"]
    BY <1>5 DEF Published, AnswerStatus, Answer, GoTo
  <2>2. task' = task
    BY <1>5 DEF Published
  <2> QED BY <1>0, <2>1, <2>2 DEF KindInv, Kind
<1>6. ASSUME NEW h \in Handlers, ReaderStep(h) PROVE KindInv'
  <2>1. task' = task
    BY <1>6, ReaderEffect DEF readOnly
  <2>2. \/ pc' = [pc EXCEPT ![h] = "replied"]
        \/ pc[h] = "gauges" /\ pc' = [pc EXCEPT ![h] = "counters"]
    BY <1>6, ReaderEffect
  <2> QED BY <1>0, <2>1, <2>2 DEF KindInv, Kind
<1>7. ASSUME NEW h \in Handlers, Done(h) PROVE KindInv'
  <2>1. pc' = [pc EXCEPT ![h] = "idle"] /\ task' = [task EXCEPT ![h] = NoTask]
    BY <1>7 DEF Done
  <2> QED BY <1>0, <2>1 DEF KindInv, Kind
<1>8. CASE Signal
  BY <1>8 DEF Signal, handlerVars, KindInv, Kind
<1>9. ASSUME NEW ph, End(ph) PROVE KindInv'
  BY <1>9 DEF End, KindInv
<1>10. CASE UNCHANGED vars
  BY <1>10 DEF vars, handlerVars, KindInv, Kind
<1> QED
  BY <1>1, <1>2, <1>3, <1>4, <1>5, <1>6, <1>7, <1>8, <1>9, <1>10
     DEF Next, HandlerStep, ReaderStep, Exit, ShutdownTimeout

LEMMA EndInit == Init => EndInv
  BY DEF Init, EndInv

LEMMA EndNext == Typed /\ EndInv /\ [Next]_vars => EndInv'
<1> SUFFICES ASSUME Typed, EndInv, [Next]_vars PROVE EndInv'
  OBVIOUS
<1>1. ASSUME NEW h \in Handlers, HandlerStep(h) PROVE EndInv'
  <2>1. CASE ReaderStep(h)
    <3>1. phase' = phase /\ Working(h)
      BY <2>1, ReaderEffect DEF readOnly
    <3> QED BY <3>1 DEF EndInv, Working
  <2>2. CASE ~ReaderStep(h)
    <3>1. phase' = phase /\ pc[h] # "idle"
      BY <1>1, <2>2 DEF HandlerStep, ReaderStep, UpdateStore, Saved, WriteLine, Post, Published, Done,
                        AtListener
    <3> QED BY <3>1 DEF EndInv
  <2> QED BY <2>1, <2>2
<1>2. ASSUME NEW h \in Handlers, Receive(h) PROVE EndInv'
  BY <1>2 DEF Receive, EndInv
<1>3. CASE Signal
  BY <1>3 DEF Signal, EndInv
<1>4. ASSUME NEW ph, End(ph) PROVE EndInv'
  BY <1>4 DEF End, EndInv
<1>5. CASE UNCHANGED vars
  BY <1>5 DEF vars, handlerVars, EndInv
<1> QED BY <1>1, <1>2, <1>3, <1>4, <1>5 DEF Next, Exit, ShutdownTimeout

-----------------------------------------------------------------------------
(* Publish *)

\* A step that leaves alone what is told, and the handlers that are still to tell.
LEMMA NobodyTold ==
  ASSUME ToldInv, UNCHANGED <<mode, phase, accepted, next, heard, turnedAway>>,
         \A h \in Handlers : pc[h] \in {"save", "notify"} =>
            pc'[h] \in {"save", "notify"} /\ task'[h].id = task[h].id,
         \A h \in Handlers : pc'[h] \in {"save", "notify"} =>
            pc[h] \in {"save", "notify"},
         \A h \in Handlers : pc'[h] \notin {"notify", "reread", "replied"} => next[h] = 1
                             \/ pc[h] \notin {"notify", "reread", "replied"}
  PROVE  ToldInv'
<1>1. \A h \in Handlers : WillTell(h) => WillTell(h)'
  BY DEF WillTell
<1>2. \A h \in Handlers : WillTell(h) => task'[h].id = task[h].id
  BY DEF WillTell
<1> QED BY <1>1, <1>2 DEF ToldInv, UsesURL

LEMMA ToldInit == Init => ToldInv
  BY DEF Init, ToldInv

LEMMA ToldUpdate ==
  ASSUME Typed, EndInv, ToldInv, NEW h \in Handlers, UpdateStore(h) PROVE ToldInv'
<1> USE DEF Typed, TypeOK
<1>1. /\ UNCHANGED <<mode, phase, requests, auditVars, task>>
      /\ pc[h] = "update"
  BY DEF UpdateStore
<1>2. \/ pc' = [pc EXCEPT ![h] = "replied"] /\ UNCHANGED accepted
      \/ /\ accepted' = accepted \union {task[h].id}
         /\ \E st \in {"save", "notify"} : pc' = [pc EXCEPT ![h] = st]
  BY DEF UpdateStore, AnswerStatus, Answer, GoTo
<1>3. CASE pc' = [pc EXCEPT ![h] = "replied"] /\ UNCHANGED accepted
  BY <1>1, <1>3, NobodyTold DEF auditVars
<1>4. CASE /\ accepted' = accepted \union {task[h].id}
           /\ \E st \in {"save", "notify"} : pc' = [pc EXCEPT ![h] = st]
  <2>1. pc'[h] \in {"save", "notify"} /\ \A k \in Handlers : k # h => pc'[k] = pc[k]
    BY <1>4
  <2>2. UNCHANGED <<mode, phase, task, next, heard, turnedAway>>
    BY <1>1 DEF auditVars
  <2>3. heard' \subseteq accepted'
    BY <1>4, <2>2 DEF ToldInv
  <2>4. \A k \in Handlers : pc'[k] \in {"save", "notify"} => task'[k].id \in accepted'
    BY <1>4, <2>1, <2>2 DEF ToldInv
  <2>5. phase' \in {"running", "draining"} =>
          \A k \in Handlers : pc'[k] \notin {"notify", "reread", "replied"} => next'[k] = 1
    BY <1>1, <2>1, <2>2 DEF ToldInv
  <2>6. ASSUME UsesURL', phase' # "killed", NEW e \in accepted'
        PROVE  e \in heard' \union turnedAway' \/ \E k \in Handlers : WillTell(k)' /\ task'[k].id = e
    <3>0. UsesURL /\ phase # "killed"
      BY <2>2, <2>6 DEF UsesURL
    <3>1. CASE e \in accepted
      <4>1. e \in heard \union turnedAway \/ \E k \in Handlers : WillTell(k) /\ task[k].id = e
        BY <3>0, <3>1 DEF ToldInv
      <4>2. \A k \in Handlers : WillTell(k) => WillTell(k)'
        BY <1>1, <2>1, <2>2 DEF WillTell
      <4> QED BY <2>2, <4>1, <4>2
    <3>2. CASE e = task[h].id
      <4>1. next[h] = 1
        <5>1. phase \in {"running", "draining"}
          BY <1>1 DEF EndInv
        <5> QED BY <1>1, <5>1 DEF ToldInv
      <4>2. PICK i \in DOMAIN mode.listeners : mode.listeners[i] = "url"
        BY <3>0 DEF UsesURL
      <4>3. i \in 1..2
        BY <4>2, ListenersAreTwo
      <4>4. WillTell(h)'
        BY <2>1, <2>2, <4>1, <4>2, <4>3 DEF WillTell
      <4> QED BY <2>2, <3>2, <4>4
    <3> QED BY <1>4, <3>1, <3>2
  <2> QED BY <2>3, <2>4, <2>5, <2>6 DEF ToldInv
<1> QED BY <1>2, <1>3, <1>4

\* A step after which every event is told, or was not waiting for the handler.
LEMMA SomeTold ==
  ASSUME Typed, ToldInv, NEW h \in Handlers, UNCHANGED <<mode, phase, accepted>>,
         heard \subseteq heard', heard' \subseteq accepted, turnedAway \subseteq turnedAway',
         pc' = [pc EXCEPT ![h] = pc'[h]], next' = [next EXCEPT ![h] = next'[h]],
         \A k \in Handlers : k # h => task'[k] = task[k],
         WillTell(h) => \/ WillTell(h)' /\ task'[h].id = task[h].id
                        \/ task[h].id \in heard' \union turnedAway',
         pc'[h] \in {"save", "notify"} => task'[h].id \in accepted,
         pc'[h] \notin {"notify", "reread", "replied"} => next'[h] = 1
  PROVE  ToldInv'
<1>0. pc \in [Handlers -> Steps] /\ next \in [Handlers -> 1..3]
  BY DEF Typed, TypeOK, Steps
<1>1. \A k \in Handlers : k # h => pc'[k] = pc[k] /\ next'[k] = next[k]
  BY <1>0
<1>2. \A k \in Handlers : k # h /\ WillTell(k) => WillTell(k)' /\ task'[k].id = task[k].id
  BY <1>1 DEF WillTell
<1>3. \A k \in Handlers : pc'[k] \in {"save", "notify"} => task'[k].id \in accepted'
  BY <1>1 DEF ToldInv
<1>4. phase' \in {"running", "draining"} =>
        \A k \in Handlers : pc'[k] \notin {"notify", "reread", "replied"} => next'[k] = 1
  BY <1>1 DEF ToldInv
<1>5. ASSUME UsesURL', phase' # "killed", NEW e \in accepted'
      PROVE  e \in heard' \union turnedAway' \/ \E k \in Handlers : WillTell(k)' /\ task'[k].id = e
  <2>1. UsesURL /\ phase # "killed" /\ e \in accepted
    BY <1>5 DEF UsesURL
  <2>2. e \in heard \union turnedAway \/ \E k \in Handlers : WillTell(k) /\ task[k].id = e
    BY <2>1 DEF ToldInv
  <2>3. ASSUME NEW k \in Handlers, WillTell(k), task[k].id = e
        PROVE  e \in heard' \union turnedAway' \/ \E l \in Handlers : WillTell(l)' /\ task'[l].id = e
    <3>1. CASE k = h
      BY <2>3, <3>1
    <3>2. CASE k # h
      BY <1>2, <2>3, <3>2
    <3> QED BY <3>1, <3>2
  <2> QED BY <2>2, <2>3
<1> QED BY <1>3, <1>4, <1>5 DEF ToldInv

LEMMA ToldWriteLine ==
  ASSUME Typed, ToldInv, NEW h \in Handlers, WriteLine(h) PROVE ToldInv'
<1>0. next \in [Handlers -> 1..3] /\ pc \in [Handlers -> Steps] /\ mode \in Modes
  BY DEF Typed, TypeOK, Steps
<1>1. AtListener(h, "file") /\ next' = [next EXCEPT ![h] = next[h] + 1]
  BY DEF WriteLine, Told
<1>2. UNCHANGED <<mode, phase, accepted, heard, turnedAway, pc, task>>
  BY DEF WriteLine, handlerVars
<1>3. next'[h] = next[h] + 1 /\ next[h] \in Nat
  BY <1>0, <1>1
<1>4. ASSUME WillTell(h) PROVE WillTell(h)'
  <2>1. PICK i \in DOMAIN mode.listeners : mode.listeners[i] = "url" /\ next[h] <= i
    BY <1>4 DEF WillTell
  <2>2. i # next[h] /\ i \in 1..2
    BY <1>0, <1>1, <2>1, ListenersAreTwo DEF AtListener
  <2>3. next'[h] <= i
    BY <1>3, <2>1, <2>2
  <2> QED BY <1>2, <1>4, <2>1, <2>3 DEF WillTell
<1>5. pc[h] = "notify"
  BY <1>1 DEF AtListener
<1>6. task[h].id \in accepted /\ heard \subseteq accepted
  BY <1>5 DEF ToldInv
<1>7. pc' = [pc EXCEPT ![h] = pc'[h]] /\ next' = [next EXCEPT ![h] = next'[h]]
  BY <1>0, <1>1, <1>2
<1> QED BY <1>2, <1>4, <1>5, <1>6, <1>7, SomeTold

LEMMA ToldPost ==
  ASSUME Typed, ToldInv, NEW h \in Handlers, Post(h) PROVE ToldInv'
<1>0. next \in [Handlers -> 1..3] /\ pc \in [Handlers -> Steps]
  BY DEF Typed, TypeOK, Steps
<1>1. pc[h] = "notify"
  BY DEF Post, AtListener
<1>2. UNCHANGED <<mode, phase, accepted, pc, task>>
  BY DEF Post, handlerVars
<1>3. task[h].id \in accepted /\ heard \subseteq accepted
  BY <1>1 DEF ToldInv
<1>4. heard \subseteq heard' /\ heard' \subseteq heard \union {task[h].id} /\ turnedAway \subseteq turnedAway'
  BY DEF Post
<1>5. \/ next' = next
      \/ next' = [next EXCEPT ![h] = next[h] + 1] /\ task[h].id \in heard' \union turnedAway'
  BY DEF Post, Told
<1>6. next' = [next EXCEPT ![h] = next'[h]] /\ pc' = [pc EXCEPT ![h] = pc'[h]]
  BY <1>0, <1>2, <1>5
<1>7. WillTell(h) => WillTell(h)' \/ task[h].id \in heard' \union turnedAway'
  BY <1>2, <1>5 DEF WillTell
<1> QED BY <1>1, <1>2, <1>3, <1>4, <1>6, <1>7, SomeTold

LEMMA ToldPublished ==
  ASSUME Typed, ToldInv, NEW h \in Handlers, Published(h) PROVE ToldInv'
<1>0. next \in [Handlers -> 1..3] /\ pc \in [Handlers -> Steps] /\ mode \in Modes
  BY DEF Typed, TypeOK, Steps
<1>1. PICK st \in {"reread", "replied"} : pc' = [pc EXCEPT ![h] = st]
  BY DEF Published, AnswerStatus, Answer, GoTo
<1>2. UNCHANGED <<mode, phase, accepted, next, heard, turnedAway, task>>
  BY DEF Published, auditVars
<1>3. ~WillTell(h)
  <2>1. next[h] > Len(mode.listeners) /\ next[h] \in Nat
    BY <1>0 DEF Published, AllTold
  <2>2. DOMAIN mode.listeners = 1..Len(mode.listeners) /\ Len(mode.listeners) \in Nat
    BY <1>0, ListenersAreTwo
  <2> QED BY <2>1, <2>2 DEF WillTell
<1>4. pc'[h] \in {"reread", "replied"} /\ pc' = [pc EXCEPT ![h] = pc'[h]]
      /\ next' = [next EXCEPT ![h] = next'[h]]
  BY <1>0, <1>1, <1>2
<1>5. heard \subseteq accepted
  BY DEF ToldInv
<1> QED BY <1>2, <1>3, <1>4, <1>5, SomeTold

LEMMA ToldNext == Typed /\ EndInv /\ ToldInv /\ [Next]_vars => ToldInv'
<1> SUFFICES ASSUME Typed, EndInv, ToldInv, [Next]_vars PROVE ToldInv'
  OBVIOUS
<1>0. /\ pc \in [Handlers -> Steps] /\ next \in [Handlers -> 1..3]
      /\ task \in [Handlers -> Assigned \union {NoTask}]
  BY DEF Typed, TypeOK, Steps, Assigned
<1>1. ASSUME NEW h \in Handlers, Receive(h) PROVE ToldInv'
  <2>1. PICK r \in Requests :
          /\ task' = [task EXCEPT ![h] = [id |-> requests + 1, request |-> r]]
          /\ pc' = [pc EXCEPT ![h] = FirstStep(r.kind)]
    BY <1>1 DEF Receive
  <2>2. FirstStep(r.kind) \notin {"save", "notify"}
    BY RequestsAssumption DEF FirstStep, Request, Updates, Reads
  <2>3. pc[h] = "idle" /\ UNCHANGED <<mode, phase, accepted, next, heard, turnedAway>>
    BY <1>1 DEF Receive
  <2>4. pc'[h] \notin {"save", "notify"}
    BY <1>0, <2>1, <2>2
  <2>5. \A k \in Handlers : k # h => pc'[k] = pc[k] /\ task'[k] = task[k]
    BY <1>0, <2>1
  <2> QED BY <2>3, <2>4, <2>5, NobodyTold
<1>2. ASSUME NEW h \in Handlers, UpdateStore(h) PROVE ToldInv'
  BY <1>2, ToldUpdate
<1>3. ASSUME NEW h \in Handlers, Saved(h) PROVE ToldInv'
  <2>1. pc[h] = "save" /\ pc' = [pc EXCEPT ![h] = "notify"]
    BY <1>3 DEF Saved, GoTo
  <2>2. UNCHANGED <<mode, phase, accepted, next, heard, turnedAway, task>>
    BY <1>3 DEF Saved, auditVars
  <2> QED BY <1>0, <2>1, <2>2, NobodyTold
<1>4. ASSUME NEW h \in Handlers, WriteLine(h) \/ Post(h) \/ Published(h) PROVE ToldInv'
  BY <1>4, ToldWriteLine, ToldPost, ToldPublished
<1>5. ASSUME NEW h \in Handlers, ReaderStep(h) PROVE ToldInv'
  <2>1. UNCHANGED <<mode, phase, accepted, next, heard, turnedAway, task>>
    BY <1>5, ReaderEffect DEF readOnly, auditVars
  <2>2. pc[h] \in {"reread", "value", "gauges", "counters", "ping"}
    BY <1>5, ReaderEffect
  <2>3. \/ pc' = [pc EXCEPT ![h] = "replied"]
        \/ pc[h] = "gauges" /\ pc' = [pc EXCEPT ![h] = "counters"]
    BY <1>5, ReaderEffect
  <2> QED BY <1>0, <2>1, <2>2, <2>3, NobodyTold
<1>6. ASSUME NEW h \in Handlers, Done(h) PROVE ToldInv'
  <2>1. /\ pc[h] = "replied" /\ pc' = [pc EXCEPT ![h] = "idle"]
        /\ next' = [next EXCEPT ![h] = 1] /\ task' = [task EXCEPT ![h] = NoTask]
        /\ UNCHANGED <<mode, phase, accepted, heard, turnedAway>>
    BY <1>6 DEF Done
  <2>2. pc'[h] = "idle" /\ next'[h] = 1 /\ \A k \in Handlers : k # h => task'[k] = task[k]
    BY <1>0, <2>1
  <2>3. ~WillTell(h) /\ heard \subseteq accepted
    BY <2>1 DEF WillTell, ToldInv
  <2> QED BY <2>1, <2>2, <2>3, SomeTold
<1>7. CASE Signal
  <2>1. phase = "running" /\ phase' = "draining"
    BY <1>7 DEF Signal
  <2>2. UNCHANGED <<mode, accepted, next, heard, turnedAway, pc, task>>
    BY <1>7 DEF Signal, auditVars, handlerVars
  <2>3. \A h \in Handlers : WillTell(h)' <=> WillTell(h)
    BY <2>2 DEF WillTell
  <2> QED BY <2>1, <2>2, <2>3 DEF ToldInv, UsesURL
<1>8. CASE Exit \/ ShutdownTimeout
  <2>1. /\ phase' = "killed" \/ (phase' = "exited" /\ phase = "draining" /\ \A h \in Handlers : pc[h] = "idle")
        /\ \A h \in Handlers : pc'[h] = "idle"
        /\ UNCHANGED <<mode, accepted, next, heard, turnedAway>>
    BY <1>8 DEF Exit, ShutdownTimeout, End, Idle, Working, auditVars
  <2>2. phase' = "exited" => \A h \in Handlers : ~WillTell(h)
    BY <2>1 DEF WillTell
  <2> QED BY <2>1, <2>2 DEF ToldInv, UsesURL
<1>9. CASE UNCHANGED vars
  <2>1. UNCHANGED <<mode, phase, accepted, next, heard, turnedAway, pc, task>>
    BY <1>9 DEF vars, auditVars, handlerVars
  <2> QED BY <2>1, NobodyTold
<1> QED
  BY <1>1, <1>2, <1>3, <1>4, <1>5, <1>6, <1>7, <1>8, <1>9 DEF Next, HandlerStep, ReaderStep

\* The URL hears of every accepted update that is through with Publish, whatever
\* has become of its line in the file, unless it refuses it or all tries are used.
THEOREM ListenersAreTold == Spec => []EveryListenerIsTold
<1>1. ToldInv => EveryListenerIsTold
  <2> SUFFICES ASSUME ToldInv PROVE EveryListenerIsTold
    OBVIOUS
  <2>1. heard \subseteq accepted
    BY DEF ToldInv
  <2>2. ASSUME UsesURL, phase # "killed", NEW e \in Concluded PROVE e \in heard \union turnedAway
    <3>1. e \in accepted /\ \A h \in Handlers : pc[h] # "replied" => task[h].id # e
      BY DEF Concluded
    <3>2. \A h \in Handlers : WillTell(h) => task[h].id # e
      BY <3>1 DEF WillTell
    <3> QED BY <2>2, <3>1, <3>2 DEF ToldInv
  <2>3. "url" \in {mode.listeners[i] : i \in DOMAIN mode.listeners} => UsesURL
    BY DEF UsesURL
  <2> QED BY <2>1, <2>2, <2>3 DEF EveryListenerIsTold
<1> QED
  BY <1>1, TypeInit, TypeNext, EndInit, EndNext, ToldInit, ToldNext, PTL DEF Spec

-----------------------------------------------------------------------------
(* Replies *)

\* The store and this handler stay as they are.
LEMMA SameFits ==
  ASSUME NEW k \in Handlers, Fits(k), store' = store, pc'[k] = pc[k], task'[k] = task[k],
         reply'[k] = reply[k], window'[k] = window[k]
  PROVE  Fits(k)'
  BY DEF Fits, WindowFits, HalfFits, ReplyFits, Working, Kind

\* The store changes and the window of this handler grows.
LEMMA GrowingFits ==
  ASSUME Typed, NEW k \in Handlers, Fits(k), NEW st \in Store, store' = st,
         pc'[k] = pc[k], task'[k] = task[k], reply'[k] = reply[k],
         window'[k] = IF Replies(Kind(k)) THEN Append(window[k], st) ELSE window[k]
  PROVE  Fits(k)'
<1> USE DEF Fits
<1>0. window[k] \in Seq(Store)
  BY DEF Typed, TypeOK
<1>1. Kind(k)' = Kind(k) /\ (Working(k)' <=> Working(k))
  BY DEF Kind, Working
<1>2. CASE Replies(Kind(k))
  <2>1. /\ window'[k] # <<>> /\ Len(window'[k]) = Len(window[k]) + 1
        /\ window'[k][Len(window'[k])] = st
        /\ \A i \in DOMAIN window[k] : i \in DOMAIN window'[k] /\ window'[k][i] = window[k][i]
    BY <1>0, <1>2
  <2>2. WindowFits(k)'
    BY <2>1 DEF WindowFits
  <2>3. HalfFits(k)'
    BY <2>1 DEF HalfFits
  <2>4. ReplyFits(k)'
    <3> SUFFICES ASSUME pc[k] = "replied", ~reply[k].blind, reply[k].status \in {"ok", "notFound"}
                 PROVE  ReplyFits(k)'
      BY DEF ReplyFits
    <3>1. CASE Kind(k) = "page"
      <4>1. PICK i, j \in DOMAIN window[k] :
              i <= j /\ reply[k].page = [gauges   |-> window[k][i].gauges,
                                         counters |-> window[k][j].counters]
        BY <1>2, <3>1 DEF ReplyFits
      <4>2. /\ i \in DOMAIN window'[k] /\ j \in DOMAIN window'[k] /\ i <= j
            /\ reply'[k].page = [gauges   |-> window'[k][i].gauges,
                                 counters |-> window'[k][j].counters]
        BY <2>1, <4>1
      <4> QED BY <1>1, <3>1, <4>2 DEF ReplyFits
    <3>2. CASE Kind(k) # "page"
      <4>1. PICK i \in DOMAIN window[k] : reply[k].value = Found(window[k][i], task[k].request)
        BY <1>2, <3>2 DEF ReplyFits
      <4>2. i \in DOMAIN window'[k] /\ reply'[k].value = Found(window'[k][i], task'[k].request)
        BY <2>1, <4>1
      <4> QED BY <1>1, <3>2, <4>2 DEF ReplyFits
    <3> QED BY <3>1, <3>2
  <2> QED BY <2>2, <2>3, <2>4
<1>3. CASE ~Replies(Kind(k))
  BY <1>1, <1>3 DEF WindowFits, HalfFits, ReplyFits
<1> QED BY <1>2, <1>3

\* A handler that has nothing to show, and whose window ends with the store.
LEMMA QuietFits ==
  ASSUME NEW h \in Handlers, WindowFits(h)', pc'[h] # "counters",
         pc'[h] # "replied" \/ ~Replies(Kind(h)') \/ reply'[h].status \notin {"ok", "notFound"}
  PROVE  Fits(h)'
  BY DEF Fits, HalfFits, ReplyFits

LEMMA FitsInit == Init => WindowInv
  BY DEF Init, WindowInv, Fits, WindowFits, HalfFits, ReplyFits, Working

LEMMA FitsReceive ==
  ASSUME Typed, WindowInv, NEW h \in Handlers, Receive(h) PROVE WindowInv'
<1>0. /\ pc \in [Handlers -> Steps] /\ window \in [Handlers -> Seq(Store)]
      /\ task \in [Handlers -> Assigned \union {NoTask}]
  BY DEF Typed, TypeOK, Steps, Assigned
<1>1. PICK r \in Requests :
        /\ task' = [task EXCEPT ![h] = [id |-> requests + 1, request |-> r]]
        /\ pc' = [pc EXCEPT ![h] = FirstStep(r.kind)]
        /\ window' = [window EXCEPT ![h] = IF Replies(r.kind) THEN <<store>> ELSE <<>>]
  BY DEF Receive
<1>2. store' = store /\ reply' = reply
  BY DEF Receive
<1>3. Kind(h)' = r.kind /\ pc'[h] \notin {"counters", "replied"}
  <2>1. FirstStep(r.kind) \notin {"counters", "replied"}
    BY RequestsAssumption DEF FirstStep, Request, Updates, Reads
  <2> QED BY <1>0, <1>1, <2>1 DEF Kind
<1>4. WindowFits(h)'
  BY <1>0, <1>1, <1>2, <1>3 DEF WindowFits
<1>5. Fits(h)'
  BY <1>3, <1>4, QuietFits
<1>6. ASSUME NEW k \in Handlers, k # h PROVE Fits(k)'
  BY <1>0, <1>1, <1>2, <1>6, SameFits DEF WindowInv
<1> QED BY <1>5, <1>6 DEF WindowInv

LEMMA FitsUpdate ==
  ASSUME Typed, KindInv, WindowInv, NEW h \in Handlers, UpdateStore(h) PROVE WindowInv'
<1> DEFINE st == Apply(store, task[h].request.update)
<1>0. /\ pc \in [Handlers -> Steps] /\ window \in [Handlers -> Seq(Store)]
      /\ reply \in [Handlers -> Reply] /\ store \in Store
  BY DEF Typed, TypeOK, Steps
<1>1. pc[h] = "update" /\ task' = task
  BY DEF UpdateStore
<1>2. st \in Store
  BY <1>0, <1>1, AssignedType, ApplyType DEF Working
<1>3. StoreChanges(h, st) \/ UNCHANGED <<store, window>>
  BY DEF UpdateStore
<1>4. \/ reply' = reply /\ \E x \in {"save", "notify"} : pc' = [pc EXCEPT ![h] = x]
      \/ AnswerStatus(h, "badRequest")
  BY DEF UpdateStore, GoTo
<1>5. \A k \in Handlers : k # h => pc'[k] = pc[k] /\ reply'[k] = reply[k]
  BY <1>0, <1>4 DEF AnswerStatus, Answer, GoTo
<1>6. pc'[h] \in {"save", "notify"} \/ (pc'[h] = "replied" /\ reply'[h].status = "badRequest")
  BY <1>0, <1>4 DEF AnswerStatus, Answer, GoTo
<1>7. Kind(h)' = Kind(h)
  BY <1>1 DEF Kind
<1>8. Fits(h)'
  <2>1. WindowFits(h)'
    <3>1. CASE StoreChanges(h, st)
      <4>1. store' = st /\ (Replies(Kind(h)) => window'[h] = <<st>>)
        BY <3>1 DEF StoreChanges
      <4> HIDE DEF st
      <4>2. <<st>> # <<>> /\ Len(<<st>>) = 1 /\ <<st>>[1] = st
        OBVIOUS
      <4> QED BY <1>7, <4>1, <4>2 DEF WindowFits
    <3>2. CASE UNCHANGED <<store, window>>
      <4>1. WindowFits(h) /\ Working(h)
        BY <1>1 DEF WindowInv, Fits, Working
      <4> QED BY <1>7, <3>2, <4>1 DEF WindowFits
    <3> QED BY <1>3, <3>1, <3>2
  <2> QED BY <1>6, <2>1, QuietFits
<1>9. ASSUME NEW k \in Handlers, k # h PROVE Fits(k)'
  <2>0. Fits(k) /\ task'[k] = task[k] /\ pc'[k] = pc[k] /\ reply'[k] = reply[k]
    BY <1>1, <1>5, <1>9 DEF WindowInv
  <2>1. CASE StoreChanges(h, st)
    <3>1. /\ store' = st
          /\ window'[k] = IF Replies(Kind(k)) THEN Append(window[k], st) ELSE window[k]
      BY <1>9, <2>1 DEF StoreChanges
    <3> QED BY <1>2, <2>0, <3>1, GrowingFits
  <2>2. CASE UNCHANGED <<store, window>>
    BY <2>0, <2>2, SameFits
  <2> QED BY <1>3, <2>1, <2>2
<1> QED BY <1>8, <1>9 DEF WindowInv

\* One value, read from the store as it is.
LEMMA ValueFits ==
  ASSUME Typed, NEW h \in Handlers, WindowFits(h), Working(h),
         Kind(h) \in {"json", "value", "lookup"}, UNCHANGED <<store, task, window>>,
         pc'[h] = "replied",
         reply'[h].blind \/ reply'[h].value = Found(store, task[h].request)
  PROVE  Fits(h)'
<1>1. Replies(Kind(h)) /\ Kind(h)' = Kind(h) /\ window[h] \in Seq(Store)
  BY DEF Replies, Kind, Typed, TypeOK
<1>2. Len(window[h]) \in DOMAIN window[h] /\ window[h][Len(window[h])] = store
  BY <1>1 DEF WindowFits
<1>3. WindowFits(h)' /\ HalfFits(h)'
  BY <1>1 DEF WindowFits, HalfFits, Working
<1>4. ReplyFits(h)'
  BY <1>1, <1>2 DEF ReplyFits
<1> QED BY <1>3, <1>4 DEF Fits

LEMMA ValueAnswered ==
  ASSUME Typed, NEW h \in Handlers, NEW v, AnswerValue(h, v)
  PROVE  pc'[h] = "replied" /\ (reply'[h].blind \/ reply'[h].value = v)
<1>0. pc \in [Handlers -> Steps] /\ reply \in [Handlers -> Reply]
  BY DEF Typed, TypeOK, Steps
<1>1. pc'[h] = "replied"
  BY <1>0 DEF AnswerValue, Answer, GoTo
<1>2. PICK d \in BOOLEAN : d <=> (v = NaN /\ Kind(h) # "value")
  BY Zenon
<1>3. reply'[h] = [status |-> "ok", value |-> IF d THEN Absent ELSE v, page |-> EmptyStore, blind |-> d]
  <2>1. (v = NaN /\ Kind(h) # "value") = d
    BY <1>2
  <2>2. Answer(h, "ok", IF d THEN Absent ELSE v, EmptyStore, d)
    BY <2>1, Zenon DEF AnswerValue
  <2> QED BY <1>0, <2>2 DEF Answer
<1> QED BY <1>1, <1>3

LEMMA FitsReader ==
  ASSUME Typed, KindInv, WindowInv, NEW h \in Handlers, ReaderStep(h) PROVE WindowInv'
<1>0. /\ pc \in [Handlers -> Steps] /\ window[h] \in Seq(Store)
      /\ reply \in [Handlers -> Reply] /\ store \in Store
  BY DEF Typed, TypeOK, Steps
<1>1. UNCHANGED <<store, task, window>> /\ Working(h)
  BY ReaderEffect DEF readOnly
<1>2. \A k \in Handlers : k # h => pc'[k] = pc[k] /\ reply'[k] = reply[k]
  BY <1>0, ReaderEffect
<1>3. ASSUME NEW k \in Handlers, k # h PROVE Fits(k)'
  BY <1>1, <1>2, <1>3, SameFits DEF WindowInv
<1>4. Fits(h) /\ WindowFits(h)
  BY DEF WindowInv, Fits
<1>5. Kind(h)' = Kind(h)
  BY <1>1 DEF Kind
<1>6. ASSUME Reread(h) PROVE Fits(h)'
  <2>1. Kind(h) = "json"
    BY <1>6 DEF Reread, KindInv
  <2>2. pc'[h] = "replied" /\ (reply'[h].blind \/ reply'[h].value = Found(store, task[h].request))
    <3>1. CASE AnswerValue(h, Found(store, task[h].request))
      BY <3>1, ValueAnswered
    <3>2. CASE Answer(h, "ok", 0, EmptyStore, TRUE)
      BY <1>0, <3>2 DEF Answer, GoTo
    <3> QED BY <1>6, <3>1, <3>2 DEF Reread
  <2> QED BY <1>1, <1>4, <2>1, <2>2, ValueFits
<1>7. ASSUME ReadValue(h) PROVE Fits(h)'
  <2>1. Kind(h) \in {"value", "lookup"}
    BY <1>7 DEF ReadValue, KindInv
  <2>2. pc'[h] = "replied" /\ (reply'[h].blind \/ reply'[h].value = Found(store, task[h].request))
    <3>1. CASE AnswerValue(h, Found(store, task[h].request))
      BY <3>1, ValueAnswered
    <3>2. CASE Found(store, task[h].request) = Absent /\ AnswerStatus(h, "notFound")
      BY <1>0, <3>2 DEF AnswerStatus, Answer, GoTo
    <3>3. CASE Answer(h, "notFound", Absent, EmptyStore, TRUE)
      BY <1>0, <3>3 DEF Answer, GoTo
    <3> QED BY <1>7, <3>1, <3>2, <3>3 DEF ReadValue
  <2> QED BY <1>1, <1>4, <2>1, <2>2, ValueFits
<1>8. ASSUME ReadGauges(h) PROVE Fits(h)'
  <2>1. pc'[h] = "counters" /\ Kind(h) = "page"
    BY <1>0, <1>8 DEF ReadGauges, GoTo, KindInv
  <2>2. reply'[h].blind \/ reply'[h].page.gauges = store.gauges
    <3>1. reply[h] \in Reply /\ reply[h].page \in Store
      BY <1>0 DEF Reply
    <3>2. [reply[h] EXCEPT !.page.gauges = store.gauges].page.gauges = store.gauges
      BY <3>1 DEF Reply, Store
    <3>3. [reply[h] EXCEPT !.blind = TRUE].blind
      BY <3>1 DEF Reply
    <3> QED BY <1>0, <1>8, <3>2, <3>3 DEF ReadGauges
  <2>3. Len(window[h]) \in DOMAIN window[h] /\ window[h][Len(window[h])] = store
    BY <1>0, <1>1, <1>4, <2>1 DEF WindowFits, Replies
  <2>4. HalfFits(h)'
    BY <1>1, <2>2, <2>3 DEF HalfFits
  <2>5. WindowFits(h)' /\ ReplyFits(h)'
    BY <1>1, <1>4, <1>5, <2>1 DEF WindowFits, ReplyFits, Working
  <2> QED BY <2>4, <2>5 DEF Fits
<1>9. ASSUME ReadCounters(h) PROVE Fits(h)'
  <2>1. pc[h] = "counters" /\ pc'[h] = "replied" /\ Kind(h) = "page"
    BY <1>0, <1>9 DEF ReadCounters, Answer, GoTo, KindInv
  <2>2. reply'[h].blind \/ (~reply[h].blind /\ reply'[h].page = [reply[h].page EXCEPT !.counters = store.counters])
    BY <1>0, <1>9 DEF ReadCounters, Answer
  <2>3. Len(window[h]) \in DOMAIN window[h] /\ window[h][Len(window[h])] = store
    BY <1>0, <1>1, <1>4, <2>1 DEF WindowFits, Replies
  <2>4. ReplyFits(h)'
    <3>1. CASE reply'[h].blind
      BY <3>1 DEF ReplyFits
    <3>2. CASE ~reply'[h].blind
      <4>1. PICK i \in DOMAIN window[h] : reply[h].page.gauges = window[h][i].gauges
        BY <1>4, <2>1, <2>2, <3>2 DEF Fits, HalfFits
      <4>2. reply[h].page \in Store
        BY <1>0 DEF Reply
      <4>3. [reply[h].page EXCEPT !.counters = store.counters]
              = [gauges |-> window[h][i].gauges, counters |-> store.counters]
        BY <4>1, <4>2 DEF Store
      <4>4. reply'[h].page = [gauges |-> window[h][i].gauges,
                              counters |-> window[h][Len(window[h])].counters]
        BY <2>2, <2>3, <3>2, <4>3
      <4>5. i <= Len(window[h])
        BY <1>0, <4>1
      <4> QED BY <1>1, <1>5, <2>1, <2>3, <4>4, <4>5 DEF ReplyFits
    <3> QED BY <3>1, <3>2
  <2>5. WindowFits(h)' /\ HalfFits(h)'
    BY <1>1, <1>4, <1>5, <2>1 DEF WindowFits, HalfFits, Working
  <2> QED BY <2>4, <2>5 DEF Fits
<1>10. ASSUME Ping(h) PROVE Fits(h)'
  <2>1. Kind(h) = "ping" /\ pc'[h] = "replied"
    BY <1>0, <1>10 DEF Ping, AnswerStatus, Answer, GoTo, KindInv
  <2>2. ~Replies(Kind(h)')
    BY <1>5, <2>1 DEF Replies
  <2> QED BY <2>1, <2>2, QuietFits DEF WindowFits
<1> QED BY <1>3, <1>6, <1>7, <1>8, <1>9, <1>10 DEF ReaderStep, WindowInv

LEMMA FitsNext == Typed /\ KindInv /\ WindowInv /\ [Next]_vars => WindowInv'
<1> SUFFICES ASSUME Typed, KindInv, WindowInv, [Next]_vars PROVE WindowInv'
  OBVIOUS
<1>0. /\ pc \in [Handlers -> Steps] /\ window \in [Handlers -> Seq(Store)]
      /\ task \in [Handlers -> Assigned \union {NoTask}] /\ reply \in [Handlers -> Reply]
  BY DEF Typed, TypeOK, Steps, Assigned
<1>1. ASSUME NEW h \in Handlers, Saved(h) PROVE WindowInv'
  <2>1. /\ pc[h] = "save" /\ pc' = [pc EXCEPT ![h] = "notify"]
        /\ UNCHANGED <<store, task, reply, window>>
    BY <1>1 DEF Saved, GoTo
  <2>2. ASSUME NEW k \in Handlers, k # h PROVE Fits(k)'
    BY <1>0, <2>1, <2>2, SameFits DEF WindowInv
  <2>3. WindowFits(h) /\ Working(h)
    BY <2>1 DEF WindowInv, Fits, Working
  <2>4. WindowFits(h)' /\ pc'[h] = "notify"
    BY <1>0, <2>1, <2>3 DEF WindowFits, Kind
  <2>5. Fits(h)'
    BY <2>4, QuietFits
  <2> QED BY <2>2, <2>5 DEF WindowInv
<1>2. ASSUME NEW h \in Handlers, Published(h) PROVE WindowInv'
  <2>1. UNCHANGED <<store, task, window>> /\ pc[h] = "notify"
    BY <1>2 DEF Published
  <2>2. \A k \in Handlers : k # h => pc'[k] = pc[k] /\ reply'[k] = reply[k]
    BY <1>0, <1>2 DEF Published, AnswerStatus, Answer, GoTo
  <2>3. ASSUME NEW k \in Handlers, k # h PROVE Fits(k)'
    BY <2>1, <2>2, <2>3, SameFits DEF WindowInv
  <2>4. pc'[h] = "reread" \/ (pc'[h] = "replied" /\ Kind(h) # "json")
    BY <1>0, <1>2 DEF Published, AnswerStatus, Answer, GoTo
  <2>5. Kind(h)' = Kind(h) /\ Kind(h) \in Updates
    BY <2>1 DEF Kind, KindInv
  <2>6. pc'[h] = "replied" => ~Replies(Kind(h)')
    BY <2>4, <2>5 DEF Replies, Updates
  <2>7. WindowFits(h)'
    BY <2>1, <2>5 DEF WindowInv, Fits, WindowFits, Working
  <2>8. Fits(h)'
    BY <2>4, <2>6, <2>7, QuietFits
  <2> QED BY <2>3, <2>8 DEF WindowInv
<1>3. ASSUME NEW h \in Handlers, Done(h) PROVE WindowInv'
  <2>1. /\ pc' = [pc EXCEPT ![h] = "idle"] /\ task' = [task EXCEPT ![h] = NoTask]
        /\ reply' = [reply EXCEPT ![h] = NoReply] /\ window' = [window EXCEPT ![h] = <<>>]
        /\ store' = store
    BY <1>3 DEF Done
  <2>2. ASSUME NEW k \in Handlers, k # h PROVE Fits(k)'
    BY <1>0, <2>1, <2>2, SameFits DEF WindowInv
  <2>3. pc'[h] = "idle"
    BY <1>0, <2>1
  <2>4. Fits(h)'
    BY <2>3, QuietFits DEF WindowFits, Working
  <2> QED BY <2>2, <2>4 DEF WindowInv
<1>4. ASSUME UNCHANGED <<store, pc, task, reply, window>> PROVE WindowInv'
  BY <1>4, SameFits DEF WindowInv
<1>5. ASSUME NEW h \in Handlers, WriteLine(h) \/ Post(h) PROVE WindowInv'
  BY <1>4, <1>5 DEF WriteLine, Post, handlerVars
<1>6. CASE Signal
  BY <1>4, <1>6 DEF Signal, handlerVars
<1>7. ASSUME NEW ph, End(ph) PROVE WindowInv'
  BY <1>7 DEF End, WindowInv, Fits, WindowFits, HalfFits, ReplyFits, Working
<1>8. CASE UNCHANGED vars
  BY <1>4, <1>8 DEF vars, handlerVars
<1> QED
  BY <1>1, <1>2, <1>3, <1>5, <1>6, <1>7, <1>8, FitsReceive, FitsUpdate, FitsReader
     DEF Next, HandlerStep, ReaderStep, Exit, ShutdownTimeout

\* Whatever other requests change meanwhile, a reply shows what the store held
\* while the request was served, and POST /update nothing older than its update.
THEOREM RepliesAreNeverOld == Spec => []RepliesAreCurrent
<1>1. WindowInv => RepliesAreCurrent
  BY DEF WindowInv, Fits, ReplyFits, RepliesAreCurrent
<1> QED
  BY <1>1, TypeInit, TypeNext, KindInit, KindNext, FitsInit, FitsNext, PTL DEF Spec

-----------------------------------------------------------------------------
(* The audit file *)

\* A step that begins no request and accepts none.
LEMMA SameIds ==
  ASSUME IdInv, UNCHANGED <<accepted, requests>>,
         \A h \in Handlers : Working(h)' => Working(h) /\ task'[h].id = task[h].id,
         \A h \in Handlers : pc'[h] = "update" => pc[h] = "update"
  PROVE  IdInv'
<1>1. \A h \in Handlers : pc'[h] = "update" => Working(h)'
  BY DEF Working
<1> QED BY <1>1 DEF IdInv

LEMMA IdInit == Init => IdInv
  BY DEF Init, IdInv, Working

LEMMA IdNext == Typed /\ IdInv /\ [Next]_vars => IdInv'
<1> SUFFICES ASSUME Typed, IdInv, [Next]_vars PROVE IdInv'
  OBVIOUS
<1>0. /\ pc \in [Handlers -> Steps] /\ task \in [Handlers -> Assigned \union {NoTask}]
      /\ requests \in 0..MaxRequests /\ requests \in Nat
  BY BoundAssumption DEF Typed, TypeOK, Steps, Assigned
<1>a. \A h \in Handlers : Working(h) => task[h].id \in Nat
  BY AssignedType
<1>1. ASSUME NEW h \in Handlers, Receive(h) PROVE IdInv'
  <2>1. PICK r \in Requests :
          /\ task' = [task EXCEPT ![h] = [id |-> requests + 1, request |-> r]]
          /\ pc' = [pc EXCEPT ![h] = FirstStep(r.kind)]
    BY <1>1 DEF Receive
  <2>2. requests' = requests + 1 /\ accepted' = accepted
    BY <1>1 DEF Receive
  <2>3. task'[h].id = requests + 1
    BY <1>0, <2>1
  <2>4. \A k \in Handlers : k # h => task'[k] = task[k] /\ pc'[k] = pc[k]
    BY <1>0, <2>1
  <2>5. \A k \in Handlers : k # h /\ Working(k)' => task'[k].id \in Nat /\ task'[k].id <= requests
    BY <1>a, <2>4 DEF IdInv, Working
  <2>6. requests + 1 \notin accepted
    BY <1>0 DEF IdInv
  <2>7. accepted' \subseteq 1..requests'
    BY <1>0, <2>2 DEF IdInv
  <2>8. \A k \in Handlers : Working(k)' => task'[k].id <= requests'
    BY <1>0, <2>2, <2>3, <2>5
  <2>9. ASSUME NEW j \in Handlers, NEW k \in Handlers, j # k, Working(j)', Working(k)'
        PROVE  task'[j].id # task'[k].id
    <3>1. CASE j = h
      BY <1>0, <2>3, <2>5, <2>9, <3>1
    <3>2. CASE k = h
      BY <1>0, <2>3, <2>5, <2>9, <3>2
    <3>3. CASE j # h /\ k # h
      BY <2>4, <2>9, <3>3 DEF IdInv, Working
    <3> QED BY <3>1, <3>2, <3>3
  <2>10. \A k \in Handlers : pc'[k] = "update" => task'[k].id \notin accepted'
    BY <2>2, <2>3, <2>4, <2>6 DEF IdInv
  <2> QED BY <2>7, <2>8, <2>9, <2>10 DEF IdInv
<1>2. ASSUME NEW h \in Handlers, UpdateStore(h) PROVE IdInv'
  <2>1. pc[h] = "update" /\ Working(h) /\ UNCHANGED <<task, requests>>
    BY <1>2 DEF UpdateStore, Working
  <2>2. PICK st \in {"save", "notify", "replied"} : pc' = [pc EXCEPT ![h] = st]
    BY <1>2 DEF UpdateStore, AnswerStatus, Answer, GoTo
  <2>3. accepted' = accepted \/ accepted' = accepted \union {task[h].id}
    BY <1>2 DEF UpdateStore
  <2>4. \A k \in Handlers : /\ Working(k)' => Working(k)
                            /\ pc'[k] = "update" => pc[k] = "update" /\ k # h /\ Working(k)
    BY <1>0, <2>1, <2>2 DEF Working
  <2>5. task[h].id \in 1..requests
    BY <1>0, <2>1, AssignedType DEF IdInv
  <2>6. accepted' \subseteq 1..requests'
    BY <2>1, <2>3, <2>5 DEF IdInv
  <2>7. \A k \in Handlers : pc'[k] = "update" => task'[k].id \notin accepted'
    BY <2>1, <2>3, <2>4 DEF IdInv
  <2> QED BY <2>1, <2>4, <2>6, <2>7 DEF IdInv
<1>3. ASSUME NEW h \in Handlers, Saved(h) \/ Published(h) PROVE IdInv'
  <2>1. PICK st \in {"notify", "reread", "replied"} : pc' = [pc EXCEPT ![h] = st]
    BY <1>3 DEF Saved, Published, AnswerStatus, Answer, GoTo
  <2>2. Working(h) /\ UNCHANGED <<accepted, requests, task>>
    BY <1>3 DEF Saved, Published, Working
  <2> QED BY <1>0, <2>1, <2>2, SameIds DEF Working
<1>4. ASSUME NEW h \in Handlers, ReaderStep(h) PROVE IdInv'
  <2>1. \/ pc' = [pc EXCEPT ![h] = "replied"]
        \/ pc' = [pc EXCEPT ![h] = "counters"]
    BY <1>4, ReaderEffect
  <2>2. Working(h) /\ UNCHANGED <<accepted, requests, task>>
    BY <1>4, ReaderEffect DEF readOnly
  <2> QED BY <1>0, <2>1, <2>2, SameIds DEF Working
<1>5. ASSUME NEW h \in Handlers, Done(h) PROVE IdInv'
  <2>1. /\ pc' = [pc EXCEPT ![h] = "idle"] /\ task' = [task EXCEPT ![h] = NoTask]
        /\ UNCHANGED <<accepted, requests>>
    BY <1>5 DEF Done
  <2>2. \A k \in Handlers : Working(k)' => k # h
    BY <1>0, <2>1 DEF Working
  <2> QED BY <1>0, <2>1, <2>2, SameIds DEF Working
<1>6. ASSUME UNCHANGED <<accepted, requests, pc, task>> PROVE IdInv'
  BY <1>6, SameIds DEF Working
<1>7. ASSUME NEW h \in Handlers, WriteLine(h) \/ Post(h) PROVE IdInv'
  BY <1>6, <1>7 DEF WriteLine, Post, handlerVars
<1>8. CASE Signal
  BY <1>6, <1>8 DEF Signal, handlerVars
<1>9. ASSUME NEW ph, End(ph) PROVE IdInv'
  BY <1>9, SameIds DEF End, Working
<1>10. CASE UNCHANGED vars
  BY <1>6, <1>10 DEF vars, handlerVars
<1> QED
  BY <1>1, <1>2, <1>3, <1>4, <1>5, <1>7, <1>8, <1>9, <1>10
     DEF Next, HandlerStep, ReaderStep, Exit, ShutdownTimeout

LEMMA MissingFinite ==
  ASSUME Typed PROVE IsFiniteSet(accepted) /\ IsFiniteSet(Missing) /\ Cardinality(Missing) \in Nat
<1>1. MaxRequests \in Int /\ accepted \subseteq 1..MaxRequests
  BY BoundAssumption DEF Typed, TypeOK
<1>2. IsFiniteSet(accepted)
  <2>1. IsFiniteSet(1..MaxRequests)
    BY <1>1, 1 \in Int, FS_Interval
  <2> QED BY <1>1, <2>1, FS_Subset
<1>3. Missing \subseteq accepted
  BY DEF Missing
<1>4. IsFiniteSet(Missing)
  BY <1>2, <1>3, FS_Subset
<1> QED BY <1>2, <1>4, FS_CardinalityType

\* The file stays as it is, and so does who is going to write a line.
LEMMA SameLines ==
  ASSUME LineInv, MissingInv, UNCHANGED <<mode, accepted, auditFile, torn, writeFailures>>,
         phase' # "killed" => phase # "killed",
         \A h \in Handlers : WillWrite(h)' <=> WillWrite(h),
         \A h \in Handlers : WillWrite(h) => task'[h].id = task[h].id
  PROVE  LineInv' /\ MissingInv'
<1>1. Lines' = Lines
  BY DEF Lines
<1>2. Missing' = Missing
  BY <1>1 DEF Missing
<1>3. LineInv'
  BY <1>1 DEF LineInv
<1>4. MissingInv'
  BY <1>2 DEF MissingInv, UsesFile
<1> QED BY <1>3, <1>4

LEMMA LineInit == Init => LineInv /\ MissingInv
<1> SUFFICES ASSUME Init PROVE LineInv /\ MissingInv
  OBVIOUS
<1>1. Lines = {} /\ Missing = {} /\ Len(auditFile) = 0
  BY DEF Init, Lines, Missing
<1>2. \A h \in Handlers : ~WillWrite(h)
  BY DEF Init, WillWrite
<1>3. ~torn /\ writeFailures = 0
  BY DEF Init
<1> QED BY <1>1, <1>2, <1>3, FS_EmptySet DEF LineInv, MissingInv

LEMMA LineUpdate ==
  ASSUME Typed, EndInv, ToldInv, IdInv, LineInv, MissingInv,
         NEW h \in Handlers, UpdateStore(h)
  PROVE  LineInv' /\ MissingInv'
<1>0. pc \in [Handlers -> Steps] /\ mode \in Modes
      /\ phase \in {"running", "draining", "exited", "killed"}
  BY DEF Typed, TypeOK, Steps
<1>1. /\ UNCHANGED <<mode, phase, next, auditFile, torn, writeFailures, task>>
      /\ pc[h] = "update"
  BY DEF UpdateStore, auditVars
<1>2. \/ pc' = [pc EXCEPT ![h] = "replied"] /\ UNCHANGED accepted
      \/ /\ accepted' = accepted \union {task[h].id}
         /\ \E st \in {"save", "notify"} : pc' = [pc EXCEPT ![h] = st]
  BY DEF UpdateStore, AnswerStatus, Answer, GoTo
<1>3. \A k \in Handlers : k # h => (WillWrite(k)' <=> WillWrite(k))
  BY <1>0, <1>1, <1>2 DEF WillWrite
<1>4. ~WillWrite(h)
  BY <1>1 DEF WillWrite
<1>5. CASE pc' = [pc EXCEPT ![h] = "replied"] /\ UNCHANGED accepted
  <2>1. ~WillWrite(h)'
    BY <1>0, <1>5 DEF WillWrite
  <2> QED BY <1>1, <1>3, <1>4, <1>5, <2>1, SameLines
<1>6. CASE /\ accepted' = accepted \union {task[h].id}
           /\ \E st \in {"save", "notify"} : pc' = [pc EXCEPT ![h] = st]
  <2>1. Lines' = Lines
    BY <1>1 DEF Lines
  <2>2. task[h].id \notin Lines
    BY <1>1 DEF IdInv, LineInv
  <2>3. LineInv'
    BY <1>1, <1>3, <1>6, <2>1, <2>2 DEF LineInv
  <2>4. ASSUME UsesFile', phase' # "killed"
        PROVE  Cardinality(Missing') + (IF torn' THEN 1 ELSE 0) <= 2 * writeFailures'
    <3>1. UsesFile /\ phase # "killed"
      BY <1>1, <2>4 DEF UsesFile
    <3>2. phase \in {"running", "draining"}
      BY <1>0, <1>1 DEF EndInv
    <3>3. next[h] = 1
      BY <1>1, <3>2 DEF ToldInv
    <3>4. PICK i \in DOMAIN mode.listeners : mode.listeners[i] = "file"
      BY <3>1 DEF UsesFile
    <3>5. i \in 1..2
      BY <1>0, <3>4, ListenersAreTwo
    <3>6. pc'[h] \in {"save", "notify"}
      BY <1>0, <1>6
    <3>7. WillWrite(h)'
      BY <1>1, <3>3, <3>4, <3>5, <3>6 DEF WillWrite
    <3>8. Missing' \subseteq Missing
      BY <1>1, <1>3, <1>4, <1>6, <2>1, <3>7 DEF Missing
    <3>9. Cardinality(Missing') <= Cardinality(Missing) /\ Cardinality(Missing') \in Nat
      BY <3>8, MissingFinite, FS_Subset, FS_CardinalityType
    <3> QED BY <1>1, <3>1, <3>9, MissingFinite DEF MissingInv, Typed, TypeOK
  <2> QED BY <2>3, <2>4 DEF MissingInv
<1> QED BY <1>2, <1>5, <1>6

LEMMA LineWrite ==
  ASSUME Typed, ToldInv, IdInv, LineInv, MissingInv, NEW h \in Handlers, WriteLine(h)
  PROVE  LineInv' /\ MissingInv'
<1> DEFINE e == task[h].id
<1>0. /\ pc \in [Handlers -> Steps] /\ mode \in Modes /\ next \in [Handlers -> 1..3]
      /\ auditFile \in Seq(1..MaxRequests) /\ torn \in BOOLEAN /\ writeFailures \in Nat
  BY DEF Typed, TypeOK, Steps
<1>1. /\ UNCHANGED <<mode, phase, accepted, task, pc>>
      /\ next' = [next EXCEPT ![h] = next[h] + 1]
      /\ AtListener(h, "file")
  BY DEF WriteLine, Told, handlerVars
<1>2. /\ pc[h] = "notify" /\ Working(h)
      /\ next[h] \in DOMAIN mode.listeners /\ mode.listeners[next[h]] = "file"
  BY <1>1 DEF AtListener, Working
<1>3. e \in accepted /\ e \in 1..MaxRequests
  BY <1>2, AssignedType DEF ToldInv
<1>4. WillWrite(h) /\ e \notin Lines
  <2>1. WillWrite(h)
    BY <1>0, <1>2 DEF WillWrite
  <2> QED BY <2>1 DEF LineInv
<1>5. ~WillWrite(h)'
  <2>1. next'[h] = next[h] + 1
    BY <1>0, <1>1
  <2>2. \A i \in DOMAIN mode.listeners : mode.listeners[i] = "file" => i = 1
    BY <1>0, ListenersAreTwo
  <2> QED BY <1>0, <1>1, <2>1, <2>2 DEF WillWrite
<1>6. \A k \in Handlers : k # h =>
        /\ WillWrite(k)' <=> WillWrite(k)
        /\ WillWrite(k) => task[k].id # e
  BY <1>0, <1>1, <1>2 DEF WillWrite, IdInv, Working
<1>7. \/ auditFile' = Append(auditFile, e) /\ ~torn /\ ~torn' /\ writeFailures' = writeFailures
      \/ auditFile' = auditFile /\ torn /\ ~torn' /\ writeFailures' = writeFailures
      \/ auditFile' = auditFile /\ torn' \in BOOLEAN /\ writeFailures' = writeFailures + 1
  <2>1. torn' \in BOOLEAN
    BY <1>0, Zenon DEF WriteLine
  <2> QED BY <2>1 DEF WriteLine
<1>8. CASE auditFile' = Append(auditFile, e) /\ ~torn /\ ~torn' /\ writeFailures' = writeFailures
  <2>1. Lines' = Lines \union {e} /\ Len(auditFile') = Len(auditFile) + 1
    <3>1. /\ DOMAIN auditFile = 1..Len(auditFile) /\ Len(auditFile) \in Nat
          /\ DOMAIN auditFile' = 1..(Len(auditFile) + 1)
          /\ Len(auditFile') = Len(auditFile) + 1
          /\ auditFile'[Len(auditFile) + 1] = e
          /\ \A i \in 1..Len(auditFile) : auditFile'[i] = auditFile[i]
      BY <1>0, <1>3, <1>8
    <3>2. \A i \in DOMAIN auditFile' : i \in DOMAIN auditFile \/ i = Len(auditFile) + 1
      BY <3>1
    <3>3. DOMAIN auditFile \subseteq DOMAIN auditFile' /\ Len(auditFile) + 1 \in DOMAIN auditFile'
      BY <3>1
    <3> QED BY <3>1, <3>2, <3>3 DEF Lines
  <2>2. IsFiniteSet(Lines') /\ Cardinality(Lines') = Len(auditFile')
    BY <1>4, <2>1, FS_AddElement DEF LineInv
  <2>3. LineInv'
    BY <1>1, <1>3, <1>5, <1>6, <2>1, <2>2 DEF LineInv
  <2>4. Missing' \subseteq Missing
    BY <1>1, <1>4, <1>5, <1>6, <2>1 DEF Missing
  <2>5. Cardinality(Missing') <= Cardinality(Missing) /\ Cardinality(Missing') \in Nat
    BY <2>4, MissingFinite, FS_Subset, FS_CardinalityType
  <2>6. MissingInv'
    BY <1>0, <1>1, <1>8, <2>5, MissingFinite DEF MissingInv, UsesFile
  <2> QED BY <2>3, <2>6
<1>9. CASE auditFile' = auditFile
  <2>1. Lines' = Lines
    BY <1>9 DEF Lines
  <2>2. LineInv'
    BY <1>1, <1>5, <1>6, <1>9, <2>1 DEF LineInv
  <2>3. Missing' \subseteq Missing \union {e}
    BY <1>1, <1>5, <1>6, <2>1 DEF Missing
  <2>4. /\ IsFiniteSet(Missing \union {e})
        /\ Cardinality(Missing \union {e}) <= Cardinality(Missing) + 1
        /\ Cardinality(Missing \union {e}) \in Nat
    BY MissingFinite, FS_AddElement
  <2>5. /\ Cardinality(Missing') <= Cardinality(Missing \union {e})
        /\ Cardinality(Missing') \in Nat
    BY <2>3, <2>4, FS_Subset, FS_CardinalityType
  <2>6. Cardinality(Missing') <= Cardinality(Missing) + 1
    BY <2>4, <2>5, MissingFinite
  <2>7. MissingInv'
    BY <1>0, <1>1, <1>4, <1>7, <1>9, <2>5, <2>6, MissingFinite DEF MissingInv, UsesFile
  <2> QED BY <2>2, <2>7
<1> QED BY <1>7, <1>8, <1>9

LEMMA LineNext ==
    Typed /\ EndInv /\ ToldInv /\ IdInv /\ LineInv /\ MissingInv /\ [Next]_vars => LineInv' /\ MissingInv'
<1> SUFFICES ASSUME Typed, EndInv, ToldInv, IdInv, LineInv, MissingInv, [Next]_vars
             PROVE  LineInv' /\ MissingInv'
  OBVIOUS
<1>0. /\ pc \in [Handlers -> Steps] /\ next \in [Handlers -> 1..3] /\ mode \in Modes
      /\ task \in [Handlers -> Assigned \union {NoTask}]
  BY DEF Typed, TypeOK, Steps, Assigned
<1>1. ASSUME UNCHANGED <<mode, accepted, auditFile, torn, writeFailures>>, phase' = phase,
             NEW h \in Handlers, WillWrite(h)' <=> WillWrite(h),
             WillWrite(h) => task'[h].id = task[h].id,
             \A k \in Handlers : k # h => pc'[k] = pc[k] /\ next'[k] = next[k] /\ task'[k] = task[k]
      PROVE  LineInv' /\ MissingInv'
  <2>1. \A k \in Handlers : k # h => (WillWrite(k)' <=> WillWrite(k))
    BY <1>1 DEF WillWrite
  <2> QED BY <1>1, <2>1, SameLines
<1>2. ASSUME NEW h \in Handlers, Receive(h) PROVE LineInv' /\ MissingInv'
  <2>1. PICK r \in Requests :
          /\ task' = [task EXCEPT ![h] = [id |-> requests + 1, request |-> r]]
          /\ pc' = [pc EXCEPT ![h] = FirstStep(r.kind)]
    BY <1>2 DEF Receive
  <2>2. FirstStep(r.kind) \notin {"save", "notify"}
    BY RequestsAssumption DEF FirstStep, Request, Updates, Reads
  <2>3. pc[h] = "idle"
        /\ UNCHANGED <<mode, phase, accepted, next, auditFile, torn, writeFailures>>
    BY <1>2 DEF Receive
  <2>4. ~WillWrite(h) /\ ~WillWrite(h)'
    BY <1>0, <2>1, <2>2, <2>3 DEF WillWrite
  <2>5. \A k \in Handlers : k # h => pc'[k] = pc[k] /\ next'[k] = next[k] /\ task'[k] = task[k]
    BY <1>0, <2>1, <2>3
  <2> QED BY <1>1, <2>3, <2>4, <2>5
<1>3. ASSUME NEW h \in Handlers, Saved(h) PROVE LineInv' /\ MissingInv'
  <2>1. pc[h] = "save" /\ pc' = [pc EXCEPT ![h] = "notify"]
        /\ UNCHANGED <<mode, phase, accepted, next, auditFile, torn, writeFailures, task>>
    BY <1>3 DEF Saved, GoTo, auditVars
  <2>2. WillWrite(h)' <=> WillWrite(h)
    BY <1>0, <2>1 DEF WillWrite
  <2> QED BY <1>0, <1>1, <2>1, <2>2
<1>4. ASSUME NEW h \in Handlers, Post(h) PROVE LineInv' /\ MissingInv'
  <2>1. AtListener(h, "url")
        /\ UNCHANGED <<mode, phase, accepted, auditFile, torn, writeFailures, pc, task>>
    BY <1>4 DEF Post, handlerVars
  <2>2. next' = next \/ next' = [next EXCEPT ![h] = next[h] + 1]
    BY <1>4 DEF Post, Told
  <2>3. \A i \in DOMAIN mode.listeners :
          i \in 1..2 /\ (mode.listeners[i] = "file" => i # next[h])
    BY <1>0, <2>1, ListenersAreTwo DEF AtListener
  <2>4. WillWrite(h)' <=> WillWrite(h)
    BY <1>0, <2>1, <2>2, <2>3 DEF WillWrite
  <2>5. \A k \in Handlers : k # h => next'[k] = next[k]
    BY <1>0, <2>2
  <2> QED BY <1>1, <2>1, <2>4, <2>5
<1>5. ASSUME NEW h \in Handlers, Published(h) PROVE LineInv' /\ MissingInv'
  <2>1. PICK st \in {"reread", "replied"} : pc' = [pc EXCEPT ![h] = st]
    BY <1>5 DEF Published, AnswerStatus, Answer, GoTo
  <2>2. UNCHANGED <<mode, phase, accepted, next, auditFile, torn, writeFailures, task>>
    BY <1>5 DEF Published, auditVars
  <2>3. ~WillWrite(h)
    <3>1. next[h] > Len(mode.listeners) /\ next[h] \in Nat
      BY <1>0, <1>5 DEF Published, AllTold
    <3>2. DOMAIN mode.listeners = 1..Len(mode.listeners) /\ Len(mode.listeners) \in Nat
      BY <1>0, ListenersAreTwo
    <3> QED BY <3>1, <3>2 DEF WillWrite
  <2>4. ~WillWrite(h)'
    BY <1>0, <2>1 DEF WillWrite
  <2>5. \A k \in Handlers : k # h => pc'[k] = pc[k]
    BY <1>0, <2>1
  <2> QED BY <1>1, <2>2, <2>3, <2>4, <2>5
<1>6. ASSUME NEW h \in Handlers, ReaderStep(h) PROVE LineInv' /\ MissingInv'
  <2>1. UNCHANGED <<mode, phase, accepted, next, auditFile, torn, writeFailures, task>>
    BY <1>6, ReaderEffect DEF readOnly, auditVars
  <2>2. pc[h] \in {"reread", "value", "gauges", "counters", "ping"}
    BY <1>6, ReaderEffect
  <2>3. \/ pc' = [pc EXCEPT ![h] = "replied"]
        \/ pc' = [pc EXCEPT ![h] = "counters"]
    BY <1>6, ReaderEffect
  <2>4. ~WillWrite(h) /\ ~WillWrite(h)'
    BY <1>0, <2>2, <2>3 DEF WillWrite
  <2>5. \A k \in Handlers : k # h => pc'[k] = pc[k]
    BY <1>0, <2>3
  <2> QED BY <1>1, <2>1, <2>4, <2>5
<1>7. ASSUME NEW h \in Handlers, Done(h) PROVE LineInv' /\ MissingInv'
  <2>1. /\ pc[h] = "replied" /\ pc' = [pc EXCEPT ![h] = "idle"]
        /\ next' = [next EXCEPT ![h] = 1] /\ task' = [task EXCEPT ![h] = NoTask]
        /\ UNCHANGED <<mode, phase, accepted, auditFile, torn, writeFailures>>
    BY <1>7 DEF Done
  <2>2. ~WillWrite(h) /\ ~WillWrite(h)'
    BY <1>0, <2>1 DEF WillWrite
  <2>3. \A k \in Handlers : k # h => pc'[k] = pc[k] /\ next'[k] = next[k] /\ task'[k] = task[k]
    BY <1>0, <2>1
  <2> QED BY <1>1, <2>1, <2>2, <2>3
<1>8. CASE Signal \/ UNCHANGED vars
  <2>1. /\ UNCHANGED <<mode, accepted, next, auditFile, torn, writeFailures, pc, task>>
        /\ phase' # "killed" => phase # "killed"
    BY <1>8 DEF Signal, vars, auditVars, handlerVars
  <2>2. \A h \in Handlers : WillWrite(h)' <=> WillWrite(h)
    BY <2>1 DEF WillWrite
  <2> QED BY <2>1, <2>2, SameLines
<1>9. CASE Exit
  <2>1. /\ phase # "killed" /\ UNCHANGED <<mode, accepted, auditFile, torn, writeFailures>>
        /\ \A h \in Handlers : pc[h] = "idle" /\ pc'[h] = "idle"
    BY <1>9 DEF Exit, End, Idle, Working, auditVars
  <2>2. \A h \in Handlers : ~WillWrite(h) /\ ~WillWrite(h)'
    BY <2>1 DEF WillWrite
  <2> QED BY <2>1, <2>2, SameLines
<1>10. CASE ShutdownTimeout
  <2>1. /\ phase' = "killed" /\ UNCHANGED <<accepted, auditFile>>
        /\ \A h \in Handlers : pc'[h] = "idle"
    BY <1>10 DEF ShutdownTimeout, End, auditVars
  <2>2. Lines' = Lines /\ \A h \in Handlers : ~WillWrite(h)'
    BY <2>1 DEF Lines, WillWrite
  <2> QED BY <2>1, <2>2 DEF LineInv, MissingInv
<1> QED
  BY <1>2, <1>3, <1>4, <1>5, <1>6, <1>7, <1>8, <1>9, <1>10, LineUpdate, LineWrite
     DEF Next, HandlerStep, ReaderStep

\* Every accepted update gets one line in the audit file, but for the line of a
\* failed write and the one behind it, whatever the order in which handlers write;
\* no line is there twice or without an accepted update.
THEOREM AuditIsComplete == Spec => []AcceptedIsAudited
<1>1. Typed /\ LineInv /\ MissingInv => AcceptedIsAudited
  <2> SUFFICES ASSUME Typed, LineInv, MissingInv PROVE AcceptedIsAudited
    OBVIOUS
  <2>1. Cardinality(Lines) = Len(auditFile) /\ Lines \subseteq accepted
    BY DEF LineInv
  <2>2. ASSUME UsesFile, phase # "killed"
        PROVE  Cardinality(Concluded \ Lines) <= 2 * writeFailures
    <3>1. Concluded \ Lines \subseteq Missing
      BY DEF Concluded, Missing, WillWrite
    <3>2. /\ Cardinality(Concluded \ Lines) <= Cardinality(Missing)
          /\ Cardinality(Concluded \ Lines) \in Nat
      BY <3>1, MissingFinite, FS_Subset, FS_CardinalityType
    <3> QED BY <2>2, <3>2, MissingFinite DEF MissingInv, Typed, TypeOK
  <2>3. "file" \in {mode.listeners[i] : i \in DOMAIN mode.listeners} => UsesFile
    BY DEF UsesFile
  <2> QED BY <2>1, <2>2, <2>3 DEF AcceptedIsAudited
<1> QED
  BY <1>1, TypeInit, TypeNext, EndInit, EndNext, ToldInit, ToldNext, IdInit, IdNext,
     LineInit, LineNext, PTL DEF Spec
=============================================================================
