------------------------------ MODULE Delivery ------------------------------
(***************************************************************************)
(* How a report gets from a worker of the agent to the server's store:     *)
(* MetricsSender.SendMetricsBatch over HTTP or gRPC (internal/agent/       *)
(* sender.go, grpc.go) makes up to three attempts (internal/retry), each   *)
(* with a timeout of five seconds, and takes anything but a success for a  *)
(* failure. Requests and answers may be lost or late; the server works on  *)
(* a request whose sender has given up.                                    *)
(*                                                                         *)
(* Workers take the reports from the pool's queue in order (WorkerPool).   *)
(* The server applies a report as a whole or not at all (AtomicStore, which*)
(* BatchTx implements); a report stands for its gauges by its number.      *)
(***************************************************************************)
EXTENDS Naturals

CONSTANTS
    Workers,    \* workers of the pool
    MaxReports  \* bound: reports of a behaviour

ASSUME MaxReportsAssumption == MaxReports \in Nat

Reports == 1..MaxReports
MaxRetries == 3
Request == Reports \X (1..MaxRetries)

VARIABLES
    taken,    \* reports the workers have taken from the queue
    takenBy,  \* history: the reports each worker has taken
    pc,       \* "idle", "attempt" or "waiting" for each worker
    report,   \* the report it sends, 0 before the first
    try,      \* the attempt it is at
    requests, \* requests on the way to the server
    replies,  \* answers on the way back, with whether they are a success
    applied,  \* how often the server has applied each report
    gauge,    \* the report whose gauges the store holds
    outcome   \* what SendMetricsBatch has returned for each report

senderVars == <<taken, takenBy, pc, report, try, outcome>>
vars == <<senderVars, requests, replies, applied, gauge>>

Init ==
    /\ taken = 0
    /\ takenBy = [w \in Workers |-> {}]
    /\ pc = [w \in Workers |-> "idle"]
    /\ report = [w \in Workers |-> 0]
    /\ try = [w \in Workers |-> 0]
    /\ requests = {} /\ replies = {}
    /\ applied = [r \in Reports |-> 0]
    /\ gauge = 0
    /\ outcome = [r \in Reports |-> "none"]

-----------------------------------------------------------------------------
(* The sender *)

\* The reports are kept in a map and not in a queue.
Take_AnyOrder(w) ==
    /\ pc[w] = "idle"
    /\ \E r \in Reports \ UNION {takenBy[v] : v \in Workers} :
         /\ takenBy' = [takenBy EXCEPT ![w] = @ \union {r}]
         /\ report' = [report EXCEPT ![w] = r]
    /\ taken' = taken + 1
    /\ try' = [try EXCEPT ![w] = 1]
    /\ pc' = [pc EXCEPT ![w] = "attempt"]
    /\ UNCHANGED <<requests, replies, applied, gauge, outcome>>

\* worker: the next report of the queue is handed to SendMetricsBatch. A report
\* always holds PollCount, so the early return on an empty one is never taken.
Take(w) ==
    /\ pc[w] = "idle"
    /\ taken < MaxReports
    /\ taken' = taken + 1
    /\ takenBy' = [takenBy EXCEPT ![w] = @ \union {taken + 1}]
    /\ report' = [report EXCEPT ![w] = taken + 1]
    /\ try' = [try EXCEPT ![w] = 1]
    /\ pc' = [pc EXCEPT ![w] = "attempt"]
    /\ UNCHANGED <<requests, replies, applied, gauge, outcome>>

\* The closure of retry.Do: a new request with the same payload.
Attempt(w) ==
    /\ pc[w] = "attempt"
    /\ requests' = requests \union {<<report[w], try[w]>>}
    /\ pc' = [pc EXCEPT ![w] = "waiting"]
    /\ UNCHANGED <<taken, takenBy, report, try, replies, applied, gauge, outcome>>

\* The attempts are counted from the first retry.
GivesUp_AfterRetries(w) == try[w] > MaxRetries

\* retry.Attempts counts the first attempt too.
GivesUp(w) == try[w] >= MaxRetries

\* The closure has returned an error: again after a delay, or the last error.
Failed(w) ==
    /\ IF GivesUp(w)
         THEN /\ pc' = [pc EXCEPT ![w] = "idle"]
              /\ outcome' = [outcome EXCEPT ![report[w]] = "error"]
              /\ UNCHANGED try
         ELSE /\ pc' = [pc EXCEPT ![w] = "attempt"]
              /\ try' = [try EXCEPT ![w] = @ + 1]
              /\ UNCHANGED outcome
    /\ UNCHANGED <<taken, takenBy, report>>

\* An answer is an answer, whatever its status.
Succeeds_AnyStatus(status) == TRUE

\* StatusOK, or no gRPC error.
Succeeds(status) == status

Answered(w) ==
    /\ pc[w] = "waiting"
    /\ \E status \in BOOLEAN :
         /\ <<report[w], try[w], status>> \in replies
         /\ replies' = replies \ {<<report[w], try[w], status>>}
         /\ IF Succeeds(status)
              THEN /\ outcome' = [outcome EXCEPT ![report[w]] = "ok"]
                   /\ pc' = [pc EXCEPT ![w] = "idle"]
                   /\ UNCHANGED <<taken, takenBy, report, try>>
              ELSE Failed(w)
    /\ UNCHANGED <<requests, applied, gauge>>

\* The connection fails, or five seconds are over; an answer on its way is lost.
Timeout(w) ==
    /\ pc[w] = "waiting"
    /\ Failed(w)
    /\ replies' = {a \in replies : a[1] # report[w]}
    /\ UNCHANGED <<requests, applied, gauge>>

\* A worker whose report has timed out waits for its answer for ever.
SenderStep_NoTimeout(w) == Take(w) \/ Attempt(w) \/ Answered(w)

SenderStep(w) == Take(w) \/ Attempt(w) \/ Answered(w) \/ Timeout(w)

-----------------------------------------------------------------------------
(* Network and server *)

\* No sender waits for this request any more.
Late(m) == \A w \in Workers : pc[w] = "waiting" => <<report[w], try[w]>> # m

\* The server settles one request: all of the report or nothing, a success only
\* with all of it. Requests on different connections are served in any order; a
\* lost one is one that is never served.
Serve ==
    /\ \E m \in requests, status, takes \in BOOLEAN :
         /\ status => takes
         /\ requests' = requests \ {m}
         /\ replies' = IF Late(m) THEN replies ELSE replies \union {<<m[1], m[2], status>>}
         /\ applied' = IF takes THEN [applied EXCEPT ![m[1]] = @ + 1] ELSE applied
         /\ gauge' = IF takes THEN m[1] ELSE gauge
    /\ UNCHANGED senderVars

Next == (\E w \in Workers : SenderStep(w)) \/ Serve

Spec == Init /\ [][Next]_vars

\* Workers run and timers fire; nothing is assumed of network and server.
FairSpec == Spec /\ \A w \in Workers : WF_vars(SenderStep(w))

-----------------------------------------------------------------------------
(* Properties *)

\* A report is applied three times at most, lost answers, late requests and all:
\* its deltas, which are added each time, are never counted more often.
AppliedThreeTimesAtMost == \A r \in Reports : applied[r] <= MaxRetries

\* SendMetricsBatch returns nil only for a report the server has applied; one
\* that has not been handed to it is not applied.
SuccessMeansApplied ==
    \A r \in Reports :
        /\ outcome[r] = "ok" => applied[r] > 0
        /\ applied[r] > 0 => r <= taken

\* The store goes back to older gauges only through a request its sender has
\* given up, or when another worker has overtaken: one worker keeps its reports
\* in order.
OneWorkerKeepsOrder ==
    [][\A w \in Workers : gauge' < gauge /\ {gauge, gauge'} \subseteq takenBy[w]
         => \E m \in requests \ requests' : Late(m)]_vars

\* The sending of every report comes to an end, whatever the network does.
SendEnds == \A r \in Reports : r <= taken ~> outcome[r] # "none"
=============================================================================
