--------------------------- MODULE DeliveryProofs ---------------------------
(***************************************************************************)
(* Proofs about Delivery, for any number of workers and reports, over a    *)
(* network that loses, delays and reorders what it likes.                  *)
(***************************************************************************)
EXTENDS Delivery, TLAPS

-----------------------------------------------------------------------------
(* The inductive invariant *)

Typed ==
    /\ taken \in 0..MaxReports
    /\ takenBy \in [Workers -> SUBSET Reports]
    /\ pc \in [Workers -> {"idle", "attempt", "waiting"}]
    /\ report \in [Workers -> 0..MaxReports]
    /\ try \in [Workers -> 0..MaxRetries]
    /\ requests \subseteq Request
    /\ replies \subseteq Reports \X (1..MaxRetries) \X BOOLEAN
    /\ applied \in [Reports -> Nat]
    /\ gauge \in 0..MaxReports
    /\ outcome \in [Reports -> {"none", "ok", "error"}]

\* The queue hands out each report once, and to each worker in order.
TakenInv ==
    /\ \A w \in Workers : \A r \in takenBy[w] : r <= taken /\ r <= report[w]
    /\ \A v, w \in Workers : v # w => takenBy[v] \intersect takenBy[w] = {}
    /\ \A w \in Workers : pc[w] # "idle" => report[w] \in takenBy[w] /\ try[w] \in 1..MaxRetries

OnTheWay(r, n) == IF <<r, n>> \in requests THEN 1 ELSE 0

\* How often the server has applied a report, or may do so yet.
Copies(r) == applied[r] + OnTheWay(r, 1) + OnTheWay(r, 2) + OnTheWay(r, 3)

\* Each attempt is one copy, and only attempts that were made are on the way.
CopiesInv ==
    /\ \A r \in Reports : Copies(r) <= MaxRetries
    /\ \A r \in Reports : r > taken => Copies(r) = 0
    /\ \A w \in Workers : pc[w] = "attempt" =>
         /\ Copies(report[w]) <= try[w] - 1
         /\ \A n \in 1..MaxRetries : <<report[w], n>> \in requests => n < try[w]
    /\ \A w \in Workers : pc[w] = "waiting" =>
         /\ Copies(report[w]) <= try[w]
         /\ \A n \in 1..MaxRetries : <<report[w], n>> \in requests => n <= try[w]

\* The server answers with success when it has applied the report.
AnswersInv ==
    /\ \A a \in replies : a[3] => applied[a[1]] > 0
    /\ \A r \in Reports : outcome[r] = "ok" => applied[r] > 0

IInv == Typed /\ TakenInv /\ CopiesInv /\ AnswersInv

USE DEF Reports, MaxRetries, Request

LEMMA InvInit == Init => IInv
<1> SUFFICES ASSUME Init PROVE IInv
  OBVIOUS
<1> USE MaxReportsAssumption DEF Init
<1>1. Typed
  BY DEF Typed
<1>2. TakenInv
  BY DEF TakenInv
<1>3. CopiesInv
  BY DEF CopiesInv, Copies, OnTheWay
<1>4. AnswersInv
  BY DEF AnswersInv
<1> QED BY <1>1, <1>2, <1>3, <1>4 DEF IInv

\* Two workers never have the same report.
LEMMA OwnReport ==
    ASSUME TakenInv, NEW v \in Workers, NEW w \in Workers, v # w, pc[v] # "idle", pc[w] # "idle"
    PROVE  report[v] # report[w]
BY DEF TakenInv

LEMMA Fields ==
    ASSUME Typed
    PROVE  /\ \A w \in Workers : try[w] \in Nat /\ report[w] \in Nat
           /\ \A r \in Reports : applied[r] \in Nat
           /\ taken \in Nat /\ gauge \in Nat
<1>1. try \in [Workers -> 0..3] /\ report \in [Workers -> 0..MaxReports]
  BY DEF Typed
<1>2. taken \in 0..MaxReports /\ gauge \in 0..MaxReports /\ applied \in [Reports -> Nat]
  BY DEF Typed
<1> QED BY <1>1, <1>2

LEMMA CopiesAreNat == ASSUME Typed, NEW r \in Reports PROVE Copies(r) \in Nat /\ applied[r] <= Copies(r)
BY DEF Typed, Copies, OnTheWay

-----------------------------------------------------------------------------
(* The steps *)

LEMMA TakeKeepsInv == ASSUME IInv, NEW w \in Workers, Take(w) PROVE IInv'
<1> USE MaxReportsAssumption DEF IInv, Take
<1>1. Typed'
  BY DEF Typed
<1>2. /\ report'[w] = taken + 1 /\ try'[w] = 1 /\ pc'[w] = "attempt"
      /\ takenBy'[w] = takenBy[w] \union {taken + 1}
      /\ \A v \in Workers \ {w} : /\ report'[v] = report[v] /\ try'[v] = try[v] /\ pc'[v] = pc[v]
                                  /\ takenBy'[v] = takenBy[v]
      /\ taken' = taken + 1 /\ taken + 1 \in Reports
  BY DEF Typed
<1>3. TakenInv'
  BY <1>2 DEF Typed, TakenInv
<1>4. \A r : Copies(r)' = Copies(r)
  BY DEF Copies, OnTheWay
<1>5. Copies(taken + 1) = 0 /\ \A n \in 1..3 : <<taken + 1, n>> \notin requests
  <2>1. Copies(taken + 1) = 0
    BY <1>2 DEF CopiesInv, Typed
  <2> QED BY <1>2, <2>1 DEF Copies, OnTheWay, Typed
<1>6. CopiesInv'
  BY <1>2, <1>4, <1>5 DEF CopiesInv, Typed
<1>7. AnswersInv'
  BY DEF AnswersInv
<1> QED BY <1>1, <1>3, <1>6, <1>7

LEMMA AttemptKeepsInv == ASSUME IInv, NEW w \in Workers, Attempt(w) PROVE IInv'
<1> USE DEF IInv, Attempt
<1> DEFINE r0 == report[w]
           n0 == try[w]
<1>1. n0 \in 1..3 /\ r0 \in Reports /\ r0 \in takenBy[w] /\ r0 <= taken
  BY DEF Typed, TakenInv
<1>2. Typed'
  BY <1>1 DEF Typed
<1>3. pc'[w] = "waiting" /\ \A v \in Workers \ {w} : pc'[v] = pc[v]
  BY DEF Typed
<1>4. TakenInv'
  BY <1>3 DEF TakenInv
<1>5. \A r \in Reports \ {r0} : Copies(r)' = Copies(r)
  BY DEF Copies, OnTheWay
<1>6. Copies(r0)' = Copies(r0) + 1
  <2>1. <<r0, n0>> \notin requests
    <3>1. \A n \in 1..3 : <<r0, n>> \in requests => n < n0
      BY DEF CopiesInv
    <3>2. ~(n0 < n0)
      BY <1>1
    <3> QED BY <1>1, <3>1, <3>2
  <2>2. \A n \in 1..3 : OnTheWay(r0, n)' = IF n = n0 THEN 1 ELSE OnTheWay(r0, n)
    BY <1>1, <2>1 DEF OnTheWay
  <2>3. OnTheWay(r0, n0) = 0
    BY <2>1 DEF OnTheWay
  <2>4. applied'[r0] = applied[r0] /\ applied[r0] \in Nat
    BY <1>1 DEF Typed
  <2> QED BY <1>1, <2>2, <2>3, <2>4 DEF Copies, OnTheWay
<1>7. CopiesInv'
  <2>1. Copies(r0) <= n0 - 1 /\ Copies(r0) \in Nat
    BY <1>1, CopiesAreNat DEF CopiesInv
  <2>2. \A v \in Workers \ {w} : pc[v] # "idle" => report[v] # r0 /\ report[v] \in Reports
    BY OwnReport DEF TakenInv, Typed
  <2>3. \A r, n : <<r, n>> \in requests' => <<r, n>> \in requests \/ (r = r0 /\ n = n0)
    OBVIOUS
  <2>4. \A r \in Reports : Copies(r)' <= 3 /\ (r > taken => Copies(r)' = 0)
    BY <1>1, <1>5, <1>6, <2>1 DEF CopiesInv, Typed
  <2>5. /\ Copies(r0)' <= n0
        /\ \A n \in 1..3 : <<r0, n>> \in requests' => n <= n0
    BY <1>1, <1>6, <2>1, <2>3 DEF CopiesInv
  <2>6. UNCHANGED <<taken, report, try>>
    OBVIOUS
  <2> HIDE DEF Attempt, r0, n0
  <2>7. ASSUME NEW v \in Workers \ {w}, pc[v] # "idle"
        PROVE  /\ Copies(report[v])' = Copies(report[v])
               /\ \A n : <<report[v], n>> \in requests' => <<report[v], n>> \in requests
    <3>1. report[v] # r0 /\ report[v] \in Reports /\ report'[v] = report[v]
      BY <2>2, <2>6, <2>7
    <3>2. \A r : r \in Reports \ {r0} => Copies(r)' = Copies(r)
      BY <1>5
    <3> QED BY <2>3, <2>6, <3>1, <3>2 DEF Copies, OnTheWay
  <2> QED BY <1>3, <2>4, <2>5, <2>6, <2>7 DEF CopiesInv, r0, n0
<1>8. AnswersInv'
  BY DEF AnswersInv
<1> QED BY <1>2, <1>4, <1>7, <1>8

\* The end of an attempt, whatever its result: nothing the server sees.
LEMMA SenderKeepsInv ==
    ASSUME IInv, NEW w \in Workers, pc[w] = "waiting",
           UNCHANGED <<taken, takenBy, report, requests, applied, gauge>>,
           replies' \subseteq replies, NEW x \in {"ok", "error"},
           x = "ok" => applied[report[w]] > 0,
           \/ /\ pc' = [pc EXCEPT ![w] = "idle"] /\ UNCHANGED try
              /\ outcome' = [outcome EXCEPT ![report[w]] = x]
           \/ /\ pc' = [pc EXCEPT ![w] = "attempt"] /\ try' = [try EXCEPT ![w] = @ + 1]
              /\ try[w] < MaxRetries /\ UNCHANGED outcome
    PROVE  IInv'
<1> USE DEF IInv
<1>1. try[w] \in 1..3 /\ report[w] \in Reports
  BY DEF Typed, TakenInv
<1>2. \A v \in Workers \ {w} : pc'[v] = pc[v] /\ try'[v] = try[v]
  BY DEF Typed
<1>3. pc'[w] = "idle" \/ (pc'[w] = "attempt" /\ try'[w] = try[w] + 1 /\ try[w] + 1 \in 1..3)
  BY <1>1 DEF Typed
<1>4. Typed'
  <2>1. pc' \in [Workers -> {"idle", "attempt", "waiting"}]
    BY DEF Typed
  <2>2. try' \in [Workers -> 0..MaxRetries]
    <3>1. try \in [Workers -> 0..MaxRetries]
      BY DEF Typed
    <3> QED BY <1>1, <3>1
  <2>3. outcome' \in [Reports -> {"none", "ok", "error"}]
    BY DEF Typed
  <2>4. replies' \subseteq Reports \X (1..MaxRetries) \X BOOLEAN
    BY DEF Typed
  <2> QED BY <2>1, <2>2, <2>3, <2>4 DEF Typed
<1>5. TakenInv'
  BY <1>2, <1>3 DEF TakenInv
<1>6. CopiesInv'
  <2>1. \A r, n : Copies(r)' = Copies(r) /\ (<<r, n>> \in requests' <=> <<r, n>> \in requests)
    BY DEF Copies, OnTheWay
  <2>2. pc'[w] = "attempt" =>
          /\ Copies(report[w]) <= try'[w] - 1
          /\ \A n \in 1..3 : <<report[w], n>> \in requests => n < try'[w]
    BY <1>1, <1>3 DEF CopiesInv
  <2> QED BY <1>2, <1>3, <2>1, <2>2 DEF CopiesInv
<1>7. AnswersInv'
  <2>1. \A r \in Reports : outcome'[r] = "ok" => applied'[r] > 0
    BY <1>1 DEF AnswersInv, Typed
  <2> QED BY <2>1 DEF AnswersInv
<1> QED BY <1>4, <1>5, <1>6, <1>7

LEMMA AnsweredKeepsInv == ASSUME IInv, NEW w \in Workers, Answered(w) PROVE IInv'
<1>1. PICK status \in BOOLEAN :
        /\ <<report[w], try[w], status>> \in replies
        /\ replies' = replies \ {<<report[w], try[w], status>>}
        /\ IF Succeeds(status)
             THEN /\ outcome' = [outcome EXCEPT ![report[w]] = "ok"]
                  /\ pc' = [pc EXCEPT ![w] = "idle"]
                  /\ UNCHANGED <<taken, takenBy, report, try>>
             ELSE Failed(w)
  BY DEF Answered
<1>2. pc[w] = "waiting" /\ UNCHANGED <<requests, applied, gauge>>
  BY DEF Answered
<1>3. CASE status
  <2>1. applied[report[w]] > 0
    BY <1>1, <1>3 DEF IInv, AnswersInv
  <2> QED BY <1>1, <1>2, <1>3, <2>1, SenderKeepsInv DEF Succeeds
<1>4. CASE ~status
  <2>1. Failed(w)
    BY <1>1, <1>4 DEF Succeeds
  <2>2. try[w] \in Nat
    BY Fields DEF IInv
  <2> QED BY <1>1, <1>2, <2>1, <2>2, SenderKeepsInv DEF Failed, GivesUp
<1> QED BY <1>3, <1>4

LEMMA TimeoutKeepsInv == ASSUME IInv, NEW w \in Workers, Timeout(w) PROVE IInv'
<1>1. try[w] \in Nat
  BY Fields DEF IInv
<1> QED BY <1>1, SenderKeepsInv DEF Timeout, Failed, GivesUp

LEMMA ServeKeepsInv == ASSUME IInv, Serve PROVE IInv'
<1> USE DEF IInv
<1>1. PICK m \in requests, status, takes \in BOOLEAN :
         /\ status => takes
         /\ requests' = requests \ {m}
         /\ replies' = IF Late(m) THEN replies ELSE replies \union {<<m[1], m[2], status>>}
         /\ applied' = IF takes THEN [applied EXCEPT ![m[1]] = @ + 1] ELSE applied
         /\ gauge' = IF takes THEN m[1] ELSE gauge
  BY DEF Serve
<1>2. UNCHANGED <<taken, takenBy, pc, report, try, outcome>>
  BY DEF Serve, senderVars
<1>3. PICK r0 \in Reports, n0 \in 1..3 : m = <<r0, n0>>
  BY <1>1 DEF Typed
<1>4. /\ \A r \in Reports : applied[r] \in Nat /\ applied'[r] \in Nat /\ applied'[r] >= applied[r]
      /\ \A r \in Reports \ {r0} : applied'[r] = applied[r]
      /\ applied'[r0] <= applied[r0] + 1
      /\ takes => applied'[r0] > 0
  <2>1. applied \in [Reports -> Nat] /\ applied' = IF takes THEN [applied EXCEPT ![r0] = @ + 1] ELSE applied
    BY <1>1, <1>3 DEF Typed
  <2> QED BY <1>3, <2>1
<1>5. Typed'
  <2>1. applied' \in [Reports -> Nat] /\ gauge' \in 0..MaxReports
    BY <1>1, <1>3 DEF Typed
  <2>2. requests' \subseteq Request /\ replies' \subseteq Reports \X (1..MaxRetries) \X BOOLEAN
    BY <1>1, <1>3 DEF Typed
  <2> QED BY <1>2, <2>1, <2>2 DEF Typed
<1>6. TakenInv'
  BY <1>2 DEF TakenInv
<1>7. \A r \in Reports : Copies(r)' <= Copies(r) /\ Copies(r)' \in Nat /\ Copies(r) \in Nat
  <2>1. ASSUME NEW r \in Reports \ {r0} PROVE Copies(r)' = Copies(r)
    BY <1>1, <1>3, <1>4 DEF Copies, OnTheWay
  <2>2. Copies(r0)' <= Copies(r0)
    <3>1. \A n \in 1..3 : OnTheWay(r0, n)' = IF n = n0 THEN 0 ELSE OnTheWay(r0, n)
      BY <1>1, <1>3 DEF OnTheWay
    <3>2. OnTheWay(r0, n0) = 1
      BY <1>1, <1>3 DEF OnTheWay
    <3> QED BY <1>3, <1>4, <3>1, <3>2 DEF Copies, OnTheWay
  <2>3. \A r \in Reports : Copies(r) \in Nat
    BY CopiesAreNat
  <2>4. \A r \in Reports : Copies(r)' \in Nat
    BY <1>4 DEF Copies, OnTheWay
  <2> QED BY <2>1, <2>2, <2>3, <2>4
<1>8. CopiesInv'
  <2>1. requests' \subseteq requests
    BY <1>1
  <2>2. \A w \in Workers : pc[w] # "idle" => report[w] \in Reports /\ try[w] \in 1..3
    BY DEF Typed, TakenInv
  <2>3. ASSUME NEW r \in Reports PROVE Copies(r)' <= 3 /\ (r > taken => Copies(r)' = 0)
    BY <1>7 DEF CopiesInv
  <2>4. ASSUME NEW w \in Workers, pc[w] # "idle", NEW r, r = report[w]
        PROVE  /\ Copies(r)' <= Copies(r) /\ Copies(r)' \in Nat /\ Copies(r) \in Nat
               /\ try[w] \in 1..3
    BY <1>7, <2>2, <2>4
  <2>5. ASSUME NEW w \in Workers, pc[w] # "idle"
        PROVE  /\ pc[w] = "attempt" => /\ Copies(report[w])' <= try[w] - 1
                                       /\ \A n \in 1..3 : <<report[w], n>> \in requests' => n < try[w]
               /\ pc[w] = "waiting" => /\ Copies(report[w])' <= try[w]
                                       /\ \A n \in 1..3 : <<report[w], n>> \in requests' => n <= try[w]
    <3>1. PICK r : r = report[w]
      OBVIOUS
    <3>2. report'[w] = r /\ Copies(r) = Copies(report[w])
      BY <1>2, <3>1
    <3>3. Copies(report[w])' = Copies(r)'
      BY <3>2
    <3> QED BY <2>1, <2>4, <2>5, <3>1, <3>2, <3>3 DEF CopiesInv
  <2> QED BY <1>2, <2>3, <2>5 DEF CopiesInv
<1>9. AnswersInv'
  <2>1. ASSUME NEW a \in replies', a[3] PROVE applied'[a[1]] > 0
    <3>1. CASE a \in replies
      <4>1. a[1] \in Reports /\ applied[a[1]] > 0
        BY <2>1, <3>1 DEF AnswersInv, Typed
      <4> QED BY <1>4, <4>1
    <3>2. CASE a = <<r0, n0, status>>
      BY <1>1, <1>4, <2>1, <3>2
    <3> QED BY <1>1, <1>3, <3>1, <3>2
  <2>2. \A r \in Reports : outcome'[r] = "ok" => applied'[r] > 0
    BY <1>2, <1>4 DEF AnswersInv
  <2> QED BY <2>1, <2>2 DEF AnswersInv
<1> QED BY <1>5, <1>6, <1>8, <1>9

LEMMA InvNext == IInv /\ [Next]_vars => IInv'
<1> SUFFICES ASSUME IInv, [Next]_vars PROVE IInv'
  OBVIOUS
<1>1. CASE UNCHANGED vars
  BY <1>1 DEF vars, senderVars, IInv, Typed, TakenInv, CopiesInv, Copies, OnTheWay, AnswersInv
<1>2. CASE Next
  BY <1>2, TakeKeepsInv, AttemptKeepsInv, AnsweredKeepsInv, TimeoutKeepsInv, ServeKeepsInv
     DEF Next, SenderStep
<1> QED BY <1>1, <1>2

LEMMA Inductive == Spec => []IInv
BY InvInit, InvNext, PTL DEF Spec

-----------------------------------------------------------------------------
(* What retries can and cannot do *)

\* However many answers are lost, a report is applied three times at most.
THEOREM NeverAppliedFourTimes == Spec => []AppliedThreeTimesAtMost
<1>1. IInv => AppliedThreeTimesAtMost
  <2> SUFFICES ASSUME IInv, NEW r \in Reports PROVE applied[r] <= MaxRetries
    BY DEF AppliedThreeTimesAtMost
  <2>1. applied[r] \in Nat /\ Copies(r) \in Nat /\ applied[r] <= Copies(r)
    BY CopiesAreNat, Fields DEF IInv
  <2> QED BY <2>1 DEF IInv, CopiesInv
<1> QED BY <1>1, Inductive, PTL

\* What SendMetricsBatch reports as sent has reached the store.
THEOREM SuccessIsReal == Spec => []SuccessMeansApplied
<1>1. IInv => SuccessMeansApplied
  <2> SUFFICES ASSUME IInv, NEW r \in Reports
               PROVE  (outcome[r] = "ok" => applied[r] > 0) /\ (applied[r] > 0 => r <= taken)
    BY DEF SuccessMeansApplied
  <2>1. applied[r] \in Nat /\ Copies(r) \in Nat /\ applied[r] <= Copies(r) /\ taken \in Nat
    BY CopiesAreNat, Fields DEF IInv
  <2> QED BY <2>1 DEF IInv, CopiesInv, AnswersInv
<1> QED BY <1>1, Inductive, PTL

\* A request that somebody still waits for is newer than everything its worker
\* has sent before, so one worker alone takes the store back only by a late one.
THEOREM OrderOfOneWorker == Spec => OneWorkerKeepsOrder
<1> DEFINE Keeps == \A w \in Workers : gauge' < gauge /\ {gauge, gauge'} \subseteq takenBy[w]
                      => \E m \in requests \ requests' : Late(m)
<1>1. IInv /\ [Next]_vars => [Keeps]_vars
  <2> SUFFICES ASSUME IInv, Next, NEW w \in Workers,
                      gauge' < gauge, gauge \in takenBy[w], gauge' \in takenBy[w]
               PROVE  \E m \in requests \ requests' : Late(m)
    OBVIOUS
  <2>1. Serve
    <3>1. gauge \in Nat
      BY Fields DEF IInv
    <3> QED BY <3>1 DEF Next, SenderStep, Take, Attempt, Answered, Timeout
  <2>2. PICK m \in requests : requests' = requests \ {m} /\ gauge' = m[1]
    <3>1. gauge \in Nat
      BY Fields DEF IInv
    <3> QED BY <2>1, <3>1 DEF Serve
  <2>3. ASSUME NEW v \in Workers, pc[v] = "waiting", <<report[v], try[v]>> = m PROVE FALSE
    <3>1. report[v] = gauge' /\ report[v] \in takenBy[v]
      BY <2>2, <2>3 DEF IInv, TakenInv
    <3>2. v = w
      BY <3>1 DEF IInv, TakenInv
    <3>3. gauge <= gauge' /\ gauge \in Nat /\ gauge' \in Nat
      BY <3>1, <3>2, Fields DEF IInv, TakenInv
    <3> QED BY <3>3
  <2> QED BY <2>2, <2>3 DEF Late
<1> QED BY <1>1, Inductive, PTL DEF Spec, OneWorkerKeepsOrder
=============================================================================
