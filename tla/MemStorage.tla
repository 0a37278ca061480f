----------------------------- MODULE MemStorage -----------------------------
(***************************************************************************)
(* The in-memory store, internal/storage/storage.go, and the validation    *)
(* the service puts before it, internal/service/metrics.go. Every method   *)
(* of MemStorage holds s.mu from its first to its last line, so each is an *)
(* operator on the value of the store and one step of whoever calls it.    *)
(*                                                                         *)
(* An update stands for the list of metrics of one request by its effect:  *)
(* the gauges it sets and what it adds to each counter. The presence of a  *)
(* counter that is zero is not represented.                                *)
(***************************************************************************)
EXTENDS Integers

CONSTANTS
    GaugeNames, CounterNames, \* IDs of metrics; the two maps are independent
    Numbers,                  \* numeric gauge values
    NaN,                      \* the float64 that is not a number
    Absent,                   \* a gauge the store does not hold
    MaxInt                    \* bound: the largest counter value, 2^63 - 1 in the code

ASSUME NumbersAssumption == Numbers \subseteq Int
ASSUME NaNAssumption == NaN \notin Numbers /\ Absent \notin Numbers \union {NaN}
ASSUME MaxIntAssumption == MaxInt \in Nat

Cell == Numbers \union {NaN, Absent}

Int64 == (-MaxInt - 1)..MaxInt

Store == [gauges : [GaugeNames -> Cell], counters : [CounterNames -> Int64]]

Update == [set : [GaugeNames -> Cell], add : [CounterNames -> Int64], malformed : BOOLEAN]

EmptyStore ==
    [gauges |-> [n \in GaugeNames |-> Absent], counters |-> [c \in CounterNames |-> 0]]

\* += of the code on int64: two's complement.
AddInt64(a, b) ==
    IF a + b > MaxInt THEN a + b - 2 * (MaxInt + 1)
    ELSE IF a + b < -MaxInt - 1 THEN a + b + 2 * (MaxInt + 1)
    ELSE a + b

\* The checks of the handlers (a value that does not parse or is missing, an
\* unknown type, an empty batch) and of the service (a negative number) come
\* before the first change. NaN is not smaller than zero and passes.
NegativeGauge(u) == \E n \in GaugeNames : u.set[n] \in Numbers /\ u.set[n] < 0
NegativeDelta(u) == \E c \in CounterNames : u.add[c] < 0

\* A negative delta slips through.
Rejected_NoDeltaCheck(u) == u.malformed \/ NegativeGauge(u)

Rejected(u) == u.malformed \/ NegativeGauge(u) \/ NegativeDelta(u)

\* The batch goes on to the loop meant for other stores and is applied again.
Apply_Twice(st, u) ==
    [gauges   |-> [n \in GaugeNames |-> IF u.set[n] = Absent THEN st.gauges[n] ELSE u.set[n]],
     counters |-> [c \in CounterNames |-> AddInt64(AddInt64(st.counters[c], u.add[c]), u.add[c])]]

\* UpdateGauge, UpdateCounter and UpdateMetricsBatch.
Apply(st, u) ==
    [gauges   |-> [n \in GaugeNames |-> IF u.set[n] = Absent THEN st.gauges[n] ELSE u.set[n]],
     counters |-> [c \in CounterNames |-> AddInt64(st.counters[c], u.add[c])]]

\* encoding/json has no representation of NaN: marshalling fails.
Marshals(st) == \A n \in GaugeNames : st.gauges[n] # NaN
=============================================================================
