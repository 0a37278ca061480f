-------------------------- MODULE MCMetricsServer ---------------------------
(***************************************************************************)
(* Instances of MetricsServer for TLC: one gauge, one counter.             *)
(***************************************************************************)
EXTENDS MetricsServer

CONSTANTS g, c, h1, h2, g1, ticker, main

MCUpdate(v, d) ==
    [set |-> [n \in GaugeNames |-> v], add |-> [n \in CounterNames |-> d], malformed |-> FALSE]

MCSavers == Handlers \union {ticker, main}

MCNumbers == -1..2

\* A batch, two invalid batches with one valid part, and a gauge.
MCBatches == {MCUpdate(1, 1), MCUpdate(1, -1), MCUpdate(-1, 1), MCUpdate(2, 0)}
MCWithNaN == {MCUpdate(1, 1), MCUpdate(-1, 1), MCUpdate(NaN, 0), MCUpdate(Absent, 1)}
=============================================================================
