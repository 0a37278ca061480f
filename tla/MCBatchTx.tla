------------------------------ MODULE MCBatchTx ------------------------------
(***************************************************************************)
(* Instances of BatchTx for TLC: two gauges, two counters.                 *)
(***************************************************************************)
EXTENDS BatchTx

CONSTANTS g1, g2, c1, c2, h1, h2, h3

M(r, v) == [row |-> r, val |-> v]
MCBatch(list) == [kind |-> "batch", list |-> list]

\* Batches that share two gauges, two counters, or one of each; one with a name
\* twice; one that wraps; one that is refused; single metrics.
MCRequests == {
    MCBatch(<<M(g1, 1), M(g2, 1), M(c1, 1)>>),
    MCBatch(<<M(g2, 2), M(c1, 1), M(g1, 2), M(c2, 1), M(c1, 1)>>),
    MCBatch(<<M(c2, 3), M(c2, 2)>>),
    MCBatch(<<M(g1, 3), M(c1, -1)>>),
    [kind |-> "one", list |-> <<M(c1, 2)>>],
    [kind |-> "one", list |-> <<M(g1, 0)>>] }
=============================================================================
