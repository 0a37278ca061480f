\* Two requests: a lost connection is not retried, for the driver's errors are
\* not of the type the retry looks for.
SPECIFICATION Spec
CONSTANTS
    g1 = g1
    g2 = g2
    c1 = c1
    c2 = c2
    h1 = h1
    h2 = h2
    h3 = h3
    Handlers = {h1, h2}
    GaugeRows = {g1, g2}
    CounterRows = {c1, c2}
    Requests <- MCRequests
    MaxInt = 3
INVARIANTS
    TransientErrorsRetried
CHECK_DEADLOCK FALSE
