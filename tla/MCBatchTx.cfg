\* Three requests at a time over four rows: deadlocks of two transactions, waits,
\* out-of-range sums, lost connections before and after the commit.
SPECIFICATION FairSpec
CONSTANTS
    g1 = g1
    g2 = g2
    c1 = c1
    c2 = c2
    h1 = h1
    h2 = h2
    h3 = h3
    Handlers = {h1, h2, h3}
    GaugeRows = {g1, g2}
    CounterRows = {c1, c2}
    Requests <- MCRequests
    MaxInt = 3
INVARIANTS
    TypeOK
    NoLostAdds
    
    DeadlockInOneTable
PROPERTIES
    RequestsAnswered
    
CHECK_DEADLOCK FALSE
