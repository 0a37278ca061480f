\* Two handlers, three requests of every kind against each other; two tries of the URL.
SPECIFICATION Spec
CONSTANTS
    g = g
    c = c
    h1 = h1
    h2 = h2
    NaN = NaN
    Absent = Absent
    GaugeNames = {g}
    CounterNames = {c}
    Numbers <- MCNumbers
    MaxInt = 9
    Handlers = {h1, h2}
    Requests <- MCRequests
    Modes <- MCModes
    MaxRequests = 3
    MaxTries = 2
INVARIANTS
    TypeOK
    AcceptedIsAudited
    EveryListenerIsTold
    RepliesAreCurrent
SYMMETRY MCSymmetry
CHECK_DEADLOCK FALSE
