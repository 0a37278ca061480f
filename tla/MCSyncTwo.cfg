SPECIFICATION Spec
CONSTANTS
    g = g
    c = c
    h1 = h1
    h2 = h2
    g1 = g1
    ticker = ticker
    main = main
    NaN = NaN
    Absent = Absent
    GaugeNames = {g}
    CounterNames = {c}
    Numbers <- MCNumbers
    MaxInt = 9
    Savers <- MCSavers
    Periodic = ticker
    Main = main
    HTTPHandlers = {h1, h2}
    GRPCHandlers = {}
    StoreInterval = 0
    DiskMayFail = FALSE
    HasPersister = TRUE
    RestoreFlag = TRUE
    Requests <- MCBatches
    MaxRequests = 2
    MaxStarts = 1
INVARIANTS
    SyncAckIsDurable
CHECK_DEADLOCK FALSE
