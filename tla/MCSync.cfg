\* One HTTP and one gRPC handler, a disk that fails, NaN, counters that wrap around.
SPECIFICATION Spec
CONSTANTS
    g = g
    c = c
    h1 = h1
    h2 = h2
    g1 = g1
    ticker = ticker
    main = main
    NaN = NaN
    Absent = Absent
    GaugeNames = {g}
    CounterNames = {c}
    Numbers <- MCNumbers
    MaxInt = 2
    Savers <- MCSavers
    Periodic = ticker
    Main = main
    HTTPHandlers = {h1}
    GRPCHandlers = {g1}
    StoreInterval = 0
    DiskMayFail = TRUE
    HasPersister = TRUE
    RestoreFlag = TRUE
    Requests <- MCWithNaN
    MaxRequests = 3
    MaxStarts = 2
INVARIANTS
    GracefulExitSaves
    NothingCountedTwice
    SyncSaveIsDurable
CHECK_DEADLOCK FALSE
