\* Two workers, a queue of four, six submissions: a submitter blocks on the full
\* queue holding the read lock; two goroutines call Stop.
SPECIFICATION FairSpec
CONSTANTS
    w1 = w1
    w2 = w2
    s1 = s1
    s2 = s2
    p1 = p1
    p2 = p2
    Workers = {w1, w2}
    Submitters = {s1, s2}
    Stoppers = {p1, p2}
    MaxTasks = 3
INVARIANTS
    TypeOK
    NoSendOnClosedChannel
    EachTaskInOnePlace
    StopDrains
PROPERTIES
    SubmitReturns
    StopReturns
    AcceptedIsHandled
    ImplementsTaskPool
CHECK_DEADLOCK FALSE
