\* One worker, a queue of two, four reports of the ticker: the reporter is blocked
\* on the full queue when the signal comes.
SPECIFICATION AgentFairSpec
CONSTANTS
    w1 = w1
    reporter = reporter
    main = main
    Workers = {w1}
    Submitters = {reporter, main}
    Stoppers = {main}
    Reporter = reporter
    Main = main
    MaxTasks = 4
    MaxPolls = 2
INVARIANTS
    AgentTypeOK
    NoReportDropped
    LastReportComplete
    ReportsGoForward
PROPERTIES
    AgentExits
CHECK_DEADLOCK FALSE
