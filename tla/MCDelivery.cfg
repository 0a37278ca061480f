\* Two workers, two reports: one worker overtakes the other or sends both; requests of all
\* three attempts arrive late.
SPECIFICATION FairSpec
CONSTANTS
    w1 = w1
    w2 = w2
    Workers = {w1, w2}
    MaxReports = 2
INVARIANTS
    AppliedThreeTimesAtMost
    SuccessMeansApplied
PROPERTIES
    OneWorkerKeepsOrder
    SendEnds
CHECK_DEADLOCK FALSE
