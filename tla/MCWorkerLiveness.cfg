SPECIFICATION FairSpec
CONSTANTS
    j1 = j1
    j2 = j2
    w1 = w1
    w2 = w2
    Null = Null
    Job <- MCJob
    WorkerId <- MCWorkerId
    Key <- MCKey
    Priority <- OnePriority
    Outcome <- MCOutcome
    LeaseTicks <- LongLease
    MaxStall = 1
    AttemptCap = 2
    MaxCrashes = 1
    Backend = "postgres"
INVARIANTS
    OneWorkerPerJob
PROPERTIES
    EveryJobEnds
