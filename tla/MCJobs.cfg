SPECIFICATION JobsSpec
CONSTANTS
    j1 = j1
    j2 = j2
    w1 = w1
    w2 = w2
    k1 = k1
    Null = Null
    Job <- MCJob
    WorkerId <- MCWorkerId
    Key <- MCKey
    Priority <- MCPriority
    Outcome <- MCOutcome
    LeaseTicks <- MCLeaseTicks
    MaxStall = 1
    AttemptCap = 2
    MaxCrashes = 1
    Backend = "postgres"
INVARIANTS
    TypeOK
    SystemTypeOK
    RowConsistent
    KeyNamesOneJob
    Fenced
PROPERTIES
    EndedForGood
    LeaseOutlastsOthers
    ImplementsContract
SYMMETRY Symmetry
