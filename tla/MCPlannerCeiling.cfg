SPECIFICATION PlannerSpec
CONSTANTS
    NoGoal = NoGoal
    Goal = {"g"}
    PlanLength = 2
    ExpandTries = 2
    MaxCalls = 4
    Retry = 2
    Window = 2
    Relook = 3
    Stuck = 4
INVARIANT HardCeiling
\* A run ends.
CHECK_DEADLOCK FALSE
