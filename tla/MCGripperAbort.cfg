SPECIFICATION GripperRunsSpec
CONSTANTS
    Aborter = {"a", "b"}
    MaxProgress = 2
    MaxRestarts = 1
INVARIANT AbortStopsChild
\* A run ends.
CHECK_DEADLOCK FALSE
