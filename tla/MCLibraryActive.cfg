SPECIFICATION Spec
CONSTANTS
    c1 = c1
    c2 = c2
    r1 = r1
    r2 = r2
    Null = Null
    RecordBound = 2
    IndexCount = 2
    RawBound = 1
    Sharing = {TRUE}
    Client <- MCClient
    Release <- MCRelease
    Record <- MCRecord
SYMMETRY Symmetry
INVARIANT OneActiveRelease
CHECK_DEADLOCK FALSE
