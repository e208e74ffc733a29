SPECIFICATION Spec
CONSTANTS
    c1 = c1
    c2 = c2
    r1 = r1
    r2 = r2
    Null = Null
    RecordBound = 3
    IndexCount = 2
    RawBound = 1
    Sharing = {TRUE, FALSE}
    Client <- MCClient
    Release <- MCRelease
    Record <- MCRecord
SYMMETRY Symmetry
INVARIANTS TypeOK CertifiedAreProved ManifestServed OneActiveAlone AnswersListedAlone CumulativeAlone
PROPERTY ReleaseMovesForward
CHECK_DEADLOCK FALSE
