SPECIFICATION SharedFilesSpec
CONSTANTS
    Aborter = {"a", "b"}
    MaxProgress = 2
    MaxRestarts = 1
    HomePoller = {"a", "b"}
    OtherPoller = {"c"}
    MaxEvents = 2
    MaxCrashes = 1
    Sharing = {TRUE, FALSE}
    Writer = {"v", "w"}
    Slug = {"wave", "grab"}
    MaxPersists = 4
    Together = {TRUE, FALSE}
    CallBound <- BoundOfStages
    MaxCaseCalls = 2
    AttemptLimit = 2
    MaxKills = 2
    MaxLosses = 1
    Runner = {"r", "s"}
    Releases <- ReleasesTogether
    MaxStarts = 4
    Content = {"c1", "c2"}
    Putter = {"p", "q"}
    Changing = {TRUE, FALSE}
INVARIANTS
    SharedFilesTypeOK
    AbortSettles
    OutcomeTold
    OneNumberEach
    IndexTells
    AttemptsHeld
    MigratedAsPlanned
    ArtifactsHold
    RestoredWhole
PROPERTIES
    ProgressKept
    OutcomeKept
    RunSettles
    CompletedStands
    CaseSettles
CHECK_DEADLOCK FALSE
