SPECIFICATION DecisionsSpec
CONSTANTS
    g1 = g1
    g2 = g2
    NoGoal = NoGoal
    Goal <- Goals
    PlanLength = 2
    ExpandTries = 2
    MaxCalls = 4
    Retry = 2
    Window = 2
    Relook = 3
    Stuck = 4
    Barred = 3
    Casts = 3
    Mode = {"five_way", "unary_tournament", "human_pilot"}
    Recipes = 3
    Ranked = 2
    MaxRounds = 2
    MaxModelCalls = 3
    MaxRuns = 2
    Contestant = {"a", "b"}
    TopScore = 2
    Repairing = {TRUE, FALSE}
INVARIANTS
    DecisionsTypeOK
    NeverSilenced
    MetGoalWaits
    HandleForgotten
    OpenHasStopped
    WinnerEarned
    CallCeiling
    OrderBlind
    OnlyCertifiedSelected
CHECK_DEADLOCK FALSE
