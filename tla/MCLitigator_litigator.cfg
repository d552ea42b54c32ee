CONSTANTS
    MaxGames = 1
    MAX_PLAYERS = 2
    MaxRequests = 6
    Scenario <- Scenarios
    Points <- MCPoints
    Rejected = {"p"}
    Mutating = {"m"}
    MaxOverrun = 2
SPECIFICATION FairSpec
CHECK_DEADLOCK FALSE
INVARIANTS HappensOnce CrashLosesNothing EndsOnlyForCause
PROPERTIES ReplaysLog EventuallyHandled
