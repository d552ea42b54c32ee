CONSTANTS
    Message = {"m1", "m2", "m3"}
    Scenario <- Coordination
SPECIFICATION FairSpec
PROPERTIES AllMovesPlayed
CHECK_DEADLOCK FALSE
