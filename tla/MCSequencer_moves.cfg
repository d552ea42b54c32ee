CONSTANTS
    Message = {"m1", "m2", "m3"}
    Scenario <- Scenarios
SPECIFICATION FairSpec
INVARIANTS TypeOK SnapshotsAgree
PROPERTIES DeliversInOrder AllMovesPlayed WaitingBatcherStops
CHECK_DEADLOCK FALSE
