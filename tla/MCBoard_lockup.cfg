SPECIFICATION Spec
CONSTANTS
    U128Max = 1000000
    Players <- TwoPlayers
    Setup <- LockupSetup
    StartPlants <- Plants
    RootSats = 3
    RootRealSats = 3
    TotalUnits = 200
    BasePrice = 2
    Period <- Periods
    MiningSubsidy = 50
    HashPerWatt = 3
    WattsPerScale = 2
    LastSequence = 2
    LastEntityID = 40
PROPERTIES PaidIsDelivered
CHECK_DEADLOCK FALSE
