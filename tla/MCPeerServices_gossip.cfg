CONSTANTS
    Envelope <- MCEnvelope
    header_tips <- MCHeaderTips
    MaxWork = 2
    Scenario <- Scenarios
SPECIFICATION FairSpec
CHECK_DEADLOCK FALSE
INVARIANTS QueuesAreSound ClaimsAreTrue
PROPERTIES FetchCatchesUp PushCatchesUp
