SPECIFICATION FairSpec
CONSTANTS
    Tasks <- ChainTasks
    Deps <- ChainDeps
    PhaseOf <- ChainPhase
    Listeners = {"l1"}
    Apis = {"a1"}
    Ops = {"start", "pause"}
    MayFail = {}
    QuietApi = FALSE
    BrokerMayFail = FALSE
    MayRaise = {}
    MaxRaises = 0
    MaxEchoes = 0
    MaxApiCalls = 2
    MaxSends = 2
    MaxRedeliveries = 0
PROPERTIES PauseHolds
CHECK_DEADLOCK FALSE
