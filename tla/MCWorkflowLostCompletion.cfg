SPECIFICATION FairSpec
CONSTANTS
    Tasks <- ChainTasks
    Deps <- ChainDeps
    PhaseOf <- ChainPhase
    Listeners = {"l1"}
    Apis = {"a1"}
    Ops = {"start"}
    MayFail = {}
    QuietApi = FALSE
    BrokerMayFail = FALSE
    MayRaise = {}
    MaxRaises = 0
    MaxEchoes = 0
    MaxApiCalls = 1
    MaxSends = 2
    MaxRedeliveries = 0
PROPERTIES CompletionAdvances
CHECK_DEADLOCK FALSE
