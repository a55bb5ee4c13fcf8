SPECIFICATION FairSpec
CONSTANTS
    Tasks <- ChainTasks
    Deps <- ChainDeps
    PhaseOf <- ChainPhase
    Listeners = {"l1"}
    Apis = {"a1"}
    Ops = {"start", "pause", "resume", "abort", "crash", "expire"}
    MayFail = {"e1"}
    QuietApi = FALSE
    BrokerMayFail = TRUE
    MayRaise <- RedisCalls
    MaxRaises = 1
    MaxEchoes = 1
    MaxApiCalls = 2
    MaxSends = 2
    MaxRedeliveries = 0
INVARIANTS FailureAccounted OneListPerTask DependenciesFirst PhaseEventSound
PROPERTIES ImplementsContract AbortLeavesNothing
CHECK_DEADLOCK FALSE
