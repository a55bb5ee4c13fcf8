SPECIFICATION FairSpec
CONSTANTS
    Tasks <- DiamondTasks
    Deps <- DiamondDeps
    PhaseOf <- DiamondPhase
    Listeners = {"l1"}
    Apis = {"a1"}
    Ops = {"start"}
    MayFail = {"e1", "e2"}
    QuietApi = TRUE
    BrokerMayFail = TRUE
    MayRaise = {"startLoad", "loadRunning", "saveRunning"}
    MaxRaises = 1
    MaxEchoes = 0
    MaxApiCalls = 1
    MaxSends = 2
    MaxRedeliveries = 2
INVARIANTS TypeOK AtMostOneDispatch NoGhostActive
PROPERTIES PhaseStepwise PipelineCompletes
CHECK_DEADLOCK FALSE
