SPECIFICATION Spec
CONSTANTS
    c1 = c1
    c2 = c2
    Requests <- TwoRequests
    Configs <- MCConfigs
    Healthy = {"good"}
    Unprobed = {"plain"}
    NeedSecrets = {"good"}
    Means <- MCMeans
    MaxRecords = 3
    MaxUpkeep = 1
SYMMETRY Symmetric
INVARIANTS TypeOK PreviousIsKnown DeployRollsBackToSuccess LiveIsRecorded
    NewestRecordIsLive
CHECK_DEADLOCK FALSE
