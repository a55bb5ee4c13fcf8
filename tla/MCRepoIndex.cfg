SPECIFICATION Spec
CONSTANTS
    A = A
    B = B
    C = C
    R1 = R1
    R2 = R2
    None = None
    Files <- MCFiles
    Contents <- MCContents
    Disk <- MCDisk
    Requests <- MCRequests
    Calls <- MCCalls
    MaxEdits = 1
    MaxRefused = 1
SYMMETRY Symmetry
INVARIANT IndexCovers
INVARIANT SearchMatchesGraph
INVARIANT ExternalWasBare
INVARIANT DependenciesBuiltFirst
CHECK_DEADLOCK FALSE
