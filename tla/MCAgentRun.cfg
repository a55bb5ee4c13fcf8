\* Three runs of one to three agents on four files, two files an answer, one fault, two files shown.
SPECIFICATION Spec
CONSTANTS
    r1 = r1
    r2 = r2
    r3 = r3
    None = None
    Paths <- MCPaths
    FileOf <- MCFileOf
    Existing <- MCExisting
    Runs <- MCRuns
    Teams <- MCTeams
    Targets <- MCTargets
    MaxFiles = 2
    Tried <- MCTried
    MaxSkips = 1
    MaxFaults = 1
INVARIANTS OnlyWorkInScope WorkIsKept
SYMMETRY Symmetry
CHECK_DEADLOCK FALSE
