SPECIFICATION Spec
CONSTANTS
    M1 = M1
    M2 = M2
    A = A
    B = B
    C = C
    R1 = R1
    R2 = R2
    R3 = R3
    Old = Old
    New = New
    Newer = Newer
    None = None
    Managers <- MCManagers
    Names <- MCNames
    ScopeOf <- MCScopeOf
    Keys = {Old, New, Newer}
    Settings = Old
    Requests <- MCRequests
    MaxFaults = 1
SYMMETRY Symmetry
INVARIANTS NoValueLost RotationReadable
CHECK_DEADLOCK FALSE
