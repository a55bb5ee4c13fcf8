SPECIFICATION Spec
CONSTANTS
    Graphs <- AllGraphs
    Plans <- MCPlans
INVARIANTS LevelsRespectDeps SortDecides OneLevelPerTask CriticalPathLongest
INVARIANTS GenerationNeverRaises PhasesInOrder
CHECK_DEADLOCK FALSE
