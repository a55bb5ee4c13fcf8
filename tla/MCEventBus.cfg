\* Two events; the run subscribes to the project's channel or to the global one; one failure.
SPECIFICATION BusSpec
CONSTANTS
    h1 = h1
    g1 = g1
    g2 = g2
    None = None
    Events <- MCEvents
    ProjectHandlers <- MCProjectHandlers
    GlobalHandlers <- MCGlobalHandlers
    ProjectListeners = {l1, l2}
    GlobalListeners = {m1, m2}
    Uses <- MCUses
    MaxHistory = 1
    MaxFaults = 1
INVARIANTS OnceInOrder HistoryIsNewest Attended
CHECK_DEADLOCK FALSE
PROPERTY Delivered
