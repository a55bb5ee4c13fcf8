\* Three tasks in a join or a chain, the retry policies of the code, one database error.
SPECIFICATION Spec
CONSTANTS
    t1 = t1
    t2 = t2
    t3 = t3
    Tasks <- MCTasks
    Edges <- MCEdges
    MaxRetries <- MCMaxRetries
    Critical <- MCCritical
    ByCelery <- MCByCelery
    MaxDbErrors = 1
INVARIANTS StartsAfterDependencies SerialRowIsTrue
PROPERTY EveryDispatchSettles
CHECK_DEADLOCK FALSE
