SPECIFICATION MCSpec
CONSTANTS
    Conns <- MCConns
    Host <- MCHost
    Backlog = 1
    MaxFaults = 1
    MaxCloses = 2
    MaxReloads = 1
    Confs <- MCConfs
    Flows <- MCFlows
    Rates = {0, 1, 2}
    Chunk = 2
    FlowConfs <- MCFlowConfs
INVARIANTS
    Survives
    LimitHolds
    StreamIntact
PROPERTIES
    PooledUntilClosed
    DeathShows
    CloseEnds
    LimitsConverge
CHECK_DEADLOCK FALSE
