SPECIFICATION MCSpec
CONSTANTS
    Calls <- MCCalls
    MaxIds = 4
    MaxFaults = 2
    Confs <- MCConfs
    Nodes <- MCNodes
    Ends <- MCEnds
    TunnelConfs <- MCTunnelConfs
INVARIANTS
    NoOrphans
    RightEnd
PROPERTIES
    SoundSessionsSurvive
    Recovers
    LeavesNoTrace
    RequestsEnd
\* A tunnel whose ends are gone and whose node is closed has nothing to do.
CHECK_DEADLOCK FALSE
