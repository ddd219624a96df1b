SPECIFICATION MCSpec
CONSTANTS
    NameOrder <- MCNames
    Situations <- MCSituations
    Slots = {s1, s2}
    MaxObjs = 3
    TunnelUses <- MCTunnelUses
INVARIANTS ListMatchesRegistry RegisteredIffOpen
PROPERTIES RegisteredIsServed SameTunnel TunnelEnds
CHECK_DEADLOCK FALSE
