SPECIFICATION Spec
CONSTANTS
    Clients = {c1, c2}
    Binders = {}
    Nodes <- MCNodes
    HopOf <- MCHopOf
    NHops = 2
    Admits <- MCAdmits
    Configs <- MuxedOnly
    MaxFails = 1
    FailTimeout = 1
    Target = "target"
    Resolver = "resolver"
    Test <- MCTest
    NoNode = "none"
INVARIANT RouteIsFollowed
