SPECIFICATION FairSpec
CONSTANTS
    Clients = {c1, c2}
    Binders = {c2}
    Nodes <- MCNodes
    HopOf <- MCHopOf
    NHops = 2
    Admits <- MCAdmits
    Configs <- MCConfigs
    MaxFails = 1
    FailTimeout = 1
    Target = "target"
    Resolver = "resolver"
    Test <- MCTest
    NoNode = "none"
INVARIANTS AnsweringNodesUnmarked NoHopBypassed FailoverSucceeds
PROPERTY CallsReturn
