CONSTANTS
    Master = 0
    g1 = g1
    g2 = g2
    g3 = g3
    Slave <- Slaves
    Data = {"a", "b"}
    Holder <- HolderOf
    Get <- Gets
    At <- GetAt
    Of <- GetOf
    MaxKV = 1
    Prefetched <- Picks
    Scene <- Scenes
    TransFails = TRUE
    SSite = {0, 1, 2}
    MasterSite = 0
    Request <- Requests
    Scenario <- Scenarios
SPECIFICATION MCSpec
INVARIANTS OrdersSound SitesReady PutsKnown
PROPERTIES  AppsServed
CHECK_DEADLOCK FALSE
