CONSTANTS
    c1 = c1
    c2 = c2
    sys = sys
    t1 = t1
    t2 = t2
    t3 = t3
    NULL = NULL
    NoCluster = NoCluster
    Routers <- MC_SingleRouter
    Requestors <- MC_Requestors
    SocketMap <- MC_NoSocketMap
    Trans <- MC_Trans
    Clusters = {}
    UsingGem5Cache = FALSE
    MultiTransactor = FALSE
    Debug = FALSE
    LocalAddrs <- MC_LocalAddrs
    ReqAddrs <- MC_MemAddrs
    RespRetryAlwaysAccepted = TRUE
    MaxReqs = 2
SPECIFICATION FairSpec
CHECK_DEADLOCK FALSE
PROPERTY RequestAnswered
