CONSTANTS
    p1 = p1
    Ports <- MC_Ports
    SocketNums = {1, 2}
    RouterIds = {0}
    BusSockets = {0, 1}
    CreateOps = {"singleton", "new", "single"}
    MaxTransactors = 2
    MaxRouters = 2
SPECIFICATION Spec
INVARIANT TypeOK
