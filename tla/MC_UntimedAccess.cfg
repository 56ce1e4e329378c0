CONSTANTS
    Width = 3
    MemStart = 2
    MemSize = 4
    MaxAccesses = 2
    BusPorts <- MC_BusPorts
SPECIFICATION Spec
INVARIANT TypeOK
INVARIANT AtomicReachesItsTarget
INVARIANT FunctionalInRangeCompletes
