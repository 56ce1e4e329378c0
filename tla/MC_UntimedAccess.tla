--------------------------- MODULE MC_UntimedAccess ---------------------------
EXTENDS UntimedAccess

\* The wrapper's bus: one mapping covering the routers' memory region.
MC_BusPorts == SimpleBusPorts(MemStart, (MemStart + MemSize - 1) % (2 ^ Width))
=============================================================================
