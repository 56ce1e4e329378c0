---------------------------- MODULE MC_Gem5Bridge ----------------------------
(* Two sockets, one router each; requestor c1 on socket 0, c2 on socket 1,  *)
(* sys in no list (falls back to socket 0).                                  *)
EXTENDS Gem5Bridge, TLC

CONSTANTS c1, c2, sys, t1, t2, t3

MC_Routers    == {0, 1}
MC_Requestors == {c1, c2, sys}
SB == INSTANCE SocketMapBuild

\* Two cores, c1's and c2's, and no socket configuration: one socket each.
MC_SocketMap  == SB!InitSocketMap(<< {c1}, {c2} >>, << >>)

\* A configuration that leaves socket 0 to the requestors in no list and
\* puts the one core on socket 1.
MC_ConfigSocketMap == SB!InitSocketMap(<< {c1, c2} >>, 1 :> << 0 >>)

MC_Trans      == {t1, t2, t3}

\* The single-socket transactor: one socket, and no socket map is built.
MC_SingleRouter   == {0}
MC_NoSocketMap    == [s \in {} |-> {}]
MC_Symmetry   == Permutations(MC_Trans)

\* Every router built with memory [2, 6) on 3-bit addresses.
AM == INSTANCE AddressMap WITH Width <- 3, MemStart <- 2, MemSize <- 4,
                               BusPorts <- << >>
MC_LocalAddrs == {a \in AM!Addrs : AM!ToMem(a)}
MC_MemAddrs   == {2}          \* requests to memory only
MC_AnyAddrs   == {2, 6}       \* one memory and one non-memory address
==============================================================================
