---------------------------- MODULE MC_Elaboration ----------------------------
(* One gem5 port, transactors of one or two sockets, two router ids and   *)
(* the bus's two target sockets.                                          *)
EXTENDS Elaboration

CONSTANTS p1

MC_Ports == {p1}
==============================================================================
