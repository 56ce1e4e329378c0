---------------------------- MODULE SocketMapBuild ----------------------------
(***************************************************************************)
(* How SCSlavePort builds socket_map, once, when it is bound to the        *)
(* multi-socket transactor (src/src/sc_slave_port.cc):                    *)
(*   updateCorePortMap(map)  keeps cpu_port_map (core name -> requestor   *)
(*                           ids) and lists its names in cpu_vec, in the   *)
(*                           std::map's key order;                         *)
(*   initSocketMap()         without a socket->cores configuration, gives  *)
(*                           socket k the requestors of the k-th core;     *)
(*                           with one, gives each configured socket the    *)
(*                           requestors of the cores it names, skipping    *)
(*                           core indexes past the end of cpu_vec.         *)
(* A core is its position in cpu_vec: corePorts is the sequence of the     *)
(* cores' requestor sets in cpu_port_map's key order.  A configuration is  *)
(* a function from socket ids to sequences of core indexes (from 0).       *)
(***************************************************************************)
EXTENDS Naturals, Sequences

\* The core indexes of cpu_vec.
CoreIdx(corePorts) == 0 .. Len(corePorts) - 1

\* initSocketMap(): the default branch inserts one socket per core; the
\* configured branch creates socket_map[socket_id] only when it appends the
\* requestors of at least one known core to it.
InitSocketMap(corePorts, configMap) ==
    IF DOMAIN configMap = {}
      THEN [k \in CoreIdx(corePorts) |-> corePorts[k + 1]]
      ELSE LET known(s) == {configMap[s][j] : j \in DOMAIN configMap[s]}
                              \cap CoreIdx(corePorts)
           IN  [s \in {s2 \in DOMAIN configMap : known(s2) # {}} |->
                  UNION {corePorts[c + 1] : c \in known(s)}]
=============================================================================
