----------------------------- MODULE UntimedAccess -----------------------------
(***************************************************************************)
(* The untimed access paths of the bridge: gem5 atomic accesses            *)
(* (SCSlavePort::recvAtomic -> TxnRouter::b_transport -> memory or         *)
(* SimpleBus::transport) and functional accesses (recvFunctional ->        *)
(* TxnRouter::transport_dbg -> SimpleBus::transport_dbg).  Each is one     *)
(* blocking call chain that runs to its end inside one scheduler step: it  *)
(* allocates, acquires and releases its own transaction, so the pool is    *)
(* left as it was, and its only effects are where the access went, what    *)
(* gem5 is told, and whether the simulation stops.  Those are recorded in  *)
(* the history variable log.  Every router is built with the same memory  *)
(* region, so the socket an access takes does not change its outcome.      *)
(***************************************************************************)
EXTENDS Integers, Sequences, FiniteSets

CONSTANTS
    Width, MemStart, MemSize, BusPorts,
    MaxAccesses     \* bound on the accesses gem5 makes

VARIABLES
    log,       \* the outcome of every access so far
    fatal,     \* "none", or the fatal report that stopped the simulation
    issued     \* number of accesses so far

vars == <<log, fatal, issued>>

A == INSTANCE AddressMap

\* Gem5Wrapper::createSimpleBus(): a SimpleBus<2,1> whose one mapping is the
\* memory range [mem_start_addr, mem_end_addr].
SimpleBusPorts(memStart, memEnd) == << [start |-> memStart, end |-> memEnd] >>

Cmds == {"read", "write", "swap"}   \* swap: a SwapReq, both read and write

Mem  == <<"mem", 0>>
None == <<"none", 0>>
Bus(i) == <<"bus", i>>

\* An access and what came of it: the target it reached, the TLM response
\* status, the answer gem5 gets, and the fatal report it raised.
Outcome(kind, a, cmd, target, status, gem5, stop) ==
    [kind |-> kind, addr |-> a, cmd |-> cmd, target |-> target,
     status |-> status, gem5 |-> gem5, stop |-> stop]

\* SimpleBus::transport(): address error when no mapping holds the address,
\* else the target's b_transport (whose status is the target's own).
BusTransport(a) ==
    LET id == A!Decode(a) IN
    IF id < 0 THEN [target |-> None, status |-> "address_error"]
              ELSE [target |-> Bus(id), status |-> "ok"]

\* TxnRouter::b_transport(): memory for a local address, the bus otherwise.
BTransport(a) ==
    IF A!ToMem(a) THEN [target |-> Mem, status |-> "ok"] ELSE BusTransport(a)

\* SimpleBus::transport_dbg(): 0 bytes on an address error, else the
\* target's transport_dbg, which moves the whole data length.
BusTransportDbg(a) ==
    LET id == A!Decode(a) IN
    IF id < 0 THEN [target |-> None, complete |-> FALSE, stop |-> "none"]
              ELSE [target |-> Bus(id), complete |-> TRUE, stop |-> "none"]

Init ==
    /\ log = {}
    /\ fatal = "none"
    /\ issued = 0

Access(o) ==
    /\ fatal = "none"
    /\ issued < MaxAccesses
    /\ issued' = issued + 1
    /\ log' = log \cup {o}
    /\ fatal' = o.stop

\* recvAtomic(): a SwapReq is a fatal report; otherwise b_transport on the
\* requestor's socket.  The gem5 packet is turned into a response whatever
\* the transaction's response status is.
RecvAtomic(a, cmd) ==
    IF cmd = "swap"
      THEN Access(Outcome("atomic", a, cmd, None, "none", "none", "swap_not_supported"))
      ELSE LET r == BTransport(a) IN
           Access(Outcome("atomic", a, cmd, r.target, r.status, "ok", "none"))

\* TxnRouter::transport_dbg(): a FATAL report for a non-local address, else
\* the bus's transport_dbg.
TransportDbg(a) ==
    IF ~A!ToMem(a)
      THEN [target |-> None, complete |-> FALSE, stop |-> "address_out_of_range"]
      ELSE BusTransportDbg(a)

\* recvFunctional(): transport_dbg on the requestor's socket; the port
\* reports a FATAL when fewer bytes than the data length came back.
RecvFunctional(a, cmd) ==
    LET r == TransportDbg(a) IN
    IF r.stop # "none"
      THEN Access(Outcome("functional", a, cmd, None, "none", "none", r.stop))
    ELSE IF r.complete
      THEN Access(Outcome("functional", a, cmd, r.target, "ok", "ok", "none"))
      ELSE Access(Outcome("functional", a, cmd, r.target, "address_error",
                          "none", "debug_transport_incomplete"))

\* The simulation has stopped, or gem5 made all its accesses.
Halted ==
    /\ fatal # "none" \/ issued = MaxAccesses
    /\ UNCHANGED vars

Next ==
    \/ \E a \in A!Addrs, cmd \in Cmds : RecvAtomic(a, cmd)
    \/ \E a \in A!Addrs, cmd \in Cmds \ {"swap"} : RecvFunctional(a, cmd)
    \/ Halted

Spec == Init /\ [][Next]_vars

-----------------------------------------------------------------------------
(* Properties.                                                             *)

TypeOK ==
    /\ issued \in 0 .. MaxAccesses
    /\ Cardinality(log) <= issued
    /\ \A o \in log :
          /\ o.kind \in {"atomic", "functional"} /\ o.addr \in A!Addrs
          /\ o.target \in {Mem, None} \cup {Bus(i) : i \in 0 .. Len(BusPorts) - 1}

\* Where the design sends an address: local memory when it lies in
\* [start, start + size), else the first bus range holding it, else nowhere.
RefTarget(a) ==
    IF A!InMemRef(a) THEN Mem
    ELSE IF A!DecodeRef(a) >= 0 THEN Bus(A!DecodeRef(a))
    ELSE None

\* Every atomic access (b_transport through ToMem and SimpleBus::decode)
\* reaches the target the design gives its address.
AtomicReachesItsTarget ==
    \A o \in log : o.kind = "atomic" /\ o.cmd # "swap" => o.target = RefTarget(o.addr)

\* A functional access to the local memory region (the binary loader's
\* accesses) completes: neither transport_dbg's address test nor the bus
\* decode nor the port's byte count stops the simulation.
FunctionalInRangeCompletes ==
    \A o \in log : o.kind = "functional" /\ A!InMemRef(o.addr) => o.stop = "none"

\* An atomic access no target accepts (SimpleBus sets
\* TLM_ADDRESS_ERROR_RESPONSE) is reported to gem5 as an error, not as a
\* normal response (recvAtomic never reads the response status).
AddressErrorReported ==
    \A o \in log : o.kind = "atomic" /\ o.status = "address_error" => o.gem5 = "error"
=============================================================================
