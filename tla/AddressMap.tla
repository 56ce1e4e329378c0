------------------------------ MODULE AddressMap ------------------------------
(***************************************************************************)
(* The two address tests of the bridge, on Width-bit addresses:            *)
(*   ToMem      TxnRouter's test for the local memory region               *)
(*              [mem_start_addr, mem_start_addr + mem_size), computed in   *)
(*              uint64_t arithmetic (src/include/txn_router.h);           *)
(*   Decode     SimpleBus's scan of its PortMapping table, whose ranges    *)
(*              include their end address (src/include/simple_bus.h).     *)
(* Each comes with a reference definition in plain integer arithmetic, as  *)
(* the design states it, to check the code's version against.              *)
(***************************************************************************)
EXTENDS Integers, Sequences

CONSTANTS
    Width,      \* address width in bits (64 in the code)
    MemStart,   \* mem_start_addr of the TxnRouter
    MemSize,    \* mem_size of the TxnRouter
    BusPorts    \* SimpleBus::ports: a sequence of [start, end] records

Word  == 2 ^ Width
Addrs == 0 .. Word - 1

\* PortMapping's constructor asserts end >= start.
ASSUME /\ MemStart \in Addrs /\ MemSize \in Addrs
       /\ \A i \in 1 .. Len(BusPorts) :
            BusPorts[i].start \in Addrs /\ BusPorts[i].end \in Addrs
            /\ BusPorts[i].end >= BusPorts[i].start

\* Faulty variant: the end of the region is taken as inclusive.
ToMemOffByOne(a) ==
    /\ ~(a < MemStart)
    /\ ~(a > (MemStart + MemSize) % Word)

\* TxnRouter::ToMem(): the sum mem_start_addr + mem_size wraps at 2^Width.
ToMem(a) ==
    /\ ~(a < MemStart)
    /\ ~(a >= (MemStart + MemSize) % Word)

\* The local-memory test as the design states it (no wrap).
InMemRef(a) == MemStart <= a /\ a < MemStart + MemSize

\* Faulty variant: the end of a mapping is taken as exclusive.
ContainsExclusive(pm, a) == a >= pm.start /\ a < pm.end

\* PortMapping::contains(): both ends included.
Contains(pm, a) == a >= pm.start /\ a <= pm.end

\* Faulty variant: the loop returns the position counted from 1.
RECURSIVE DecodeFromOneBased(_, _)
DecodeFromOneBased(a, i) ==
    IF i > Len(BusPorts) THEN -1
    ELSE IF Contains(BusPorts[i], a) THEN i
    ELSE DecodeFromOneBased(a, i + 1)

\* SimpleBus::decode(): the index of the first mapping that contains a,
\* counted from 0, or -1.
RECURSIVE DecodeFrom(_, _)
DecodeFrom(a, i) ==
    IF i > Len(BusPorts) THEN -1
    ELSE IF Contains(BusPorts[i], a) THEN i - 1
    ELSE DecodeFrom(a, i + 1)

Decode(a) == DecodeFrom(a, 1)

\* The decoder as the design states it: the first range holding a, or none.
DecodeRef(a) ==
    LET holds == {i \in 1 .. Len(BusPorts) :
                    BusPorts[i].start <= a /\ a <= BusPorts[i].end}
    IN  IF holds = {} THEN -1
        ELSE (CHOOSE i \in holds : \A j \in holds : i <= j) - 1
=============================================================================
