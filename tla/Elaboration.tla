----------------------------- MODULE Elaboration -----------------------------
(***************************************************************************)
(* How the bridge is put together before the simulation starts: the        *)
(* composition root Gem5Wrapper (src/src/gem5_wrapper.cc), the multi-      *)
(* socket transactor Gem5SlaveTransactor_Multi (src/src/slave_transactor. *)
(* cc), the single-socket Gem5SlaveTransactor the caller may build itself *)
(* and SCSlavePort::bindToTransactor (src/src/sc_slave_port.cc).           *)
(*                                                                         *)
(* The caller (sc_main) may invoke the wrapper's set-up calls in any order *)
(* and any number of times; sc_start then runs before_end_of_elaboration   *)
(* of every transactor module and SystemC's binding check.                 *)
(*                                                                         *)
(* Objects are numbered in creation order.  A SystemC port or socket is    *)
(* named by a tuple: <<"sim", t>> (a transactor's sim_control port),       *)
(* <<"sock", t, s>> (its initiator socket s), <<"tsock", r>> and           *)
(* <<"isock_bus", r>> (a router's sockets), <<"bus", b, s>> (bus b's      *)
(* target socket s).  bound maps each port bound so far to 1, or to 2 when *)
(* it was bound more than once, which SystemC's binding check rejects.     *)
(***************************************************************************)
EXTENDS Integers, Sequences, FiniteSets, TLC

CONSTANTS
    Ports,          \* port names of gem5's ExternalSlave ports
    SocketNums,     \* socket_num arguments the caller passes
    RouterIds,      \* txn_id arguments the caller passes
    BusSockets,     \* SimpleBus<2,1>::tsocks indexes: 0..1
    CreateOps,      \* which transactor factory the caller uses
    MaxTransactors, \* bound on transactor creations
    MaxRouters      \* bound on createTxnRouter calls

ASSUME CreateOps \subseteq {"singleton", "new", "single"} /\ SocketNums \subseteq Nat \ {0}

VARIABLES
    simControl,       \* Gem5Wrapper::sim_control != nullptr
    simControlBinded, \* Gem5Wrapper::simControlBinded
    instance,         \* Gem5SlaveTransactor_Multi::instance (0: nullptr)
    txObj,            \* transactor objects: [kind, port, socketNum, coreMap]
    transactors,      \* Gem5Wrapper::transactors (object numbers)
    txnRouters,       \* Gem5Wrapper::txn_routers: id -> router object
    nRouters,         \* router objects created
    busInstance,      \* Gem5Wrapper::busInstance (0: nullptr)
    nBuses,           \* SimpleBus objects created
    bound,            \* SystemC bindings, see above
    portTx,           \* per port: the transactors bindToTransactor bound
    elaborated,       \* sc_start has run elaboration
    fatal

vars == <<simControl, simControlBinded, instance, txObj, transactors,
          txnRouters, nRouters, busInstance, nBuses, bound, portTx,
          elaborated, fatal>>

Running == fatal = "none" /\ ~elaborated

Init ==
    /\ simControl = FALSE
    /\ simControlBinded = FALSE
    /\ instance = 0
    /\ txObj = << >>
    /\ transactors = << >>
    /\ txnRouters = [i \in {} |-> 0]
    /\ nRouters = 0
    /\ busInstance = 0
    /\ nBuses = 0
    /\ bound = [x \in {} |-> 0]
    /\ portTx = [p \in Ports |-> {}]
    /\ elaborated = FALSE
    /\ fatal = "none"

\* sc_port::bind / socket bind: record one more binding of each port in
\* add (a function from ports to how many bindings they get).
Bind(f, add) ==
    [x \in DOMAIN f \cup DOMAIN add |->
        LET n == (IF x \in DOMAIN f THEN f[x] ELSE 0)
                 + (IF x \in DOMAIN add THEN add[x] ELSE 0)
        IN  IF n > 2 THEN 2 ELSE n]

BindPair(f, x, y) == Bind(f, (x :> 1) @@ (y :> 1))

\* sc_port::bind(IF&), as for sim_control: a port given an interface it
\* already holds is rejected at the bind call itself (SC_REPORT_ERROR).
BindInterface(add) ==
    /\ bound' = Bind(bound, add)
    /\ fatal' = IF \E x \in DOMAIN add : bound'[x] > 1 THEN "bind_if_twice" ELSE "none"

\* The Gem5SlaveTransactor_Multi constructor: sockets.init(socket_num,
\* create_socket) makes socket_num sockets, getNameForNewSocket's
\* assert(count < socket_num) holding for each; no socket-core map yet.
NewTransactor(port, sn) ==
    [kind |-> "multi", port |-> port, socketNum |-> sn, coreMap |-> FALSE]

\* The caller constructs a Gem5SlaveTransactor: one socket named after the
\* port (a port name is never empty here, so no SC_REPORT_ERROR).  The
\* wrapper does not list it.
CreateSingleSocketTransactor(port) ==
    /\ Running /\ "single" \in CreateOps
    /\ Len(txObj) < MaxTransactors
    /\ txObj' = Append(txObj, [kind |-> "single", port |-> port, socketNum |-> 1,
                               coreMap |-> FALSE])
    /\ UNCHANGED <<simControl, simControlBinded, instance, transactors, txnRouters,
                   nRouters, busInstance, nBuses, bound, portTx, elaborated, fatal>>

\* The caller binds that transactor's sim_control port to the object
\* Gem5Wrapper::getSimControll returns (so only once it exists).
BindSingleSimControl(t) ==
    /\ Running /\ simControl
    /\ t \in 1 .. Len(txObj) /\ txObj[t].kind = "single"
    /\ BindInterface(<<"sim", t>> :> 1)
    /\ UNCHANGED <<simControl, simControlBinded, instance, txObj, transactors,
                   txnRouters, nRouters, busInstance, nBuses, portTx, elaborated>>

\* Gem5Wrapper::createSimControl: a second call returns early.
CreateSimControl ==
    /\ Running /\ ~simControl
    /\ simControl' = TRUE
    /\ UNCHANGED <<simControlBinded, instance, txObj, transactors, txnRouters,
                   nRouters, busInstance, nBuses, bound, portTx, elaborated, fatal>>

\* Gem5SlaveTransactor_Multi::getInstance: the object it returns, built
\* only when instance is nullptr (later arguments are ignored).
SingletonObj == IF instance = 0 THEN Len(txObj) + 1 ELSE instance

\* Gem5Wrapper::createSingletonTransactor: the result of getInstance is
\* pushed onto transactors on every call.
CreateSingletonTransactor(port, sn) ==
    /\ Running /\ "singleton" \in CreateOps
    /\ Len(transactors) < MaxTransactors
    /\ txObj' = IF SingletonObj > Len(txObj)
                 THEN Append(txObj, NewTransactor(port, sn)) ELSE txObj
    /\ instance' = SingletonObj
    /\ transactors' = Append(transactors, SingletonObj)
    /\ UNCHANGED <<simControl, simControlBinded, txnRouters, nRouters,
                   busInstance, nBuses, bound, portTx, elaborated, fatal>>

\* Gem5Wrapper::createTransactor: a new object every call.
CreateTransactor(port, sn) ==
    /\ Running /\ "new" \in CreateOps
    /\ Len(transactors) < MaxTransactors
    /\ txObj' = Append(txObj, NewTransactor(port, sn))
    /\ transactors' = Append(transactors, Len(txObj'))
    /\ UNCHANGED <<simControl, simControlBinded, instance, txnRouters, nRouters,
                   busInstance, nBuses, bound, portTx, elaborated, fatal>>

\* Gem5Wrapper::createTxnRouter: a new router; std::map::insert keeps the
\* router already registered under id.
CreateTxnRouter(id) ==
    /\ Running /\ nRouters < MaxRouters
    /\ nRouters' = nRouters + 1
    /\ txnRouters' = txnRouters @@ (id :> nRouters')
    /\ UNCHANGED <<simControl, simControlBinded, instance, txObj, transactors,
                   busInstance, nBuses, bound, portTx, elaborated, fatal>>

\* Gem5Wrapper::createSimpleBus: one bus, its single PortMapping set from
\* the arguments; later calls return it.
CreateSimpleBus ==
    /\ Running /\ busInstance = 0
    /\ nBuses' = nBuses + 1
    /\ busInstance' = nBuses'
    /\ UNCHANGED <<simControl, simControlBinded, instance, txObj, transactors,
                   txnRouters, nRouters, bound, portTx, elaborated, fatal>>

\* How many times t occurs in transactors.
Occurrences(t) == Cardinality({i \in 1 .. Len(transactors) : transactors[i] = t})

\* The objects transactors holds.
Listed == {transactors[i] : i \in 1 .. Len(transactors)}

\* Gem5Wrapper::bindSimControl2Transactor: returns early without a
\* sim_control or once it has run; otherwise binds the sim_control port of
\* every element of transactors (an object listed twice is bound twice).
BindSimControl2Transactor ==
    /\ Running /\ simControl /\ ~simControlBinded
    /\ BindInterface([x \in {<<"sim", t>> : t \in Listed} |-> Occurrences(x[2])])
    /\ simControlBinded' = TRUE
    /\ UNCHANGED <<simControl, instance, txObj, transactors, txnRouters, nRouters,
                   busInstance, nBuses, portTx, elaborated>>

Stop(why) ==
    /\ fatal' = why
    /\ UNCHANGED <<simControl, simControlBinded, instance, txObj, transactors,
                   txnRouters, nRouters, busInstance, nBuses, bound, portTx, elaborated>>

\* Faulty variant: the assert on socket_id is dropped.
BindTxnRouter2TransactorUnchecked(id, s, tid) ==
    /\ Running
    /\ IF tid >= Len(transactors) THEN Stop("transactor_id_out_of_range")
       ELSE /\ id \in DOMAIN txnRouters
            /\ bound' = BindPair(bound, <<"sock", transactors[tid + 1], s>>,
                                        <<"tsock", txnRouters[id]>>)
            /\ UNCHANGED <<simControl, simControlBinded, instance, txObj, transactors,
                           txnRouters, nRouters, busInstance, nBuses, portTx,
                           elaborated, fatal>>

\* Gem5Wrapper::bindTxnRouter2Transactor: asserts on the transactor index
\* and the socket index; binds socket socket_id to the router's tsock only
\* if txn_routers holds txn_id (otherwise does nothing).
BindTxnRouter2Transactor(id, s, tid) ==
    /\ Running
    /\ IF tid >= Len(transactors) THEN Stop("transactor_id_out_of_range")
       ELSE IF s >= txObj[transactors[tid + 1]].socketNum
         THEN Stop("socket_id_out_of_range")
       ELSE /\ id \in DOMAIN txnRouters
            /\ bound' = BindPair(bound, <<"sock", transactors[tid + 1], s>>,
                                        <<"tsock", txnRouters[id]>>)
            /\ UNCHANGED <<simControl, simControlBinded, instance, txObj, transactors,
                           txnRouters, nRouters, busInstance, nBuses, portTx,
                           elaborated, fatal>>

\* Gem5Wrapper::bindTxnRouter2Bus: asserts the bus exists; binds the
\* router's isock_bus to the bus's target socket only if txn_id is known.
BindTxnRouter2Bus(id, s) ==
    /\ Running
    /\ IF busInstance = 0 THEN Stop("bus_not_created")
       ELSE /\ id \in DOMAIN txnRouters
            /\ bound' = BindPair(bound, <<"isock_bus", txnRouters[id]>>,
                                        <<"bus", busInstance, s>>)
            /\ UNCHANGED <<simControl, simControlBinded, instance, txObj, transactors,
                           txnRouters, nRouters, busInstance, nBuses, portTx,
                           elaborated, fatal>>

\* getTransactor(tid)->setSocketCoreMap(map): getTransactor asserts the
\* index; the transactor keeps the map for initSocketMap.
SetSocketCoreMap(tid) ==
    /\ Running
    /\ IF tid >= Len(transactors) THEN Stop("transactor_id_out_of_range")
       ELSE /\ txObj' = [txObj EXCEPT ![transactors[tid + 1]].coreMap = TRUE]
            /\ UNCHANGED <<simControl, simControlBinded, instance, transactors,
                           txnRouters, nRouters, busInstance, nBuses, bound,
                           portTx, elaborated, fatal>>

\* What before_end_of_elaboration of object t does, given the objects
\* before it have run theirs: sim_control->getSlavePort(portName) is an
\* error on an unbound sim_control port; then either bindToTransactor
\* overload runs sc_assert(this->transactor == nullptr), which tests only
\* the pointer the single-socket overload sets.
ElaborationStep(t) ==
    IF <<"sim", t>> \notin DOMAIN bound THEN "sim_control_not_bound"
    ELSE IF \E u \in 1 .. t - 1 : txObj[u].port = txObj[t].port
                                /\ txObj[u].kind = "single"
      THEN "assert_failed"
    ELSE "none"

\* sc_start: before_end_of_elaboration of every transactor module, in
\* creation order, up to the first that fails; then SystemC's
\* complete_binding rejects a socket bound more than once.
Elaborate ==
    /\ Running
    /\ elaborated' = TRUE
    /\ LET objs    == 1 .. Len(txObj)
           failing == {t \in objs : ElaborationStep(t) # "none"}
           first   == CHOOSE t \in failing : \A u \in failing : t <= u
           done    == IF failing = {} THEN objs ELSE 1 .. first - 1
       IN  /\ portTx' = [p \in Ports |->
                           portTx[p] \cup {t \in done : txObj[t].port = p}]
           /\ fatal' = IF failing # {} THEN ElaborationStep(first)
                       ELSE IF \E x \in DOMAIN bound : bound[x] > 1
                         THEN "binding_error" ELSE "none"
    /\ UNCHANGED <<simControl, simControlBinded, instance, txObj, transactors,
                   txnRouters, nRouters, busInstance, nBuses, bound>>

\* Set-up has ended: elaboration ran, or a fatal stopped the program.
Halted == ~Running /\ UNCHANGED vars

MaxSocket == CHOOSE n \in SocketNums : \A m \in SocketNums : m <= n

Next ==
    \/ CreateSimControl
    \/ \E p \in Ports, sn \in SocketNums :
          CreateSingletonTransactor(p, sn) \/ CreateTransactor(p, sn)
    \/ \E p \in Ports : CreateSingleSocketTransactor(p)
    \/ \E t \in 1 .. MaxTransactors : BindSingleSimControl(t)
    \/ \E id \in RouterIds : CreateTxnRouter(id)
    \/ CreateSimpleBus
    \/ BindSimControl2Transactor
    \/ \E id \in RouterIds, s \in 0 .. MaxSocket - 1, tid \in 0 .. MaxTransactors - 1 :
          BindTxnRouter2Transactor(id, s, tid)
    \/ \E id \in RouterIds, s \in BusSockets : BindTxnRouter2Bus(id, s)
    \/ \E tid \in 0 .. MaxTransactors - 1 : SetSocketCoreMap(tid)
    \/ Elaborate
    \/ Halted

Spec == Init /\ [][Next]_vars

-----------------------------------------------------------------------------
\* The ports that exist: those of the created objects.
Created ==
    {<<"sim", t>> : t \in 1 .. Len(txObj)}
    \cup UNION {{<<"sock", t, s>> : s \in 0 .. txObj[t].socketNum - 1} :
                t \in 1 .. Len(txObj)}
    \cup UNION {{<<"tsock", r>>, <<"isock_bus", r>>} : r \in 1 .. nRouters}
    \cup {<<"bus", b, s>> : b \in 1 .. nBuses, s \in BusSockets}

\* Type invariant; in particular every binding names a port or socket that
\* exists (bindTxnRouter2Transactor never indexes past sockets[]).
TypeOK ==
    /\ simControl \in BOOLEAN /\ simControlBinded \in BOOLEAN
    /\ instance \in 0 .. Len(txObj)
    /\ \A i \in 1 .. Len(transactors) : transactors[i] \in 1 .. Len(txObj)
    /\ \A id \in DOMAIN txnRouters : id \in RouterIds /\ txnRouters[id] \in 1 .. nRouters
    /\ busInstance \in 0 .. nBuses
    /\ DOMAIN bound \subseteq Created /\ \A x \in DOMAIN bound : bound[x] \in {1, 2}
    /\ \A t \in 1 .. Len(txObj) : txObj[t].kind \in {"single", "multi"}
    /\ \A p \in Ports : portTx[p] \subseteq 1 .. Len(txObj)

\* The comment on simControlBinded: sim_control is bound only once.  No
\* transactor's sim_control port is bound twice, however often
\* bindSimControl2Transactor and the factories are called.
SimControlBoundAtMostOnce ==
    \A t \in 1 .. Len(txObj) :
        <<"sim", t>> \in DOMAIN bound => bound[<<"sim", t>>] = 1

\* The sc_assert in bindToTransactor: a port is bound to one transactor.
PortBoundToOneTransactor ==
    \A p \in Ports : Cardinality(portTx[p]) <= 1
=============================================================================
