# TLA+ models of gem5_wrapper's gem5-to-SystemC bridge

These modules model the timing path of the bridge between gem5 and SystemC
TLM-2.0 in `src/`:

- gem5 packets enter through `SCSlavePort`;
- each packet is turned into a four-phase TLM transaction on one socket of a
  multi-socket transactor;
- each socket is served by a `TxnRouter`.

TLC checks the protocol invariants, the reference counting of the pooled
transaction objects, and the progress of refused requests and responses.

## The system

| Part | Source | What it does |
|---|---|---|
| SCSlavePort | `src/src/sc_slave_port.cc` | gem5 `ExternalSlave` port. `recvTimingReq` allocates a transaction and sends BEGIN_REQ, or refuses the request. `pec` handles the phases a router sends back (END_REQ, BEGIN_RESP). `recvRespRetry` resends refused responses. `getSocketId` maps a requestor to a socket. |
| BlockingPacketHelper | `src/src/blocking_packet_helper.cc` | Per socket it keeps the blocking request, the blocking response and the "retry owed" flag. |
| TxnRouter | `src/include/txn_router.h` | The SystemC target on each socket. `peq_cb` handles BEGIN_REQ and END_RESP. `send_end_req` and `send_response` send phases back. The thread `execute_transaction_process` runs a granted transaction against memory. |
| SimpleBus | `src/include/simple_bus.h` | Address decoder for non-memory targets. It is used only on the blocking and debug paths. |
| SlaveTransactor(Multi) | `src/src/slave_transactor.cc` | Creates the sockets at construction. Its `before_end_of_elaboration` binds itself to the gem5 port. `getInstance` gives a singleton. |
| Gem5Wrapper | `src/src/gem5_wrapper.cc` | Composition root. Its set-up calls create the sim control, transactors, routers and bus, and bind them, in whatever order `sc_main` calls them. |

### How the parts interact

The bridge has one port, one transactor with N sockets, and one router per
socket.

- The crossbar calls `recvTimingReq`.
- The port sends BEGIN_REQ with `nb_transport_fw`. It lands in the router's
  `m_peq`.
- The router answers with END_REQ and later BEGIN_RESP through
  `nb_transport_bw`. Each of these becomes a `PayloadEvent` of the port, which
  runs `pec`.
- `pec` does two things:
  - it unblocks the socket and, if a request was refused meanwhile, calls
    `sendRetryReq`;
  - it sends the gem5 response. If the crossbar accepts it, END_RESP goes
    back to the router. If the crossbar refuses it, the transaction waits in
    the helper until the crossbar calls `recvRespRetry`.

Everything runs on the one SystemC/gem5 scheduler thread. Each handler
therefore runs atomically, and handlers interleave only at scheduled events.

**Reference counting.** Transactions come from a pool:

- the port holds a reference from `mm.allocate()` until it has sent END_RESP;
- the router holds a reference from BEGIN_REQ until `send_response`;
- at a count of zero the object goes back to the pool.

### Hard behaviours in the code

- **Two actors on two sockets.** The port, two routers and the crossbar's
  response layers interleave their events.
- **Single-slot buffers.**
  - The router's `end_req_pending` is overwritten without a check.
  - `next_response_pending` is fatal on overflow, but it is never set: a
    router starts its next transaction only after END_RESP has cleared
    `response_in_progress`, so that fatal is unreachable.
  - The port keeps one blocking request and one blocking response per socket.
- **Retry protocols.**
  - A refused request must get exactly one `sendRetryReq`.
  - A refused response waits for `recvRespRetry`. That call drains every
    stored response and asserts that each one is accepted.
- **Object reuse** by the pool while an event still refers to the object.
- **Off-by-one socket bounds.** The helper's keys run over `0..socket_num`,
  but three methods assert `< socket_num`.

## Modules

- **`BlockingPacketHelper`**: the helper's table as a record value `h`, with
  one operator per method. A method that begins with an `assert` has a
  companion `...Ok(c)` predicate that the caller turns into a fatal stop.
  `isBlockingTrans` scans only the request map, as the code does: it ignores
  its type argument.
- **`TxnRouter`**: the router's five member variables (`transaction_in_progress`,
  `response_in_progress`, `next_response_pending`, `end_req_pending`,
  `target_done_event`). It has one action per `peq_cb` phase, plus
  `ExecuteTransactionProcess`.
  - `execute_transaction` is a blocking memory access that leaves the
    protocol state alone.
  - The event timings of the code (END_REQ delayed 10 ns, completion after
    25 ns) mean the port has handled END_REQ before the thread runs. This is
    the guard `Msg(t, "END_REQ") \notin pe`.
- **`SCSlavePort`**: `RecvTimingReq`, `Pec` and `RecvRespRetry` each model
  their whole handler, asserts and fatals included. The gem5 side is seen
  only through the effect of the port's calls:
  - `reqState` and `held`: a refused request that waits for a retry;
  - `layerBusy` and `respOwed`: the crossbar's per-destination response
    layers and the `recvRespRetry` they owe;
  - `accepted` and `responded`: history.

  `fatal` records which `SC_REPORT_FATAL` or `sc_assert` stopped the
  simulation. Every action requires `fatal = "none"`.
- **`Gem5Bridge`**: the composition. It instantiates `SCSlavePort` and
  `TxnRouter` over shared variables (`peq`, `pe`, `refcnt`, `fatal`) and adds
  the crossbar:
  - `IssueTimingReq`, up to `MaxReqs` requests;
  - `ResendTimingReq` after a retry;
  - `LayerFree`: a layer ends its occupancy and, if it refused a response,
    calls `recvRespRetry`.

  It also holds the properties.
- **`MC_Gem5Bridge`**: the model values and definitions for TLC. Its socket
  maps are computed with `SocketMapBuild` from a list of cores, as
  `initSocketMap` computes them. Its local addresses are computed with
  `AddressMap!ToMem`.
- **`SocketMapBuild`**: `initSocketMap` and `updateCorePortMap` as operators.
  Both branches are modelled: one socket per core, or the configured
  socket-to-cores map. Construction runs once, so the result is the constant
  `SocketMap` of `Gem5Bridge`.
- **`AddressMap`**: `TxnRouter::ToMem` in `Width`-bit arithmetic
  (`% 2^Width`), `PortMapping::contains`, and `SimpleBus::decode` as a
  RECURSIVE scan. Each has a reference definition in plain integers
  (`InMemRef`, `DecodeRef`) to check it against.
- **`UntimedAccess`**: the atomic and functional paths. These are
  `recvAtomic` → `b_transport` → `SimpleBus::transport`, and
  `recvFunctional` → `transport_dbg` → `SimpleBus::transport_dbg`. Each path
  is a synchronous call chain, so it is one step. A step appends its
  `Outcome` (target reached, TLM status, what gem5 gets, any fatal) to the
  history `log`.
- **`Elaboration`** (with `MC_Elaboration`): the set-up before `sc_start`.
  Each wrapper call is an action, and the caller may issue them in any order
  and any number of times:
  - `CreateSimControl`, `CreateSingletonTransactor` (through `getInstance`,
    i.e. `SingletonObj`), `CreateTransactor`, `CreateTxnRouter`,
    `CreateSimpleBus`;
  - `BindSimControl2Transactor`, `BindTxnRouter2Transactor`,
    `BindTxnRouter2Bus`, `SetSocketCoreMap`;
  - the caller may also build a single-socket `Gem5SlaveTransactor` itself
    (`CreateSingleSocketTransactor`). It then binds that transactor's
    `sim_control` to `getSimControll()` (`BindSingleSimControl`). The wrapper
    does not list such a transactor.

  `Elaborate` is `sc_start`. It runs every transactor's
  `before_end_of_elaboration` in creation order, up to the first that fails,
  and then SystemC's `complete_binding`, which rejects a socket bound twice.
  - `ElaborationStep(t)` is one such call. It fails on an unbound
    `sim_control`. Otherwise it fails on `bindToTransactor`'s
    `sc_assert(this->transactor == nullptr)`, which only an earlier
    single-socket transactor on the same port can trip.
  - SystemC bindings are the function `bound`, from port names to 1, or to 2
    when a port is bound more than once.
  - Binding a `sim_control` port to an interface it already holds is rejected
    at the `bind` call itself (`BindInterface`), not at elaboration.
  - The wrapper's asserts, and an unbound `sim_control`, set `fatal`.

Constants that select code paths:

- `MultiTransactor`: which `bindToTransactor` overload ran. Only the
  multi-socket one calls `blk_pkt_helper->init()`.
- `Debug`: the router's `debug` flag.
- `LocalAddrs`: the addresses `ToMem` accepts.
- `ReqAddrs`: the addresses gem5 sends requests to.

## Runs

| Run | cfg | Result | What it shows |
|---|---|---|---|
| core_safety | `MC_Gem5Bridge.cfg` | pass (about 434k states, 75 s) | No interleaving breaks the invariants below. |
| core_liveness | `MC_Gem5Bridge_live.cfg` | pass (about 199k states, 105 s) | Refused requests get their retry, and every issued request is answered. |
| untimed | `MC_UntimedAccess.cfg` | pass (725 states) | Atomic accesses reach the decoded target, and functional accesses to memory complete. |
| resp_retry_drain | `MC_Gem5Bridge_drain.cfg` | violation | `recvRespRetry`'s `sc_assert(!need_retry)` can fire. |
| untimed_error | `MC_UntimedAccess_error.cfg` | violation | An address error on the atomic path reaches gem5 as success. |
| timing_bus_address | `MC_Gem5Bridge_busaddr.cfg` | violation | A timing request to a non-memory address is a fatal. |
| single_socket_transactor | `MC_Gem5Bridge_single.cfg` | violation | With the single-socket transactor the first timing request is fatal. |
| debug_read_after_release | `MC_Gem5Bridge_debug.cfg` | violation | With `debug`, END_RESP reads a released transaction. |
| configured_socket_map | `MC_Gem5Bridge_config.cfg` | violation | A configuration naming only socket 1 trips the helper's range assert. |
| elaboration | `MC_Elaboration.cfg` | pass (about 4.5M states, 65 s) | In any order of the set-up calls, with either factory and caller-built single-socket transactors, every binding names a socket that exists. |
| singleton_twice | `MC_Elaboration_twice.cfg` | violation | A second `createSingletonTransactor` binds the one transactor's `sim_control` twice. |
| port_bound_twice | `MC_Elaboration_port.cfg` | violation | Two multi-socket transactors on one port both pass `bindToTransactor`'s assert. |

The properties checked by core_safety:

- `ExclusionRule`: for each socket, at most one transaction is between
  BEGIN_REQ and the handling of its END_REQ.
- `NoLostRequest`: every accepted but unanswered request is still owned
  somewhere in the pipeline.
- `RefCountMatchesOwners`: each reference count equals the number of
  components that hold the object.
- `NoFatal`: no fatal is reached.
- `TypeOK`.

The untimed run checks:

- `AtomicReachesItsTarget`: every atomic access went to memory, or to bus port
  `DecodeRef(a)`, exactly as the reference address map says.
- `FunctionalInRangeCompletes`: a functional access to an address in
  `[start, start+size)` never stops the simulation.

Each property of a passing run has a mutant, a faulty variant defined next to
the operator it replaces:

- `ReleaseTwice`, `IsBlockingTransRespMap`, `IsBlockedPortSysOnly`;
- `PeqBeginReqDropsPending`, `PeqBeginReqNoAcquire`;
- `UpdateRetryMapDropped`, `PendingResponseKeysFromOne`;
- `ToMemOffByOne`, `ContainsExclusive`, `DecodeFromOneBased`.

TLC finds the property violated when the mutant is substituted.

### Finding: the response-retry drain

`recvRespRetry` (`sc_slave_port.cc:432-477`) resends every stored response in
one loop. It asserts that each `sendTimingResp` succeeds. Spec §4.3(3) takes
this for granted: an invited retry is always accepted.

gem5's crossbar, however, has one response layer per destination. Its
`recvRespRetry` comes from the layer that freed up. Another stored response
may be bound for a layer that is still busy, or two stored responses may go to
the same requestor. In either case the loop's second send is refused and the
assert fires.

`RespRetryAlwaysAccepted = FALSE` lets such a send be refused, and TLC then
finds a trace. The passing runs set it to `TRUE`, which is the assumption the
code makes.

### Other findings

- **Atomic address errors are dropped** (`sc_slave_port.cc:146`).
  `recvAtomic` makes a response without reading the payload's status. An
  unmapped address therefore reaches gem5 as a success, against spec §4.6.
- **Timing requests to non-memory addresses are fatal** (`txn_router.h:126`).
  Spec §4.5 routes them to the bus.
- **The single-socket transactor never initialises the helper**
  (`sc_slave_port.cc:235`). Its first request finds no socket key.
- **The debug print reads a released transaction** (`txn_router.h:208`).
- **A configured socket map skipping socket 0** gives `socket_num = 1`, but
  socket id 1 is still used (`blocking_packet_helper.cc:67`).
- **`createSingletonTransactor` lists the instance again on every call**
  (`gem5_wrapper.cc:36`). `bindSimControl2Transactor` then binds its
  `sim_control` to the same interface twice, against the comment on
  `simControlBinded`. SystemC rejects the second `bind` at the call.
- **`bindToTransactor`'s assert checks the wrong pointer**
  (`sc_slave_port.cc:517`). The multi-socket overload sets `transactor_multi`
  but asserts on `transactor`. A second transactor therefore silently takes
  over a bound port and rebuilds its socket map. A single-socket transactor
  bound after a multi-socket one passes the assert as well. Only a port that
  already holds a single-socket transactor is protected.

Other problems found while modelling are kept as hazards in `PROJECT.json`
rather than as runs:
- **`ToMem` wraps** when `start + size` reaches 2^64, so no address is local.
- **More cores than transactor sockets** gives socket ids past `sockets[]`.
- **A transactor created after `bindSimControl2Transactor`** is never bound.
- **A repeated `createTxnRouter` id** leaves the new router unregistered.

In each violation run, the property states what the spec or the code's own
asserts promise. The trace shows the code path that breaks it.

## Bounds

- **Sockets and requestors.** There are two sockets, `{0, 1}`. The
  requestors are `c1` (socket 0), `c2` (socket 1) and `sys`, which is in no
  list and falls back to socket 0. Two requestors therefore share socket 0,
  which is what makes the socket blocking and the retry happen.
- **Cluster ids.** In the two pass runs a request may carry cpu cluster id 1
  or none (`Clusters = {1}`). With id 1, `recvTimingReq` overrides the socket
  map, so `c1` and `sys` can also reach socket 1 and contend there with `c2`.
  Cluster id 0 would only add contention on socket 0, which `c1` and `sys`
  already give, at the cost of a run too slow to keep. The violation runs keep `Clusters = {}`.
- **Transactions.** There are three transaction objects. That is enough for
  one request in flight on each socket plus a third request being refused or
  reusing a released object.
- **Requests.** `MaxReqs` is 4 for the safety run and 3 for liveness. It is 2
  for the violation runs, which need only the first request.
  Coverage confirms that every branch of interest is reached:
  - a refused request followed by a granted retry;
  - a router holding `end_req_pending`;
  - stored responses;
  - `recvRespRetry` with something to drain.
- **Addresses.** Addresses are 3 bits wide and memory is `[2, 6)`. Every
  address below, inside and above the region is enumerated, and so are both
  region edges.
  - The timing runs use address 2 (memory), plus address 6 (above memory)
    for `timing_bus_address`.
  - `MaxAccesses = 2` lets one access follow another, which is enough to show
    the first access's fatal stopping the simulation.
- **Elaboration.** The bounds are:
  - one gem5 port;
  - transactors of 1 or 2 sockets, at most two transactor creations, of any
    of the three kinds (so single/single, single/multi and multi/single on the
    one port all happen);
  - two router creations sharing one id, so the duplicate-id path is taken;
  - both bus sockets.

  This is enough for every repeated call, a call before the object it needs,
  a socket index past a one-socket transactor, and two transactors on one
  port. The violation runs use router ids `{0, 1}`.
- **Symmetry.** The safety runs are symmetric in the transaction objects,
  which are interchangeable pool slots. The liveness runs and the debug run
  use no symmetry: the debug run's action property mentions the objects.

## Fairness

`FairSpec` assumes weak fairness on:

- the port's `pec` events;
- the routers' `peq_cb` events and their thread;
- the crossbar's layer-free events and its resend after a retry.

SystemC runs every notified event, and a gem5 layer occupancy always ends.

New requests get no fairness: the crossbar may stop issuing them.
`RequestAnswered` is a property of the requests that were issued.

The liveness cfgs set `CHECK_DEADLOCK FALSE` because a fatal stops the
simulation. Any state in which the run is stuck also violates the leads-to
properties, and the safety run still checks for deadlock.

## Not modelled

- **The gem5-cache system-port path** (`usingGem5Cache`, `blockingRequest`,
  `blockingResponse`). It is modelled in `SCSlavePort` but dead with the
  multi-socket transactor, whose `isUsingGem5Cache()` returns false. No run
  sets `UsingGem5Cache = TRUE`.
- **The snoop entry points** of `SCSlavePort`. Each only reports a FATAL, and
  gem5 never calls them on this port.
- **A refinement of the bridge.** An abstract per-socket channel (a
  socket carries one request at a time; a request is taken once and
  answered after it was taken) was once checked as a refinement. With the
  bridge's state as the mapping, it said no more than `ExclusionRule` and
  `TypeOK`. A duplicated response maps to a stuttering step, so the mapping
  cannot see it. A channel that also promised per-socket response order or
  one answer per request would need history variables in `Gem5Bridge`.
  Without them it is not kept.
- **The link between set-up and simulation.** `Elaboration` checks the
  set-up calls on their own. The simulation models take the result as the
  constants `Routers`, `SocketMap`, `LocalAddrs` and `BusPorts`.
- **SystemC's unbound-port check.** The model has SystemC's rejection of a
  port bound twice, but not its rejection of an unbound port or socket.
  `bindBus2Memory` is an empty TODO, so any set-up with a bus relies on the
  caller binding the bus's initiator socket outside `src/`.
- **`getExternalPort`.** It constructs an `SCSlavePort` and registers it with
  `Gem5SimControl`, which is not under `src/`. The model's `Ports` are the
  registered ports.
- **What drives gem5 itself.** `Gem5SimControl` (gem5 start-up and the
  simulate loop) and the memory sockets the caller binds outside the wrapper
  (`isock_mem`) are not under `src/`, so they are not modelled.
- **Data.** Packets that need no response, data and byte enables are
  abstracted away: the protocol state does not depend on them.
- **Router return values.** `TLM_UPDATED` and `TLM_COMPLETED` are not
  modelled, because `TxnRouter` always returns `TLM_ACCEPTED`.
