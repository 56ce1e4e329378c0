----------------------------- MODULE SCSlavePort -----------------------------
(***************************************************************************)
(* SCSlavePort (src/src/sc_slave_port.cc) bound to a multi-socket          *)
(* transactor: the gem5 ExternalSlave port that turns gem5 timing requests *)
(* into the TLM four-phase protocol, one TLM socket per requestor group.   *)
(*                                                                         *)
(* The gem5 side is seen through the effect of the port's calls on it:     *)
(*   reqState   "idle" | "wait" (a request was refused, the peer waits for *)
(*              sendRetryReq) | "granted" (the retry came, it may resend); *)
(*   held       the refused packet the peer will resend;                   *)
(*   layerBusy  per requestor, the gem5 crossbar response layer towards it *)
(*              is occupied by a packet it accepted;                       *)
(*   respOwed   per requestor, a response was refused on that layer and    *)
(*              the crossbar owes the port a recvRespRetry;                *)
(*   accepted, responded  ids of packets accepted / answered (history).    *)
(* A packet is [id, rid, cl, addr]: its id, requestorId(), cpuClusterId() *)
(* (NoCluster when hasCpuClusterId() is false) and address; size, data and *)
(* command are abstracted away (packet2payload copies them unchanged).    *)
(***************************************************************************)
EXTENDS Naturals, FiniteSets

CONSTANTS
    Routers,          \* ids of the transactor's sockets, 0 .. socket_num-1
    Requestors,       \* gem5 RequestorIDs
    SocketMap,        \* socket_map: [0 .. n-1 -> SUBSET Requestors]
    Clusters,         \* cpu cluster ids a packet may carry
    NoCluster,
    Trans, NULL,
    UsingGem5Cache,   \* isUsingGem5Cache() of the bound transactor
    RespRetryAlwaysAccepted, \* the peer accepts every response sent while
                             \* it is inside recvRespRetry()
    MultiTransactor,  \* bound to a Gem5SlaveTransactor_Multi (else to the
                      \* single-socket Gem5SlaveTransactor)
    LocalAddrs        \* the addresses TxnRouter::ToMem() accepts

VARIABLES
    blk,                      \* the BlockingPacketHelper table
    blockingRequest, blockingResponse, needToSendRequestRetry,
    ext,                      \* Gem5Extension of each transaction object
    peq, pe, refcnt, fatal,   \* shared with TxnRouter
    reqState, held, layerBusy, respOwed, accepted, responded

SocketNum == Cardinality(DOMAIN SocketMap)

\* Only the multi-socket bindToTransactor() calls initSocketMap() and
\* blk_pkt_helper->init(socket_map.size()).
H == INSTANCE BlockingPacketHelper WITH Initialised <- MultiTransactor

NoExt == [pkt |-> NULL, core |-> 0]

portVars == <<blk, blockingRequest, blockingResponse, needToSendRequestRetry, ext>>
peerVars == <<reqState, held, layerBusy, respOwed, accepted, responded>>

Msg(t, ph) == [t |-> t, ph |-> ph]

PortInit ==
    /\ blk = H!InitHelper
    /\ blockingRequest = NULL
    /\ blockingResponse = NULL
    /\ needToSendRequestRetry = FALSE
    /\ ext = [t \in Trans |-> NoExt]

\* getSocketId(): the first socket (in key order) whose requestor list holds
\* id, shifted by one when socket 0 is reserved for the system port;
\* requestors in no list use socket 0.
GetSocketId(id) ==
    IF \E s \in DOMAIN SocketMap : id \in SocketMap[s]
      THEN LET s == CHOOSE s \in DOMAIN SocketMap :
                      /\ id \in SocketMap[s]
                      /\ \A s2 \in DOMAIN SocketMap : id \in SocketMap[s2] => s <= s2
           IN  IF UsingGem5Cache THEN s + 1 ELSE s
      ELSE 0

\* The socket a timing request travels on: cpuClusterId() overrides.
TargetSocket(p) == IF p.cl # NoCluster THEN p.cl ELSE GetSocketId(p.rid)

Stop(tag) ==
    /\ fatal' = tag
    /\ UNCHANGED <<portVars, peq, pe, refcnt, peerVars>>

\* The peer's reaction to sendRetryReq(): a crossbar only takes a request
\* retry while it waits for one (BaseXBar::Layer::recvRetry asserts it).
RetryReqOk == reqState = "wait"

\* Release by the port: at zero the memory manager frees the object and
\* its auto extension.
ReleaseCount(rc, t) == [rc EXCEPT ![t] = @ - 1]
ReleaseExt(rc, ex, t) == IF rc[t] = 1 THEN [ex EXCEPT ![t] = NoExt] ELSE ex

(***************************************************************************)
(* recvTimingReq(p), the whole handler; the return value is what the peer *)
(* sees: false leaves it waiting for a retry with p held.                  *)
(***************************************************************************)
RecvTimingReq(p) ==
    LET sid == TargetSocket(p)
        Refuse == /\ reqState' = "wait"
                  /\ held' = p
                  /\ UNCHANGED <<layerBusy, respOwed, accepted, responded>>
    IN
    IF needToSendRequestRetry THEN Stop("request_while_retry_owed")
    ELSE IF blockingRequest # NULL /\ UsingGem5Cache
      THEN /\ needToSendRequestRetry' = TRUE
           /\ Refuse
           /\ UNCHANGED <<blk, blockingRequest, blockingResponse, ext,
                          peq, pe, refcnt, fatal>>
    ELSE IF ~H!IsBlockedPortOk(blk, sid) THEN Stop("socket_id_out_of_range")
    ELSE IF H!IsBlockedPort(blk, sid, H!Request)
      THEN IF ~H!RetryMapOk(sid) THEN Stop("socket_id_out_of_range")
           ELSE /\ blk' = H!UpdateRetryMap(blk, sid, TRUE)
                /\ Refuse
                /\ UNCHANGED <<blockingRequest, blockingResponse,
                               needToSendRequestRetry, ext, peq, pe, refcnt, fatal>>
    \* sockets[socket_id] past the transactor's last socket: sc_vector's
    \* operator[] does not check the index, and the call through a socket
    \* that does not exist ends the simulation (undefined behaviour whose
    \* outcomes all stop it).
    ELSE IF sid \notin Routers THEN Stop("socket_out_of_bounds")
    \* nb_transport_fw(BEGIN_REQ): TxnRouter reports a non-local address
    \* as FATAL before queueing the phase.
    ELSE IF p.addr \notin LocalAddrs THEN Stop("address_out_of_range")
    ELSE IF ~(sid = 0 /\ UsingGem5Cache) /\ ~H!UpdateBlockingMapOk(sid)
      THEN Stop("socket_id_out_of_range")
    ELSE
      \* mm.allocate() and acquire(); nb_transport_fw(BEGIN_REQ) on
      \* sockets[sid] reaches the router's m_peq and returns TLM_ACCEPTED,
      \* after which the transaction blocks its socket until END_REQ.
      \E t \in Trans :
        /\ refcnt[t] = 0
        /\ refcnt' = [refcnt EXCEPT ![t] = 1]
        /\ ext' = [ext EXCEPT ![t] = [pkt |-> p, core |-> sid]]
        /\ peq' = [peq EXCEPT ![sid] = @ \cup {Msg(t, "BEGIN_REQ")}]
        /\ IF sid = 0 /\ UsingGem5Cache
             THEN /\ blockingRequest' = t
                  /\ UNCHANGED blk
             ELSE /\ blk' = H!UpdateBlockingMap(blk, sid, t, H!Request)
                  /\ UNCHANGED blockingRequest
        /\ reqState' = "idle"
        /\ accepted' = accepted \cup {p.id}
        /\ UNCHANGED <<blockingResponse, needToSendRequestRetry, pe, fatal,
                       held, layerBusy, respOwed, responded>>

(***************************************************************************)
(* pec(): a PayloadEvent m from a router fires.  First part: END_REQ (or   *)
(* a BEGIN_RESP that implies it) unblocks the socket and, when a request   *)
(* was refused meanwhile, sends the peer a retry.  Second part: BEGIN_RESP *)
(* makes the gem5 response and sends it; if the peer refuses it the        *)
(* transaction waits in the response map for recvRespRetry(), else         *)
(* END_RESP goes back to the router and the port releases the object.     *)
(***************************************************************************)
Pec(m) ==
    LET t       == m.t
        ph      == m.ph
        core    == ext[t].core
        p       == ext[t].pkt
        unblock == \/ ph = "END_REQ"
                   \/ H!IsBlockingTrans(blk, t) /\ ph = "BEGIN_RESP"
                   \/ t = blockingRequest /\ ph = "BEGIN_RESP"
        sysPath == unblock /\ t = blockingRequest /\ UsingGem5Cache
        cpuPath == unblock /\ ~sysPath
        retry   == IF sysPath THEN needToSendRequestRetry
                   ELSE cpuPath /\ H!NeedToSendRequestRetry(blk, core)
        blk1    == IF cpuPath
                     THEN H!UpdateRetryMap(
                            H!UpdateBlockingMap(blk, core, NULL, H!Request),
                            core, FALSE)
                     ELSE blk
        err1    == IF ~cpuPath THEN "none"
                   ELSE IF ~H!IsBlockingTrans(blk, t) THEN "end_req_not_blocking"
                   ELSE IF ~H!UpdateBlockingMapOk(core) \/ ~H!RetryMapOk(core)
                     THEN "socket_id_out_of_range"
                   ELSE "none"
        resp    == ph = "BEGIN_RESP"
        sysResp == core = 0 /\ UsingGem5Cache
        err2    == IF ~resp THEN "none"
                   ELSE IF sysResp
                     THEN IF blockingResponse # NULL
                            THEN "second_blocking_response" ELSE "none"
                   ELSE IF ~H!GetBlockingTransOk(core) THEN "socket_id_out_of_range"
                   ELSE IF H!GetBlockingTrans(blk1, core, H!Response) # NULL
                     THEN "second_blocking_response"
                   ELSE "none"
        err     == CASE err1 # "none"          -> err1
                     [] retry /\ ~RetryReqOk   -> "retry_without_waiting"
                     [] OTHER                  -> err2
        sent    == resp /\ ~layerBusy[p.rid]
        refused == resp /\ layerBusy[p.rid]
    IN
    /\ pe' = pe \ {m}
    /\ IF err # "none"
         THEN /\ fatal' = err
              /\ UNCHANGED <<portVars, peq, refcnt, peerVars>>
         ELSE
         /\ blk' = IF refused /\ ~sysResp
                     THEN H!UpdateBlockingMap(blk1, core, t, H!Response)
                     ELSE blk1
         /\ blockingRequest' = IF sysPath THEN NULL ELSE blockingRequest
         /\ needToSendRequestRetry' = needToSendRequestRetry /\ ~sysPath
         /\ blockingResponse' = IF refused /\ sysResp THEN t ELSE blockingResponse
         /\ reqState' = IF retry THEN "granted" ELSE reqState
         /\ respOwed' = IF refused THEN [respOwed EXCEPT ![p.rid] = TRUE]
                                   ELSE respOwed
         /\ layerBusy' = IF sent THEN [layerBusy EXCEPT ![p.rid] = TRUE]
                                 ELSE layerBusy
         /\ peq' = IF sent THEN [peq EXCEPT ![core] = @ \cup {Msg(t, "END_RESP")}]
                           ELSE peq
         /\ refcnt' = IF sent THEN ReleaseCount(refcnt, t) ELSE refcnt
         /\ ext' = IF sent THEN ReleaseExt(refcnt, ext, t) ELSE ext
         /\ responded' = IF sent THEN responded \cup {p.id} ELSE responded
         /\ UNCHANGED <<held, accepted, fatal>>

(***************************************************************************)
(* recvRespRetry(), called by the peer when a response layer frees up:     *)
(* busy0 and owed0 are the peer's layers and owed retries at the call.     *)
(* The loop resends every stored response (blockingResponse first, then    *)
(* the map in key order) and asserts that each one is accepted.           *)
(***************************************************************************)
StoredResponses ==
    {blk.resp[c] : c \in H!PendingResponseKeys(blk)}
        \cup (IF blockingResponse # NULL THEN {blockingResponse} ELSE {})

RidOf(t) == ext[t].pkt.rid

\* A send inside the loop is refused when its layer is occupied, by other
\* traffic or by an earlier response of the same loop.
DrainRefused(busy0) ==
    /\ ~RespRetryAlwaysAccepted
    /\ \E t \in StoredResponses :
          \/ busy0[RidOf(t)]
          \/ \E t2 \in StoredResponses \ {t} : RidOf(t2) = RidOf(t)

RecvRespRetry(busy0, owed0) ==
    LET P == StoredResponses IN
    IF DrainRefused(busy0)
      THEN /\ fatal' = "resp_retry_refused"
           /\ layerBusy' = busy0
           /\ respOwed' = owed0
           /\ UNCHANGED <<portVars, peq, pe, refcnt, reqState, held,
                          accepted, responded>>
      ELSE
      /\ blk' = [blk EXCEPT !.resp = [c \in H!Keys |-> NULL],
                            !.sysBlocked = @ /\ ~(UsingGem5Cache /\ blk.resp[0] # NULL)]
      /\ blockingResponse' = NULL
      /\ layerBusy' = [r \in Requestors |-> busy0[r] \/ \E t \in P : RidOf(t) = r]
      /\ respOwed' = owed0
      /\ peq' = [r \in Routers |->
                   peq[r] \cup {Msg(t, "END_RESP") : t \in {u \in P : ext[u].core = r}}]
      /\ refcnt' = [t \in Trans |-> IF t \in P THEN refcnt[t] - 1 ELSE refcnt[t]]
      /\ ext' = [t \in Trans |-> IF t \in P /\ refcnt[t] = 1 THEN NoExt ELSE ext[t]]
      /\ responded' = responded \cup {ext[t].pkt.id : t \in P}
      /\ UNCHANGED <<blockingRequest, needToSendRequestRetry, pe, fatal,
                     reqState, held, accepted>>
=============================================================================
