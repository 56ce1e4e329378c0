------------------------------ MODULE Gem5Bridge ------------------------------
(***************************************************************************)
(* The gem5-to-TLM bridge as a whole: one SCSlavePort bound to a           *)
(* multi-socket transactor whose socket r is bound to TxnRouter r          *)
(* (Gem5Wrapper::bindTxnRouter2Transactor), and the gem5 crossbar that     *)
(* issues timing requests to the port and takes its responses.            *)
(*                                                                         *)
(* All code runs on the SystemC/gem5 scheduler thread: every handler is    *)
(* one atomic step, and the handlers interleave only at scheduled events   *)
(* (the PayloadEvents in pe, the routers' m_peq, target_done_event, the    *)
(* crossbar's layer timers).  Event times are abstracted away except where *)
(* the code's fixed delays order two events (see TxnRouter).               *)
(***************************************************************************)
EXTENDS Naturals, FiniteSets

CONSTANTS
    Routers, Requestors, SocketMap, Clusters, NoCluster, Trans, NULL,
    UsingGem5Cache, RespRetryAlwaysAccepted, MultiTransactor, LocalAddrs, Debug,
    ReqAddrs,         \* the addresses the crossbar's requests carry
    MaxReqs           \* bound on the timing requests the crossbar issues

VARIABLES
    blk, blockingRequest, blockingResponse, needToSendRequestRetry, ext,
    transaction_in_progress, response_in_progress, next_response_pending,
    end_req_pending, target_done_event,
    peq, pe, refcnt, fatal,
    reqState, held, layerBusy, respOwed, accepted, responded,
    issued            \* timing requests the crossbar has issued so far

P == INSTANCE SCSlavePort
R == INSTANCE TxnRouter

routerState == <<transaction_in_progress, response_in_progress,
                next_response_pending, end_req_pending, target_done_event>>
portState == <<blk, blockingRequest, blockingResponse, needToSendRequestRetry, ext>>
peerState == <<reqState, held, layerBusy, respOwed, accepted, responded>>
vars == <<portState, routerState, peq, pe, refcnt, fatal, peerState, issued>>

NoPkt == [id |-> 0, rid |-> NULL, cl |-> NoCluster, addr |-> NULL]

Init ==
    /\ P!PortInit
    /\ R!RouterInit
    /\ peq = [r \in Routers |-> {}]
    /\ pe = {}
    /\ refcnt = [t \in Trans |-> 0]
    /\ fatal = "none"
    /\ reqState = "idle"
    /\ held = NoPkt
    /\ layerBusy = [r \in Requestors |-> FALSE]
    /\ respOwed = [r \in Requestors |-> FALSE]
    /\ accepted = {}
    /\ responded = {}
    /\ issued = 0

\* No fatal report has stopped the simulation.
Running == fatal = "none"

-----------------------------------------------------------------------------
(* The gem5 crossbar.                                                      *)

\* A new timing request from some requestor, unless a refused one waits.
IssueTimingReq ==
    /\ Running
    /\ reqState = "idle"
    /\ issued < MaxReqs
    /\ issued' = issued + 1
    /\ \E rid \in Requestors, cl \in Clusters \cup {NoCluster}, a \in ReqAddrs :
          P!RecvTimingReq([id |-> issued + 1, rid |-> rid, cl |-> cl, addr |-> a])
    /\ UNCHANGED routerState

\* After sendRetryReq the crossbar resends the packet that was refused.
ResendTimingReq ==
    /\ Running
    /\ reqState = "granted"
    /\ P!RecvTimingReq(held)
    /\ UNCHANGED <<routerState, issued>>

\* The response layer towards requestor r ends its occupancy; if it had
\* refused a response of the port, it calls recvRespRetry().
LayerFree(r) ==
    /\ Running
    /\ layerBusy[r]
    /\ IF respOwed[r]
         THEN P!RecvRespRetry([layerBusy EXCEPT ![r] = FALSE],
                              [respOwed EXCEPT ![r] = FALSE])
         ELSE /\ layerBusy' = [layerBusy EXCEPT ![r] = FALSE]
              /\ UNCHANGED <<portState, peq, pe, refcnt, fatal, reqState,
                             held, respOwed, accepted, responded>>
    /\ UNCHANGED <<routerState, issued>>

-----------------------------------------------------------------------------
(* The port's and the routers' event handlers.                             *)

PortPec ==
    /\ Running
    /\ \E m \in pe : P!Pec(m)
    /\ UNCHANGED <<routerState, issued>>

RouterPeqBeginReq(r) ==
    /\ Running
    /\ R!PeqBeginReq(r)
    /\ UNCHANGED <<portState, peerState, issued>>

RouterPeqEndResp(r) ==
    /\ Running
    /\ R!PeqEndResp(r)
    /\ UNCHANGED <<portState, peerState, issued>>

RouterExecute(r) ==
    /\ Running
    /\ R!ExecuteTransactionProcess(r)
    /\ UNCHANGED <<portState, peerState, issued>>

\* Every request issued has been answered and nothing is in flight: the
\* bridge idles (the crossbar was bounded to MaxReqs requests).
Finished ==
    /\ Running
    /\ issued = MaxReqs
    /\ reqState = "idle"
    /\ responded = accepted
    /\ pe = {}
    /\ \A r \in Routers : peq[r] = {}
    /\ UNCHANGED vars

Next ==
    \/ IssueTimingReq
    \/ ResendTimingReq
    \/ \E r \in Requestors : LayerFree(r)
    \/ PortPec
    \/ \E r \in Routers : RouterPeqBeginReq(r)
    \/ \E r \in Routers : RouterPeqEndResp(r)
    \/ \E r \in Routers : RouterExecute(r)
    \/ Finished

\* The SystemC kernel runs every notified event and the crossbar ends every
\* layer occupancy; the requests themselves need not keep coming.
Fairness ==
    /\ WF_vars(ResendTimingReq)
    /\ \A r \in Requestors : WF_vars(LayerFree(r))
    /\ WF_vars(PortPec)
    /\ \A r \in Routers : WF_vars(RouterPeqBeginReq(r))
    /\ \A r \in Routers : WF_vars(RouterPeqEndResp(r))
    /\ \A r \in Routers : WF_vars(RouterExecute(r))

Spec == Init /\ [][Next]_vars
FairSpec == Spec /\ Fairness

-----------------------------------------------------------------------------
(* Invariants and properties.                                              *)

Tx == Trans \cup {NULL}

TypeOK ==
    /\ refcnt \in [Trans -> 0 .. 2]
    /\ pe \subseteq [t : Trans, ph : R!Phases]
    /\ peq \in [Routers -> SUBSET [t : Trans, ph : R!Phases]]
    /\ transaction_in_progress \in [Routers -> Tx]
    /\ end_req_pending \in [Routers -> Tx]
    /\ next_response_pending \in [Routers -> Tx]
    /\ response_in_progress \in [Routers -> BOOLEAN]
    /\ target_done_event \in [Routers -> BOOLEAN]
    /\ blockingRequest \in Tx /\ blockingResponse \in Tx
    /\ reqState \in {"idle", "wait", "granted"}
    /\ accepted \subseteq 1 .. MaxReqs /\ responded \subseteq accepted
    /\ issued \in 0 .. MaxReqs

\* t is between the port's BEGIN_REQ and its handling of the END_REQ.
RequestPhase(t) ==
    \/ \E r \in Routers : R!Msg(t, "BEGIN_REQ") \in peq[r] \/ end_req_pending[r] = t
    \/ R!Msg(t, "END_REQ") \in pe

\* The port still owns t: it has not yet sent t's END_RESP.
PortHolds(t) ==
    \/ \E ph \in R!Phases : R!Msg(t, ph) \in pe
    \/ \E r \in Routers :
         \/ R!Msg(t, "BEGIN_REQ") \in peq[r]
         \/ end_req_pending[r] = t
         \/ next_response_pending[r] = t
         \/ transaction_in_progress[r] = t /\ R!Msg(t, "END_RESP") \notin peq[r]
    \/ t \in P!StoredResponses

\* The router r still owns t: acquired at BEGIN_REQ, released on BEGIN_RESP.
RouterHolds(t) ==
    \E r \in Routers :
       \/ end_req_pending[r] = t
       \/ next_response_pending[r] = t
       \/ transaction_in_progress[r] = t /\ ~response_in_progress[r]

\* The exclusion rule of the TLM base protocol, per socket: the port never
\* has two requests of one socket between BEGIN_REQ and END_REQ, whatever
\* order the crossbar's requests, the routers' END_REQs and the responses
\* come in (recvTimingReq's isBlockedPort check and pec's unblocking).
ExclusionRule ==
    \A s \in Routers :
        Cardinality({t \in Trans : ext[t].core = s /\ ext[t].pkt # NULL
                                   /\ RequestPhase(t)}) <= 1

\* Every accepted request that has not been answered is still owned by the
\* port somewhere in the pipeline: no handler drops or overwrites it (the
\* router's single end_req_pending slot, the port's single response slot).
NoLostRequest ==
    \A i \in accepted \ responded :
        \E t \in Trans : ext[t].pkt # NULL /\ ext[t].pkt.id = i /\ PortHolds(t)

\* The reference count of every pooled transaction equals the number of
\* components that still own it: the port from mm.allocate() to its release
\* after END_RESP, the router from its acquire at BEGIN_REQ to its release
\* in send_response(); so no object goes back to the pool while in use.
RefCountMatchesOwners ==
    \A t \in Trans :
        refcnt[t] = (IF PortHolds(t) THEN 1 ELSE 0) + (IF RouterHolds(t) THEN 1 ELSE 0)

\* No SC_REPORT_FATAL or sc_assert of the port, the helper or the routers,
\* and no gem5 retry assertion, is ever reached.
NoFatal == fatal = "none"

\* recvRespRetry() resends every stored response and asserts each send is
\* accepted: the spec (4.3, item 3) holds that an invited retry is always
\* accepted, so the loop's sc_assert(!need_retry) never fires.
RetriedResponseAccepted == fatal # "resp_retry_refused"

\* A request refused because its socket was blocked is followed by a retry.
RefusedRequestRetried == reqState = "wait" ~> reqState = "granted"

\* Every timing request the crossbar issues is eventually answered, whether
\* the port takes it at once or refuses it and takes it on a retry, and
\* whether the response goes through at once or after recvRespRetry().
RequestAnswered ==
    \A i \in 1 .. MaxReqs : issued >= i ~> i \in responded

\* With the router's debug flag set, peq_cb(END_RESP) reads only a
\* transaction somebody still holds a reference to; the port releases its
\* reference right after nb_transport_fw(END_RESP) queues the phase, and
\* the router released its own in send_response().
DebugReadsLiveTrans ==
    [][\A r \in Routers, t \in Trans :
         LET m == R!Msg(t, "END_RESP") IN
         m \in peq[r] /\ m \notin peq'[r] /\ R!DebugReadsTrans(m) => refcnt[t] > 0]_vars
=============================================================================
