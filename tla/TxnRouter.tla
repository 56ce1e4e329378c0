------------------------------ MODULE TxnRouter ------------------------------
(***************************************************************************)
(* TxnRouter (src/include/txn_router.h): the SystemC target bound to one   *)
(* socket of the slave transactor.  It serialises the four-phase timing    *)
(* protocol: one transaction in progress, one END_REQ held back while it   *)
(* runs, one response held back while another is in flight.               *)
(*                                                                         *)
(* Shared with SCSlavePort:                                                *)
(*   peq[r]  the router's payload event queue (m_peq): phases the port has *)
(*           sent with nb_transport_fw and r has not yet handled;          *)
(*   pe      the port's PayloadEvents: phases r sent with nb_transport_bw; *)
(*   refcnt  the reference count of each pooled transaction object;       *)
(*   fatal   "none", or the SC_REPORT_FATAL / assert that stopped the run. *)
(***************************************************************************)
EXTENDS Naturals

CONSTANTS
    Routers,   \* the socket ids, one TxnRouter bound to each
    Trans,     \* the transaction objects of the memory manager's pool
    NULL,
    Debug      \* the router's debug flag (constructor argument debug_)

VARIABLES
    transaction_in_progress,   \* [Routers -> Trans \cup {NULL}]
    response_in_progress,      \* [Routers -> BOOLEAN]
    next_response_pending,     \* [Routers -> Trans \cup {NULL}]
    end_req_pending,           \* [Routers -> Trans \cup {NULL}]
    target_done_event,         \* [Routers -> BOOLEAN]: notified, not yet waited
    peq, pe, refcnt, fatal

routerVars == <<transaction_in_progress, response_in_progress,
                next_response_pending, end_req_pending, target_done_event>>

Phases == {"BEGIN_REQ", "END_REQ", "BEGIN_RESP", "END_RESP"}

Msg(t, ph) == [t |-> t, ph |-> ph]

RouterInit ==
    /\ transaction_in_progress = [r \in Routers |-> NULL]
    /\ response_in_progress    = [r \in Routers |-> FALSE]
    /\ next_response_pending   = [r \in Routers |-> NULL]
    /\ end_req_pending         = [r \in Routers |-> NULL]
    /\ target_done_event       = [r \in Routers |-> FALSE]

(***************************************************************************)
(* The helpers below are written as functions of the values they start    *)
(* from, so that a handler calling several of them composes them with LET. *)
(***************************************************************************)

\* send_end_req(): END_REQ back to the port, the completion event notified
\* after the processing latency, and the transaction made the one in
\* progress (assert(transaction_in_progress == 0)).
SendEndReq(r, t, peSet) == peSet \cup {Msg(t, "END_REQ")}

\* send_response(): BEGIN_RESP back to the port (the port's
\* nb_transport_bw always answers TLM_ACCEPTED), then trans.release().
SendResponse(r, t, peSet) == peSet \cup {Msg(t, "BEGIN_RESP")}

\* Faulty variant: one release too many.
ReleaseTwice(rc, t) == [rc EXCEPT ![t] = @ - 2]

Release(rc, t) == [rc EXCEPT ![t] = @ - 1]

\* Faulty variants of peq_cb() with BEGIN_REQ: without the acquire, and
\* dropping a request that arrives while another is in progress.
PeqBeginReqNoAcquire(r) ==
    \E m \in peq[r] :
      /\ m.ph = "BEGIN_REQ"
      /\ peq' = [peq EXCEPT ![r] = @ \ {m}]
      /\ IF transaction_in_progress[r] = NULL
           THEN /\ pe' = SendEndReq(r, m.t, pe)
                /\ target_done_event' = [target_done_event EXCEPT ![r] = TRUE]
                /\ transaction_in_progress' =
                       [transaction_in_progress EXCEPT ![r] = m.t]
                /\ UNCHANGED end_req_pending
           ELSE /\ end_req_pending' = [end_req_pending EXCEPT ![r] = m.t]
                /\ UNCHANGED <<pe, target_done_event, transaction_in_progress>>
      /\ UNCHANGED <<response_in_progress, next_response_pending, fatal, refcnt>>

PeqBeginReqDropsPending(r) ==
    \E m \in peq[r] :
      /\ m.ph = "BEGIN_REQ"
      /\ peq' = [peq EXCEPT ![r] = @ \ {m}]
      /\ refcnt' = [refcnt EXCEPT ![m.t] = @ + 1]
      /\ IF transaction_in_progress[r] = NULL
           THEN /\ pe' = SendEndReq(r, m.t, pe)
                /\ target_done_event' = [target_done_event EXCEPT ![r] = TRUE]
                /\ transaction_in_progress' =
                       [transaction_in_progress EXCEPT ![r] = m.t]
           ELSE UNCHANGED <<pe, target_done_event, transaction_in_progress>>
      /\ UNCHANGED <<response_in_progress, next_response_pending, end_req_pending, fatal>>

\* peq_cb() with BEGIN_REQ: acquire, then grant the request at once or hold
\* it in end_req_pending until the transaction in progress ends.
PeqBeginReq(r) ==
    \E m \in peq[r] :
      /\ m.ph = "BEGIN_REQ"
      /\ peq' = [peq EXCEPT ![r] = @ \ {m}]
      /\ refcnt' = [refcnt EXCEPT ![m.t] = @ + 1]
      /\ IF transaction_in_progress[r] = NULL
           THEN /\ pe' = SendEndReq(r, m.t, pe)
                /\ target_done_event' = [target_done_event EXCEPT ![r] = TRUE]
                /\ transaction_in_progress' =
                       [transaction_in_progress EXCEPT ![r] = m.t]
                /\ UNCHANGED end_req_pending
           ELSE /\ end_req_pending' = [end_req_pending EXCEPT ![r] = m.t]
                /\ UNCHANGED <<pe, target_done_event, transaction_in_progress>>
      /\ UNCHANGED <<response_in_progress, next_response_pending, fatal>>

\* peq_cb() with END_RESP: fatal unless a response is in progress; else the
\* channel is free: send the held response, then grant the held request.
PeqEndResp(r) ==
    \E m \in peq[r] :
      /\ m.ph = "END_RESP"
      /\ peq' = [peq EXCEPT ![r] = @ \ {m}]
      /\ IF ~response_in_progress[r]
           THEN /\ fatal' = "illegal_end_resp"
                /\ UNCHANGED <<routerVars, pe, refcnt>>
           ELSE LET nrp == next_response_pending[r]
                    erp == end_req_pending[r]
                    pe1 == IF nrp # NULL THEN SendResponse(r, nrp, pe) ELSE pe
                    rc1 == IF nrp # NULL THEN Release(refcnt, nrp) ELSE refcnt
                IN
                /\ response_in_progress' =
                       [response_in_progress EXCEPT ![r] = (nrp # NULL)]
                /\ next_response_pending' = [next_response_pending EXCEPT ![r] = NULL]
                /\ end_req_pending' = [end_req_pending EXCEPT ![r] = NULL]
                /\ transaction_in_progress' =
                       [transaction_in_progress EXCEPT ![r] = erp]
                /\ target_done_event' =
                       [target_done_event EXCEPT ![r] = @ \/ erp # NULL]
                /\ pe' = IF erp # NULL THEN SendEndReq(r, erp, pe1) ELSE pe1
                /\ refcnt' = rc1
                /\ UNCHANGED fatal

\* execute_transaction_process(), woken by target_done_event.  The event is
\* notified 25 ns after END_REQ was sent with a 10 ns delay, so the port has
\* handled that END_REQ before the thread runs.  execute_transaction() is a
\* blocking call into memory that leaves the protocol state alone.
ExecuteTransactionProcess(r) ==
    LET t == transaction_in_progress[r] IN
    /\ target_done_event[r]
    /\ Msg(t, "END_REQ") \notin pe
    /\ target_done_event' = [target_done_event EXCEPT ![r] = FALSE]
    /\ IF response_in_progress[r]
         THEN IF next_response_pending[r] # NULL
                THEN /\ fatal' = "two_pending_responses"
                     /\ UNCHANGED <<next_response_pending, pe, refcnt>>
                ELSE /\ next_response_pending' = [next_response_pending EXCEPT ![r] = t]
                     /\ UNCHANGED <<pe, refcnt, fatal>>
         ELSE /\ pe' = SendResponse(r, t, pe)
                 \* send_response() sets response_in_progress before sending
              /\ refcnt' = Release(refcnt, t)
              /\ UNCHANGED <<next_response_pending, fatal>>
    /\ response_in_progress' = [response_in_progress EXCEPT ![r] = TRUE]
    /\ UNCHANGED <<transaction_in_progress, end_req_pending, peq>>

\* peq_cb() with END_RESP and debug set prints trans.get_address() and
\* trans.get_data_ptr(): the handling of m reads its transaction.
DebugReadsTrans(m) == Debug /\ m.ph = "END_RESP"

RouterNext ==
    \E r \in Routers :
        \/ PeqBeginReq(r)
        \/ PeqEndResp(r)
        \/ ExecuteTransactionProcess(r)
=============================================================================
