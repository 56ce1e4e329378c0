------------------------- MODULE BlockingPacketHelper -------------------------
(***************************************************************************)
(* The per-socket blocking/retry table of SCSlavePort                      *)
(* (src/src/blocking_packet_helper.cc).  The table is a value h, a record  *)
(* of three maps keyed by socket id and the system-port flag; every method *)
(* of BlockingPacketHelper is an operator on h.  A method that starts with *)
(* an assert has a companion ...Ok(c) that is FALSE exactly when the       *)
(* assert fails: the caller turns that into a fatal stop.                  *)
(***************************************************************************)
EXTENDS Naturals

CONSTANTS
    SocketNum,        \* the argument of init(): socket_map.size()
    UsingGem5Cache,   \* the usingGem5Cache flag copied from the transactor
    NULL,             \* the null transaction pointer
    Initialised       \* init() was called (bindToTransactor of the multi-socket
                      \* transactor); otherwise the maps are empty and
                      \* socket_num is never set

Keys == IF Initialised THEN 0 .. SocketNum ELSE {}  \* init(): keys 0 .. socket_num

Request  == "Request"
Response == "Response"

\* init(): every key maps to NULL / false.
InitHelper ==
    [req        |-> [c \in Keys |-> NULL],
     resp       |-> [c \in Keys |-> NULL],
     retry      |-> [c \in Keys |-> FALSE],
     sysBlocked |-> FALSE]

MapOf(type) == IF type = Request THEN "req" ELSE "resp"

\* updateBlockingMap(): assert(core_id <= socket_num), then a FATAL when the
\* key is missing.  Without init() socket_num is indeterminate, but the key
\* is missing whatever the assert does: both outcomes stop the simulation.
UpdateBlockingMapOk(c) == c <= SocketNum /\ c \in Keys

UpdateBlockingMap(h, c, t, type) ==
    LET h1 == IF c = 0 /\ UsingGem5Cache
                THEN [h EXCEPT !.sysBlocked = (t # NULL)]
                ELSE h
    IN  [h1 EXCEPT ![MapOf(type)][c] = t]

\* getBlockingTrans(): assert(core_id < socket_num), one less than the
\* largest key init() created, then a FATAL when the key is missing.
GetBlockingTransOk(c) == c < SocketNum /\ c \in Keys

GetBlockingTrans(h, c, type) == h[MapOf(type)][c]

\* Faulty variant: only the system-port flag blocks a socket.
IsBlockedPortSysOnly(h, c, type) == h.sysBlocked

\* isBlockedPort(): the system-port flag short-circuits the lookup (and
\* with it the assert of getBlockingTrans).
IsBlockedPortOk(h, c) == h.sysBlocked \/ GetBlockingTransOk(c)

IsBlockedPort(h, c, type) ==
    h.sysBlocked \/ GetBlockingTrans(h, c, type) # NULL

\* Faulty variant: scans the response map instead of the request map.
IsBlockingTransRespMap(h, t) == t # NULL /\ \E c \in Keys : h.resp[c] = t

\* isBlockingTrans(): scans the request map whatever the type argument.
IsBlockingTrans(h, t) == t # NULL /\ \E c \in Keys : h.req[c] = t

\* needToSendRequestRetry() and updateRetryMap(): assert(core_id < socket_num)
\* (needToSendRequestRetry also reports a missing key as FATAL).
RetryMapOk(c) == c < SocketNum /\ c \in Keys

NeedToSendRequestRetry(h, c) == h.retry[c]

\* Faulty variant: the retry flag is never recorded.
UpdateRetryMapDropped(h, c, b) == h

UpdateRetryMap(h, c, b) == [h EXCEPT !.retry[c] = b]

\* getBlockingResponse(): the keys holding a stored response; the loop of
\* recvRespRetry() takes them one by one in key order.
PendingResponseKeysFromOne(h) == {c \in Keys \ {0} : h.resp[c] # NULL}

PendingResponseKeys(h) == {c \in Keys : h.resp[c] # NULL}
=============================================================================
