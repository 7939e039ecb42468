----------------------------- MODULE RpcClient -----------------------------
(***************************************************************************)
(* The JSON-RPC client of the Octos UI protocol (class OctosUiClient,      *)
(* packages/client/src/client.ts): one current socket, the requests that   *)
(* wait for an answer, their timers, and the bounded quarantine of ids     *)
(* whose answer may still come.  One client object outlives many sockets:  *)
(* disconnect and connect may run before the old socket has closed.        *)
(*                                                                         *)
(* The browser's WebSocket and the server are external.  Socket events are *)
(* tasks: any of them may run after the client moved on to another socket. *)
(***************************************************************************)
EXTENDS Integers, Sequences, FiniteSets

CONSTANTS
    MaxSockets,     \* bound: connection attempts
    MaxRequests,    \* bound: requests
    SettledLimit    \* ids kept in quarantine (128 in the code)

ASSUME ClientAssumption ==
    /\ MaxSockets \in Nat
    /\ MaxRequests \in Nat
    /\ SettledLimit \in Nat

Sockets == 1..MaxSockets
Requests == 1..MaxRequests
NoSocket == 0

VARIABLES
    socket,      \* the current socket, or NoSocket
    status,      \* currentStatus
    pending,     \* ids that wait for an answer
    timers,      \* ids whose request timer is armed
    settledIds,  \* settledRequestIds
    settledOrder,\* settledRequestOrder, oldest first
    nextRequestId,
    attempt,     \* the promise of connect(), per socket
    connTimers,  \* sockets whose connect timer is armed
    addressable, \* options.endpoint gives a URL; fixed for one client object
    \* external: the browser's sockets and the server
    ready,       \* readyState, per socket
    server,      \* requests the server holds, per socket
    inbox,       \* answers on their way, per socket
    notified,    \* whether the server already sent its notification, per socket
    \* history, read by the properties only
    sentOn,      \* the socket a request was written to
    settles,     \* how often a request's promise was settled
    givenUp,     \* requests settled without an answer, oldest first
    heardAs,     \* what the client took its connection for when it heard a frame
    unknown      \* ids reported as "Received response for unknown request"

clientVars == <<socket, status, pending, timers, settledIds, settledOrder,
                nextRequestId, attempt, connTimers, addressable>>
wireVars == <<ready, server, inbox, notified>>
history == <<sentOn, settles, givenUp, heardAs, unknown>>
vars == <<clientVars, wireVars, history>>

Statuses == {"idle", "connecting", "connected", "disconnected", "error"}

ReadyStates == {"none", "connecting", "open", "closing", "aborted", "failed", "closed"}
Attempts == {"none", "waiting", "resolved", "rejected"}

Init ==
    /\ socket = NoSocket
    /\ status = "idle"
    /\ pending = {}
    /\ timers = {}
    /\ settledIds = {}
    /\ settledOrder = <<>>
    /\ nextRequestId = 1
    /\ attempt = [s \in Sockets |-> "none"]
    /\ connTimers = {}
    /\ addressable \in BOOLEAN
    /\ ready = [s \in Sockets |-> "none"]
    /\ server = [s \in Sockets |-> {}]
    /\ inbox = [s \in Sockets |-> {}]
    /\ notified = [s \in Sockets |-> FALSE]
    /\ sentOn = [r \in Requests |-> NoSocket]
    /\ settles = [r \in Requests |-> 0]
    /\ givenUp = <<>>
    /\ heardAs = {}
    /\ unknown = {}

Current(s) == socket = s

\* readyState after close(): "aborted" if the socket had not opened yet.
Closing(state) ==
    CASE state = "open" -> "closing"
      [] state = "connecting" -> "aborted"
      [] OTHER -> state
-----------------------------------------------------------------------------
(* Settling requests *)

\* The ids that fall out of the ring when it holds more than its limit.
Expired(order) == {order[i] : i \in 1..(Len(order) - SettledLimit)}

\* Mutant: one id too many is kept.
NewestOffByOne(order) ==
    IF Len(order) <= SettledLimit + 1 THEN order
    ELSE SubSeq(order, Len(order) - SettledLimit, Len(order))

Newest(order) ==
    IF Len(order) <= SettledLimit THEN order
    ELSE SubSeq(order, Len(order) - SettledLimit + 1, Len(order))

\* markRequestSettled of the given ids, in this order.
MarkRequestSettled(order) ==
    /\ settledIds' = (settledIds \cup {order[i] : i \in DOMAIN order})
                        \ Expired(settledOrder \o order)
    /\ settledOrder' = Newest(settledOrder \o order)

Settled(ids) == settles' = [r \in Requests |-> IF r \in ids THEN settles[r] + 1 ELSE settles[r]]
GivenUp(order) == givenUp' = givenUp \o order

\* A Map iterates in insertion order, and ids are handed out in increasing order.
PendingOrders ==
    {order \in [1..Cardinality(pending) -> pending] :
        \A i, j \in DOMAIN order : i < j => order[i] < order[j]}

\* Mutant: the waiting requests are forgotten and nobody is told.
RejectPendingSilently ==
    /\ \E order \in PendingOrders : MarkRequestSettled(order) /\ GivenUp(order)
    /\ pending' = {}
    /\ timers' = timers \ pending
    /\ UNCHANGED settles

\* rejectPending: every waiting request is rejected and quarantined.
RejectPending ==
    /\ \E order \in PendingOrders : MarkRequestSettled(order) /\ GivenUp(order)
    /\ Settled(pending)
    /\ pending' = {}
    /\ timers' = timers \ pending
-----------------------------------------------------------------------------
(* Operations of the application *)

\* The status is reported before the address is built, and building it threw: no
\* socket is made and nobody takes the status back.
ConnectMisaddressed ==
    /\ socket = NoSocket
    /\ ~addressable
    /\ status' = "connecting"
    /\ UNCHANGED <<socket, pending, timers, settledIds, settledOrder, nextRequestId,
                   attempt, connTimers, addressable, wireVars, history>>

Connect(s) ==
    /\ socket = NoSocket
    /\ addressable
    /\ ready[s] = "none"
    /\ \A u \in Sockets : u < s => ready[u] # "none"
    /\ socket' = s
    /\ status' = "connecting"
    /\ attempt' = [attempt EXCEPT ![s] = "waiting"]
    /\ connTimers' = connTimers \cup {s}
    /\ ready' = [ready EXCEPT ![s] = "connecting"]
    /\ UNCHANGED <<pending, timers, settledIds, settledOrder, nextRequestId,
                   addressable, server, inbox, notified, history>>

\* The socket factory threw: nothing is connecting.
ConnectRefused ==
    /\ socket = NoSocket
    /\ addressable
    /\ status' = "error"
    /\ UNCHANGED <<socket, pending, timers, settledIds, settledOrder, nextRequestId,
                   attempt, connTimers, addressable, wireVars, history>>

\* Mutant: the requests of the closed socket keep waiting.
DisconnectKeepsPending ==
    /\ socket' = NoSocket
    /\ ready' = [s \in Sockets |->
                   IF s = socket THEN Closing(ready[s]) ELSE ready[s]]
    /\ status' = "disconnected"
    /\ UNCHANGED <<pending, timers, settledIds, settledOrder, nextRequestId,
                   attempt, connTimers, addressable, server, inbox, notified,
                   history>>

Disconnect ==
    /\ socket' = NoSocket
    /\ RejectPending
    /\ ready' = [s \in Sockets |->
                   IF s = socket THEN Closing(ready[s]) ELSE ready[s]]
    /\ status' = "disconnected"
    /\ UNCHANGED <<nextRequestId, attempt, connTimers, addressable, server, inbox,
                   notified, sentOn, heardAs, unknown>>

MayRequest == status = "connected" /\ socket # NoSocket /\ ready[socket] = "open"

\* request: the id is pending before the frame is written.
Request ==
    /\ MayRequest
    /\ nextRequestId \in Requests
    /\ LET id == nextRequestId
       IN  /\ pending' = pending \cup {id}
           /\ timers' = timers \cup {id}
           /\ server' = [server EXCEPT ![socket] = @ \cup {id}]
           /\ sentOn' = [sentOn EXCEPT ![id] = socket]
    /\ nextRequestId' = nextRequestId + 1
    /\ UNCHANGED <<socket, status, settledIds, settledOrder, attempt, connTimers,
                   addressable, ready, inbox, notified, settles, givenUp, heardAs,
                   unknown>>

\* socket.send threw: the request is rejected and its id never comes back.
RequestNotSent ==
    /\ MayRequest
    /\ nextRequestId \in Requests
    /\ Settled({nextRequestId})
    /\ nextRequestId' = nextRequestId + 1
    /\ UNCHANGED <<socket, status, pending, timers, settledIds, settledOrder,
                   attempt, connTimers, addressable, wireVars, sentOn, givenUp,
                   heardAs, unknown>>

Application == \/ ConnectMisaddressed \/ ConnectRefused
               \/ \E s \in Sockets : Connect(s)
               \/ Disconnect \/ Request \/ RequestNotSent
-----------------------------------------------------------------------------
(* Timers *)

\* Mutant: the id of a request that timed out is not quarantined.
RequestTimeoutForgets(id) ==
    /\ id \in timers
    /\ timers' = timers \ {id}
    /\ pending' = pending \ {id}
    /\ Settled({id})
    /\ GivenUp(<<id>>)
    /\ UNCHANGED <<socket, status, settledIds, settledOrder, nextRequestId, attempt,
                   connTimers, addressable, wireVars, sentOn, heardAs, unknown>>

RequestTimeout(id) ==
    /\ id \in timers
    /\ timers' = timers \ {id}
    /\ pending' = pending \ {id}
    /\ MarkRequestSettled(<<id>>)
    /\ Settled({id})
    /\ GivenUp(<<id>>)
    /\ UNCHANGED <<socket, status, nextRequestId, attempt, connTimers, addressable,
                   wireVars, sentOn, heardAs, unknown>>

\* The connect timer.  A replaced socket only rejects its own promise.
ConnectTimeout(s) ==
    /\ s \in connTimers
    /\ connTimers' = connTimers \ {s}
    /\ IF attempt[s] # "waiting"
       THEN UNCHANGED <<socket, status, attempt, ready>>
       ELSE /\ attempt' = [attempt EXCEPT ![s] = "rejected"]
            /\ IF Current(s)
               THEN /\ socket' = NoSocket
                    /\ status' = "error"
                    /\ ready' = [ready EXCEPT ![s] = Closing(@)]
               ELSE UNCHANGED <<socket, status, ready>>
    /\ UNCHANGED <<pending, timers, settledIds, settledOrder, nextRequestId,
                   addressable, server, inbox, notified, history>>

Timers == \/ \E id \in Requests : RequestTimeout(id)
          \/ \E s \in Sockets : ConnectTimeout(s)
-----------------------------------------------------------------------------
(* Socket events *)

\* Mutant: a replaced socket that opens leaves its connect() unsettled.
OnOpenSilently(s) ==
    /\ connTimers' = connTimers \ {s}
    /\ attempt' = [attempt EXCEPT
                     ![s] = IF @ = "waiting" /\ Current(s) THEN "resolved" ELSE @]
    /\ status' = IF attempt[s] = "waiting" /\ Current(s) THEN "connected" ELSE status

OnOpen(s) ==
    /\ connTimers' = connTimers \ {s}
    /\ attempt' = [attempt EXCEPT
                     ![s] = IF @ # "waiting" THEN @
                            ELSE IF Current(s) THEN "resolved" ELSE "rejected"]
    /\ status' = IF attempt[s] = "waiting" /\ Current(s) THEN "connected" ELSE status

\* The socket opened; the event may already be queued when close() is called.
Open(s) ==
    /\ ready[s] \in {"connecting", "aborted"}
    /\ ready' = [ready EXCEPT ![s] = IF @ = "connecting" THEN "open" ELSE "closing"]
    /\ OnOpen(s)
    /\ UNCHANGED <<socket, pending, timers, settledIds, settledOrder, nextRequestId,
                   addressable, server, inbox, notified, history>>

OnError(s) ==
    /\ connTimers' = connTimers \ {s}
    /\ attempt' = [attempt EXCEPT ![s] = IF @ = "waiting" THEN "rejected" ELSE @]
    /\ status' = IF Current(s) THEN "error" ELSE status

\* A failure: the browser fires error, and close afterwards.
Fail(s) ==
    /\ ready[s] \in {"connecting", "open"}
    /\ ready' = [ready EXCEPT ![s] = "failed"]
    /\ OnError(s)
    /\ UNCHANGED <<socket, pending, timers, settledIds, settledOrder, nextRequestId,
                   addressable, server, inbox, notified, history>>

\* Mutant: the close of an old socket is taken for the current one's.
OnCloseUnguarded(s) ==
    /\ connTimers' = connTimers \ {s}
    /\ attempt' = [attempt EXCEPT ![s] = IF @ = "waiting" THEN "rejected" ELSE @]
    /\ socket' = NoSocket
    /\ RejectPending
    /\ status' = IF attempt[s] = "waiting" THEN "error"
                 ELSE IF status = "error" THEN status ELSE "disconnected"

\* onclose: only the current socket's close rejects requests and changes state.
OnClose(s) ==
    /\ connTimers' = connTimers \ {s}
    /\ attempt' = [attempt EXCEPT ![s] = IF @ = "waiting" THEN "rejected" ELSE @]
    /\ IF Current(s)
       THEN /\ socket' = NoSocket
            /\ RejectPending
            /\ status' = IF attempt[s] = "waiting" THEN "error"
                         ELSE IF status = "error" THEN status ELSE "disconnected"
       ELSE UNCHANGED <<socket, pending, timers, settledIds, settledOrder, status,
                      settles, givenUp>>

\* The connection ends; what was on its way is lost.
Close(s) ==
    /\ ready[s] \notin {"none", "closed"}
    /\ ready' = [ready EXCEPT ![s] = "closed"]
    /\ server' = [server EXCEPT ![s] = {}]
    /\ inbox' = [inbox EXCEPT ![s] = {}]
    /\ OnClose(s)
    /\ UNCHANGED <<nextRequestId, addressable, notified, sentOn, heardAs, unknown>>

\* onmessage: "if (this.socket === socket) this.handleMessage(...)".
Hears(s) == Current(s)

Heard(s) == heardAs' = IF Hears(s) THEN heardAs \cup {<<attempt[s], status>>} ELSE heardAs

\* handleMessage of a response.  A frame may still be queued while its socket is
\* closing, or arrive after the client replaced the socket.
Response(s, id) ==
    /\ id \in inbox[s]
    /\ inbox' = [inbox EXCEPT ![s] = @ \ {id}]
    /\ IF ~Hears(s)
       THEN UNCHANGED <<pending, timers, settledIds, settles, unknown>>
       ELSE IF id \in pending
       THEN /\ pending' = pending \ {id}
            /\ timers' = timers \ {id}
            /\ Settled({id})
            /\ UNCHANGED <<settledIds, unknown>>
       ELSE /\ settledIds' = settledIds \ {id}
            /\ unknown' = unknown \cup ({id} \ settledIds)
            /\ UNCHANGED <<pending, timers, settles>>
    /\ Heard(s)
    /\ UNCHANGED <<socket, status, settledOrder, nextRequestId, attempt, connTimers,
                   addressable, ready, server, notified, sentOn, givenUp>>

Notification(s) ==
    /\ ready[s] \in {"open", "closing"}
    /\ ~notified[s]
    /\ notified' = [notified EXCEPT ![s] = TRUE]
    /\ Heard(s)
    /\ UNCHANGED <<clientVars, ready, server, inbox, sentOn, settles, givenUp, unknown>>

\* The server answers a request, on the socket it came on.
Answer(s, id) ==
    /\ ready[s] \in {"open", "closing"}
    /\ id \in server[s]
    /\ server' = [server EXCEPT ![s] = @ \ {id}]
    /\ inbox' = [inbox EXCEPT ![s] = @ \cup {id}]
    /\ UNCHANGED <<clientVars, ready, notified, history>>

SocketEvents ==
    \E s \in Sockets :
        \/ Open(s) \/ Fail(s) \/ Close(s) \/ Notification(s)
        \/ \E id \in Requests : Answer(s, id) \/ Response(s, id)
-----------------------------------------------------------------------------
Next == Application \/ Timers \/ SocketEvents

Spec == Init /\ [][Next]_vars

\* setTimeout callbacks run in the end; nothing is assumed of sockets or server.
FairSpec ==
    /\ Spec
    /\ \A id \in Requests : WF_vars(RequestTimeout(id))
    /\ \A s \in Sockets : WF_vars(ConnectTimeout(s))
-----------------------------------------------------------------------------
\* The shape of the client's state; the quarantine holds at most SettledLimit ids
\* ("while (this.settledRequestOrder.length > 128)").
TypeOK ==
    /\ socket \in Sockets \cup {NoSocket}
    /\ status \in Statuses
    /\ pending \subseteq Requests
    /\ timers \subseteq Requests
    /\ settledIds \subseteq Requests
    /\ settledOrder \in Seq(Requests) /\ Len(settledOrder) <= SettledLimit
    /\ nextRequestId \in Nat
    /\ attempt \in [Sockets -> Attempts]
    /\ connTimers \subseteq Sockets
    /\ addressable \in BOOLEAN
    /\ ready \in [Sockets -> ReadyStates]
    /\ server \in [Sockets -> SUBSET Requests]
    /\ inbox \in [Sockets -> SUBSET Requests]
    /\ notified \in [Sockets -> BOOLEAN]
    /\ sentOn \in [Requests -> Sockets \cup {NoSocket}]
    /\ settles \in [Requests -> Nat]
    /\ givenUp \in Seq(Requests)
    /\ heardAs \subseteq Attempts \X Statuses
    /\ unknown \subseteq Requests

\* A request's promise is settled once, by whichever of answer, timer, close and
\* disconnect comes first; the others find nothing to settle.
SettledAtMostOnce == \A r \in Requests : settles[r] <= 1

\* Waiting requests belong to the current socket and each has its timer: no
\* change of socket leaves one behind that no answer can reach.
PendingOnCurrentSocket ==
    /\ timers = pending
    /\ \A r \in pending : sentOn[r] = socket /\ socket # NoSocket

\* Connected means that the current socket opened and its connect() succeeded,
\* whatever an old one still reports.  Connecting means that its connect() is not
\* settled yet, unless the client has no address to connect to: that client is left
\* "connecting" by a connect() that failed before it made a socket.
ConnectedIsCurrent ==
    /\ status = "connected" => socket # NoSocket /\ attempt[socket] = "resolved"
    /\ status = "connecting" =>
         IF addressable THEN socket # NoSocket /\ attempt[socket] = "waiting"
                        ELSE socket = NoSocket

\* A step that leaves the current socket open.
Undisturbed ==
    \A s \in Sockets :
        Current(s) /\ ready[s] = "open" /\ ready'[s] = "open"
            => /\ socket' = s /\ status' = status
               /\ Cardinality(pending \ pending') <= 1

\* "The old close still rejects its own pending connect, but cannot reject RPCs or
\* change state on the replacement transport": as long as the current socket stays
\* open the client stays on it, connected, and requests end one at a time.
ReplacementUndisturbed == [][Undisturbed]_vars

\* A frame is handled only on a connection whose connect() succeeded and that the
\* client has not given up: not after a timeout, a disconnect or a replacement.
HeardOnlyOpened ==
    heardAs \subseteq {<<"resolved", "connected">>, <<"resolved", "error">>}

\* "a valid late server response is ignored instead of reported as an unrelated
\* protocol error": an id is reported as unknown only when SettledLimit requests
\* were given up after it.
LateResponseIgnored ==
    \A r \in unknown :
        \E i \in 1..(Len(givenUp) - SettledLimit) : givenUp[i] = r

\* Every request is settled in the end, whatever happens to its socket.
RequestSettles == \A r \in Requests : r \in pending ~> settles[r] = 1

\* Every connect() is settled in the end, also one that disconnect() abandoned.
ConnectSettles ==
    \A s \in Sockets : attempt[s] = "waiting" ~> attempt[s] \in {"resolved", "rejected"}
-----------------------------------------------------------------------------
(* The contract *)

\* The client's link: its status counts only while there is a socket.
Link == IF socket = NoSocket THEN "down" ELSE status

\* What became of a request; a second settlement has no counterpart.
Outcome(r) ==
    IF settles[r] > 1 THEN "settled twice"
    ELSE IF settles[r] = 1 THEN "settled"
    ELSE IF r \in pending THEN "waiting" ELSE "new"

Contract == INSTANCE ClientContract
                WITH Calls <- Requests, link <- Link, call <- [r \in Requests |-> Outcome(r)]

\* The client keeps its contract: every step is one of the contract's or leaves it
\* alone.  In particular a request is settled once, and giving up a socket, by
\* close, timeout or disconnect, settles in the same step all that waited on it.
KeepsContract == Contract!Spec
=============================================================================
