-------------------------- MODULE RpcClientProofs --------------------------
(***************************************************************************)
(* Proofs about the protocol client, for any number of sockets and         *)
(* requests and any size of the quarantine.  The key is CurrentPhase: the  *)
(* phase of the current socket, of its connect() and of the status the     *)
(* client reports agree, so only a connection that opened has requests.    *)
(***************************************************************************)
EXTENDS RpcClient, FiniteSetTheorems, SequenceTheorems, TLAPS

\* What the client believes about its socket is where that socket is; a client
\* without an address never has one, whatever it believes.
CurrentPhase ==
    IF socket = NoSocket
    THEN \/ status \in {"idle", "disconnected", "error"}
         \/ status = "connecting" /\ ~addressable
    ELSE /\ addressable
         /\ \/ ready[socket] = "connecting" /\ attempt[socket] = "waiting"
               /\ status = "connecting"
            \/ ready[socket] = "open" /\ attempt[socket] = "resolved" /\ status = "connected"
            \/ ready[socket] = "failed" /\ attempt[socket] \in {"resolved", "rejected"}
               /\ status = "error"

\* Requests and answers exist only on sockets whose connect() succeeded.
OnlyOnResolved ==
    /\ \A r \in pending : attempt[sentOn[r]] = "resolved"
    /\ \A s \in Sockets : server[s] \cup inbox[s] # {} =>
         attempt[s] = "resolved" /\ ready[s] # "none"

\* A waiting request is unsettled, and so is one that was not made yet.
SettlesFresh ==
    /\ \A r \in pending : settles[r] = 0 /\ r < nextRequestId
    /\ \A r \in Requests : r >= nextRequestId => settles[r] = 0

IInv ==
    /\ TypeOK
    /\ CurrentPhase
    /\ OnlyOnResolved
    /\ PendingOnCurrentSocket
    /\ SettlesFresh
    /\ SettledAtMostOnce
    /\ HeardOnlyOpened
-----------------------------------------------------------------------------
(* The quarantine *)

\* The ring never holds more than its limit.
LEMMA NewestType ==
    ASSUME NEW order \in Seq(Requests)
    PROVE  Newest(order) \in Seq(Requests) /\ Len(Newest(order)) <= SettledLimit
<1>1. CASE Len(order) <= SettledLimit
  BY <1>1 DEF Newest
<1>2. CASE ~(Len(order) <= SettledLimit)
  <2>1. /\ Len(order) \in Nat /\ SettledLimit \in Nat
    BY ClientAssumption
  <2>2. Newest(order) = SubSeq(order, Len(order) - SettledLimit + 1, Len(order))
    BY <1>2 DEF Newest
  <2> QED
    BY <1>2, <2>1, <2>2
<1> QED
  BY <1>1, <1>2

\* The order in which waiting requests are rejected is a sequence of requests.
LEMMA PendingOrdersType ==
    ASSUME pending \subseteq Requests
    PROVE  PendingOrders \subseteq Seq(Requests)
<1>1. IsFiniteSet(Requests)
  BY FS_Interval, ClientAssumption DEF Requests
<1>2. Cardinality(pending) \in Nat
  BY <1>1, FS_Subset, FS_CardinalityType
<1> SUFFICES ASSUME NEW order \in PendingOrders
             PROVE  order \in Seq(Requests)
  OBVIOUS
<1>3. order \in [1..Cardinality(pending) -> Requests]
  BY DEF PendingOrders
<1> QED
  BY <1>2, <1>3

\* Settling any ids keeps the types of the quarantine and of the history.
LEMMA MarkType ==
    ASSUME TypeOK, NEW order \in Seq(Requests),
           MarkRequestSettled(order), GivenUp(order)
    PROVE  /\ settledIds' \subseteq Requests
           /\ settledOrder' \in Seq(Requests) /\ Len(settledOrder') <= SettledLimit
           /\ givenUp' \in Seq(Requests)
<1>1. settledOrder \in Seq(Requests) /\ givenUp \in Seq(Requests) /\ settledIds \subseteq Requests
  BY DEF TypeOK
<1>2. settledOrder \o order \in Seq(Requests) /\ givenUp \o order \in Seq(Requests)
  BY <1>1
<1>3. \A i \in DOMAIN order : order[i] \in Requests
  OBVIOUS
<1>4. settledIds' \subseteq Requests
  BY <1>1, <1>3 DEF MarkRequestSettled
<1> QED
  BY <1>2, <1>4, NewestType DEF MarkRequestSettled, GivenUp

\* rejectPending keeps the types and leaves nothing waiting.
LEMMA RejectType ==
    ASSUME TypeOK, RejectPending
    PROVE  /\ settledIds' \subseteq Requests
           /\ settledOrder' \in Seq(Requests) /\ Len(settledOrder') <= SettledLimit
           /\ givenUp' \in Seq(Requests)
           /\ settles' \in [Requests -> Nat]
           /\ pending' = {}
           /\ timers' = timers \ pending
<1>1. pending \subseteq Requests /\ settles \in [Requests -> Nat]
  BY DEF TypeOK
<1>2. PICK order \in PendingOrders : MarkRequestSettled(order) /\ GivenUp(order)
  BY DEF RejectPending
<1>3. order \in Seq(Requests)
  BY <1>1, PendingOrdersType
<1>4. settles' \in [Requests -> Nat]
  BY <1>1 DEF RejectPending, Settled
<1> QED
  BY <1>2, <1>3, <1>4, MarkType DEF RejectPending

\* Requests are numbers and settlements are counted.
LEMMA Counted ==
    ASSUME TypeOK
    PROVE  \A r \in Requests : settles[r] \in Nat /\ r \in Nat /\ nextRequestId \in Nat
  BY DEF TypeOK, Requests

\* Rejecting what waits settles each of those requests for the first time.
LEMMA RejectSettles ==
    ASSUME TypeOK, SettlesFresh, SettledAtMostOnce, RejectPending, UNCHANGED nextRequestId
    PROVE  SettlesFresh' /\ SettledAtMostOnce'
<1>1. \A r \in Requests : settles'[r] = IF r \in pending THEN settles[r] + 1 ELSE settles[r]
  BY DEF RejectPending, Settled
<1>2. pending' = {}
  BY DEF RejectPending
<1>3. \A r \in Requests : settles[r] \in Nat /\ r \in Nat /\ nextRequestId \in Nat
  BY Counted
<1>4. \A r \in pending : settles[r] = 0 /\ ~(r >= nextRequestId)
  BY <1>3 DEF SettlesFresh, TypeOK
<1>5. SettlesFresh'
  BY <1>1, <1>2, <1>3, <1>4 DEF SettlesFresh
<1>6. SettledAtMostOnce'
  BY <1>1, <1>3, <1>4 DEF SettledAtMostOnce
<1> QED
  BY <1>5, <1>6

\* After close() a socket is in one of the states of a WebSocket.
LEMMA ClosingType ==
    ASSUME NEW state \in ReadyStates
    PROVE  Closing(state) \in ReadyStates /\ (state # "none" => Closing(state) # "none")
  BY DEF Closing, ReadyStates

-----------------------------------------------------------------------------
(* Each action preserves the invariant *)

\* A refused connection leaves the client as it was, but for the status.
LEMMA ConnectRefusedInv ==
    ASSUME IInv, ConnectRefused
    PROVE  IInv'
<1>1. TypeOK'
  BY DEF IInv, ConnectRefused, TypeOK, Statuses, Attempts, ReadyStates, Sockets,
     Requests, NoSocket, wireVars, clientVars, history
<1>2. CurrentPhase'
  BY DEF IInv, ConnectRefused, CurrentPhase
<1>3. OnlyOnResolved'
  BY DEF IInv, ConnectRefused, OnlyOnResolved, TypeOK, wireVars, clientVars, history
<1>4. PendingOnCurrentSocket'
  BY DEF IInv, ConnectRefused, PendingOnCurrentSocket
<1>5. SettlesFresh'
  BY DEF IInv, ConnectRefused, SettlesFresh, TypeOK, wireVars, clientVars, history
<1>6. SettledAtMostOnce'
  BY DEF IInv, ConnectRefused, SettledAtMostOnce, SettlesFresh, TypeOK, wireVars,
     clientVars, history
<1>7. HeardOnlyOpened'
  BY DEF IInv, ConnectRefused, HeardOnlyOpened, wireVars, clientVars, history
<1> QED
  BY <1>1, <1>2, <1>3, <1>4, <1>5, <1>6, <1>7 DEF IInv

\* So does a connect() that cannot build its address.
LEMMA ConnectMisaddressedInv ==
    ASSUME IInv, ConnectMisaddressed
    PROVE  IInv'
<1>1. TypeOK'
  BY DEF IInv, ConnectMisaddressed, TypeOK, Statuses, Attempts, ReadyStates, Sockets,
     Requests, NoSocket, wireVars, clientVars, history
<1>2. CurrentPhase'
  BY DEF IInv, ConnectMisaddressed, CurrentPhase
<1>3. OnlyOnResolved'
  BY DEF IInv, ConnectMisaddressed, OnlyOnResolved, TypeOK, wireVars, clientVars, history
<1>4. PendingOnCurrentSocket'
  BY DEF IInv, ConnectMisaddressed, PendingOnCurrentSocket
<1>5. SettlesFresh'
  BY DEF IInv, ConnectMisaddressed, SettlesFresh, TypeOK, wireVars, clientVars, history
<1>6. SettledAtMostOnce'
  BY DEF IInv, ConnectMisaddressed, SettledAtMostOnce, SettlesFresh, TypeOK, wireVars,
     clientVars, history
<1>7. HeardOnlyOpened'
  BY DEF IInv, ConnectMisaddressed, HeardOnlyOpened, wireVars, clientVars, history
<1> QED
  BY <1>1, <1>2, <1>3, <1>4, <1>5, <1>6, <1>7 DEF IInv

\* connect() preserves the invariant.
LEMMA ConnectInv ==
    ASSUME IInv, NEW s \in Sockets, Connect(s)
    PROVE  IInv'
<1>1. TypeOK'
  BY DEF IInv, Connect, TypeOK, Statuses, Attempts, ReadyStates, Sockets, Requests,
     NoSocket, wireVars, clientVars, history
<1>2. CurrentPhase'
  BY DEF IInv, Connect, TypeOK, CurrentPhase, PendingOnCurrentSocket, OnlyOnResolved,
     NoSocket, Sockets, Requests, wireVars, clientVars, history
<1>3. OnlyOnResolved'
  BY DEF IInv, Connect, TypeOK, OnlyOnResolved, CurrentPhase, PendingOnCurrentSocket,
     wireVars, clientVars, history
<1>4. PendingOnCurrentSocket'
  BY DEF IInv, Connect, PendingOnCurrentSocket
<1>5. SettlesFresh'
  BY DEF IInv, Connect, SettlesFresh, TypeOK, wireVars, clientVars, history
<1>6. SettledAtMostOnce'
  BY DEF IInv, Connect, SettledAtMostOnce, SettlesFresh, TypeOK, wireVars, clientVars,
     history
<1>7. HeardOnlyOpened'
  BY DEF IInv, Connect, HeardOnlyOpened, wireVars, clientVars, history
<1> QED
  BY <1>1, <1>2, <1>3, <1>4, <1>5, <1>6, <1>7 DEF IInv

\* disconnect() preserves the invariant.
LEMMA DisconnectInv ==
    ASSUME IInv, Disconnect
    PROVE  IInv'
<1> USE DEF IInv
<1>0. RejectPending /\ UNCHANGED nextRequestId /\ UNCHANGED <<sentOn, attempt, server, inbox>>
  BY DEF Disconnect
<1>1. TypeOK'
  <2>1. ready \in [Sockets -> ReadyStates]
    BY DEF TypeOK
  <2>2. ready' \in [Sockets -> ReadyStates]
    BY <2>1, ClosingType DEF Disconnect
  <2>3. socket' = NoSocket /\ status' = "disconnected"
    BY DEF Disconnect
  <2>4. UNCHANGED <<nextRequestId, attempt, connTimers, addressable, server, inbox,
                    notified, sentOn, heardAs, unknown>>
    BY DEF Disconnect
  <2>5. timers' \subseteq Requests /\ pending' \subseteq Requests
    BY <1>0, RejectType DEF TypeOK
  <2> QED
    BY <1>0, <2>2, <2>3, <2>4, <2>5, RejectType DEF TypeOK, Statuses
<1>2. CurrentPhase'
  BY DEF IInv, Disconnect, CurrentPhase
<1>3. OnlyOnResolved'
  <2>1. pending' = {}
    BY <1>0, RejectType
  <2>2. ready \in [Sockets -> ReadyStates] /\ \A t \in Sockets : ready[t] # "none" => ready'[t] # "none"
    BY ClosingType DEF Disconnect, TypeOK
  <2> QED
    BY <1>0, <2>1, <2>2 DEF OnlyOnResolved
<1>4. PendingOnCurrentSocket'
  BY <1>0, RejectType DEF PendingOnCurrentSocket
<1>5. SettlesFresh'
  BY <1>0, RejectSettles
<1>6. SettledAtMostOnce'
  BY <1>0, RejectSettles
<1>7. HeardOnlyOpened'
  BY DEF IInv, Disconnect, HeardOnlyOpened
<1> QED
  BY <1>1, <1>2, <1>3, <1>4, <1>5, <1>6, <1>7 DEF IInv

\* A request preserves the invariant.
LEMMA RequestInv ==
    ASSUME IInv, Request
    PROVE  IInv'
<1> USE DEF IInv
<1>1. TypeOK'
  <2>1. socket \in Sockets /\ nextRequestId \in Requests
    BY DEF Request, MayRequest, TypeOK
  <2>2. pending' \subseteq Requests /\ timers' \subseteq Requests /\ nextRequestId' \in Nat
    BY <2>1 DEF Request, TypeOK
  <2>3. server' \in [Sockets -> SUBSET Requests]
    BY <2>1 DEF Request, TypeOK
  <2>4. sentOn' \in [Requests -> Sockets \cup {NoSocket}]
    BY <2>1 DEF Request, TypeOK
  <2>5. UNCHANGED <<socket, status, settledIds, settledOrder, attempt, connTimers,
                    addressable, ready, inbox, notified, settles, givenUp, heardAs, unknown>>
    BY DEF Request
  <2> QED
    BY <2>2, <2>3, <2>4, <2>5 DEF TypeOK
<1>2. CurrentPhase'
  BY DEF IInv, Request, MayRequest, CurrentPhase
<1>3. OnlyOnResolved'
  BY DEF IInv, Request, MayRequest, TypeOK, OnlyOnResolved, CurrentPhase,
     PendingOnCurrentSocket, wireVars, clientVars, history
<1>4. PendingOnCurrentSocket'
  BY DEF IInv, Request, MayRequest, PendingOnCurrentSocket, TypeOK
<1>5. SettlesFresh'
  BY DEF IInv, Request, MayRequest, SettlesFresh, TypeOK
<1>6. SettledAtMostOnce'
  BY DEF IInv, Request, MayRequest, SettledAtMostOnce
<1>7. HeardOnlyOpened'
  BY DEF IInv, Request, MayRequest, HeardOnlyOpened
<1> QED
  BY <1>1, <1>2, <1>3, <1>4, <1>5, <1>6, <1>7 DEF IInv

\* A request that could not be written preserves the invariant.
LEMMA RequestNotSentInv ==
    ASSUME IInv, RequestNotSent
    PROVE  IInv'
<1>1. TypeOK'
  BY DEF IInv, RequestNotSent, MayRequest, Settled, TypeOK, Statuses, Attempts,
     ReadyStates, Sockets, Requests, NoSocket, wireVars, clientVars, history
<1>2. CurrentPhase'
  BY DEF IInv, RequestNotSent, MayRequest, Settled, CurrentPhase, TypeOK, wireVars,
     clientVars, history
<1>3. OnlyOnResolved'
  BY DEF IInv, RequestNotSent, MayRequest, Settled, OnlyOnResolved, TypeOK, wireVars,
     clientVars, history
<1>4. PendingOnCurrentSocket'
  BY DEF IInv, RequestNotSent, MayRequest, Settled, PendingOnCurrentSocket
<1>5. SettlesFresh'
  BY DEF IInv, RequestNotSent, MayRequest, Settled, SettlesFresh, TypeOK
<1>6. SettledAtMostOnce'
  BY DEF IInv, RequestNotSent, MayRequest, Settled, SettledAtMostOnce, SettlesFresh,
     TypeOK
<1>7. HeardOnlyOpened'
  BY DEF IInv, RequestNotSent, MayRequest, Settled, HeardOnlyOpened
<1> QED
  BY <1>1, <1>2, <1>3, <1>4, <1>5, <1>6, <1>7 DEF IInv

\* A request timer preserves the invariant.
LEMMA RequestTimeoutInv ==
    ASSUME IInv, NEW id \in Requests, RequestTimeout(id)
    PROVE  IInv'
<1> USE DEF IInv
<1>1. TypeOK'
  <2>1. MarkRequestSettled(<<id>>) /\ GivenUp(<<id>>) /\ <<id>> \in Seq(Requests)
    BY DEF RequestTimeout
  <2>2. settles' \in [Requests -> Nat]
    BY DEF RequestTimeout, Settled, TypeOK
  <2>3. pending' \subseteq Requests /\ timers' \subseteq Requests
    BY DEF RequestTimeout, TypeOK
  <2>4. UNCHANGED <<socket, status, nextRequestId, attempt, connTimers, addressable,
                    wireVars, sentOn, heardAs, unknown>>
    BY DEF RequestTimeout
  <2> QED
    BY <2>1, <2>2, <2>3, <2>4, MarkType DEF TypeOK, wireVars
<1>2. CurrentPhase'
  BY DEF IInv, RequestTimeout, Settled, CurrentPhase, TypeOK, wireVars, clientVars,
     history
<1>3. OnlyOnResolved'
  BY DEF IInv, RequestTimeout, Settled, OnlyOnResolved, TypeOK, wireVars, clientVars,
     history
<1>4. PendingOnCurrentSocket'
  BY DEF IInv, RequestTimeout, Settled, PendingOnCurrentSocket
<1>5. SettlesFresh'
  BY DEF IInv, RequestTimeout, Settled, TypeOK, SettlesFresh, CurrentPhase,
     PendingOnCurrentSocket, OnlyOnResolved, NoSocket, Sockets, Requests, wireVars,
     clientVars, history
<1>6. SettledAtMostOnce'
  BY DEF IInv, RequestTimeout, Settled, Sockets, Requests, NoSocket, TypeOK,
     CurrentPhase, OnlyOnResolved, PendingOnCurrentSocket, SettlesFresh,
     SettledAtMostOnce, HeardOnlyOpened, Statuses, Attempts, ReadyStates, wireVars,
     clientVars, history
<1>7. HeardOnlyOpened'
  BY DEF IInv, RequestTimeout, Settled, HeardOnlyOpened
<1> QED
  BY <1>1, <1>2, <1>3, <1>4, <1>5, <1>6, <1>7 DEF IInv

\* The connect timer preserves the invariant.
LEMMA ConnectTimeoutInv ==
    ASSUME IInv, NEW s \in Sockets, ConnectTimeout(s)
    PROVE  IInv'
<1> USE DEF IInv
<1>0. ready \in [Sockets -> ReadyStates] /\ attempt \in [Sockets -> Attempts]
  BY DEF TypeOK
<1>a. UNCHANGED <<pending, timers, settledIds, settledOrder, nextRequestId,
                  addressable, server, inbox, notified, history>>
  BY DEF ConnectTimeout
<1>b. \/ UNCHANGED <<socket, status, attempt, ready>>
      \/ /\ attempt[s] = "waiting" /\ attempt' = [attempt EXCEPT ![s] = "rejected"]
         /\ \/ /\ socket = s /\ socket' = NoSocket /\ status' = "error"
               /\ ready' = [ready EXCEPT ![s] = Closing(@)]
            \/ socket # s /\ UNCHANGED <<socket, status, ready>>
  BY DEF ConnectTimeout, Current
<1>1. TypeOK'
  <2>1. connTimers' \subseteq Sockets
    BY DEF ConnectTimeout, TypeOK
  <2>2. ready' \in [Sockets -> ReadyStates] /\ attempt' \in [Sockets -> Attempts]
    BY <1>0, <1>b, ClosingType DEF Attempts
  <2>3. socket' \in Sockets \cup {NoSocket} /\ status' \in Statuses
    BY <1>b DEF TypeOK, Statuses
  <2> QED
    BY <1>a, <2>1, <2>2, <2>3 DEF TypeOK, history
<1>2. CurrentPhase'
  BY <1>0, <1>a, <1>b DEF CurrentPhase, TypeOK
<1>3. OnlyOnResolved'
  <2>1. \A t \in Sockets : attempt[t] = "resolved" => attempt'[t] = "resolved"
    BY <1>0, <1>b
  <2>2. \A t \in Sockets : ready[t] # "none" => ready'[t] # "none"
    BY <1>0, <1>b, ClosingType
  <2>3. \A r \in pending : sentOn[r] \in Sockets
    BY DEF PendingOnCurrentSocket, TypeOK
  <2> QED
    BY <1>a, <2>1, <2>2, <2>3 DEF OnlyOnResolved, history
<1>4. PendingOnCurrentSocket'
  BY DEF IInv, ConnectTimeout, Current, Closing, TypeOK, PendingOnCurrentSocket,
     CurrentPhase, OnlyOnResolved, wireVars, clientVars, history
<1>5. SettlesFresh'
  BY DEF IInv, ConnectTimeout, Current, Closing, SettlesFresh, TypeOK, wireVars,
     clientVars, history
<1>6. SettledAtMostOnce'
  BY DEF IInv, ConnectTimeout, Current, Closing, SettledAtMostOnce, SettlesFresh,
     TypeOK, wireVars, clientVars, history
<1>7. HeardOnlyOpened'
  BY DEF IInv, ConnectTimeout, Current, Closing, HeardOnlyOpened, wireVars, clientVars,
     history
<1> QED
  BY <1>1, <1>2, <1>3, <1>4, <1>5, <1>6, <1>7 DEF IInv

\* onopen preserves the invariant.
LEMMA OpenInv ==
    ASSUME IInv, NEW s \in Sockets, Open(s)
    PROVE  IInv'
<1>1. TypeOK'
  BY DEF IInv, Open, OnOpen, Current, TypeOK, Statuses, Attempts, ReadyStates, Sockets,
     Requests, NoSocket, wireVars, clientVars, history
<1>2. CurrentPhase'
  BY DEF IInv, Open, OnOpen, Current, TypeOK, CurrentPhase, PendingOnCurrentSocket,
     OnlyOnResolved, NoSocket, Sockets, Requests, wireVars, clientVars, history
<1>3. OnlyOnResolved'
  BY DEF IInv, Open, OnOpen, Current, OnlyOnResolved, TypeOK, wireVars, clientVars,
     history
<1>4. PendingOnCurrentSocket'
  BY DEF IInv, Open, OnOpen, Current, PendingOnCurrentSocket, TypeOK, wireVars,
     clientVars, history
<1>5. SettlesFresh'
  BY DEF IInv, Open, OnOpen, Current, SettlesFresh, TypeOK, wireVars, clientVars,
     history
<1>6. SettledAtMostOnce'
  BY DEF IInv, Open, OnOpen, Current, SettledAtMostOnce, SettlesFresh, TypeOK, wireVars,
     clientVars, history
<1>7. HeardOnlyOpened'
  BY DEF IInv, Open, OnOpen, Current, HeardOnlyOpened, wireVars, clientVars, history
<1> QED
  BY <1>1, <1>2, <1>3, <1>4, <1>5, <1>6, <1>7 DEF IInv

\* onerror preserves the invariant.
LEMMA FailInv ==
    ASSUME IInv, NEW s \in Sockets, Fail(s)
    PROVE  IInv'
<1>1. TypeOK'
  BY DEF IInv, Fail, OnError, Current, TypeOK, Statuses, Attempts, ReadyStates, Sockets,
     Requests, NoSocket, wireVars, clientVars, history
<1>2. CurrentPhase'
  BY DEF IInv, Fail, OnError, Current, CurrentPhase, TypeOK
<1>3. OnlyOnResolved'
  BY DEF IInv, Fail, OnError, Current, OnlyOnResolved, TypeOK, wireVars, clientVars,
     history
<1>4. PendingOnCurrentSocket'
  BY DEF IInv, Fail, OnError, Current, PendingOnCurrentSocket, TypeOK, wireVars,
     clientVars, history
<1>5. SettlesFresh'
  BY DEF IInv, Fail, OnError, Current, SettlesFresh, TypeOK, wireVars, clientVars,
     history
<1>6. SettledAtMostOnce'
  BY DEF IInv, Fail, OnError, Current, SettledAtMostOnce, SettlesFresh, TypeOK,
     wireVars, clientVars, history
<1>7. HeardOnlyOpened'
  BY DEF IInv, Fail, OnError, Current, HeardOnlyOpened, wireVars, clientVars, history
<1> QED
  BY <1>1, <1>2, <1>3, <1>4, <1>5, <1>6, <1>7 DEF IInv

\* onclose preserves the invariant.
LEMMA CloseInv ==
    ASSUME IInv, NEW s \in Sockets, Close(s)
    PROVE  IInv'
<1> USE DEF IInv
<1>0. \/ Current(s) /\ RejectPending /\ socket' = NoSocket
      \/ ~Current(s) /\ UNCHANGED <<socket, pending, timers, settledIds, settledOrder, status,
                                     settles, givenUp>>
  BY DEF Close, OnClose
<1>a. UNCHANGED <<nextRequestId, addressable, notified, sentOn, heardAs, unknown>>
  BY DEF Close
<1>1. TypeOK'
  <2>1. /\ ready' \in [Sockets -> ReadyStates]
        /\ server' \in [Sockets -> SUBSET Requests]
        /\ inbox' \in [Sockets -> SUBSET Requests]
    BY DEF Close, TypeOK, ReadyStates
  <2>2. connTimers' \subseteq Sockets /\ attempt' \in [Sockets -> Attempts]
    BY DEF Close, OnClose, TypeOK, Attempts
  <2>3. socket' \in Sockets \cup {NoSocket} /\ status' \in Statuses
    BY DEF Close, OnClose, TypeOK, Statuses
  <2>4. /\ settledIds' \subseteq Requests
        /\ settledOrder' \in Seq(Requests) /\ Len(settledOrder') <= SettledLimit
        /\ givenUp' \in Seq(Requests)
        /\ settles' \in [Requests -> Nat]
        /\ pending' \subseteq Requests
        /\ timers' \subseteq Requests
    <3>1. CASE RejectPending
      BY <3>1, RejectType DEF TypeOK
    <3>2. CASE UNCHANGED <<pending, timers, settledIds, settledOrder, settles, givenUp>>
      BY <3>2 DEF TypeOK
    <3> QED
      BY <1>0, <3>1, <3>2
  <2> QED
    BY <1>a, <2>1, <2>2, <2>3, <2>4 DEF TypeOK
<1>2. CurrentPhase'
  BY DEF IInv, Close, OnClose, Current, CurrentPhase
<1>3. OnlyOnResolved'
  <2>1. pending' = {} \/ pending' = pending
    BY <1>0, RejectType
  <2>2. \A t \in Sockets : attempt[t] = "resolved" => attempt'[t] = "resolved"
    BY DEF Close, OnClose, TypeOK
  <2>3. \A t \in Sockets : /\ server'[t] \subseteq server[t] /\ inbox'[t] \subseteq inbox[t]
                            /\ (ready[t] # "none" => ready'[t] # "none")
    BY DEF Close, TypeOK
  <2>4. \A r \in pending : sentOn[r] \in Sockets
    BY DEF PendingOnCurrentSocket, TypeOK
  <2>5. (\A r \in pending : attempt[sentOn[r]] = "resolved")'
    BY <1>a, <2>1, <2>2, <2>4 DEF OnlyOnResolved
  <2>6. ASSUME NEW t \in Sockets, server'[t] \cup inbox'[t] # {}
        PROVE  attempt'[t] = "resolved" /\ ready'[t] # "none"
    <3>1. server[t] \cup inbox[t] # {}
      BY <2>3, <2>6, Zenon
    <3>2. attempt[t] = "resolved" /\ ready[t] # "none"
      BY <3>1 DEF OnlyOnResolved
    <3> QED
      BY <2>2, <2>3, <3>2
  <2>7. (\A t \in Sockets : server[t] \cup inbox[t] # {} =>
            attempt[t] = "resolved" /\ ready[t] # "none")'
    BY ONLY <2>6
  <2> QED
    BY <2>5, <2>7 DEF OnlyOnResolved
<1>4. PendingOnCurrentSocket'
  BY <1>0, <1>a, RejectType DEF PendingOnCurrentSocket
<1>5. SettlesFresh'
  BY <1>0, <1>a, RejectSettles DEF SettlesFresh
<1>6. SettledAtMostOnce'
  BY <1>0, <1>a, RejectSettles DEF SettledAtMostOnce
<1>7. HeardOnlyOpened'
  BY DEF IInv, Close, OnClose, Current, HeardOnlyOpened
<1> QED
  BY <1>1, <1>2, <1>3, <1>4, <1>5, <1>6, <1>7 DEF IInv

\* A response preserves the invariant.
LEMMA ResponseInv ==
    ASSUME IInv, NEW s \in Sockets, NEW id \in Requests, Response(s, id)
    PROVE  IInv'
<1> USE DEF IInv
<1>a. UNCHANGED <<socket, status, settledOrder, nextRequestId, attempt, connTimers,
                  addressable, ready, server, notified, sentOn, givenUp>>
  BY DEF Response
<1>b. \/ UNCHANGED <<pending, timers, settledIds, settles, unknown>>
      \/ /\ id \in pending /\ pending' = pending \ {id} /\ timers' = timers \ {id}
         /\ Settled({id}) /\ UNCHANGED <<settledIds, unknown>>
      \/ /\ settledIds' = settledIds \ {id} /\ unknown' = unknown \cup ({id} \ settledIds)
         /\ UNCHANGED <<pending, timers, settles>>
  BY DEF Response
<1>c. settles' \in [Requests -> Nat]
  BY <1>b DEF Settled, TypeOK
<1>1. TypeOK'
  <2>1. inbox' \in [Sockets -> SUBSET Requests]
    BY DEF Response, TypeOK
  <2>2. pending' \subseteq Requests /\ timers' \subseteq Requests /\ settledIds' \subseteq Requests
    BY <1>b DEF TypeOK
  <2>3. unknown' \subseteq Requests
    BY <1>b DEF TypeOK
  <2>4. heardAs' \subseteq Attempts \X Statuses
    BY DEF Response, Heard, TypeOK
  <2> QED
    BY <1>a, <1>c, <2>1, <2>2, <2>3, <2>4 DEF TypeOK
<1>2. CurrentPhase'
  BY DEF IInv, Response, Hears, Current, Settled, Heard, CurrentPhase
<1>3. OnlyOnResolved'
  BY DEF IInv, Response, Hears, Current, Settled, Heard, OnlyOnResolved
<1>4. PendingOnCurrentSocket'
  BY DEF IInv, Response, Hears, Current, Settled, Heard, PendingOnCurrentSocket
<1>d. \A r \in Requests : settles[r] \in Nat /\ r \in Nat /\ nextRequestId \in Nat
  BY Counted
<1>e. \/ settles' = settles /\ pending' = pending
      \/ /\ id \in pending /\ pending' = pending \ {id}
         /\ \A r \in Requests : settles'[r] = IF r = id THEN settles[r] + 1 ELSE settles[r]
  BY <1>b DEF Settled
<1>f. \A r \in pending : r \in Requests /\ settles[r] = 0 /\ ~(r >= nextRequestId)
  BY <1>d DEF SettlesFresh, TypeOK
<1>5. SettlesFresh'
  BY <1>a, <1>d, <1>e, <1>f DEF SettlesFresh
<1>6. SettledAtMostOnce'
  BY <1>d, <1>e, <1>f DEF SettledAtMostOnce
<1>7. HeardOnlyOpened'
  BY SMTT(30) DEF IInv, Response, Hears, Current, Settled, Heard, TypeOK, HeardOnlyOpened,
     CurrentPhase, PendingOnCurrentSocket, OnlyOnResolved, NoSocket, Sockets, Requests,
     wireVars, clientVars, history
<1> QED
  BY <1>1, <1>2, <1>3, <1>4, <1>5, <1>6, <1>7 DEF IInv

\* A notification preserves the invariant.
LEMMA NotificationInv ==
    ASSUME IInv, NEW s \in Sockets, Notification(s)
    PROVE  IInv'
<1>0. /\ UNCHANGED <<clientVars, ready, server, inbox, sentOn, settles, givenUp, unknown>>
      /\ notified' = [notified EXCEPT ![s] = TRUE]
  BY DEF Notification
<1>a. heardAs' \subseteq Attempts \X Statuses
  BY DEF IInv, Notification, Heard, TypeOK
<1>1. TypeOK'
  <2>1. notified' \in [Sockets -> BOOLEAN]
    BY <1>0 DEF IInv, TypeOK
  <2> QED
    BY <1>0, <1>a, <2>1 DEF IInv, TypeOK, clientVars
<1>2. CurrentPhase'
  BY DEF IInv, Notification, Hears, Current, Heard, CurrentPhase, TypeOK, wireVars,
     clientVars, history
<1>3. OnlyOnResolved'
  BY DEF IInv, Notification, Hears, Current, Heard, OnlyOnResolved, TypeOK, wireVars,
     clientVars, history
<1>4. PendingOnCurrentSocket'
  BY DEF IInv, Notification, Hears, Current, Heard, PendingOnCurrentSocket, TypeOK,
     wireVars, clientVars, history
<1>5. SettlesFresh'
  BY DEF IInv, Notification, Hears, Current, Heard, SettlesFresh, TypeOK, wireVars,
     clientVars, history
<1>6. SettledAtMostOnce'
  BY DEF IInv, Notification, Hears, Current, Heard, SettledAtMostOnce
<1>7. HeardOnlyOpened'
  BY DEF IInv, Notification, Hears, Current, Heard, TypeOK, HeardOnlyOpened,
     CurrentPhase, PendingOnCurrentSocket, OnlyOnResolved, NoSocket, Sockets, Requests,
     wireVars, clientVars, history
<1> QED
  BY <1>1, <1>2, <1>3, <1>4, <1>5, <1>6, <1>7 DEF IInv

\* A server answer preserves the invariant.
LEMMA AnswerInv ==
    ASSUME IInv, NEW s \in Sockets, NEW id \in Requests, Answer(s, id)
    PROVE  IInv'
<1>1. TypeOK'
  BY DEF IInv, Answer, TypeOK, Statuses, Attempts, ReadyStates, Sockets, Requests,
     NoSocket, wireVars, clientVars, history
<1>2. CurrentPhase'
  BY DEF IInv, Answer, CurrentPhase, TypeOK, wireVars, clientVars, history
<1>3. OnlyOnResolved'
  BY DEF IInv, Answer, OnlyOnResolved, TypeOK, wireVars, clientVars, history
<1>4. PendingOnCurrentSocket'
  BY DEF IInv, Answer, PendingOnCurrentSocket, TypeOK, wireVars, clientVars, history
<1>5. SettlesFresh'
  BY DEF IInv, Answer, SettlesFresh, TypeOK, wireVars, clientVars, history
<1>6. SettledAtMostOnce'
  BY DEF IInv, Answer, SettledAtMostOnce, SettlesFresh, TypeOK, wireVars, clientVars,
     history
<1>7. HeardOnlyOpened'
  BY DEF IInv, Answer, HeardOnlyOpened, wireVars, clientVars, history
<1> QED
  BY <1>1, <1>2, <1>3, <1>4, <1>5, <1>6, <1>7 DEF IInv
-----------------------------------------------------------------------------
(* The theorems *)

\* A client that was just made satisfies the invariant.
LEMMA InitInv == Init => IInv
<1> SUFFICES ASSUME Init PROVE IInv
  OBVIOUS
<1>1. TypeOK
  BY ClientAssumption DEF Init, TypeOK, Statuses, Attempts, ReadyStates, NoSocket
<1>2. CurrentPhase /\ OnlyOnResolved /\ PendingOnCurrentSocket
  BY DEF Init, CurrentPhase, OnlyOnResolved, PendingOnCurrentSocket
<1>3. SettlesFresh /\ SettledAtMostOnce /\ HeardOnlyOpened
  BY DEF Init, SettlesFresh, SettledAtMostOnce, HeardOnlyOpened
<1> QED
  BY <1>1, <1>2, <1>3 DEF IInv

\* Every step of client, browser and server preserves the invariant.
LEMMA StepInv == IInv /\ [Next]_vars => IInv'
<1> SUFFICES ASSUME IInv, [Next]_vars PROVE IInv'
  OBVIOUS
<1>1. CASE Application
  BY <1>1, ConnectMisaddressedInv, ConnectRefusedInv, ConnectInv, DisconnectInv,
     RequestInv, RequestNotSentInv
     DEF Application
<1>2. CASE Timers
  BY <1>2, RequestTimeoutInv, ConnectTimeoutInv DEF Timers
<1>3. CASE SocketEvents
  BY <1>3, OpenInv, FailInv, CloseInv, NotificationInv, AnswerInv, ResponseInv
     DEF SocketEvents
<1>4. CASE UNCHANGED vars
  BY <1>4 DEF IInv, TypeOK, CurrentPhase, OnlyOnResolved, PendingOnCurrentSocket,
     SettlesFresh, SettledAtMostOnce, HeardOnlyOpened, vars, clientVars, wireVars, history
<1> QED
  BY <1>1, <1>2, <1>3, <1>4 DEF Next

\* The inductive invariant holds in every reachable state of the client.
THEOREM Invariance == Spec => []IInv
<1> QED
  BY InitInv, StepInv, PTL DEF Spec

\* The client's state keeps its shape and the quarantine its limit.
THEOREM ClientTypeCorrect == Spec => []TypeOK
<1>1. IInv => TypeOK
  BY DEF IInv
<1> QED
  BY <1>1, Invariance, PTL

\* A promise returned by request() is settled at most once, however answers, timers,
\* closes and disconnects race.
THEOREM RequestSettledAtMostOnce == Spec => []SettledAtMostOnce
<1>1. IInv => SettledAtMostOnce
  BY DEF IInv
<1> QED
  BY <1>1, Invariance, PTL

\* No change of socket leaves a request waiting that no answer can reach.
THEOREM NoRequestLeftBehind == Spec => []PendingOnCurrentSocket
<1>1. IInv => PendingOnCurrentSocket
  BY DEF IInv
<1> QED
  BY <1>1, Invariance, PTL

\* The status the application sees is that of the current socket: connected after its
\* connect() succeeded, connecting while that is open.  Only a client whose address
\* cannot be built (connect, client.ts) says connecting without a socket.
THEOREM StatusIsCurrent == Spec => []ConnectedIsCurrent
<1>1. IInv => ConnectedIsCurrent
  BY DEF IInv, CurrentPhase, ConnectedIsCurrent
<1> QED
  BY <1>1, Invariance, PTL

\* Frames are handled only on a connection that opened and is still the client's.
THEOREM FramesOnlyOnOpened == Spec => []HeardOnlyOpened
<1>1. IInv => HeardOnlyOpened
  BY DEF IInv
<1> QED
  BY <1>1, Invariance, PTL

\* A set with at most one element has at most one element by its cardinality.
LEMMA AtMostOne ==
    ASSUME NEW x, NEW S, S \subseteq {x}
    PROVE  Cardinality(S) <= 1
<1>1. IsFiniteSet({x}) /\ Cardinality({x}) = 1
  BY FS_Singleton
<1> QED
  BY <1>1, FS_Subset

\* Whatever old sockets, timers and requests do, a step that leaves the current
\* socket open leaves the client on it.
LEMMA StepUndisturbed ==
    ASSUME IInv, Next
    PROVE  Undisturbed
<1> SUFFICES ASSUME NEW s \in Sockets, socket = s, ready[s] = "open", ready'[s] = "open"
             PROVE  /\ socket' = s /\ status' = status
                    /\ \E x : pending \ pending' \subseteq {x}
  BY AtMostOne DEF Undisturbed, Current
<1>0. attempt[s] = "resolved" /\ socket # NoSocket /\ ready \in [Sockets -> ReadyStates]
  BY DEF IInv, CurrentPhase, NoSocket, Sockets, TypeOK
<1>1. CASE pending' = pending \/ pending \subseteq pending'
  <2>1. pending \ pending' \subseteq {s}
    BY <1>1
  <2>2. CASE Application
    BY <1>0, <2>1, <2>2 DEF Application, Connect, ConnectRefused, ConnectMisaddressed,
       Disconnect, Request, RequestNotSent, Closing
  <2>3. CASE Timers
    BY <1>0, <2>1, <2>3 DEF Timers, RequestTimeout, ConnectTimeout, Current
  <2>4. CASE SocketEvents
    BY <1>0, <2>1, <2>4 DEF SocketEvents, Open, OnOpen, Fail, OnError, Close, OnClose,
       Notification, Answer, Response, Current, clientVars
  <2> QED
    BY <2>2, <2>3, <2>4 DEF Next
<1>2. ASSUME NEW id \in Requests, RequestTimeout(id) PROVE socket' = s /\ status' = status
             /\ pending \ pending' \subseteq {id}
  BY <1>2 DEF RequestTimeout
<1>3. ASSUME NEW t \in Sockets, NEW id \in Requests, Response(t, id)
      PROVE  socket' = s /\ status' = status /\ pending \ pending' \subseteq {id}
  BY <1>3 DEF Response
<1>4. \/ pending \subseteq pending'
      \/ \E id \in Requests : RequestTimeout(id)
      \/ \E t \in Sockets, id \in Requests : Response(t, id)
  <2>1. CASE Application
    BY <1>0, <2>1 DEF Application, Connect, ConnectRefused, ConnectMisaddressed,
       Disconnect, Request, RequestNotSent, Closing
  <2>2. CASE Timers
    BY <2>2 DEF Timers, ConnectTimeout
  <2>3. ASSUME NEW t \in Sockets, Open(t) \/ Fail(t) \/ Close(t) \/ Notification(t)
        PROVE  pending \subseteq pending'
    BY <1>0, <2>3 DEF Open, Fail, Close, OnClose, Notification, Current, clientVars
  <2>4. ASSUME NEW t \in Sockets, NEW id \in Requests, Answer(t, id)
        PROVE  pending \subseteq pending'
    BY <2>4 DEF Answer, clientVars
  <2> QED
    BY <2>1, <2>2, <2>3, <2>4 DEF Next, SocketEvents
<1> QED
  BY <1>1, <1>2, <1>3, <1>4

\* "The old close ... cannot reject RPCs or change state on the replacement transport."
THEOREM OldSocketsAreHarmless == Spec => ReplacementUndisturbed
<1>1. IInv /\ [Next]_vars => [Undisturbed]_vars
  BY StepUndisturbed
<1> QED
  BY <1>1, Invariance, PTL DEF Spec, ReplacementUndisturbed
-----------------------------------------------------------------------------
(* The contract *)

Outcomes == [r \in Requests |-> Outcome(r)]

\* A request that waits, or was not made, is not settled; no request is settled twice.
LEMMA OutcomeValues ==
    ASSUME IInv, NEW r \in Requests
    PROVE  /\ settles[r] = 0 \/ settles[r] = 1
           /\ Outcome(r) = "waiting" <=> r \in pending
           /\ r \notin pending => Outcome(r) = IF settles[r] = 1 THEN "settled" ELSE "new"
<1>1. settles[r] = 0 \/ settles[r] = 1
  BY Counted DEF IInv, SettledAtMostOnce
<1>2. r \in pending => settles[r] = 0
  BY DEF IInv, SettlesFresh
<1>3. ~(0 > 1) /\ ~(1 > 1) /\ 0 # 1
  OBVIOUS
<1>4. CASE settles[r] = 0
  <2>1. Outcome(r) = IF r \in pending THEN "waiting" ELSE "new"
    BY <1>3, <1>4, Zenon DEF Outcome
  <2> QED
    BY <1>3, <1>4, <2>1
<1>5. CASE settles[r] = 1
  <2>1. Outcome(r) = "settled" /\ r \notin pending
    BY <1>2, <1>3, <1>5, Zenon DEF Outcome
  <2> QED
    BY <1>5, <2>1
<1> QED
  BY <1>1, <1>4, <1>5

\* A step that neither adds nor settles a request leaves every outcome alone.
LEMMA OutcomesKept ==
    ASSUME pending' = pending, settles' = settles
    PROVE  Outcomes' = Outcomes
  BY DEF Outcomes, Outcome

\* Rejecting what waits settles exactly the calls that waited.
LEMMA OutcomesRejected ==
    ASSUME IInv, IInv', RejectPending
    PROVE  Outcomes' = [c \in Requests |-> IF Outcomes[c] = "waiting" THEN "settled"
                                           ELSE Outcomes[c]]
<1>1. pending' = {}
  BY DEF RejectPending
<1>2. \A r \in Requests : settles'[r] = IF r \in pending THEN settles[r] + 1 ELSE settles[r]
  BY DEF RejectPending, Settled
<1>3. ASSUME NEW r \in Requests
      PROVE  Outcome(r)' = IF Outcome(r) = "waiting" THEN "settled" ELSE Outcome(r)
  <2>1. r \in pending => settles[r] = 0
    BY DEF IInv, SettlesFresh
  <2>2. settles[r] = 0 \/ settles[r] = 1
    BY OutcomeValues
  <2>3. CASE r \in pending
    <3>1. Outcome(r) = "waiting"
      BY <2>3, OutcomeValues
    <3>2. settles'[r] = 1
      BY <1>2, <2>1, <2>3
    <3>3. ~(settles'[r] > 1)
      BY <3>2
    <3>4. Outcome(r)' = "settled"
      BY <3>2, <3>3, Zenon DEF Outcome
    <3> QED
      BY <3>1, <3>4
  <2>4. CASE r \notin pending
    BY <1>1, <1>2, <2>2, <2>4 DEF Outcome
  <2> QED
    BY <2>3, <2>4
<1> QED
  BY <1>3, Zenon DEF Outcomes

\* Settling one waiting or new request changes the outcome of that request only.
LEMMA OutcomesSettled ==
    ASSUME IInv, NEW id \in Requests, settles[id] = 0, Settled({id}),
           pending' = pending \ {id}
    PROVE  Outcomes' = [Outcomes EXCEPT ![id] = "settled"]
<1>1. \A r \in Requests : settles'[r] = IF r = id THEN settles[r] + 1 ELSE settles[r]
  BY DEF Settled
<1>2. Outcome(id)' = "settled"
  BY <1>1 DEF Outcome
<1>3. \A r \in Requests : r # id => Outcome(r)' = Outcome(r)
  BY <1>1 DEF Outcome
<1> QED
  BY <1>2, <1>3, Zenon DEF Outcomes

\* The link of a client that has a socket is what the status says.
LEMMA LinkValues ==
    ASSUME IInv
    PROVE  /\ socket = NoSocket => Link = "down"
           /\ socket # NoSocket => Link = status
           /\ socket # NoSocket => status \in {"connecting", "connected", "error"}
  BY DEF IInv, CurrentPhase, Link

\* A request that waits does so on a link that opened.
LEMMA WaitingIsUp ==
    ASSUME IInv, pending # {}
    PROVE  socket \in Sockets /\ attempt[socket] = "resolved"
  BY DEF IInv, PendingOnCurrentSocket, OnlyOnResolved, TypeOK

\* Giving up the socket when nothing waits, or rejecting all that waits.
LEMMA GoesDown ==
    ASSUME IInv, IInv', socket # NoSocket, socket' = NoSocket,
           \/ RejectPending
           \/ pending = {} /\ pending' = pending /\ settles' = settles
    PROVE  Contract!Down
<1>1. Link # "down" /\ Link' = "down"
  BY LinkValues DEF Link
<1>2. Outcomes' = [c \in Requests |-> IF Outcomes[c] = "waiting" THEN "settled"
                                      ELSE Outcomes[c]]
  <2>1. CASE RejectPending
    BY <2>1, OutcomesRejected
  <2>2. CASE pending = {} /\ pending' = pending /\ settles' = settles
    <3>1. Outcomes' = Outcomes
      BY <2>2, OutcomesKept
    <3>2. \A c \in Requests : Outcomes[c] # "waiting"
      BY <2>2, OutcomeValues DEF Outcomes
    <3>3. Outcomes = [c \in Requests |-> Outcomes[c]]
      BY DEF Outcomes
    <3> QED
      BY <3>1, <3>2, <3>3
  <2> QED
    BY <2>1, <2>2
<1> QED
  BY <1>1, <1>2 DEF Contract!Down, Outcomes

\* Every step of the client is a step of the contract or invisible to it.
LEMMA StepKeepsContract ==
    ASSUME IInv, IInv', [Next]_vars
    PROVE  [Contract!Next]_(Contract!vars)
<1> DEFINE Quiet == pending' = pending /\ settles' = settles
<1> DEFINE Stays == UNCHANGED <<Link, Outcomes>>
<1>a. Stays => [Contract!Next]_(Contract!vars)
  BY DEF Contract!vars, Outcomes
<1>b. Quiet => Outcomes' = Outcomes
  BY OutcomesKept
<1>c. socket' = socket /\ status' = status => Link' = Link
  BY DEF Link
<1>d. \A c \in Requests : Contract!Start(c) \/ Contract!Settle(c) => Contract!Next
  BY DEF Contract!Next
<1>e. Contract!Dial \/ Contract!Up \/ Contract!Failing \/ Contract!Down => Contract!Next
  BY DEF Contract!Next
<1>1. ASSUME NEW s \in Sockets, Connect(s) PROVE Contract!Dial
  <2>1. Quiet /\ Link = "down" /\ Link' = "connecting"
    BY <1>1 DEF Connect, Link, history, NoSocket, Sockets
  <2> QED
    BY <1>b, <2>1 DEF Contract!Dial, Outcomes
<1>2. CASE ConnectRefused \/ ConnectMisaddressed
  <2>1. Quiet /\ Link' = Link
    BY <1>2 DEF ConnectRefused, ConnectMisaddressed, Link, history
  <2> QED
    BY <1>a, <1>b, <2>1
<1>3. CASE Disconnect
  <2>1. CASE socket = NoSocket
    <3>1. pending = {}
      BY <2>1 DEF IInv, PendingOnCurrentSocket
    <3>2. Outcomes' = Outcomes
      <4>1. \A r \in Requests : Outcomes[r] # "waiting"
        BY <3>1, OutcomeValues DEF Outcomes
      <4>2. Outcomes' = [c \in Requests |-> IF Outcomes[c] = "waiting" THEN "settled"
                                            ELSE Outcomes[c]]
        BY <1>3, OutcomesRejected DEF Disconnect
      <4>3. Outcomes = [c \in Requests |-> Outcomes[c]]
        BY DEF Outcomes
      <4> QED
        BY <4>1, <4>2, <4>3
    <3>3. Link' = Link
      BY <1>3, <2>1 DEF Disconnect, Link
    <3> QED
      BY <1>a, <3>2, <3>3
  <2>2. CASE socket # NoSocket
    BY <1>3, <1>e, <2>2, GoesDown DEF Disconnect
  <2> QED
    BY <2>1, <2>2
<1>4. CASE Request
  <2>0. PICK id \in Requests : id = nextRequestId
    BY <1>4 DEF Request
  <2>1. Link = "connected" /\ Link' = Link
    BY <1>4 DEF Request, MayRequest, Link
  <2>2. settles[id] = 0 /\ id \notin pending
    BY <2>0, Counted DEF IInv, SettlesFresh
  <2>3. settles' = settles /\ pending' = pending \cup {id}
    BY <1>4, <2>0 DEF Request
  <2>4. Outcomes[id] = "new"
    BY <2>2 DEF Outcomes, Outcome
  <2>5. Outcome(id)' = "waiting" /\ \A r \in Requests : r # id => Outcome(r)' = Outcome(r)
    <3>1. ~(0 > 1) /\ 0 # 1 /\ id \in pending'
      BY <2>3
    <3>2. Outcome(id)' = "waiting"
      BY <2>2, <2>3, <3>1, Zenon DEF Outcome
    <3>3. \A r \in Requests : r # id => (r \in pending' <=> r \in pending)
      BY <2>3
    <3>4. \A r \in Requests : r # id => Outcome(r)' = Outcome(r)
      BY <2>3, <3>3, Zenon DEF Outcome
    <3> QED
      BY <3>2, <3>4
  <2>6. Outcomes' = [Outcomes EXCEPT ![id] = "waiting"]
    BY <2>5, Zenon DEF Outcomes
  <2>7. Contract!Start(id)
    BY <2>1, <2>4, <2>6 DEF Contract!Start, Outcomes
  <2> QED
    BY <1>d, <2>7
<1>5. CASE RequestNotSent
  <2>0. PICK id \in Requests : id = nextRequestId
    BY <1>5 DEF RequestNotSent
  <2>1. Link = "connected" /\ Link' = Link
    BY <1>5 DEF RequestNotSent, MayRequest, Link
  <2>2. settles[id] = 0 /\ id \notin pending
    BY <2>0, Counted DEF IInv, SettlesFresh
  <2>3. Settled({id}) /\ pending' = pending \ {id}
    BY <1>5, <2>0, <2>2 DEF RequestNotSent
  <2>4. Outcomes[id] = "new"
    BY <2>2 DEF Outcomes, Outcome
  <2>5. Outcomes' = [Outcomes EXCEPT ![id] = "settled"]
    BY <2>2, <2>3, OutcomesSettled
  <2>6. Contract!Start(id)
    BY <2>1, <2>4, <2>5 DEF Contract!Start, Outcomes
  <2> QED
    BY <1>d, <2>6
<1>6. ASSUME NEW id \in Requests, RequestTimeout(id) PROVE Contract!Settle(id)
  <2>1. id \in pending /\ settles[id] = 0 /\ socket # NoSocket
    BY <1>6 DEF RequestTimeout, IInv, PendingOnCurrentSocket, SettlesFresh
  <2>2. Link # "down" /\ Link' = Link
    BY <1>6, <2>1, LinkValues DEF RequestTimeout, Link
  <2>3. Outcomes[id] = "waiting"
    BY <2>1, OutcomeValues DEF Outcomes
  <2>4. Outcomes' = [Outcomes EXCEPT ![id] = "settled"]
    BY <1>6, <2>1, OutcomesSettled DEF RequestTimeout
  <2> QED
    BY <2>2, <2>3, <2>4 DEF Contract!Settle, Outcomes
<1>7. ASSUME NEW s \in Sockets, ConnectTimeout(s) PROVE [Contract!Next]_(Contract!vars)
  <2>1. Quiet
    BY <1>7 DEF ConnectTimeout, history
  <2>2. CASE UNCHANGED <<socket, status>>
    BY <1>a, <1>b, <1>c, <2>1, <2>2
  <2>3. CASE ~UNCHANGED <<socket, status>>
    <3>1. attempt[s] = "waiting" /\ socket = s /\ socket' = NoSocket
      BY <1>7, <2>3 DEF ConnectTimeout, Current
    <3>2. pending = {} /\ socket # NoSocket
      BY <3>1, WaitingIsUp DEF NoSocket, Sockets
    <3> QED
      BY <1>e, <2>1, <3>1, <3>2, GoesDown
  <2> QED
    BY <2>2, <2>3
<1>8. ASSUME NEW s \in Sockets, Open(s) PROVE [Contract!Next]_(Contract!vars)
  <2>1. Quiet /\ socket' = socket
    BY <1>8 DEF Open, history
  <2>2. CASE status' = status
    BY <1>a, <1>b, <1>c, <2>1, <2>2
  <2>3. CASE status' # status
    <3>1. attempt[s] = "waiting" /\ socket = s /\ status' = "connected"
      BY <1>8, <2>3 DEF Open, OnOpen, Current
    <3>2. socket # NoSocket /\ status = "connecting"
      BY <1>8, <3>1 DEF IInv, CurrentPhase, NoSocket, Sockets, Open
    <3>3. Link = "connecting" /\ Link' = "connected"
      BY <2>1, <3>1, <3>2 DEF Link
    <3>4. Contract!Up
      BY <1>b, <2>1, <3>3 DEF Contract!Up, Outcomes
    <3> QED
      BY <1>e, <3>4
  <2> QED
    BY <2>2, <2>3
<1>9. ASSUME NEW s \in Sockets, Fail(s) PROVE [Contract!Next]_(Contract!vars)
  <2>1. Quiet /\ socket' = socket
    BY <1>9 DEF Fail, history
  <2>2. CASE status' = status
    BY <1>a, <1>b, <1>c, <2>1, <2>2
  <2>3. CASE status' # status
    <3>1. socket = s /\ status' = "error"
      BY <1>9, <2>3 DEF Fail, OnError, Current
    <3>2. socket # NoSocket /\ status \in {"connecting", "connected"}
      BY <1>9, <3>1 DEF IInv, CurrentPhase, NoSocket, Sockets, Fail
    <3>3. Link \in {"connecting", "connected"} /\ Link' = "error"
      BY <2>1, <3>1, <3>2 DEF Link
    <3>4. Contract!Failing
      BY <1>b, <2>1, <3>3 DEF Contract!Failing, Outcomes
    <3> QED
      BY <1>e, <3>4
  <2> QED
    BY <2>2, <2>3
<1>10. ASSUME NEW s \in Sockets, Close(s) PROVE [Contract!Next]_(Contract!vars)
  <2>1. CASE Current(s)
    <3>1. socket # NoSocket /\ socket' = NoSocket /\ RejectPending
      BY <1>10, <2>1 DEF Close, OnClose, Current, NoSocket, Sockets
    <3> QED
      BY <1>e, <3>1, GoesDown
  <2>2. CASE ~Current(s)
    <3>1. Quiet /\ socket' = socket /\ status' = status
      BY <1>10, <2>2 DEF Close, OnClose
    <3> QED
      BY <1>a, <1>b, <1>c, <3>1
  <2> QED
    BY <2>1, <2>2
<1>11. ASSUME NEW s \in Sockets, NEW id \in Requests, Response(s, id)
       PROVE  [Contract!Next]_(Contract!vars)
  <2>1. socket' = socket /\ status' = status
    BY <1>11 DEF Response
  <2>2. CASE Quiet
    BY <1>a, <1>b, <1>c, <2>1, <2>2
  <2>3. CASE ~Quiet
    <3>1. id \in pending /\ pending' = pending \ {id} /\ Settled({id})
      BY <1>11, <2>3 DEF Response
    <3>2. settles[id] = 0 /\ socket # NoSocket
      BY <3>1 DEF IInv, PendingOnCurrentSocket, SettlesFresh
    <3>3. Link # "down" /\ Link' = Link
      BY <1>c, <2>1, <3>2, LinkValues
    <3>4. Outcomes[id] = "waiting"
      BY <3>1, OutcomeValues DEF Outcomes
    <3>5. Outcomes' = [Outcomes EXCEPT ![id] = "settled"]
      BY <3>1, <3>2, OutcomesSettled
    <3>6. Contract!Settle(id)
      BY <3>3, <3>4, <3>5 DEF Contract!Settle, Outcomes
    <3> QED
      BY <1>d, <3>6
  <2> QED
    BY <2>2, <2>3
<1>12. ASSUME NEW s \in Sockets, Notification(s) \/ \E id \in Requests : Answer(s, id)
       PROVE  [Contract!Next]_(Contract!vars)
  <2>1. Quiet /\ socket' = socket /\ status' = status
    BY <1>12 DEF Notification, Answer, clientVars, history
  <2> QED
    BY <1>a, <1>b, <1>c, <2>1
<1>13. CASE UNCHANGED vars
  <2>1. Quiet /\ socket' = socket /\ status' = status
    BY <1>13 DEF vars, clientVars, history
  <2> QED
    BY <1>a, <1>b, <1>c, <2>1
<1>14. CASE Application
  BY <1>d, <1>e, <1>1, <1>2, <1>3, <1>4, <1>5, <1>14 DEF Application
<1>15. CASE Timers
  BY <1>d, <1>6, <1>7, <1>15 DEF Timers
<1>16. CASE SocketEvents
  BY <1>8, <1>9, <1>10, <1>11, <1>12, <1>16 DEF SocketEvents
<1> QED
  BY <1>13, <1>14, <1>15, <1>16 DEF Next

\* The client implements its contract: calls end exactly once, and none is left
\* waiting when the link it was made on is given up.
THEOREM ClientKeepsContract == Spec => KeepsContract
<1>1. Init => Contract!Init
  <2> SUFFICES ASSUME Init PROVE Contract!Init
    OBVIOUS
  <2>1. Link = "down" /\ \A r \in Requests : Outcome(r) = "new"
    BY DEF Init, Link, Outcome
  <2> QED
    BY <2>1 DEF Contract!Init
<1>2. IInv /\ IInv' /\ [Next]_vars => [Contract!Next]_(Contract!vars)
  BY StepKeepsContract
<1> QED
  BY <1>1, <1>2, Invariance, PTL DEF Spec, KeepsContract, Contract!Spec
-----------------------------------------------------------------------------
(* Late answers *)

\* SettledLimit requests were given up after r.
Early(r) == \E i \in 1..(Len(givenUp) - SettledLimit) : givenUp[i] = r

\* The ring holds the ids given up last.
RingIsRecent ==
    /\ Len(settledOrder) <= Len(givenUp)
    /\ \A i \in 1..Len(settledOrder) :
         givenUp[Len(givenUp) - Len(settledOrder) + i] = settledOrder[i]

\* A request travels once: its frame is at the server or its answer is on the way.
OneFrame ==
    \A s \in Sockets :
        /\ server[s] \cap inbox[s] = {}
        /\ \A r \in server[s] \cup inbox[s] : r < nextRequestId

\* Whatever the current socket may still answer waits, is quarantined, or was given
\* up long ago.
Accounted ==
    \A s \in Sockets : Current(s) =>
        \A r \in server[s] \cup inbox[s] : r \in pending \/ r \in settledIds \/ Early(r)

LateInv == RingIsRecent /\ OneFrame /\ Accounted /\ LateResponseIgnored

\* A full ring keeps the last SettledLimit ids.
LEMMA NewestCut ==
    ASSUME NEW order \in Seq(Requests), Len(order) > SettledLimit
    PROVE  /\ Len(Newest(order)) = SettledLimit
           /\ \A i \in 1..SettledLimit :
                Newest(order)[i] = order[Len(order) - SettledLimit + i]
<1>1. Len(order) \in Nat /\ SettledLimit \in Nat
  BY ClientAssumption
<1>2. Newest(order) = SubSeq(order, Len(order) - SettledLimit + 1, Len(order))
  BY <1>1 DEF Newest
<1>3. Len(order) - SettledLimit + 1 \in 1..(Len(order) + 1)
  BY <1>1
<1>4. Len(Newest(order)) = Len(order) - (Len(order) - SettledLimit + 1) + 1
  BY <1>1, <1>2, <1>3
<1>5. Len(Newest(order)) = SettledLimit
  BY <1>1, <1>4
<1>6. ASSUME NEW i \in 1..SettledLimit
      PROVE  Newest(order)[i] = order[Len(order) - SettledLimit + i]
  <2>1. Newest(order)[i] = order[(Len(order) - SettledLimit + 1) + i - 1]
    BY <1>1, <1>2, <1>3
  <2>2. (Len(order) - SettledLimit + 1) + i - 1 = Len(order) - SettledLimit + i
    BY <1>1
  <2> QED
    BY <2>1, <2>2
<1> QED
  BY <1>5, <1>6

\* Giving up more requests makes none less early; what leaves the ring is early.
LEMMA MarkLate ==
    ASSUME TypeOK, RingIsRecent, NEW order \in Seq(Requests),
           MarkRequestSettled(order), GivenUp(order)
    PROVE  /\ RingIsRecent'
           /\ \A r \in Requests : Early(r) => Early(r)'
           /\ \A r \in settledIds : r \in settledIds' \/ Early(r)'
           /\ \A i \in DOMAIN order : order[i] \in settledIds' \/ Early(order[i])'
<1> DEFINE ring == settledOrder \o order
           off == Len(givenUp) - Len(settledOrder)
<1>1. settledOrder \in Seq(Requests) /\ givenUp \in Seq(Requests) /\ SettledLimit \in Nat
  BY ClientAssumption DEF TypeOK
<1>2. /\ givenUp' = givenUp \o order
      /\ settledOrder' = Newest(ring)
      /\ settledIds' = (settledIds \cup {order[i] : i \in DOMAIN order}) \ Expired(ring)
  BY DEF MarkRequestSettled, GivenUp
<1>3. off \in Nat /\ Len(givenUp') = off + Len(ring)
  BY <1>1, <1>2 DEF RingIsRecent
<1>4. ASSUME NEW i \in 1..Len(ring)
      PROVE  givenUp'[off + i] = ring[i]
  <2>1. CASE i <= Len(settledOrder)
    <3>1. givenUp[off + i] = settledOrder[i]
      BY <2>1, <1>1 DEF RingIsRecent
    <3>2. off + i \in 1..Len(givenUp) /\ i \in 1..Len(settledOrder)
      BY <2>1, <1>1, <1>3
    <3>3. givenUp'[off + i] = givenUp[off + i] /\ ring[i] = settledOrder[i]
      BY <3>2, <1>1, <1>2
    <3> QED
      BY <3>1, <3>3
  <2>2. CASE i > Len(settledOrder)
    <3>1. givenUp'[off + i] = order[off + i - Len(givenUp)]
      BY <2>2, <1>1, <1>2, <1>3
    <3>2. ring[i] = order[i - Len(settledOrder)]
      BY <2>2, <1>1
    <3>3. off + i - Len(givenUp) = i - Len(settledOrder)
      BY <1>1
    <3> QED
      BY <3>1, <3>2, <3>3
  <2> QED
    BY <2>1, <2>2, <1>1
<1>5. RingIsRecent'
  <2>1. CASE Len(ring) <= SettledLimit
    BY <2>1, <1>1, <1>2, <1>3, <1>4 DEF Newest, RingIsRecent
  <2>2. CASE Len(ring) > SettledLimit
    <3> DEFINE cut == Len(ring) - SettledLimit
    <3>1. ring \in Seq(Requests) /\ cut \in Nat
      BY <2>2, <1>1
    <3>2. /\ Len(Newest(ring)) = SettledLimit
          /\ \A i \in 1..SettledLimit : Newest(ring)[i] = ring[cut + i]
      BY <2>2, <3>1, NewestCut
    <3>3. Len(settledOrder') = SettledLimit
      BY <3>2, <1>2
    <3>4. \A i \in 1..SettledLimit : settledOrder'[i] = ring[cut + i]
      BY <3>2, <1>2
    <3>5. \A i \in 1..SettledLimit : cut + i \in 1..Len(ring)
      BY <3>1, <1>1
    <3>6. \A i \in 1..SettledLimit : givenUp'[off + (cut + i)] = ring[cut + i]
      BY <3>5, <1>4
    <3>7. Len(givenUp') - Len(settledOrder') = off + cut
      BY <3>1, <3>3, <1>3, <1>1
    <3>8. \A i \in 1..SettledLimit : off + (cut + i) = (off + cut) + i
      BY <3>1, <1>3, <1>1
    <3>9. \A i \in 1..SettledLimit : givenUp'[(off + cut) + i] = settledOrder'[i]
      BY <3>4, <3>6, <3>8
    <3>10. SettledLimit <= Len(givenUp')
      BY <2>2, <1>1, <1>3
    <3> QED
      BY <3>3, <3>7, <3>9, <3>10 DEF RingIsRecent
  <2> QED
    BY <2>1, <2>2, <1>1
<1>6. ASSUME NEW r \in Requests, Early(r)
      PROVE  Early(r)'
  <2>1. PICK i \in 1..(Len(givenUp) - SettledLimit) : givenUp[i] = r
    BY <1>6 DEF Early
  <2>2. i \in 1..Len(givenUp) /\ i \in 1..(Len(givenUp') - SettledLimit)
    BY <1>1, <1>2
  <2>3. givenUp'[i] = r
    BY <2>1, <2>2, <1>1, <1>2
  <2> QED
    BY <2>2, <2>3 DEF Early
<1>7. ASSUME NEW r \in Expired(ring)
      PROVE  Early(r)'
  <2>1. PICK i \in 1..(Len(ring) - SettledLimit) : r = ring[i]
    BY DEF Expired
  <2>2. i \in 1..Len(ring) /\ off + i \in 1..(Len(givenUp') - SettledLimit)
    BY <1>1, <1>3
  <2>3. givenUp'[off + i] = r
    BY <2>1, <2>2, <1>4
  <2> QED
    BY <2>2, <2>3 DEF Early
<1> HIDE DEF ring, off
<1>8. \A r \in settledIds : r \in settledIds' \/ Early(r)'
  BY <1>2, <1>7
<1>9. \A i \in DOMAIN order : order[i] \in settledIds' \/ Early(order[i])'
  BY <1>2, <1>7
<1> QED
  BY <1>5, <1>6, <1>8, <1>9

\* Rejecting what waits keeps the account: the socket is gone with it.
LEMMA RejectLate ==
    ASSUME IInv, LateInv, RejectPending, UNCHANGED unknown
    PROVE  RingIsRecent' /\ LateResponseIgnored'
<1>1. PICK order \in PendingOrders : MarkRequestSettled(order) /\ GivenUp(order)
  BY DEF RejectPending
<1>2. order \in Seq(Requests)
  BY PendingOrdersType DEF IInv, TypeOK
<1>3. RingIsRecent' /\ \A r \in Requests : Early(r) => Early(r)'
  BY <1>1, <1>2, MarkLate DEF IInv, LateInv
<1>4. unknown \subseteq Requests /\ \A r \in unknown : Early(r)
  BY DEF IInv, TypeOK, LateInv, LateResponseIgnored, Early
<1>5. \A r \in unknown' : Early(r)'
  BY <1>3, <1>4
<1> QED
  BY <1>3, <1>5 DEF LateResponseIgnored, Early

\* A step that leaves the quarantine and what travels alone, whether the socket stays,
\* goes or is new.
Quiet ==
    /\ UNCHANGED <<pending, settledIds, settledOrder, server, inbox, givenUp, unknown>>
    /\ nextRequestId' \in Nat /\ nextRequestId' >= nextRequestId
    /\ \/ socket' \in {socket, NoSocket}
       \/ socket' \in Sockets /\ ready[socket'] = "none"

\* A quiet step keeps the account.
LEMMA QuietLate ==
    ASSUME IInv, LateInv, Quiet
    PROVE  LateInv'
<1> USE DEF Quiet
<1>1. RingIsRecent' /\ LateResponseIgnored'
  BY DEF LateInv, RingIsRecent, LateResponseIgnored
<1>2. OneFrame'
  <2>1. \A s \in Sockets : \A r \in server[s] \cup inbox[s] : r \in Nat
    BY DEF IInv, TypeOK, Requests
  <2>2. nextRequestId \in Nat
    BY DEF IInv, TypeOK
  <2> QED
    BY <2>1, <2>2 DEF LateInv, OneFrame
<1>3. Accounted'
  <2>1. \A s \in Sockets : s # NoSocket
    BY DEF Sockets, NoSocket
  <2>2. \A s \in Sockets : ready[s] = "none" => server[s] \cup inbox[s] = {}
    BY DEF IInv, OnlyOnResolved
  <2>3. \A r : Early(r)' <=> Early(r)
    BY DEF Early
  <2> QED
    BY <2>1, <2>2, <2>3 DEF LateInv, Accounted, Current
<1> QED
  BY <1>1, <1>2, <1>3 DEF LateInv

\* disconnect() keeps the account.
LEMMA DisconnectLate ==
    ASSUME IInv, LateInv, Disconnect
    PROVE  LateInv'
<1>1. RejectPending /\ UNCHANGED <<unknown, server, inbox, nextRequestId>> /\ socket' = NoSocket
  BY DEF Disconnect
<1>2. OneFrame' /\ Accounted'
  BY <1>1 DEF LateInv, OneFrame, Accounted, Current, Sockets, NoSocket
<1> QED
  BY <1>1, <1>2, RejectLate DEF LateInv

\* A new request is waiting before its frame travels.
LEMMA RequestLate ==
    ASSUME IInv, LateInv, Request
    PROVE  LateInv'
<1>1. RingIsRecent' /\ LateResponseIgnored'
  BY DEF LateInv, RingIsRecent, LateResponseIgnored, Request
<1>2. socket \in Sockets /\ socket' = socket
  BY DEF IInv, TypeOK, Request, MayRequest
<1>3. /\ nextRequestId \in Nat /\ nextRequestId' = nextRequestId + 1
      /\ inbox' = inbox /\ pending' = pending \cup {nextRequestId}
      /\ UNCHANGED <<settledIds, givenUp>>
      /\ \A s \in Sockets : server'[s] = IF s = socket THEN server[s] \cup {nextRequestId}
                                         ELSE server[s]
  BY <1>2 DEF IInv, TypeOK, Request
<1>4. OneFrame'
  <2>1. \A s \in Sockets : \A r \in server[s] \cup inbox[s] : r \in Nat
    BY DEF IInv, TypeOK, Requests
  <2>2. \A s \in Sockets : nextRequestId \notin inbox[s]
    BY <2>1, <1>3 DEF LateInv, OneFrame
  <2>3. \A s \in Sockets : server'[s] \cap inbox'[s] = {}
    BY <2>2, <1>3 DEF LateInv, OneFrame
  <2>4. ASSUME NEW s \in Sockets, NEW r \in server'[s] \cup inbox'[s]
        PROVE  r < nextRequestId'
    <3>1. r = nextRequestId \/ r \in server[s] \cup inbox[s]
      BY <1>3
    <3>2. r = nextRequestId \/ (r \in Nat /\ r < nextRequestId)
      BY <3>1, <2>1 DEF LateInv, OneFrame
    <3> QED
      BY <3>2, <1>3
  <2> QED
    BY <2>3, <2>4 DEF OneFrame
<1>5. Accounted'
  BY <1>2, <1>3 DEF LateInv, Accounted, Current, Early
<1> QED
  BY <1>1, <1>4, <1>5 DEF LateInv

\* A request that timed out is quarantined while its answer may still come.
LEMMA RequestTimeoutLate ==
    ASSUME IInv, LateInv, NEW id \in Requests, RequestTimeout(id)
    PROVE  LateInv'
<1>1. /\ MarkRequestSettled(<<id>>) /\ GivenUp(<<id>>)
      /\ UNCHANGED <<socket, server, inbox, nextRequestId, unknown>>
      /\ pending' = pending \ {id}
  BY DEF RequestTimeout, wireVars
<1>2. <<id>> \in Seq(Requests) /\ 1 \in DOMAIN <<id>> /\ <<id>>[1] = id
  OBVIOUS
<1>3. /\ RingIsRecent'
      /\ \A r \in Requests : Early(r) => Early(r)'
      /\ \A r \in settledIds : r \in settledIds' \/ Early(r)'
      /\ \A i \in DOMAIN <<id>> : <<id>>[i] \in settledIds' \/ Early(<<id>>[i])'
  BY <1>1, <1>2, MarkLate DEF IInv, LateInv
<1>4. id \in settledIds' \/ Early(id)'
  BY <1>2, <1>3
<1>5. OneFrame'
  BY <1>1 DEF LateInv, OneFrame
<1>6. Accounted'
  <2>1. \A s \in Sockets : \A r \in server[s] \cup inbox[s] : r \in Requests
    BY DEF IInv, TypeOK
  <2> QED
    BY <2>1, <1>1, <1>3, <1>4 DEF LateInv, Accounted, Current
<1>7. LateResponseIgnored'
  <2>1. unknown \subseteq Requests /\ \A r \in unknown : Early(r)
    BY DEF IInv, TypeOK, LateInv, LateResponseIgnored, Early
  <2>2. \A r \in unknown' : Early(r)'
    BY <2>1, <1>1, <1>3
  <2> QED
    BY <2>2 DEF LateResponseIgnored, Early
<1> QED
  BY <1>3, <1>5, <1>6, <1>7 DEF LateInv

\* A socket that closes takes what travelled on it along.
LEMMA CloseLate ==
    ASSUME IInv, LateInv, NEW s \in Sockets, Close(s)
    PROVE  LateInv'
<1>1. /\ OnClose(s) /\ UNCHANGED <<nextRequestId, unknown>>
      /\ \A u \in Sockets : /\ server'[u] \subseteq server[u]
                            /\ inbox'[u] \subseteq inbox[u]
  BY DEF IInv, TypeOK, Close
<1>2. OneFrame'
  BY <1>1 DEF LateInv, OneFrame
<1>3. CASE Current(s)
  <2>1. RejectPending /\ socket' = NoSocket
    BY <1>1, <1>3 DEF OnClose
  <2>2. Accounted'
    BY <2>1 DEF Accounted, Current, Sockets, NoSocket
  <2> QED
    BY <1>1, <1>2, <2>1, <2>2, RejectLate DEF LateInv
<1>4. CASE ~Current(s)
  <2>1. UNCHANGED <<socket, pending, settledIds, settledOrder, givenUp>>
    BY <1>1, <1>4 DEF OnClose
  <2>2. RingIsRecent' /\ LateResponseIgnored'
    BY <1>1, <2>1 DEF LateInv, RingIsRecent, LateResponseIgnored
  <2>3. Accounted'
    BY <1>1, <2>1 DEF LateInv, Accounted, Current, Early
  <2> QED
    BY <1>2, <2>2, <2>3 DEF LateInv
<1> QED
  BY <1>3, <1>4

\* The server's answer changes hands, no more.
LEMMA AnswerLate ==
    ASSUME IInv, LateInv, NEW s \in Sockets, NEW id \in Requests, Answer(s, id)
    PROVE  LateInv'
<1>1. /\ UNCHANGED <<socket, pending, settledIds, settledOrder, nextRequestId, givenUp,
                     unknown>>
      /\ id \in server[s]
      /\ \A u \in Sockets :
           /\ server'[u] = IF u = s THEN server[u] \ {id} ELSE server[u]
           /\ inbox'[u] = IF u = s THEN inbox[u] \cup {id} ELSE inbox[u]
  BY DEF IInv, TypeOK, Answer, clientVars, history
<1>2. RingIsRecent' /\ LateResponseIgnored'
  BY <1>1 DEF LateInv, RingIsRecent, LateResponseIgnored
<1>3. OneFrame'
  BY <1>1 DEF LateInv, OneFrame
<1>4. \A r : Early(r)' <=> Early(r)
  BY <1>1 DEF Early
<1>5. \A u \in Sockets : server'[u] \cup inbox'[u] = server[u] \cup inbox[u]
  BY <1>1
<1>6. Accounted'
  BY <1>1, <1>4, <1>5 DEF LateInv, Accounted, Current
<1> QED
  BY <1>2, <1>3, <1>6 DEF LateInv

\* An answer that is handled leaves the quarantine, and no second one can come.
LEMMA ResponseLate ==
    ASSUME IInv, LateInv, NEW s \in Sockets, NEW id \in Requests, Response(s, id)
    PROVE  LateInv'
<1>1. /\ UNCHANGED <<socket, settledOrder, nextRequestId, givenUp, server>>
      /\ id \in inbox[s] /\ id \notin server[s]
      /\ \A u \in Sockets : inbox'[u] = IF u = s THEN inbox[u] \ {id} ELSE inbox[u]
  BY DEF IInv, TypeOK, LateInv, OneFrame, Response
<1>2. /\ pending \ {id} \subseteq pending'
      /\ settledIds \ {id} \subseteq settledIds'
      /\ ~Current(s) => UNCHANGED <<pending, settledIds, unknown>>
      /\ \A r \in unknown' \ unknown :
           r = id /\ Current(s) /\ id \notin pending /\ id \notin settledIds
  BY DEF Response, Hears
<1>3. \A r : Early(r)' <=> Early(r)
  BY <1>1 DEF Early
<1>4. RingIsRecent' /\ OneFrame'
  BY <1>1 DEF LateInv, RingIsRecent, OneFrame
<1>5. Accounted'
  BY <1>1, <1>2, <1>3 DEF LateInv, Accounted, Current
<1>6. LateResponseIgnored'
  <2>1. Accounted /\ \A r \in unknown : Early(r)
    BY DEF LateInv, LateResponseIgnored, Early
  <2>2. \A r \in unknown' : Early(r)
    BY <2>1, <1>1, <1>2 DEF Accounted
  <2> QED
    BY <1>1, <2>2 DEF LateResponseIgnored, Early
<1> QED
  BY <1>4, <1>5, <1>6 DEF LateInv

\* Every step keeps the account of late answers.
LEMMA StepLate ==
    ASSUME IInv, LateInv, [Next]_vars
    PROVE  LateInv'
<1> USE DEF clientVars, wireVars, history
<1>0. nextRequestId \in Nat
  BY DEF IInv, TypeOK
<1>1. CASE ConnectRefused \/ ConnectMisaddressed
  <2>1. Quiet
    BY <1>0, <1>1 DEF Quiet, ConnectRefused, ConnectMisaddressed
  <2> QED
    BY <2>1, QuietLate
<1>2. ASSUME NEW s \in Sockets, Connect(s) PROVE LateInv'
  <2>1. Quiet
    BY <1>0, <1>2 DEF Quiet, Connect
  <2> QED
    BY <2>1, QuietLate
<1>3. CASE RequestNotSent
  <2>1. Quiet
    BY <1>0, <1>3 DEF Quiet, RequestNotSent
  <2> QED
    BY <2>1, QuietLate
<1>4. ASSUME NEW s \in Sockets, ConnectTimeout(s) PROVE LateInv'
  <2>1. Quiet
    BY <1>0, <1>4 DEF Quiet, ConnectTimeout
  <2> QED
    BY <2>1, QuietLate
<1>5. ASSUME NEW s \in Sockets, Open(s) \/ Fail(s) \/ Notification(s) PROVE LateInv'
  <2>1. Quiet
    BY <1>0, <1>5 DEF Quiet, Open, Fail, Notification
  <2> QED
    BY <2>1, QuietLate
<1>6. CASE UNCHANGED vars
  <2>1. Quiet
    BY <1>0, <1>6 DEF Quiet, vars
  <2> QED
    BY <2>1, QuietLate
<1>7. CASE Application
  BY <1>7, <1>1, <1>2, <1>3, DisconnectLate, RequestLate DEF Application
<1>8. CASE Timers
  BY <1>8, <1>4, RequestTimeoutLate DEF Timers
<1>9. CASE SocketEvents
  BY <1>9, <1>5, CloseLate, AnswerLate, ResponseLate DEF SocketEvents
<1> QED
  BY <1>6, <1>7, <1>8, <1>9 DEF Next

\* A late answer is reported as unknown only when the quarantine really overflowed
\* since its request was given up, for any size of the quarantine.
THEOREM LateAnswersAreIgnored == Spec => []LateResponseIgnored
<1>1. Init => LateInv
  BY DEF Init, LateInv, RingIsRecent, OneFrame, Accounted, LateResponseIgnored
<1>2. LateInv => LateResponseIgnored
  BY DEF LateInv
<1>3. IInv /\ LateInv /\ [Next]_vars => LateInv'
  BY StepLate
<1> QED
  BY <1>1, <1>2, <1>3, Invariance, PTL DEF Spec
=============================================================================
