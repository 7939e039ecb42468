--------------------------- MODULE ClientContract ---------------------------
(***************************************************************************)
(* What a caller of the protocol client may rely on, without sockets,      *)
(* timers or request ids: one link, and calls that end exactly once.  The  *)
(* moment the link is down no call made over it is left waiting, so a      *)
(* caller never waits for an answer that only a former link could bring.   *)
(* ServerRuntime uses the client as this contract describes it.            *)
(***************************************************************************)
CONSTANT Calls

VARIABLES
    link,   \* the connection, as the client reports it
    call    \* what became of every call

vars == <<link, call>>

Links == {"down", "connecting", "connected", "error"}

Init ==
    /\ link = "down"
    /\ call = [c \in Calls |-> "new"]

Dial ==
    /\ link = "down"
    /\ link' = "connecting"
    /\ UNCHANGED call

Up ==
    /\ link = "connecting"
    /\ link' = "connected"
    /\ UNCHANGED call

\* The link failed but is not closed yet: an answer may still come over it.
Failing ==
    /\ link \in {"connecting", "connected"}
    /\ link' = "error"
    /\ UNCHANGED call

\* The link is given up, and with it every call that waits.
Down ==
    /\ link # "down"
    /\ link' = "down"
    /\ call' = [c \in Calls |-> IF call[c] = "waiting" THEN "settled" ELSE call[c]]

Start(c) ==
    /\ link = "connected"
    /\ call[c] = "new"
    /\ \E result \in {"waiting", "settled"} : call' = [call EXCEPT ![c] = result]
    /\ UNCHANGED link

Settle(c) ==
    /\ link # "down"
    /\ call[c] = "waiting"
    /\ call' = [call EXCEPT ![c] = "settled"]
    /\ UNCHANGED link

Next == Dial \/ Up \/ Failing \/ Down \/ \E c \in Calls : Start(c) \/ Settle(c)

Spec == Init /\ [][Next]_vars
=============================================================================
