------------------------------ MODULE TabLock ------------------------------
(***************************************************************************)
(* Which browser tab owns a Session: createTabLockController               *)
(* (tab-session-lock-core.ts) bound to the Session on screen by            *)
(* useTabSessionLock, in several tabs of one browser.                      *)
(*                                                                         *)
(* The Web Locks API is external: it decides requests in any order, calls  *)
(* back later, and settles the promise of request() when the callback's    *)
(* promise resolved or when the lock was stolen.  For a stolen lock the    *)
(* code says that promise resolves, browsers reject it: both are modelled. *)
(* A request's callback is queued when the lock is granted, so it runs     *)
(* before the promise of that request is seen to settle.                   *)
(*                                                                         *)
(* Requests are numbered.  "mine === generation" holds for the last        *)
(* request of a tab until dispose(), so generation is that request or 0.   *)
(***************************************************************************)
EXTENDS Integers, FiniteSets

CONSTANTS
    Tabs,
    Sessions,
    NoSession,     \* no Session on screen
    MaxRequests    \* bound: lock requests of all tabs together

ASSUME TabAssumption ==
    /\ NoSession \notin Sessions
    /\ MaxRequests \in Nat

Numbers == 1..MaxRequests

VARIABLES
    session,     \* sessionKey, per tab
    state,       \* the state of the hook, per tab
    generation,  \* the request that owns the generation, or 0, per tab
    release,     \* the request whose release function is kept, or 0, per tab
    made,        \* number of requests made
    requests,    \* every request made
    \* external
    holder,      \* the request that holds a Session's lock, or 0
    open         \* tabs that are open

vars == <<session, state, generation, release, made, requests, holder, open>>

Kinds == {"unsupported", "owner", "held-elsewhere"}
RequestRecords ==
    [tab : Tabs, key : Sessions, steal : BOOLEAN, voluntary : BOOLEAN,
     callback : {"waiting", "null", "lock", "done"},      \* how it is or was called
     inner : BOOLEAN,                                      \* release() was called
     outer : {"pending", "resolved", "rejected", "handled"}]  \* request()'s promise

Made == 1..made
Of(t) == {r \in Made : requests[r].tab = t}

Init ==
    /\ session = [t \in Tabs |-> NoSession]
    /\ state = [t \in Tabs |-> "unsupported"]
    /\ generation = [t \in Tabs |-> 0]
    /\ release = [t \in Tabs |-> 0]
    /\ made = 0
    /\ requests = <<>>
    /\ holder = [k \in Sessions |-> 0]
    /\ open = Tabs
-----------------------------------------------------------------------------
(* The controller *)

\* The effect of the hook returns a cleanup, dispose(), only with a Session on
\* screen: leaving "no Session" disposes of nothing.
HasCleanup(t) == session[t] # NoSession

\* What the cleanup does to the requests: release?.()
Disposed(t) ==
    [r \in Made |-> IF HasCleanup(t) /\ r = release[t]
                    THEN [requests[r] EXCEPT !.voluntary = TRUE, !.inner = TRUE]
                    ELSE requests[r]]

\* acquire: the request is made, its callback runs later.
Acquire(t, k, steal, before) ==
    /\ made < MaxRequests
    /\ made' = made + 1
    /\ generation' = [generation EXCEPT ![t] = made']
    /\ requests' = [r \in 1..made' |->
          IF r \in Made THEN before[r]
          ELSE [tab |-> t, key |-> k, steal |-> steal, voluntary |-> FALSE,
                callback |-> "waiting", inner |-> FALSE, outer |-> "pending"]]

\* Mutant: dispose() leaves the generation as it is.
SwitchKeepsGeneration(t, k) ==
    /\ t \in open
    /\ k # session[t]
    /\ session' = [session EXCEPT ![t] = k]
    /\ release' = IF HasCleanup(t) THEN [release EXCEPT ![t] = 0] ELSE release
    /\ IF k = NoSession
       THEN /\ requests' = Disposed(t)
            /\ state' = [state EXCEPT ![t] = "unsupported"]
            /\ UNCHANGED <<generation, made>>
       ELSE /\ Acquire(t, k, FALSE, Disposed(t))
            /\ UNCHANGED state
    /\ UNCHANGED <<holder, open>>

\* The effect of the hook runs for another Session: the cleanup of the one before,
\* then acquire.  A lock granted late, while no Session was shown, stays held and
\* its release function stays kept.
Switch(t, k) ==
    /\ t \in open
    /\ k # session[t]
    /\ session' = [session EXCEPT ![t] = k]
    /\ release' = IF HasCleanup(t) THEN [release EXCEPT ![t] = 0] ELSE release
    /\ IF k = NoSession
       THEN /\ requests' = Disposed(t)
            /\ generation' = [generation EXCEPT ![t] = 0]
            /\ state' = [state EXCEPT ![t] = "unsupported"]
            /\ UNCHANGED made
       ELSE /\ Acquire(t, k, FALSE, Disposed(t))
            /\ UNCHANGED state
    /\ UNCHANGED <<holder, open>>

\* The banner's Take over.
TakeOver(t) ==
    /\ t \in open
    /\ session[t] # NoSession
    /\ state[t] = "held-elsewhere"
    /\ Acquire(t, session[t], TRUE, requests)
    /\ UNCHANGED <<session, state, release, holder, open>>

Mine(r) == generation[requests[r].tab] = r
TellIf(b, r, kind) ==
    state' = IF b THEN [state EXCEPT ![requests[r].tab] = kind] ELSE state

\* The callback finds that the lock is not available.
CallbackNull(r) ==
    /\ requests[r].callback = "null"
    /\ TellIf(Mine(r), r, "held-elsewhere")
    /\ requests' = [requests EXCEPT ![r].callback = "done", ![r].voluntary = TRUE,
                                    ![r].outer = "resolved"]
    /\ UNCHANGED <<session, generation, release, made, holder, open>>

\* Mutant: a late callback speaks for the Session on screen now.
CallbackLockUnguarded(r) ==
    /\ requests[r].callback = "lock"
    /\ TellIf(TRUE, r, "owner")
    /\ requests' = [requests EXCEPT ![r].callback = "done"]
    /\ release' = [release EXCEPT ![requests[r].tab] = r]
    /\ UNCHANGED <<session, generation, made, holder, open>>

\* The callback receives the lock, also for a tab that has moved on.
CallbackLock(r) ==
    /\ requests[r].callback = "lock"
    /\ TellIf(Mine(r), r, "owner")
    /\ requests' = [requests EXCEPT ![r].callback = "done"]
    /\ release' = [release EXCEPT ![requests[r].tab] = r]
    /\ UNCHANGED <<session, generation, made, holder, open>>

\* Mutant: only a promise that resolves tells that the lock was lost.
OuterRejectedQuietly(r) ==
    /\ requests[r].outer = "rejected" /\ requests[r].callback = "done"
    /\ requests' = [requests EXCEPT ![r].outer = "handled"]
    /\ UNCHANGED <<session, state, generation, release, made, holder, open>>

\* .then: released, stolen, or not available.
OuterResolved(r) ==
    /\ requests[r].outer = "resolved" /\ requests[r].callback = "done"
    /\ release' = [release EXCEPT ![requests[r].tab] = 0]
    /\ TellIf(~requests[r].voluntary /\ Mine(r), r, "held-elsewhere")
    /\ requests' = [requests EXCEPT ![r].outer = "handled"]
    /\ UNCHANGED <<session, generation, made, holder, open>>

\* .catch
OuterRejected(r) ==
    /\ requests[r].outer = "rejected" /\ requests[r].callback = "done"
    /\ TellIf(Mine(r), r, "held-elsewhere")
    /\ requests' = [requests EXCEPT ![r].outer = "handled"]
    /\ UNCHANGED <<session, generation, release, made, holder, open>>

Controller == \E r \in Made : \/ CallbackNull(r) \/ CallbackLock(r)
                              \/ OuterResolved(r) \/ OuterRejected(r)
-----------------------------------------------------------------------------
(* The browser *)

\* A request that only wants a free lock.
Decide(r) ==
    LET k == requests[r].key
    IN  /\ requests[r].callback = "waiting"
        /\ ~requests[r].steal
        /\ requests[r].tab \in open
        /\ IF holder[k] = 0
           THEN /\ holder' = [holder EXCEPT ![k] = r]
                /\ requests' = [requests EXCEPT ![r].callback = "lock"]
           ELSE /\ requests' = [requests EXCEPT ![r].callback = "null"]
                /\ UNCHANGED holder
        /\ UNCHANGED <<session, state, generation, release, made, open>>

\* A steal: the former holder's promise settles.
Steal(r) ==
    LET k == requests[r].key
    IN  /\ requests[r].callback = "waiting"
        /\ requests[r].steal
        /\ requests[r].tab \in open
        /\ holder' = [holder EXCEPT ![k] = r]
        /\ \E outcome \in {"resolved", "rejected"} :
              requests' = [q \in Made |->
                  IF q = r THEN [requests[q] EXCEPT !.callback = "lock"]
                  ELSE IF q = holder[k] /\ requests[q].outer = "pending"
                  THEN [requests[q] EXCEPT !.outer = outcome] ELSE requests[q]]
        /\ UNCHANGED <<session, state, generation, release, made, open>>

\* "A steal rejected by the release cooldown, or the request rejected".
Refused(r) ==
    /\ requests[r].callback = "waiting"
    /\ requests[r].tab \in open
    /\ requests' = [requests EXCEPT ![r].callback = "done", ![r].outer = "rejected"]
    /\ UNCHANGED <<session, state, generation, release, made, holder, open>>

\* The callback's promise resolved: the lock is free and request() resolves.
Released(r) ==
    /\ requests[r].inner
    /\ requests[r].outer = "pending"
    /\ requests' = [requests EXCEPT ![r].outer = "resolved"]
    /\ holder' = [k \in Sessions |-> IF holder[k] = r THEN 0 ELSE holder[k]]
    /\ UNCHANGED <<session, state, generation, release, made, open>>

\* A closed tab loses its locks and its requests.
CloseTab(t) ==
    /\ t \in open
    /\ open' = open \ {t}
    /\ holder' = [k \in Sessions |-> IF holder[k] \in Of(t) THEN 0 ELSE holder[k]]
    /\ requests' = [r \in Made |-> IF r \in Of(t)
                                   THEN [requests[r] EXCEPT !.callback = "done",
                                                            !.outer = "handled"]
                                   ELSE requests[r]]
    /\ UNCHANGED <<session, state, generation, release, made>>

Browser == \E r \in Made : Decide(r) \/ Steal(r) \/ Refused(r) \/ Released(r)
-----------------------------------------------------------------------------
User == \E t \in Tabs : \/ \E k \in Sessions \cup {NoSession} : Switch(t, k)
                        \/ TakeOver(t) \/ CloseTab(t)

Next == User \/ Controller \/ Browser

Spec == Init /\ [][Next]_vars

\* The browser decides every request and runs every callback; users owe nothing.
FairSpec == Spec /\ WF_vars(Controller) /\ WF_vars(Browser)
-----------------------------------------------------------------------------
\* Every variable keeps its type, and only the request that a tab made last, and
\* made for the Session it shows, owns its generation.
TypeOK ==
    /\ session \in [Tabs -> Sessions \cup {NoSession}]
    /\ state \in [Tabs -> Kinds]
    /\ generation \in [Tabs -> 0..made]
    /\ release \in [Tabs -> 0..made]
    /\ made \in 0..MaxRequests
    /\ requests \in [Made -> RequestRecords]
    /\ holder \in [Sessions -> 0..made]
    /\ open \subseteq Tabs
    /\ \A t \in Tabs : generation[t] # 0 =>
         requests[generation[t]].tab = t /\ requests[generation[t]].key = session[t]

\* A request with nothing left to run in its tab or in the browser.
AtRest(r) ==
    /\ requests[r].callback = "done"
    /\ requests[r].outer \notin {"resolved", "rejected"}
    /\ requests[r].inner => requests[r].outer = "handled"

Resting(t) == t \in open /\ \A r \in Of(t) : AtRest(r)

\* "This tab holds the session lock": a tab at rest that reports itself the owner
\* does hold the lock of the Session on screen, by its latest request, whatever
\* was stolen, released or answered late.  Two tabs can therefore not both go on
\* dispatching to one Session.
OwnerHolds ==
    \A t \in Tabs : Resting(t) /\ state[t] = "owner" =>
        generation[t] # 0 /\ holder[session[t]] = generation[t]

\* "Another tab holds the lock (or took it from us)": a tab at rest that blocks
\* its composer does not hold that lock itself.
HeldElsewhereIsElsewhere ==
    \A t \in Tabs : Resting(t) /\ state[t] = "held-elsewhere" =>
        holder[session[t]] \notin Of(t)

Owns(t) == session[t] # NoSession /\ holder[session[t]] \in Of(t)

\* "the previous tab sees that it lost the session": a tab that takes itself for
\* the owner without the lock does not stay so.
LossIsSeen ==
    \A t \in Tabs : state[t] = "owner" /\ ~Owns(t)
        ~> state[t] # "owner" \/ Owns(t) \/ t \notin open
=============================================================================
