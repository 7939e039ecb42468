--------------------------- MODULE TurnController ---------------------------
(***************************************************************************)
(* The turn controller of one retained Session record                      *)
(* (createQueueBackedTurnController, features/composer/                    *)
(* use-turn-controller.ts).  It owns the local lease of an unacknowledged  *)
(* turn/start, the accepted owner, interrupt and lifecycle-recovery state, *)
(* native steering, and it is the only caller of the prompt queue.         *)
(*                                                                         *)
(* JavaScript runs a handler to its next await without interruption, so    *)
(* each stretch of a handler is one operator from a controller state to    *)
(* the next one; TurnSystem makes them actions.  Of the three request      *)
(* gates (RequestAuthorityGate) only the owner is kept: a call that no     *)
(* longer owns its gate returns without touching anything.                 *)
(***************************************************************************)
EXTENDS PromptQueue

CONSTANTS
    Reviews,          \* the local turns that dispatch review/start
    ReceiptLimit,     \* terminalReceipts keeps this many ids (256 in the code)
    CanGetTurnState   \* the Session advertises turn/state/get

ASSUME ControllerAssumption ==
    /\ Reviews \subseteq Locals
    /\ ReceiptLimit \in Nat \ {0}
    /\ CanGetTurnState \in BOOLEAN

\* What the record's runtime offers the controller.  "down" and "opening" have no
\* authority (client() is null; a retained Session is being reopened).
\* "recovering" and "draining" have one but are not ready: a hydrate is in flight,
\* or its buffer is being replayed.  A failed recovery leaves the authority with
\* its subscription ("faulted") or without it ("deaf").  "closed" is retired.
Links == {"closed", "down", "opening", "faulted", "deaf",
          "recovering", "draining", "ready"}

NoOwner == [turn |-> NoTurn, state |-> "none"]
NoRecovery == [turn |-> NoTurn, phase |-> "none"]
NoHydrated == [turn |-> NoTurn, state |-> "none"]

OptLocal == Locals \cup {NoTurn}
Owners == [turn : OptTurn, state : {"none", "running", "waiting", "ended"}]
Recoveries == [turn : OptTurn,
               phase : {"none", "checking", "unknown", "unavailable", "error"}]
HydratedTurns == [turn : OptTurn, state : {"none", "active", "interrupting"}]
Stages == {"none", "preflight", "wire"}
Steers == [turn : Turns, owner : Turns, sent : BOOLEAN, accepted : BOOLEAN]

Controllers ==
    [q : Queues,
     link : Links,
     local : OptTurn,             \* locallyStartedTurn
     dispatching : OptTurn,       \* dispatchingTurnId
     owner : Owners,              \* acceptedOwner
     interrupting : OptTurn,      \* interruptingTurnId
     interruptReq : OptTurn,      \* owner of interruptRequests
     recovery : Recoveries,       \* the turn being recovered
     lookup : OptTurn,            \* owner of recoveryRequests
     hydrated : HydratedTurns,    \* hydratedActiveTurn
     timedOut : OptTurn,          \* timedOutStartTurnId
     attempted : SUBSET Turns,    \* attemptedTurns
     preflight : OptTurn,         \* preflightTurnId
     startReq : OptTurn,          \* owner of startRequests, and how far it got
     stage : Stages,
     receipts : Seq(Turns),       \* terminalReceipts, oldest first
     steering : BOOLEAN,          \* steeringEnabled
     steerReq : OptLocal,         \* the steer in flight (steerInFlight)
     steerOwner : OptTurn,        \* the turn it was aimed at
     steerUnknown : BOOLEAN,
     steerAdmitted : SUBSET Turns,
     retained : SUBSET Steers,    \* retainedSteers
     composer : SUBSET Turns]     \* prompts handed back to the composer

InitController ==
    [q |-> EmptyQueue, link |-> "ready", local |-> NoTurn, dispatching |-> NoTurn,
     owner |-> NoOwner, interrupting |-> NoTurn, interruptReq |-> NoTurn,
     recovery |-> NoRecovery, lookup |-> NoTurn, hydrated |-> NoHydrated,
     timedOut |-> NoTurn, attempted |-> {}, preflight |-> NoTurn,
     startReq |-> NoTurn, stage |-> "none", receipts |-> <<>>, steering |-> TRUE,
     steerReq |-> NoTurn, steerOwner |-> NoTurn, steerUnknown |-> FALSE,
     steerAdmitted |-> {}, retained |-> {}, composer |-> {}]

Linked(c) == c.link \in {"faulted", "deaf", "recovering", "draining", "ready"}
Recovering(c) == c.recovery.turn # NoTurn
Active(c) == c.q.active.id
Without(t, u) == IF t = u THEN NoTurn ELSE t
RetainedTurns(c) == {e.turn : e \in c.retained}
Received(c, t) == \E i \in DOMAIN c.receipts : c.receipts[i] = t

\* A turn the server reported, installed without its prompt.
ObservedTurn(t) == [id |-> t, text |-> FALSE]
-----------------------------------------------------------------------------
(* Leases and recovery state *)

ClearRecovery(c) == [c EXCEPT !.lookup = NoTurn, !.recovery = NoRecovery]

ClearRecoveryOf(c, t) == IF c.recovery.turn = t THEN ClearRecovery(c) ELSE c

InvalidateStart(c) == [c EXCEPT !.startReq = NoTurn, !.stage = "none"]

\* Mutant: clearDispatchingTurn is forgotten.
RetireLocalDispatchKeepsId(c, t) ==
    IF c.local # t THEN c
    ELSE [c EXCEPT !.local = NoTurn, !.preflight = Without(@, t)]

RetireLocalDispatch(c, t) ==
    IF c.local # t THEN c
    ELSE [c EXCEPT !.local = NoTurn,
                   !.preflight = Without(@, t),
                   !.dispatching = Without(@, t)]

\* The server proved that it accepted the turn: the local lease becomes the
\* accepted owner.  Without a matching live lease this is a no-op.
AcceptLocalDispatch(c, t, state) ==
    IF c.local # t \/ ~Linked(c) THEN c
    ELSE [ClearRecoveryOf(c, t) EXCEPT
             !.timedOut = Without(@, t),
             !.owner = [turn |-> t, state |-> state],
             !.preflight = Without(@, t),
             !.local = NoTurn,
             !.dispatching = Without(@, t)]

\* The active turn is (re)installed as a foreground turn of the server.
AdoptForeground(c, t) ==
    [c EXCEPT !.attempted = @ \cup {t},
              !.q = RestoreActive(@, ObservedTurn(t), TRUE)]

GiveBackInterrupted(c, t) ==
    [c EXCEPT !.composer = IF c.q.stash = t THEN @ \cup {t} ELSE @,
              !.q = TakeInterruptPrompt(@, t)]
-----------------------------------------------------------------------------
(* startTurn up to its first await: the seat release, or the review loader *)

MayStart(c, t) ==
    /\ c.link = "ready"
    /\ ~Recovering(c)
    /\ c.steerReq = NoTurn
    /\ ~c.steerUnknown
    /\ t # NoTurn
    /\ Active(c) = t
    /\ t \notin c.attempted

StartTurn(c, t) ==
    IF ~MayStart(c, t) THEN c
    ELSE [c EXCEPT !.attempted = @ \cup {t},
                   !.preflight = t,
                   !.local = t,
                   !.dispatching = t,
                   !.startReq = t,
                   !.stage = "preflight"]

\* Mutant: the hydrated foreground is not looked at.
ReleaseOverForeground(c, t) ==
    LET d == GiveBackInterrupted(
               [InvalidateStart(c) EXCEPT !.interruptReq = NoTurn,
                                          !.interrupting = Without(@, t),
                                          !.q = Settle(@, t)], t)
    IN  IF Active(c) # t THEN c ELSE StartTurn(d, Active(d))

\* Mutant: the null check on the hydrated foreground is dropped.
ReleaseToNull(c, t) ==
    LET quiet == [InvalidateStart(c) EXCEPT !.interruptReq = NoTurn, !.q = Settle(@, t)]
    IN  IF Active(c) # t THEN c
        ELSE GiveBackInterrupted(AdoptForeground(quiet, c.hydrated.turn), t)

\* Mutant: the next prompt is not started.
ReleaseWithoutNext(c, t) ==
    IF Active(c) # t THEN c
    ELSE GiveBackInterrupted(
           [InvalidateStart(c) EXCEPT !.interruptReq = NoTurn,
                                      !.interrupting = Without(@, t),
                                      !.q = Settle(@, t)], t)

\* releaseQueueTurn: advance the FIFO, but never over another foreground turn
\* that hydrate reported.
ReleaseQueueTurn(c, t) ==
    LET other == c.hydrated
        quiet == [InvalidateStart(c) EXCEPT !.interruptReq = NoTurn,
                                            !.q = Settle(@, t)]
    IN  IF Active(c) # t THEN c
        ELSE IF other.turn # NoTurn /\ other.turn # t
        THEN GiveBackInterrupted(
               [AdoptForeground(quiet, other.turn) EXCEPT
                   !.interrupting = IF other.state = "interrupting"
                                    THEN other.turn ELSE NoTurn], t)
        ELSE LET d == GiveBackInterrupted(
                        [quiet EXCEPT !.interrupting = Without(@, t)], t)
             IN  StartTurn(d, Active(d))

AddReceipt(receipts, t) ==
    IF \E i \in DOMAIN receipts : receipts[i] = t THEN receipts
    ELSE IF Len(receipts) = ReceiptLimit THEN Append(Tail(receipts), t)
    ELSE Append(receipts, t)

DropSteersOf(retained, t) == {e \in retained : e.owner # t}

\* settleTurn: the terminal of a turn, whoever proved it.
SettleTurn(c, t) ==
    LET d == [ClearRecoveryOf(c, t) EXCEPT
                 !.hydrated = IF @.turn = t THEN NoHydrated ELSE @,
                 !.timedOut = Without(@, t),
                 !.receipts = AddReceipt(@, t),
                 !.retained = IF c.steerReq = NoTurn THEN DropSteersOf(@, t) ELSE @,
                 !.owner = IF @.turn = t THEN [@ EXCEPT !.state = "ended"] ELSE @]
    IN  ReleaseQueueTurn(RetireLocalDispatch(d, t), t)
-----------------------------------------------------------------------------
(* startTurn after its awaits *)

\* requestIsCurrent of a start call that still owns its gate.
StartCurrent(c, t) == Linked(c) /\ c.startReq = t /\ Active(c) = t

\* The seat was not released, or the review could not be sent, because the
\* record stopped being ready: a prompt goes back to "never attempted", a
\* review counts as rejected.
PreflightNotReady(c, t) ==
    IF t \in Reviews THEN SettleTurn(RetireLocalDispatch(c, t), t)
    ELSE InvalidateStart(RetireLocalDispatch(
           [c EXCEPT !.attempted = @ \ {t}, !.preflight = NoTurn], t))

\* Core or the driver seat refused the turn: its prompt goes back to the
\* composer (a review has none) and the FIFO advances.
StartRefused(c, t) ==
    LET d == RetireLocalDispatch(c, t)
    IN  SettleTurn(IF t \in Reviews THEN d
                   ELSE [d EXCEPT !.composer = @ \cup {t}], t)

\* The frame is about to be written.
MarkSent(c, t) == [c EXCEPT !.preflight = NoTurn, !.stage = "wire"]

StartAcked(c, t) ==
    InvalidateStart(IF StartCurrent(c, t) THEN AcceptLocalDispatch(c, t, "running") ELSE c)

\* A missing ACK proves nothing: the turn and the FIFO wait for evidence.
StartUnconfirmed(c, t) ==
    InvalidateStart(
      IF StartCurrent(c, t) /\ t \notin Reviews /\ c.local = t
      THEN [c EXCEPT !.timedOut = t] ELSE c)

\* Mutant: the refused prompt is not given back.
StartCollidedDropsPrompt(c, t, occupier) ==
    LET d == [InvalidateStart(RetireLocalDispatch(c, t)) EXCEPT !.q = Settle(@, t)]
    IN  IF Received(c, occupier) THEN StartTurn(d, Active(d))
        ELSE AdoptForeground(d, occupier)

\* turn_in_progress: another client holds the Session's only turn slot.
StartCollided(c, t, occupier) ==
    LET d == [InvalidateStart(RetireLocalDispatch(c, t)) EXCEPT
                 !.q = Settle(@, t),
                 !.composer = @ \cup {t}]
    IN  IF Received(c, occupier) THEN StartTurn(d, Active(d))
        ELSE AdoptForeground(d, occupier)

StartRejected(c, t) == IF StartCurrent(c, t) THEN StartRefused(c, t) ELSE InvalidateStart(c)
-----------------------------------------------------------------------------
(* Admission *)

MayEnqueue(c, t) ==
    /\ c.link = "ready"
    /\ ~Recovering(c)
    /\ t \in Reviews => c.q.active = NoEntry /\ c.q.pending = <<>>
    /\ t \notin c.attempted \cup c.steerAdmitted \cup QueuedIds(c.q)

EnqueueTurn(c, t) ==
    LET d == [c EXCEPT !.q = Enqueue(@, [id |-> t, text |-> TRUE])]
    IN  IF c.q.active = NoEntry THEN StartTurn(d, t) ELSE d

CancelQueuedPrompt(c, t) == [c EXCEPT !.q = RemovePending(@, t)]

ResumePendingTurn(c) == StartTurn(c, Active(c))
-----------------------------------------------------------------------------
(* Native steering *)

CanSteerText(c) ==
    /\ c.steering
    /\ ~Recovering(c)
    /\ c.link = "ready"
    /\ Active(c) \in c.attempted
    /\ c.dispatching = NoTurn
    /\ c.q.pending = <<>>
    /\ c.interrupting = NoTurn
    /\ c.steerReq = NoTurn
    /\ ~c.steerUnknown

SubmitSteer(c, t) ==
    [c EXCEPT !.steerAdmitted = @ \cup {t},
              !.retained = @ \cup {[turn |-> t, owner |-> Active(c),
                                     sent |-> FALSE, accepted |-> FALSE]},
              !.steerReq = t,
              !.steerOwner = Active(c)]

SteerEntries(turns) == [i \in DOMAIN turns |-> [id |-> turns[i], text |-> TRUE]]

\* Mutant: returned text queues behind the later prompts.
RestageSteersLast(c, turns) ==
    LET es == SteerEntries(turns)
    IN  IF turns = <<>> THEN c
        ELSE IF Active(c) = NoTurn
        THEN [c EXCEPT !.q = PrependPending(RestoreActive(@, es[1], TRUE), Tail(es))]
        ELSE [c EXCEPT !.q.pending = @ \o es]

\* restageSteers: returned text goes ahead of every later prompt.
RestageSteers(c, turns) ==
    LET es == SteerEntries(turns)
        idle == Active(c) \notin c.attempted
    IN  IF turns = <<>> THEN c
        ELSE IF idle
        THEN [c EXCEPT !.q = PrependPending(RestoreActive(@, es[1], TRUE), Tail(es))]
        ELSE [c EXCEPT !.q = PrependPending(@, es)]

ForgetSteer(c, t) == [c EXCEPT !.retained = {e \in @ : e.turn # t}]

\* The finally block: the queue head may have been waiting for this steer.
FinishSteer(c) ==
    LET d == [c EXCEPT
                 !.steerReq = NoTurn,
                 !.steerOwner = NoTurn,
                 !.retained = IF ~c.steerUnknown /\ Received(c, c.steerOwner)
                              THEN DropSteersOf(@, c.steerOwner) ELSE @]
    IN  StartTurn(d, Active(d))

\* markSent: the guard it throws on, and what it records.
MaySendSteer(c) ==
    /\ c.link = "ready"
    /\ Active(c) = c.steerOwner
    /\ c.interrupting = NoTurn

UpdateSteer(c, t, field) ==
    [c EXCEPT !.retained =
        {[e EXCEPT !.sent = @ \/ (e.turn = t /\ field = "sent"),
                   !.accepted = @ \/ (e.turn = t /\ field = "accepted")] : e \in @}]

\* Mutant: a steer that was not admitted is forgotten.
SteerNotAdmittedForgotten(c) == FinishSteer(ForgetSteer(c, c.steerReq))

SteerNotAdmitted(c) ==
    LET t == c.steerReq
    IN  FinishSteer(IF t \in RetainedTurns(c)
                    THEN RestageSteers(ForgetSteer(c, t), <<t>>) ELSE c)

SteerAccepted(c) ==
    FinishSteer(UpdateSteer(c, c.steerReq, "accepted"))

SteerUnconfirmed(c) ==
    FinishSteer(IF c.steerReq \in RetainedTurns(c)
                THEN [c EXCEPT !.steerUnknown = TRUE] ELSE c)

\* steered = false: Core already started the text as the new turn f.
SteerFellBack(c, f) ==
    LET t == c.steerReq
        a == c.steerOwner
        d == [ForgetSteer(c, t) EXCEPT !.attempted = @ \cup {f}]
        superseded == Active(c) \notin {NoTurn, a, f} /\ Active(c) \in c.attempted
        q == IF Active(c) = a THEN Settle(c.q, a) ELSE c.q
    IN  IF t \notin RetainedTurns(c) THEN FinishSteer(c)
        ELSE IF Received(c, f) THEN FinishSteer(d)
        ELSE IF superseded THEN FinishSteer([d EXCEPT !.steerUnknown = TRUE])
        ELSE FinishSteer(
               [d EXCEPT !.q = RestoreActive(q, [id |-> f, text |-> TRUE], TRUE),
                         !.owner = [turn |-> f, state |-> "running"]])

RetrySteerDelivery(c) ==
    LET d == [c EXCEPT !.steerUnknown = FALSE, !.steerReq = NoTurn, !.steerOwner = NoTurn]
    IN  StartTurn(d, Active(d))
-----------------------------------------------------------------------------
(* Notifications: every one that names a turn proves that turn was accepted *)

ConfirmTurnAccepted(c, t) == AcceptLocalDispatch(c, t, "running")

\* Mutant: a turn is adopted over the one this client holds.
AdoptOverActive(c, t) == IF t \in c.attempted THEN c ELSE AdoptForeground(c, t)

AdoptObservedTurn(c, t) ==
    IF \/ t \in c.attempted
       \/ c.local = t
       \/ Active(c) # NoTurn
       \/ t \in Ids(c.q.pending)
    THEN c ELSE AdoptForeground(c, t)

ObserveTurnStarted(c, t) == AdoptObservedTurn(ConfirmTurnAccepted(c, t), t)

\* turn/steer_dropped: Core returns the inputs it never gave to the model.
ObserveSteerDropped(c, t, inputs) ==
    LET d == ConfirmTurnAccepted(c, t)
        mine == {e \in d.retained : /\ e.owner = t /\ e.sent
                                    /\ \E i \in DOMAIN inputs : inputs[i] = e.turn}
        returned == Keep(inputs, {e.turn : e \in mine})
    IN  RestageSteers([d EXCEPT !.retained = @ \ mine,
                                !.steerUnknown = @ /\ mine = {}], returned)

ObserveTerminal(c, t) == SettleTurn(ConfirmTurnAccepted(c, t), t)
-----------------------------------------------------------------------------
(* Interrupt *)

MayInterrupt(c) ==
    /\ c.link = "ready"
    /\ ~Recovering(c)
    /\ Active(c) # NoTurn
    /\ c.local # Active(c)
    /\ c.interrupting # Active(c)

Interrupt(c, restorePrompt) ==
    [c EXCEPT !.q = IF restorePrompt THEN StashInterruptPrompt(@, @.active)
                    ELSE TakeInterruptPrompt(@, @.active.id),
              !.interrupting = Active(c),
              !.interruptReq = Active(c)]

InterruptReturned(c, t, accepted) ==
    [c EXCEPT !.interruptReq = NoTurn,
              !.interrupting = IF accepted /\ Linked(c) /\ Active(c) = t
                               THEN @ ELSE Without(@, t)]

CanSendPendingNow(c) ==
    /\ c.link = "ready"
    /\ Active(c) # NoTurn
    /\ ~Recovering(c)
    /\ ~c.steerUnknown
    /\ c.steerReq = NoTurn
    /\ c.interrupting = NoTurn
    /\ c.dispatching # Active(c)
    /\ \/ c.q.pending # <<>>
       \/ \E e \in c.retained : e.sent /\ e.owner = Active(c)
-----------------------------------------------------------------------------
(* Lifecycle recovery *)

RetryTurnRecovery(c) ==
    IF ~Linked(c) \/ Active(c) = NoTurn \/ c.recovery.phase = "checking" THEN c
    ELSE IF CanGetTurnState
    THEN [c EXCEPT !.lookup = Active(c),
                   !.recovery = [turn |-> Active(c), phase |-> "checking"]]
    ELSE [c EXCEPT !.recovery = [turn |-> Active(c), phase |-> "unavailable"]]

ApplyRecoveredState(c, t, state) ==
    LET live == state \in {"active", "interrupting"}
        d == [AcceptLocalDispatch(InvalidateStart(ClearRecovery(c)), t,
                                  IF live THEN "running" ELSE "ended")
              EXCEPT !.interruptReq = NoTurn,
                     !.interrupting = IF state = "interrupting" THEN t ELSE NoTurn]
    IN  IF live THEN d ELSE SettleTurn(d, t)

\* Mutant: a failed lookup is swallowed.
LookupFailureSwallowed(c, t, result) ==
    LET d == [c EXCEPT !.lookup = NoTurn]
    IN  IF ~Linked(c) \/ Active(c) # t \/ result = "error" THEN d
        ELSE IF result = "unknown"
        THEN [d EXCEPT !.recovery = [turn |-> t, phase |-> result]]
        ELSE ApplyRecoveredState(d, t, result)

\* turn/state/get answered (or failed); only a current answer is used.
LookupReturned(c, t, result) ==
    LET d == [c EXCEPT !.lookup = NoTurn]
    IN  IF ~Linked(c) \/ Active(c) # t THEN d
        ELSE IF result \in {"unknown", "error"}
        THEN [d EXCEPT !.recovery = [turn |-> t, phase |-> result]]
        ELSE ApplyRecoveredState(d, t, result)

MayContinueWithoutTurn(c) ==
    /\ Active(c) # NoTurn
    /\ c.recovery.turn = Active(c)
    /\ c.recovery.phase # "checking"

ContinueWithoutTurn(c) ==
    LET t == Active(c)
        d == [RetireLocalDispatch(ClearRecovery(c), t) EXCEPT
                 !.timedOut = NoTurn,
                 !.owner = IF @.turn = t THEN NoOwner ELSE @,
                 !.q = TakeInterruptPrompt(@, t)]
    IN  ReleaseQueueTurn(d, t)

\* reconcileFromHydrate.  snap maps a turn to its hydrated state, or "absent".
ServerForeground(snap) == {t \in Turns : snap[t] \in {"active", "interrupting"}}

HydratedForeground(snap) ==
    IF ServerForeground(snap) = {} THEN NoHydrated
    ELSE LET t == CHOOSE x \in ServerForeground(snap) : TRUE
         IN  [turn |-> t, state |-> snap[t]]

ReconcileLeases(c, preserve) ==
    LET d == ClearRecovery([c EXCEPT !.steerUnknown = FALSE])
    IN  IF preserve /\ Linked(c) THEN d
        ELSE [RetireLocalDispatch(d, d.local) EXCEPT !.owner = NoOwner]

\* Mutant: a hydrated terminal state does not settle the queue.
ReconcileActiveUnsettled(c, t, state) ==
    AcceptLocalDispatch(InvalidateStart(c), t, IF state = "done" THEN "ended" ELSE "running")

\* An explicit lifecycle state of the active turn supersedes its start call.
ReconcileActive(c, t, state) ==
    LET d == AcceptLocalDispatch(InvalidateStart(c), t,
                                 IF state = "done" THEN "ended" ELSE "running")
        fg == c.hydrated.turn
        ended == [d EXCEPT !.owner = IF @.turn = t THEN [@ EXCEPT !.state = "ended"] ELSE @,
                           !.q = Settle(@, t)]
    IN  IF state # "done" THEN d
        ELSE IF fg \notin {NoTurn, t} THEN AdoptForeground(ended, fg) ELSE ended

ReconcileFromHydrate(c, snap, preserve) ==
    LET fg == HydratedForeground(snap)
        d == [ReconcileLeases(c, preserve) EXCEPT
                 !.hydrated = fg,
                 !.interruptReq = NoTurn,
                 !.interrupting = IF fg.state = "interrupting" THEN fg.turn ELSE NoTurn]
        t == Active(c)
    IN  IF fg.turn \notin {NoTurn, t} /\ t \notin c.attempted
        THEN AdoptForeground(InvalidateStart(d), fg.turn)
        ELSE IF t = NoTurn \/ t \notin c.attempted THEN d
        ELSE IF snap[t] # "absent" THEN ReconcileActive(d, t, snap[t])
        ELSE RetryTurnRecovery(d)
-----------------------------------------------------------------------------
(* Transport *)

\* Mutant: the steer in flight is queued again although it was sent.
SteerInFlight(c) == IF c.steerReq \in RetainedTurns(c) THEN <<c.steerReq>> ELSE <<>>

\* Only the steer in flight can be unsent: a new one waits for it.
UnsentSteers(c) ==
    IF \E e \in c.retained : e.turn = c.steerReq /\ ~e.sent THEN <<c.steerReq>> ELSE <<>>

\* Mutant: the turn on the wire counts as never attempted.
SuspendForgetsAttempt(c) ==
    [InvalidateStart(c) EXCEPT
        !.attempted = @ \ {c.local},
        !.retained = {}, !.steerReq = NoTurn, !.steerOwner = NoTurn,
        !.steerUnknown = FALSE, !.preflight = NoTurn, !.interruptReq = NoTurn,
        !.local = NoTurn, !.owner = NoOwner, !.dispatching = NoTurn,
        !.interrupting = NoTurn]

\* suspendTransport: queued turns stay, a turn that never reached the wire may
\* be tried again, everything that was sent is never sent again.
SuspendTransport(c) ==
    LET d == RestageSteers([c EXCEPT !.retained = {},
                                     !.steerReq = NoTurn,
                                     !.steerOwner = NoTurn,
                                     !.steerUnknown = FALSE], UnsentSteers(c))
    IN  [InvalidateStart(d) EXCEPT
            !.attempted = @ \ {c.preflight},
            !.preflight = NoTurn,
            !.interruptReq = NoTurn,
            !.local = NoTurn,
            !.owner = NoOwner,
            !.dispatching = NoTurn,
            !.interrupting = NoTurn]

\* reset: an explicit disconnect retires the record.
Reset(c) == [InitController EXCEPT !.steering = c.steering, !.composer = c.composer]

SetAcceptedOwnerInteraction(c, waiting) ==
    [c EXCEPT !.owner.state = IF waiting THEN "waiting" ELSE "running"]
=============================================================================
