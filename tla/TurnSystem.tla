----------------------------- MODULE TurnSystem -----------------------------
(***************************************************************************)
(* One retained Session: its turn controller, the user, the record's       *)
(* transport, and the Octos Core server it talks to.                       *)
(*                                                                         *)
(* Core is not part of this repository: it is modelled from how the        *)
(* controller uses it (a registry with one foreground turn per Session, a  *)
(* typed turn_in_progress refusal, atomic steering, an event stream per    *)
(* connection, hydrate and turn/state/get).                                *)
(***************************************************************************)
EXTENDS TurnController

CONSTANTS
    Steerable,       \* prompts submitted as text that may steer a running turn
    MaxSuspends,     \* bound: transport losses
    MaxGaps,         \* bound: gap recoveries and failed reopens
    ServerRejects,   \* whether Core may refuse a start or a steer by policy
    Interactions     \* whether a running turn may ask for an approval

ASSUME SystemAssumption ==
    /\ Steerable \subseteq Locals \ Reviews
    /\ MaxSuspends \in Nat
    /\ MaxGaps \in Nat
    /\ ServerRejects \in BOOLEAN
    /\ Interactions \in BOOLEAN

VARIABLES
    ctl,        \* the controller (module TurnController)
    srv,        \* Core: the state of every turn
    inputs,     \* Core: steering inputs not yet given to the foreground turn
    wire,       \* requests in flight to Core
    replies,    \* replies in flight to the client
    notes,      \* the event stream to this client, in order
    snap,       \* the hydrate reply in flight
    buffered,   \* events that precede it in the stream and are not yet replayed
    suspends,   \* transport losses so far
    gaps,       \* gap recoveries and failed reopens so far
    \* history, read by the properties only
    sends,      \* start frames written, per turn
    runs,       \* times Core gave a prompt to the model, per prompt
    admitted,   \* prompts admitted through the FIFO, in order
    gone,       \* prompts the user cancelled or chose to go on without
    steerSent,  \* prompts sent as steering
    orphaned,   \* prompts sent as steering over a stream that was cut since
    handedBack  \* steering inputs Core returned over the stream they were sent on

channels == <<wire, replies, notes, snap, buffered>>
bounds == <<suspends, gaps>>
history == <<sends, runs, admitted, gone, steerSent, orphaned, handedBack>>
vars == <<ctl, srv, inputs, channels, bounds, history>>

Requests == [kind : {"start"}, turn : Locals]
            \cup [kind : {"interrupt"}, turn : Turns]
            \cup [kind : {"steer"}, turn : Locals, to : Turns]
Replies == [kind : {"start"}, turn : Locals, result : {"ack", "reject"}]
           \cup [kind : {"start"}, turn : Locals, result : {"busy"}, by : Turns]
           \cup [kind : {"steer"}, turn : Locals, result : {"steered", "reject"}]
           \cup [kind : {"steer"}, turn : Locals, result : {"fellback"}, by : Turns]
Notes == [kind : {"started", "terminal"}, turn : Turns]
         \cup [kind : {"dropped"}, turn : Turns, inputs : Seq(Locals)]
NoSnap == [t \in Turns |-> "none"]

\* The steering inputs that the events ns return.
Returned(ns) ==
    UNION {{ns[i].inputs[k] : k \in DOMAIN ns[i].inputs} :
              i \in {j \in DOMAIN ns : ns[j].kind = "dropped"}}

Foreground == {t \in Turns : srv[t] \in {"active", "interrupting"}}

Init ==
    /\ ctl = InitController
    /\ srv = [t \in Turns |-> "none"]
    /\ inputs = <<>>
    /\ wire = {}
    /\ replies = {}
    /\ notes = <<>>
    /\ snap = NoSnap
    /\ buffered = 0
    /\ suspends = 0
    /\ gaps = 0
    /\ sends = [t \in Turns |-> 0]
    /\ runs = [t \in Turns |-> 0]
    /\ admitted = <<>>
    /\ gone = {}
    /\ steerSent = {}
    /\ orphaned = {}
    /\ handedBack = {}

\* A hydrate commit, the replay of its buffer and the ready event are one
\* synchronous stretch: nothing else runs until the record is ready again.
Yielded == ctl.link # "draining"
-----------------------------------------------------------------------------
(* The user *)

Admit(t) ==
    /\ Yielded
    /\ MayEnqueue(ctl, t)
    /\ t \notin gone
    /\ ctl' = EnqueueTurn(ctl, t)
    /\ admitted' = Append(admitted, t)
    /\ UNCHANGED <<srv, inputs, channels, bounds, sends, runs, gone, steerSent, orphaned, handedBack>>

Submit(t) ==
    /\ Yielded
    /\ CanSteerText(ctl)
    /\ t \notin ctl.attempted \cup ctl.steerAdmitted \cup RetainedTurns(ctl) \cup gone
    /\ ctl' = SubmitSteer(ctl, t)
    /\ UNCHANGED <<srv, inputs, channels, bounds, history>>

Cancel(t) ==
    /\ Yielded
    /\ t \in Ids(ctl.q.pending)
    /\ ctl' = CancelQueuedPrompt(ctl, t)
    /\ gone' = gone \cup {t}
    /\ UNCHANGED <<srv, inputs, channels, bounds, sends, runs, admitted, steerSent, orphaned, handedBack>>

SendInterrupt(restorePrompt) ==
    /\ ctl' = Interrupt(ctl, restorePrompt)
    /\ wire' = wire \cup {[kind |-> "interrupt", turn |-> Active(ctl)]}
    /\ UNCHANGED <<srv, inputs, replies, notes, snap, buffered, bounds, history>>

Stop ==
    /\ Yielded
    /\ MayInterrupt(ctl)
    /\ SendInterrupt(TRUE)

SendPendingNow ==
    /\ Yielded
    /\ CanSendPendingNow(ctl)
    /\ MayInterrupt(ctl)
    /\ SendInterrupt(FALSE)

RetryRecovery ==
    /\ Yielded
    /\ Recovering(ctl)
    /\ ctl.recovery.phase # "checking"
    /\ Linked(ctl)
    /\ ctl' = RetryTurnRecovery(ctl)
    /\ UNCHANGED <<srv, inputs, channels, bounds, history>>

Continue ==
    /\ Yielded
    /\ MayContinueWithoutTurn(ctl)
    /\ ctl' = ContinueWithoutTurn(ctl)
    /\ gone' = gone \cup {Active(ctl)}
    /\ UNCHANGED <<srv, inputs, channels, bounds, sends, runs, admitted, steerSent, orphaned, handedBack>>

RetrySteer ==
    /\ Yielded
    /\ ctl.steerUnknown
    /\ ctl' = RetrySteerDelivery(ctl)
    /\ UNCHANGED <<srv, inputs, channels, bounds, history>>

SetSteeringEnabled ==
    /\ Yielded
    /\ Steerable # {}
    /\ ctl' = [ctl EXCEPT !.steering = ~@]
    /\ UNCHANGED <<srv, inputs, channels, bounds, history>>

\* The subscription ends: what it carried, and the hydrate in flight, are lost.
CutStream ==
    /\ notes' = <<>>
    /\ snap' = NoSnap
    /\ buffered' = 0
    /\ orphaned' = orphaned \cup steerSent
    /\ handedBack' = handedBack \ Returned(notes)

\* Explicit disconnect: the record is retired with its queue.
Retire ==
    /\ Yielded
    /\ ctl.link # "closed"
    /\ ctl' = [Reset(ctl) EXCEPT !.link = "closed"]
    /\ gone' = gone \cup QueuedIds(ctl.q) \cup RetainedTurns(ctl)
    /\ CutStream
    /\ replies' = {}
    /\ UNCHANGED <<srv, inputs, wire, bounds, sends, runs, admitted, steerSent>>

User ==
    \/ \E t \in Locals : Admit(t) \/ Cancel(t)
    \/ \E t \in Steerable : Submit(t)
    \/ Stop \/ SendPendingNow
    \/ RetryRecovery \/ Continue
    \/ RetrySteer \/ SetSteeringEnabled
    \/ Retire
-----------------------------------------------------------------------------
(* Completions of the controller's own calls *)

InPreflight(t) == ctl.startReq = t /\ ctl.stage = "preflight"
OnWire(t) == ctl.startReq = t /\ ctl.stage = "wire"

\* The driver seat was released (or the review chunk loaded): write the frame.
Dispatch(t) ==
    /\ Yielded
    /\ InPreflight(t)
    /\ StartCurrent(ctl, t)
    /\ ctl.link = "ready"
    /\ ctl' = MarkSent(ctl, t)
    /\ sends' = [sends EXCEPT ![t] = @ + 1]
    /\ wire' = wire \cup {[kind |-> "start", turn |-> t]}
    /\ UNCHANGED <<srv, inputs, replies, notes, snap, buffered, bounds,
                   runs, admitted, gone, steerSent, orphaned, handedBack>>

PreflightEndsNotReady(t) ==
    /\ Yielded
    /\ InPreflight(t)
    /\ StartCurrent(ctl, t)
    /\ ctl.link # "ready"
    /\ ctl' = PreflightNotReady(ctl, t)
    /\ UNCHANGED <<srv, inputs, channels, bounds, history>>

SeatRefused(t) ==
    /\ Yielded
    /\ InPreflight(t)
    /\ StartCurrent(ctl, t)
    /\ ctl.link = "ready"
    /\ ctl' = StartRefused(ctl, t)
    /\ UNCHANGED <<srv, inputs, channels, bounds, history>>

StartReply(r) ==
    /\ Yielded
    /\ r.kind = "start"
    /\ replies' = replies \ {r}
    /\ ctl' = IF ~OnWire(r.turn) THEN ctl
              ELSE CASE r.result = "ack" -> StartAcked(ctl, r.turn)
                     [] r.result = "busy" /\ r.turn \notin Reviews
                        /\ StartCurrent(ctl, r.turn) -> StartCollided(ctl, r.turn, r.by)
                     [] OTHER -> StartRejected(ctl, r.turn)
    /\ UNCHANGED <<srv, inputs, wire, notes, snap, buffered, bounds, history>>

\* The request timer, or the transport, gives up on the ACK; a later reply is
\* discarded by the client's quarantine.
StartTimeout(t) ==
    /\ Yielded
    /\ OnWire(t)
    /\ ctl' = StartUnconfirmed(ctl, t)
    /\ UNCHANGED <<srv, inputs, channels, bounds, history>>

SteerDispatch ==
    /\ Yielded
    /\ ctl.steerReq # NoTurn
    /\ ctl.steerReq \notin steerSent
    /\ IF MaySendSteer(ctl)
       THEN /\ ctl' = UpdateSteer(ctl, ctl.steerReq, "sent")
            /\ steerSent' = steerSent \cup {ctl.steerReq}
            /\ wire' = wire \cup {[kind |-> "steer", turn |-> ctl.steerReq,
                                   to |-> ctl.steerOwner]}
       ELSE /\ ctl' = SteerNotAdmitted(ctl)
            /\ UNCHANGED <<steerSent, wire>>
    /\ UNCHANGED <<srv, inputs, replies, notes, snap, buffered, bounds,
                   sends, runs, admitted, gone, orphaned, handedBack>>

SteerReply(r) ==
    /\ Yielded
    /\ r.kind = "steer"
    /\ replies' = replies \ {r}
    /\ ctl' = IF ctl.steerReq # r.turn THEN ctl
              ELSE CASE r.result = "steered" -> SteerAccepted(ctl)
                     [] r.result = "fellback" -> SteerFellBack(ctl, r.by)
                     [] OTHER -> SteerNotAdmitted(ctl)
    /\ UNCHANGED <<srv, inputs, wire, notes, snap, buffered, bounds, history>>

SteerTimeout ==
    /\ Yielded
    /\ ctl.steerReq \in steerSent
    /\ ctl' = SteerUnconfirmed(ctl)
    /\ UNCHANGED <<srv, inputs, channels, bounds, history>>

InterruptReply(accepted) ==
    /\ Yielded
    /\ ctl.interruptReq # NoTurn
    /\ accepted => srv[ctl.interruptReq] \in {"interrupting", "done"}
    /\ ctl' = InterruptReturned(ctl, ctl.interruptReq, accepted)
    /\ UNCHANGED <<srv, inputs, channels, bounds, history>>

LookupStates == {"active", "interrupting", "done", "unknown", "error"}

\* What turn/state/get may say: the state, a state that is already stale, or
\* "unknown" when Core never saw the turn or no longer keeps it.
LookupResults(t) ==
    {"error"}
    \cup (IF srv[t] = "none" THEN {"unknown"} ELSE {srv[t]})
    \cup (IF srv[t] = "done" THEN {"unknown"} ELSE {})
    \cup (IF \E i \in DOMAIN notes : notes[i] = [kind |-> "terminal", turn |-> t]
          THEN {"active"} ELSE {})

LookupReply(result) ==
    /\ Yielded
    /\ ctl.lookup # NoTurn
    /\ result \in LookupResults(ctl.lookup)
    /\ ctl' = LookupReturned(ctl, ctl.lookup, result)
    /\ UNCHANGED <<srv, inputs, channels, bounds, history>>

\* The interaction ledger opened or resolved a prompt of the owned turn.
OwnerInteraction(waiting) ==
    /\ Interactions
    /\ Yielded
    /\ ctl.owner.turn # NoTurn
    /\ Linked(ctl)
    /\ ctl.owner.state = IF waiting THEN "running" ELSE "waiting"
    /\ ctl' = SetAcceptedOwnerInteraction(ctl, waiting)
    /\ UNCHANGED <<srv, inputs, channels, bounds, history>>

Client ==
    \/ \E t \in Locals : \/ Dispatch(t) \/ PreflightEndsNotReady(t)
                         \/ SeatRefused(t) \/ StartTimeout(t)
    \/ \E r \in replies : StartReply(r) \/ SteerReply(r)
    \/ SteerDispatch \/ SteerTimeout
    \/ \E b \in BOOLEAN : InterruptReply(b) \/ OwnerInteraction(b)
    \/ \E s \in LookupStates : LookupReply(s)
-----------------------------------------------------------------------------
(* The record's transport and recovery *)

\* suspendTransport of controller and runtime: pending calls reject after their
\* gates were invalidated, the subscription and its buffer are dropped.
Suspend(link) ==
    /\ ctl' = [SuspendTransport(ctl) EXCEPT
                  !.link = link,
                  !.lookup = IF link = "down" THEN NoTurn ELSE @]
    /\ replies' = {}
    /\ CutStream

\* suspendRecords: the socket is lost.  What Core already received is still
\* processed.
LoseTransport ==
    /\ Yielded
    /\ ctl.link \notin {"closed", "down"}
    /\ suspends < MaxSuspends
    /\ Suspend("down")
    /\ suspends' = suspends + 1
    /\ UNCHANGED <<srv, inputs, wire, gaps, sends, runs, admitted, gone, steerSent>>

LoseRequest(m) ==
    /\ ctl.link = "down"
    /\ wire' = wire \ {m}
    /\ UNCHANGED <<ctl, srv, inputs, replies, notes, snap, buffered, bounds, history>>

\* recoverRecords suspends again and prepares a candidate: open and hydrate on
\* the pooled transport, while the record itself has no authority.
Reopen ==
    /\ ctl.link \in {"down", "faulted", "deaf"}
    /\ Suspend("opening")
    /\ UNCHANGED <<srv, inputs, wire, bounds, sends, runs, admitted, gone, steerSent>>

\* The candidate failed: restoreSuspendedSession binds the previous authority
\* again, unless the failure is fatal.  Events the candidate held are lost.
ReopenFails ==
    /\ ctl.link = "opening"
    /\ gaps < MaxGaps
    /\ \/ ctl' = [ctl EXCEPT !.link = "faulted"] \/ ctl' = [ctl EXCEPT !.link = "down"]
    /\ CutStream
    /\ gaps' = gaps + 1
    /\ UNCHANGED <<srv, inputs, wire, replies, suspends, sends, runs, admitted, gone, steerSent>>

\* A projection gap on a live transport: hydrate without suspending.
Gap ==
    /\ ctl.link \in {"draining", "ready", "faulted"}
    /\ gaps < MaxGaps
    /\ ctl' = [ctl EXCEPT !.link = "recovering"]
    /\ buffered' = 0
    /\ gaps' = gaps + 1
    /\ UNCHANGED <<srv, inputs, wire, replies, notes, snap, suspends, history>>

\* failCurrent on the pooled transport: the record is quarantined from events.
GapFails ==
    /\ ctl.link = "recovering"
    /\ ctl' = [ctl EXCEPT !.link = "deaf"]
    /\ CutStream
    /\ UNCHANGED <<srv, inputs, wire, replies, bounds, sends, runs, admitted, gone, steerSent>>

\* Core may lose its record of an ended turn (a restart, a trimmed ledger), but
\* not while something it said about that turn is still on its way.
MayForget(t) ==
    /\ srv[t] = "done"
    /\ \A r \in replies : r.turn # t
    /\ \A i \in DOMAIN notes : notes[i].turn # t

\* Core answers the hydrate; the events already in the stream precede it.
HydrateAnswers ==
    {s \in [Turns -> {"absent", "active", "interrupting", "done"}] :
        \A t \in Turns : s[t] = (IF srv[t] = "none" THEN "absent" ELSE srv[t])
                         \/ (MayForget(t) /\ s[t] = "absent")}

AnswerHydrate ==
    /\ ctl.link \in {"opening", "recovering"}
    /\ snap = NoSnap
    /\ snap' \in HydrateAnswers
    /\ buffered' = Len(notes)
    /\ UNCHANGED <<ctl, srv, inputs, wire, replies, notes, bounds, history>>

\* session-hydrate; only a recovery on the live authority preserves the leases.
Hydrated ==
    /\ ctl.link \in {"opening", "recovering"}
    /\ snap # NoSnap
    /\ ctl' = ReconcileFromHydrate([ctl EXCEPT !.link = "draining"], snap,
                                   ctl.link = "recovering")
    /\ snap' = NoSnap
    /\ UNCHANGED <<srv, inputs, wire, replies, notes, buffered, bounds, history>>

\* session-ready: the one drain of the never-sent head.
Ready ==
    /\ ctl.link = "draining"
    /\ buffered = 0
    /\ ctl' = ResumePendingTurn([ctl EXCEPT !.link = "ready"])
    /\ UNCHANGED <<srv, inputs, channels, bounds, history>>

\* One notification, live or replayed from the recovery buffer.  A replayed
\* terminal is an envelope at or below the hydrate's cursor, which the durable
\* projection discards as stale; the other events carry no cursor.
Observe ==
    /\ ctl.link \in {"draining", "ready", "faulted"}
    /\ notes # <<>>
    /\ LET n == Head(notes)
       IN  ctl' = IF n.kind = "terminal" /\ buffered > 0 THEN ctl
                  ELSE CASE n.kind = "started" -> ObserveTurnStarted(ctl, n.turn)
                         [] n.kind = "terminal" -> ObserveTerminal(ctl, n.turn)
                         [] OTHER -> ObserveSteerDropped(ctl, n.turn, n.inputs)
    /\ notes' = Tail(notes)
    /\ buffered' = IF buffered = 0 THEN 0 ELSE buffered - 1
    /\ UNCHANGED <<srv, inputs, wire, replies, snap, bounds, history>>

Transport ==
    \/ LoseTransport \/ Reopen \/ ReopenFails
    \/ Gap \/ GapFails
    \/ \E m \in wire : LoseRequest(m)
    \/ AnswerHydrate \/ Hydrated \/ Ready \/ Observe
-----------------------------------------------------------------------------
(* Core *)

Reply(r) == IF Linked(ctl) THEN replies \cup {r} ELSE replies
Heard == ctl.link \notin {"closed", "down", "deaf"}
Emit(ns) == IF Heard THEN notes \o ns ELSE notes

CoreStart(m) ==
    LET t == m.turn
    IN  /\ m.kind = "start"
        /\ wire' = wire \ {m}
        /\ \/ /\ Foreground = {}
              /\ srv' = [srv EXCEPT ![t] = "active"]
              /\ runs' = [runs EXCEPT ![t] = @ + 1]
              /\ replies' = Reply([kind |-> "start", turn |-> t, result |-> "ack"])
              /\ notes' = Emit(<<[kind |-> "started", turn |-> t]>>)
           \/ /\ \E f \in Foreground :
                    replies' = Reply([kind |-> "start", turn |-> t,
                                      result |-> "busy", by |-> f])
              /\ UNCHANGED <<srv, runs, notes>>
           \/ /\ ServerRejects
              /\ replies' = Reply([kind |-> "start", turn |-> t, result |-> "reject"])
              /\ UNCHANGED <<srv, runs, notes>>
        /\ UNCHANGED <<ctl, inputs, snap, buffered, bounds, sends, admitted, gone, steerSent, orphaned, handedBack>>

\* Another client of the same Session starts a turn.
ForeignStart(f) ==
    /\ Foreground = {}
    /\ srv[f] = "none"
    /\ srv' = [srv EXCEPT ![f] = "active"]
    /\ notes' = Emit(<<[kind |-> "started", turn |-> f]>>)
    /\ UNCHANGED <<ctl, inputs, wire, replies, snap, buffered, bounds, history>>

CoreInterrupt(m) ==
    /\ m.kind = "interrupt"
    /\ wire' = wire \ {m}
    /\ srv' = [srv EXCEPT ![m.turn] = IF @ = "active" THEN "interrupting" ELSE @]
    /\ UNCHANGED <<ctl, inputs, replies, notes, snap, buffered, bounds, history>>

CoreSteer(m) ==
    LET p == m.turn
    IN  /\ m.kind = "steer"
        /\ wire' = wire \ {m}
        /\ \/ /\ m.to \in Foreground
              /\ inputs' = Append(inputs, p)
              /\ replies' = Reply([kind |-> "steer", turn |-> p, result |-> "steered"])
              /\ UNCHANGED <<srv, runs, notes>>
           \/ /\ Foreground = {}
              /\ \E f \in Foreign :
                    /\ srv[f] = "none"
                    /\ srv' = [srv EXCEPT ![f] = "active"]
                    /\ replies' = Reply([kind |-> "steer", turn |-> p,
                                         result |-> "fellback", by |-> f])
                    /\ notes' = Emit(<<[kind |-> "started", turn |-> f]>>)
              /\ runs' = [runs EXCEPT ![p] = @ + 1]
              /\ UNCHANGED inputs
           \/ /\ ServerRejects \/ Foreground \ {m.to} # {}
              /\ replies' = Reply([kind |-> "steer", turn |-> p, result |-> "reject"])
              /\ UNCHANGED <<srv, inputs, runs, notes>>
        /\ UNCHANGED <<ctl, snap, buffered, bounds, sends, admitted, gone, steerSent, orphaned, handedBack>>

\* The running turn takes its steering inputs into the next model call.
CoreDrain ==
    /\ inputs # <<>>
    /\ runs' = [t \in Turns |-> IF \E i \in DOMAIN inputs : inputs[i] = t
                                THEN runs[t] + 1 ELSE runs[t]]
    /\ inputs' = <<>>
    /\ UNCHANGED <<ctl, srv, channels, bounds, sends, admitted, gone, steerSent, orphaned, handedBack>>

\* A turn ends; undrained inputs are returned before its terminal.
CoreEnd(t) ==
    /\ t \in Foreground
    /\ srv' = [srv EXCEPT ![t] = "done"]
    /\ inputs' = <<>>
    /\ handedBack' = handedBack \cup
                     {inputs[i] : i \in {k \in DOMAIN inputs :
                                           Heard /\ inputs[k] \notin orphaned}}
    /\ notes' = Emit((IF inputs = <<>> THEN <<>>
                      ELSE <<[kind |-> "dropped", turn |-> t, inputs |-> inputs]>>)
                     \o <<[kind |-> "terminal", turn |-> t]>>)
    /\ UNCHANGED <<ctl, wire, replies, snap, buffered, bounds, sends, runs, admitted, gone, steerSent, orphaned>>

Core ==
    \/ \E m \in wire : CoreStart(m) \/ CoreInterrupt(m) \/ CoreSteer(m)
    \/ \E f \in Foreign : ForeignStart(f)
    \/ CoreDrain
    \/ \E t \in Turns : CoreEnd(t)
-----------------------------------------------------------------------------
Next == User \/ Client \/ Transport \/ Core

Spec == Init /\ [][Next]_vars

\* The browser runs every completion and event it has queued, and every awaited
\* call settles (a request carries a timer).  Core handles what it received,
\* ends every turn and answers hydrate; the reconnect loop does not give up.
\* The user owes nothing.
Fairness ==
    /\ WF_vars(\E t \in Locals : Dispatch(t) \/ PreflightEndsNotReady(t) \/ SeatRefused(t))
    /\ WF_vars(\E r \in replies : StartReply(r) \/ SteerReply(r))
    /\ WF_vars(SteerDispatch)
    /\ WF_vars(SteerTimeout)
    /\ WF_vars(\E s \in LookupStates : LookupReply(s))
    /\ WF_vars(Reopen)
    /\ WF_vars(AnswerHydrate)
    /\ WF_vars(Hydrated)
    /\ WF_vars(Ready)
    /\ WF_vars(Observe)
    /\ WF_vars(\E m \in wire : CoreStart(m) \/ CoreInterrupt(m) \/ CoreSteer(m))
    /\ WF_vars(\E t \in Turns : CoreEnd(t))

FairSpec == Spec /\ Fairness
-----------------------------------------------------------------------------
(* Type invariant *)

\* Every variable keeps its type; in particular the controller stays a
\* well-formed record whichever handlers interleave.
TypeOK ==
    /\ ctl \in Controllers
    /\ srv \in [Turns -> {"none", "active", "interrupting", "done"}]
    /\ inputs \in Seq(Locals)
    /\ wire \subseteq Requests
    /\ replies \subseteq Replies
    /\ notes \in Seq(Notes)
    /\ snap \in [Turns -> {"none", "absent", "active", "interrupting", "done"}]
    /\ buffered \in Nat
    /\ suspends \in Nat
    /\ gaps \in Nat
    /\ sends \in [Turns -> Nat]
    /\ runs \in [Turns -> Nat]
    /\ admitted \in Seq(Locals)
    /\ gone \subseteq Turns
    /\ steerSent \subseteq Locals
    /\ orphaned \subseteq Locals
    /\ handedBack \subseteq Locals

(* Safety *)

\* A turn id crosses the wire at most once: no suspend, hydrate, timeout, seat
\* refusal or drain of the queue replays a start whose outcome is unknown
\* (attemptedTurns and preflightTurnId).
StartedAtMostOnce == \A t \in Turns : sends[t] <= 1

\* Core gives the text of a prompt to the model at most once, whether it went
\* out as a start, as steering, or as both because Core handed it back.
NeverRunTwice == \A p \in Locals : runs[p] <= 1

\* A prompt the controller admitted is never silently dropped: it ran, it is
\* queued or retained, it went back to the composer or the user let it go.  Text
\* sent as steering may be reported as unconfirmed instead, but not once Core
\* returned it over the stream it was sent on and that stream was not cut.
NoPromptLost ==
    \A p \in (Locals \ Reviews) :
        p \in {admitted[i] : i \in DOMAIN admitted} \cup ctl.steerAdmitted
        => \/ runs[p] > 0
           \/ p \in QueuedIds(ctl.q) \cup RetainedTurns(ctl) \cup ctl.composer \cup gone
           \/ p \in steerSent /\ p \notin handedBack \ Returned(notes)

\* A prompt waiting in the FIFO has never been attempted: startTurn refuses an
\* attempted head, so one would hold up every prompt behind it for good.
WaitingIsStartable == Ids(ctl.q.pending) \cap ctl.attempted = {}

\* The dispatch lease, the dispatching id shown to the user, the accepted owner
\* and the queue agree: a lease always belongs to the active, attempted turn and
\* never outlives it, and an owner that activeTurnOwnership reports as running is
\* the turn at the head of the queue.
LeaseIsActive ==
    /\ ctl.local = ctl.dispatching
    /\ ctl.local # NoTurn =>
         /\ ctl.local = Active(ctl)
         /\ ctl.local \in ctl.attempted
         /\ ctl.owner.turn # ctl.local
    /\ ctl.preflight # NoTurn => ctl.preflight = ctl.local
    /\ ctl.owner.state \in {"running", "waiting"} => ctl.owner.turn = Active(ctl)

\* Nothing is in flight, the record is ready and nothing is shown as unresolved.
Quiescent ==
    /\ ctl.link = "ready"
    /\ wire = {} /\ replies = {} /\ notes = <<>>
    /\ ctl.startReq = NoTurn /\ ctl.steerReq = NoTurn /\ ctl.lookup = NoTurn
    /\ ~Recovering(ctl)
    /\ ~ctl.steerUnknown

\* Client and Core agree at rest: a turn of this client that holds its queue is
\* running in Core, or its start is still shown as unacknowledged.  A terminal
\* lost to a suspend, a gap or a collision would leave the queue waiting for it.
QuiescentAgreement ==
    Quiescent /\ Active(ctl) \in ctl.attempted \cap Locals
    => Active(ctl) \in Foreground \cup {ctl.dispatching}

\* turnRecovery is "the active turn whose outcome hydrate could not prove":
\* the hold on admission, dispatch and interrupt belongs to the active turn.
RecoveryNamesActive == Recovering(ctl) => ctl.recovery.turn = Active(ctl)

(* Action properties *)

\* Prompts leave in the order in which they were admitted: no start frame is
\* written while a prompt admitted earlier is still waiting.
NoOvertaking ==
    [][\A i, j \in DOMAIN admitted :
          i < j /\ sends'[admitted[j]] > sends[admitted[j]]
          => admitted[i] \notin Ids(ctl.q.pending)]_vars

\* Returned steering text keeps its place: no prompt submitted after it is sent
\* while the text waits in the FIFO.
ReturnedTextGoesFirst ==
    [][\A q \in Locals :
          sends'[q] > sends[q] /\ q \notin ctl.steerAdmitted
          => Ids(ctl.q.pending) \cap ctl.steerAdmitted = {}]_vars

\* "Hydrate's server foreground turn; local FIFO never advances over it": no new
\* dispatch begins while hydrate's foreground turn is still live for the
\* client, unless the user chose to go on without that turn.
NeverAdvancesOverForeground ==
    [][\A t \in Locals :
          t \in ctl'.attempted /\ t \notin ctl.attempted /\ ctl'.startReq = t
          => ctl'.hydrated.turn \in {NoTurn} \cup gone']_vars

(* Liveness *)

\* What may hold up the FIFO for good without a step of the user: an unconfirmed
\* start or review, an unresolved lifecycle, or unconfirmed steering.
HeldForUser ==
    \/ ctl.timedOut = Active(ctl) /\ ctl.timedOut # NoTurn
    \/ ctl.dispatching \in Reviews /\ ctl.startReq = NoTurn /\ ctl.link = "ready"
    \/ Recovering(ctl) /\ ctl.recovery.phase # "checking"
    \/ ctl.steerUnknown

\* A queued prompt is not stranded: it is dispatched or leaves the queue, or the
\* user is shown what holds it up.
Undispatched == QueuedIds(ctl.q) \ ctl.attempted
FifoDrains ==
    \A p \in Locals : p \in Undispatched ~> p \notin Undispatched \/ HeldForUser

\* A lifecycle lookup ends: the controller does not stay in "checking", where
\* neither Retry nor Continue is offered.
LookupEnds == ctl.recovery.phase = "checking" ~> ctl.recovery.phase # "checking"
=============================================================================
