--------------------------- MODULE SessionStream ---------------------------
(***************************************************************************)
(* The durable stream of one retained Session: the integrity checks of     *)
(* DurableSessionProjection (durable-session.ts), the recovery of a managed *)
(* ActiveSessionRuntime (active-session-runtime.ts), the staging of a      *)
(* candidate (prepareRetainedCandidateSession) and the loops of the record *)
(* manager that suspend, reopen and rehydrate a record.                    *)
(*                                                                         *)
(* An envelope is its position in the server's log: that position is its   *)
(* durable cursor, and its sequence number counts the envelopes of its     *)
(* thread up to it.  The timeline is the set of positions the record       *)
(* shows.  Replies are not ordered with respect to the stream: a decoder   *)
(* is imported before a reply is used, and the server may answer a hydrate *)
(* before it has flushed older envelopes.                                  *)
(***************************************************************************)
EXTENDS Integers, Sequences, FiniteSets

CONSTANTS
    Threads,        \* projection threads
    Canonical,      \* whether hydrate carries projection_thread_sequences
    Receipts,       \* positions that are assistant_persisted receipts
    Limit,          \* RECOVERY_NOTIFICATION_LIMIT, 4096 in the code
    MaxEvents,      \* bound: length of the server's log
    MaxDrops,       \* bound: envelopes replaced by a replay_lossy notice
    MaxSilent,      \* bound: envelopes lost without a notice
    MaxBad,         \* bound: malformed envelopes
    MaxSockets,     \* bound: socket losses
    MaxRequests,    \* bound: opens, retries and rehydrates of the user
    MaxLeases       \* bound: history mutations

ASSUME StreamAssumption ==
    /\ Canonical \in BOOLEAN
    /\ Limit \in Nat \ {0}
    /\ MaxEvents \in Nat
    /\ Receipts \subseteq 1..MaxEvents

VARIABLES
    rt,          \* the runtime and its projection
    cand,        \* the candidate being staged
    hydrates,    \* hydrate calls the runtime has made
    closed,      \* the record was closed
    lease,       \* the authority a history mutation holds, or 0
    recoveryError,  \* recoveryErrorRef: the last reopen did not end ready
    \* external: server and connection
    log,         \* the thread of every durable event
    wire,        \* notifications on their way
    connected,   \* the pooled socket is open
    subscribed,  \* the server sends this Session's events on it
    budget,      \* what is left of the bounds
    silent       \* history: positions lost without a notice

history == <<lease, recoveryError>>
vars == <<rt, cand, hydrates, closed, history, log, wire, connected, subscribed, budget, silent>>

Positions == 1..MaxEvents
Notices == [kind : {"env", "lossy", "bad"}, pos : Positions]
Entries == [notice : Notices, retried : BOOLEAN]
Phases == {"idle", "ready", "recovering", "error", "disconnected"}

NoCandidate == [stage |-> "none", resume |-> FALSE, notices |-> <<>>, snapshot |-> 0]

Init ==
    /\ rt = [generation |-> 0, authority |-> 0, suspended |-> FALSE, binding |-> FALSE,
             phase |-> "idle", recovering |-> FALSE, buffer |-> <<>>, operation |-> 0,
             cursor |-> 0, checkpoint |-> 0, thread |-> [t \in Threads |-> 0],
             timeline |-> {}, twice |-> {}, asked |-> 0, out |-> "settled"]
    /\ cand = NoCandidate
    /\ hydrates = {}
    /\ closed = FALSE
    /\ lease = 0
    /\ recoveryError = FALSE
    /\ log = <<>>
    /\ wire = <<>>
    /\ connected = TRUE
    /\ subscribed = FALSE
    /\ budget = [drops |-> MaxDrops, silent |-> MaxSilent, bad |-> MaxBad,
                 sockets |-> MaxSockets, requests |-> MaxRequests, leases |-> MaxLeases]
    /\ silent = {}

\* The envelopes of thread t among the first n events, and an envelope's sequence number.
SeqAt(t, n) == Cardinality({p \in 1..n : log[p] = t})
SeqNo(p) == SeqAt(log[p], p)

Current == rt.authority # 0
-----------------------------------------------------------------------------
(* DurableSessionProjection *)

\* Mutant: the checkpoints of a canonical snapshot are not kept.
CommitHydratePartial(r, snapshot) ==
    [r EXCEPT !.cursor = snapshot, !.checkpoint = 0, !.thread = [t \in Threads |-> 0],
              !.timeline = 1..snapshot]

\* commitHydrate, and the record's timeline rebuilt from it.
CommitHydrate(r, snapshot) ==
    [r EXCEPT !.cursor = snapshot,
              !.checkpoint = IF Canonical THEN snapshot ELSE 0,
              !.thread = [t \in Threads |-> IF Canonical THEN SeqAt(t, snapshot) ELSE 0],
              !.timeline = 1..snapshot]

\* Already contained in the hydrate.
Stale(r, p, fromRecoveryBuffer) ==
    p <= r.checkpoint \/ (fromRecoveryBuffer /\ p <= r.cursor)

\* Mutant: a jump in a thread's sequence goes unnoticed.
GapUnseen(r, p) == FALSE

Gap(r, p) == r.thread[log[p]] # 0 /\ SeqNo(p) > r.thread[log[p]] + 1

\* Mutant: a notice that events were dropped is ignored.
DecisionIgnoresLossy(r, notice, fromRecoveryBuffer) ==
    CASE notice.kind = "bad" -> "recover"
      [] notice.kind = "lossy" -> "ignore"
      [] notice.kind = "env" /\ Stale(r, notice.pos, fromRecoveryBuffer) -> "ignore"
      [] OTHER -> IF Gap(r, notice.pos) THEN "recover"
                  ELSE IF SeqNo(notice.pos) <= r.thread[log[notice.pos]] THEN "ignore"
                  ELSE "apply"

\* observe: what the projection makes of a notification.
Decision(r, notice, fromRecoveryBuffer) ==
    CASE notice.kind \in {"lossy", "bad"} -> "recover"
      [] notice.kind = "env" /\ Stale(r, notice.pos, fromRecoveryBuffer) -> "ignore"
      [] OTHER -> IF Gap(r, notice.pos) THEN "recover"
                  ELSE IF SeqNo(notice.pos) <= r.thread[log[notice.pos]] THEN "ignore"
                  ELSE "apply"

Apply(r, p, identityOnly) ==
    [r EXCEPT !.thread[log[p]] = SeqNo(p),
              !.cursor = IF p > @ THEN p ELSE @,
              !.timeline = IF identityOnly THEN @ ELSE @ \cup {p},
              !.twice = IF ~identityOnly /\ p \in r.timeline THEN @ \cup {p} ELSE @]
-----------------------------------------------------------------------------
(* Recovery in the managed runtime *)

\* #failCurrent: the record is quarantined, the pooled socket stays open.
FailCurrent(r) ==
    [r EXCEPT !.operation = @ + 1, !.recovering = FALSE, !.buffer = <<>>,
              !.phase = "error", !.binding = FALSE, !.out = "terminal"]

\* Mutant: one entry too many is buffered.
EnqueueRecoveryOffByOne(r, entry) ==
    IF Len(r.buffer) > Limit THEN FailCurrent(r)
    ELSE [r EXCEPT !.buffer = Append(@, entry), !.out = "recovering"]

\* #enqueueRecovery, and #overflowRecovery, which quarantines like #failCurrent.
EnqueueRecovery(r, entry) ==
    IF Len(r.buffer) >= Limit THEN FailCurrent(r)
    ELSE [r EXCEPT !.buffer = Append(@, entry), !.out = "recovering"]

\* #hydrate up to its first await: asked names the operation of the call made.
BeginHydrate(r) ==
    [r EXCEPT !.operation = @ + 1, !.recovering = TRUE, !.phase = "recovering",
              !.asked = r.operation + 1, !.out = "recovering"]

\* A gap: ask for server truth once, and give up when that did not help.
BeginRecovery(r, entry) ==
    IF entry.retried THEN FailCurrent(r)
    ELSE BeginHydrate([r EXCEPT
             !.buffer = IF entry.notice.kind = "lossy" THEN <<>>
                        ELSE <<[entry EXCEPT !.retried = TRUE]>>])

\* #acceptNotification of an event of this Session.
AcceptNotification(r, entry, identityOnly, fromRecoveryBuffer) ==
    LET decision == Decision(r, entry.notice, fromRecoveryBuffer)
    IN  IF r.recovering THEN EnqueueRecovery(r, entry)
        ELSE CASE decision = "recover" -> BeginRecovery(r, entry)
               [] decision = "ignore" -> [r EXCEPT !.out = "settled"]
               [] decision = "apply" -> [Apply(r, entry.notice.pos, identityOnly)
                                            EXCEPT !.out = "settled"]

\* hydrateAssistantIdentities: a receipt the hydrate already covers.
Covered(notice, snapshot) ==
    notice.kind = "env" /\ notice.pos \in Receipts /\ notice.pos <= snapshot

\* One notification of #drainNotifications: once one of them needs another recovery,
\* the ones behind it wait in the buffer again.
DrainNext(q, entry, snapshot) ==
    CASE q.out = "terminal" -> q
      [] q.out = "recovering" -> EnqueueRecovery(q, entry)
      [] q.out = "settled" ->
           AcceptNotification(q, entry, Covered(entry.notice, snapshot), TRUE)

\* #drainNotifications, in order.
DrainNotifications(r, entries, snapshot) ==
    LET drained[i \in 0..Len(entries)] ==
          IF i = 0 THEN [r EXCEPT !.out = "settled"]
          ELSE DrainNext(drained[i - 1], entries[i], snapshot)
    IN  drained[Len(entries)]

\* #finishRecovery
FinishRecovery(r) ==
    IF r.recovering THEN r
    ELSE IF connected THEN [r EXCEPT !.phase = "ready"]
    ELSE FailCurrent(r)

\* The end of #hydrate.
FinishHydrate(r) == IF r.out = "settled" THEN FinishRecovery(r) ELSE r

\* The end of a synchronous stretch, with the hydrate call it made, if any.
Settle(r, calls, kind) ==
    /\ rt' = [r EXCEPT !.asked = 0, !.out = "settled"]
    /\ hydrates' = calls \cup
         (IF r.asked = 0 THEN {}
          ELSE {[operation |-> r.asked, generation |-> r.authority, kind |-> kind,
                 answered |-> FALSE, snapshot |-> 0]})
-----------------------------------------------------------------------------
(* The stream *)

Staging == cand.stage \in {"opening", "hydrating", "hydrated"}

\* The staging listener; too many events fail the candidate.
Staged(notice) ==
    CASE ~Staging -> cand
      [] Staging /\ Len(cand.notices) >= Limit -> [cand EXCEPT !.stage = "failed"]
      [] OTHER -> [cand EXCEPT !.notices = Append(@, notice)]

\* A notification reaches the staging listener and the record's binding.
Notify ==
    /\ wire # <<>>
    /\ wire' = Tail(wire)
    /\ cand' = Staged(Head(wire))
    /\ IF ~rt.binding THEN UNCHANGED <<rt, hydrates>>
       ELSE Settle(AcceptNotification(rt, [notice |-> Head(wire), retried |-> FALSE],
                                      FALSE, FALSE),
                   hydrates, "recovery")
    /\ UNCHANGED <<closed, history, log, connected, subscribed, budget, silent>>

\* Mutant: any hydrate result is committed.
OperationIsAny(h) == Current

\* #isRecoveryOperationCurrent
IsRecoveryOperationCurrent(h) ==
    Current /\ rt.authority = h.generation /\ rt.operation = h.operation

\* The rest of #hydrate, after its awaits: one synchronous stretch.
HydrateReturned(h) ==
    /\ h \in hydrates /\ h.answered
    /\ IF ~IsRecoveryOperationCurrent(h)
       THEN hydrates' = hydrates \ {h} /\ UNCHANGED rt
       ELSE LET committed == [CommitHydrate(rt, h.snapshot) EXCEPT
                                !.recovering = FALSE, !.buffer = <<>>]
            IN  Settle(FinishHydrate(DrainNotifications(committed, rt.buffer, h.snapshot)),
                       hydrates \ {h}, "recovery")
    \* the history mutation is done once the record is ready
    /\ lease' = IF h.kind = "rehydrate" /\ rt'.phase = "ready" THEN 0 ELSE lease
    /\ UNCHANGED <<cand, closed, recoveryError, log, wire, connected, subscribed, budget,
                   silent>>

\* rehydrateSession keeps its binding when the refresh fails.
RehydrateFailed(r) ==
    [r EXCEPT !.operation = @ + 1, !.recovering = FALSE, !.buffer = <<>>, !.phase = "error"]

\* Mutant: a failed recovery hydrate is swallowed.
HydrateFailedSwallowed(h) ==
    /\ h \in hydrates
    /\ hydrates' = hydrates \ {h}
    /\ UNCHANGED <<rt, cand, closed, history, log, wire, connected, subscribed, budget, silent>>

\* The call, or the preparation of its result, failed.
HydrateFailed(h) ==
    /\ h \in hydrates
    /\ Settle(IF ~IsRecoveryOperationCurrent(h) THEN rt
              ELSE IF h.kind = "rehydrate" THEN RehydrateFailed(rt)
              ELSE FailCurrent(rt),
              hydrates \ {h}, "recovery")
    /\ UNCHANGED <<cand, closed, history, log, wire, connected, subscribed, budget, silent>>

Spend(what) == budget[what] > 0 /\ budget' = [budget EXCEPT ![what] = @ - 1]

\* acquireHistoryMutation: a history change reserves a record that is ready.
AcquireHistoryMutation ==
    /\ Spend("leases")
    /\ lease = 0 /\ connected /\ ~closed
    /\ Current /\ rt.phase = "ready"
    /\ lease' = rt.authority
    /\ UNCHANGED <<rt, cand, hydrates, closed, recoveryError, log, wire, connected,
                   subscribed, silent>>

\* rehydrateRecord and rehydrateSession: the change was answered, or its refresh is
\* tried again.  Only the authority is checked, whatever the record does meanwhile.
RehydrateSession ==
    /\ Spend("requests")
    /\ lease # 0 /\ lease = rt.authority /\ connected
    /\ ~\E h \in hydrates : h.kind = "rehydrate" /\ h.generation = lease
    /\ Settle(BeginHydrate(rt), hydrates, "rehydrate")
    /\ UNCHANGED <<cand, closed, history, log, wire, connected, subscribed, silent>>

\* The dialog is closed, or the change failed.
ReleaseHistoryMutation ==
    /\ lease # 0
    /\ ~\E h \in hydrates : h.kind = "rehydrate" /\ h.generation = lease
    /\ lease' = 0
    /\ UNCHANGED <<rt, cand, hydrates, closed, recoveryError, log, wire, connected,
                   subscribed, budget, silent>>
-----------------------------------------------------------------------------
(* Candidates *)

\* prepareRetainedCandidateSession starts to listen and asks to open the Session.
Prepare(resume) == cand' = [NoCandidate EXCEPT !.stage = "opening", !.resume = resume]

\* openOnRecord: the user opens the Session, or opens it again.
OpenOnRecord ==
    /\ Spend("requests")
    /\ connected /\ ~closed /\ cand.stage = "none"
    /\ Prepare(FALSE)
    /\ UNCHANGED <<rt, hydrates, closed, history, log, wire, connected, subscribed, silent>>

\* Mutant: a record that is suspended keeps its recovery operation.
SuspendTransportKeepsOperation(r) ==
    IF r.authority = 0 THEN r
    ELSE [r EXCEPT !.recovering = FALSE, !.buffer = <<>>,
                   !.binding = FALSE, !.suspended = TRUE, !.phase = "disconnected"]

\* suspendTransport
SuspendTransport(r) ==
    IF r.authority = 0 THEN r
    ELSE [r EXCEPT !.operation = @ + 1, !.generation = @ + 1, !.recovering = FALSE,
                   !.buffer = <<>>, !.binding = FALSE, !.suspended = TRUE,
                   !.authority = 0, !.phase = "disconnected"]

\* recoverRecords, for a record that exists.
RecoverRecords ==
    /\ rt' = SuspendTransport(rt)
    /\ lease' = 0
    /\ IF rt.generation > 0 /\ ~closed THEN Prepare(TRUE) ELSE cand' = NoCandidate

\* #adoptFirst and adoptCandidate: the same commit, the old binding is disposed.
CommitCandidate ==
    [CommitHydrate(rt, cand.snapshot) EXCEPT
        !.operation = @ + 1, !.generation = @ + 1, !.authority = rt.generation + 1,
        !.binding = TRUE, !.suspended = IF cand.resume THEN FALSE ELSE @,
        !.recovering = FALSE, !.buffer = <<>>, !.phase = "recovering"]

\* installPreparedSession or resumePreparedSession, and #emitCandidateProjection.
InstallCandidate ==
    /\ cand.stage = "hydrated"
    /\ connected /\ ~closed
    /\ Len(cand.notices) <= Limit
    /\ LET entries == [i \in DOMAIN cand.notices |->
                          [notice |-> cand.notices[i], retried |-> FALSE]]
       IN  Settle(FinishRecovery(DrainNotifications(CommitCandidate, entries, cand.snapshot)),
                  hydrates, "recovery")
    /\ cand' = NoCandidate
    /\ lease' = 0
    /\ recoveryError' = IF cand.resume THEN rt'.phase # "ready" ELSE recoveryError
    /\ UNCHANGED <<closed, log, wire, connected, subscribed, budget, silent>>

\* restoreSuspendedSession
RestoreSuspendedSession(r) ==
    IF r.authority # 0 \/ ~r.suspended THEN r
    ELSE [r EXCEPT !.generation = @ + 1, !.authority = r.generation + 1, !.binding = TRUE,
                   !.suspended = FALSE, !.recovering = FALSE, !.buffer = <<>>,
                   !.phase = "error"]

\* A candidate that failed is dropped with what it staged.  A recovery restores the
\* record's binding, unless the error is fatal.
CandidateFailed ==
    /\ cand.stage # "none"
    /\ cand' = NoCandidate
    /\ \/ rt' = IF cand.resume THEN RestoreSuspendedSession(rt) ELSE rt
       \/ cand.resume /\ UNCHANGED rt
    /\ recoveryError' = (recoveryError \/ cand.resume)
    /\ UNCHANGED <<hydrates, closed, lease, log, wire, connected, subscribed, budget, silent>>

\* disconnect of the runtime: closeRetainedRecord, evict and retireAll.
CloseRecord ==
    /\ Spend("requests")
    /\ ~closed /\ rt.generation > 0
    /\ closed' = TRUE
    /\ rt' = [rt EXCEPT !.operation = @ + 1, !.generation = @ + 1, !.authority = 0,
                        !.binding = FALSE, !.suspended = FALSE, !.recovering = FALSE,
                        !.buffer = <<>>, !.phase = "disconnected", !.cursor = 0,
                        !.checkpoint = 0, !.thread = [t \in Threads |-> 0]]
    /\ cand' = NoCandidate
    /\ lease' = 0
    /\ UNCHANGED <<hydrates, recoveryError, log, wire, connected, subscribed, silent>>
-----------------------------------------------------------------------------
(* The pooled socket *)

\* The socket is lost: the pool's subscriber suspends every record at once.
LoseSocket ==
    /\ Spend("sockets")
    /\ connected
    /\ connected' = FALSE /\ subscribed' = FALSE /\ wire' = <<>>
    /\ rt' = SuspendTransport(rt)
    /\ cand' = NoCandidate
    /\ hydrates' = {h \in hydrates : h.answered}
    /\ lease' = 0
    /\ recoveryError' = (recoveryError \/ cand.resume)
    /\ UNCHANGED <<closed, log, silent>>

\* The socket is back: every record is reopened.
Reconnect ==
    /\ ~connected
    /\ connected' = TRUE
    /\ RecoverRecords
    /\ UNCHANGED <<hydrates, closed, recoveryError, log, wire, subscribed, budget, silent>>

\* retryRecovery: the user retries a reopen that failed, on a socket still open.
RetryRecovery ==
    /\ Spend("requests")
    /\ connected /\ recoveryError
    /\ RecoverRecords
    /\ UNCHANGED <<hydrates, closed, recoveryError, log, wire, connected, subscribed, silent>>
-----------------------------------------------------------------------------
(* The server *)

Sent(kind) ==
    wire' = Append(wire, [kind |-> kind, pos |-> Len(log) + 1])

\* A durable event: it goes out, or is dropped with a notice, or is lost, or is
\* written in a form the client cannot read.
Emit(t) ==
    /\ Len(log) < MaxEvents
    /\ log' = Append(log, t)
    /\ \/ ~subscribed /\ UNCHANGED <<wire, budget, silent>>
       \/ subscribed /\ Sent("env") /\ UNCHANGED <<budget, silent>>
       \/ subscribed /\ Spend("drops") /\ Sent("lossy") /\ UNCHANGED silent
       \/ subscribed /\ Spend("bad") /\ Sent("bad") /\ UNCHANGED silent
       \/ /\ subscribed /\ Spend("silent")
          /\ silent' = silent \cup {Len(log) + 1}
          /\ UNCHANGED wire
    /\ UNCHANGED <<rt, cand, hydrates, closed, history, connected, subscribed>>

\* session/open: the server subscribes, and replays what is after the given cursor.
ServerOpens ==
    /\ cand.stage = "opening"
    /\ subscribed' = TRUE
    /\ wire' = wire \o (IF ~cand.resume \/ rt.cursor = 0 THEN <<>>
                        ELSE [i \in 1..(Len(log) - rt.cursor) |->
                                [kind |-> "env", pos |-> rt.cursor + i]])
    /\ cand' = [cand EXCEPT !.stage = "hydrating"]
    /\ UNCHANGED <<rt, hydrates, closed, history, log, connected, budget, silent>>

ServerHydratesCandidate ==
    /\ cand.stage = "hydrating"
    /\ cand' = [cand EXCEPT !.stage = "hydrated", !.snapshot = Len(log)]
    /\ UNCHANGED <<rt, hydrates, closed, history, log, wire, connected, subscribed, budget,
                   silent>>

ServerHydrates(h) ==
    /\ h \in hydrates /\ ~h.answered /\ connected
    /\ hydrates' = (hydrates \ {h}) \cup {[h EXCEPT !.answered = TRUE, !.snapshot = Len(log)]}
    /\ UNCHANGED <<rt, cand, closed, history, log, wire, connected, subscribed, budget,
                   silent>>
-----------------------------------------------------------------------------
HydrateEnds == \E h \in hydrates : HydrateReturned(h) \/ HydrateFailed(h)
HydrateAnswered == \E h \in hydrates : ServerHydrates(h)
CandidateMoves == ServerOpens \/ ServerHydratesCandidate \/ InstallCandidate

Next ==
    \/ Notify \/ HydrateEnds \/ HydrateAnswered \/ CandidateMoves \/ CandidateFailed
    \/ AcquireHistoryMutation \/ RehydrateSession \/ ReleaseHistoryMutation
    \/ OpenOnRecord \/ CloseRecord
    \/ LoseSocket \/ Reconnect \/ RetryRecovery
    \/ \E t \in Threads : Emit(t)

Spec == Init /\ [][Next]_vars

\* The browser runs queued tasks, requests are answered or time out, and the pool
\* reconnects; the user and the faults are free.
FairSpec ==
    /\ Spec
    /\ WF_vars(Notify) /\ WF_vars(HydrateEnds) /\ WF_vars(HydrateAnswered)
    /\ WF_vars(CandidateMoves) /\ WF_vars(Reconnect)
-----------------------------------------------------------------------------
\* The shape of the state; neither the recovery buffer nor the staging buffer ever
\* holds more than RECOVERY_NOTIFICATION_LIMIT events.
TypeOK ==
    /\ rt \in [generation : Nat, authority : Nat, suspended : BOOLEAN, binding : BOOLEAN,
               phase : Phases, recovering : BOOLEAN, buffer : Seq(Entries),
               operation : Nat, cursor : 0..MaxEvents, checkpoint : 0..MaxEvents,
               thread : [Threads -> 0..MaxEvents], timeline : SUBSET Positions,
               twice : SUBSET Positions, asked : {0},
               out : {"settled"}]
    /\ Len(rt.buffer) <= Limit
    /\ cand \in [stage : {"none", "opening", "hydrating", "hydrated", "failed"},
                 resume : BOOLEAN, notices : Seq(Notices), snapshot : 0..MaxEvents]
    /\ Len(cand.notices) <= Limit
    /\ hydrates \subseteq [operation : Nat, generation : Nat, kind : {"recovery", "rehydrate"},
                           answered : BOOLEAN, snapshot : 0..MaxEvents]
    /\ lease \in Nat /\ recoveryError \in BOOLEAN
    /\ closed \in BOOLEAN /\ connected \in BOOLEAN /\ subscribed \in BOOLEAN
    /\ log \in Seq(Threads) /\ Len(log) <= MaxEvents
    /\ wire \in Seq(Notices)
    /\ silent \subseteq Positions

\* "A reconnecting socket is not a recovered session": a record that reports ready
\* has an authority on the open, subscribed socket, is not recovering and has nothing
\* buffered.
ReadyIsSettled ==
    rt.phase = "ready" =>
        /\ rt.authority # 0 /\ connected /\ subscribed
        /\ ~rt.recovering /\ rt.buffer = <<>>

\* A failed refresh never lets the record become "a ready record that no longer
\* observes events": whoever is ready still listens to the socket.
ReadyIsObserved == rt.phase = "ready" => rt.binding

\* A record that is ready and listens misses nothing: every durable event is in its
\* timeline, or still on its way, itself or as the notice that it was dropped.  Only
\* an event that the server lost without saying so can be absent.
ReadyMissesNothing ==
    rt.phase = "ready" /\ rt.binding =>
        \A p \in 1..Len(log) :
            p \in rt.timeline \cup silent \cup {wire[i].pos : i \in DOMAIN wire}

\* "Deduplicate replayed envelopes": with canonical snapshots no envelope is folded
\* into a timeline that already has it, whether replayed, buffered or late.
FoldedOnce == rt.twice = {}

\* "Repair detectable gaps": within a thread whose sequence is known the timeline has
\* no hole, and the sequence number kept is that of the last envelope shown.
ThreadsContiguous ==
    \A t \in Threads :
        LET shown == {SeqNo(p) : p \in {q \in rt.timeline : log[q] = t}}
        IN  rt.thread[t] # 0 =>
              /\ rt.thread[t] \in shown
              /\ \A n \in shown : n <= rt.thread[t] /\ (n..rt.thread[t]) \subseteq shown

\* A recovery ends: the record becomes ready, fails closed or loses its socket.
RecoveryEnds == rt.recovering ~> ~rt.recovering

\* Every durable event is shown in the end, unless the record stops being ready (it
\* failed closed or was closed) or the server lost the event without a notice.
EventuallyShown ==
    \A p \in Positions :
        p <= Len(log) ~> \/ p \in rt.timeline \cup silent
                        \/ rt.phase \in {"idle", "error", "disconnected"}
=============================================================================
