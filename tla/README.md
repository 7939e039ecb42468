# A TLA+ model of octoscode-web

octoscode-web is the browser client of the Octos UI protocol. One WebSocket per
authenticated server is pooled; every open Session has a *record* that keeps its
turn controller, its FIFO of prompts, its interactions, its durable cursor and its
timeline, whether the Session is on screen or not. This directory models the parts
that decide whether a prompt runs once, whether a caller gets an answer, whether
what the record shows is what the server has, whether a question that blocks the agent
reaches the user, whether the page comes back after a lost socket, and whether only one
tab drives a Session.

## 1. Inventory

| Part | Source | State | Operations | Modelled by |
|---|---|---|---|---|
| Protocol client | `packages/client/src/client.ts` | current socket, status, pending requests, ring of settled ids | connect, disconnect, request, timers, socket callbacks, handleMessage | `RpcClient` |
| Prompt queue | `features/composer/turn-queue.ts` | active turn, pending prompts, interrupt stash | enqueue, prepend, restore, settle, remove, stash | `PromptQueue` |
| Turn controller | `features/composer/use-turn-controller.ts` | queue, dispatch lease, attempts, recovery, steering, owner | start, steer, interrupt, observe, hydrate, suspend, lookup | `TurnController`, composed in `TurnSystem` |
| Durable projection | `features/session/durable-session.ts` | cursor, snapshot checkpoint, sequence per thread | commitHydrate, observe | `SessionStream` |
| Session runtime | `features/session/active-session-runtime.ts` | authority, generation, binding, recovery operation, recovery buffer | install, suspend, resume, restore, rehydrate, recover, disconnect | `SessionStream`, and its effect on the queue in `TurnSystem` |
| Record manager | `features/session/session-record-manager.ts` | records, history leases, recovery epoch | open, suspendRecords, recoverRecords, close, evict, retire | `SessionStream`, `TurnSystem` (one record) |
| History mutations | `features/history/` | accepted mutation and its lease | acquire, rehydrate, retry, release | `SessionStream` (the lease and its refresh) |
| Interaction ledger | `features/session/session-interaction-ledger.ts` and the record manager's answers | approvals and questions per record, the answer in flight, the error shown | observe, hydrate, resolve, settle, suspend, clear, respond | `InteractionLedger` |
| Server connection | `features/session/lazy-server-runtime.ts`, `active-session-runtime.ts` (unmanaged, server target) | loader and intent of the facade; target, authority, generation, reconnect timer of the runtime | authenticate, disconnect, load, reconnect, scheduleReconnect, status | `ServerRuntime` |
| Tab lock | `features/session/tab-session-lock-core.ts`, `use-tab-session-lock.ts` | per tab: generation, release function, reported state | acquire, takeOver, dispose, lock callback and settlement | `TabLock` |
| Peers | `features/peers/`, `session-peer-coordinator.ts` | controller and peer Sessions | dispatch, adopt | not yet |
| Everything else | UI components, timeline fold, autonomy and fleet projections, connectors, preferences, decoders | display state | | not modelled |

How the parts interact. The client hands every notification of the pooled socket to
all records; a record's runtime keeps the ones of its Session, checks them against the
projection and emits hydrate, notification and ready events; the record manager's
reducer feeds those to the turn controller, which sends starts, steers and interrupts
through the client. When the socket is lost all records are suspended in one
synchronous loop; when it is back each is reopened from its cursor. The page's first
connection (signing in) goes through a facade that loads the runtime lazily and then
forwards the newest intent to it. A Session on screen is guarded by a browser lock, so
that a second tab shows it read-only until the user takes it over.

Where it is hard. Everything runs on one thread, so the hazards sit at the awaits: a
reply is used after the record was suspended, reopened or quarantined; a timer races a
late answer; the event stream and the replies of requests are not ordered with respect
to each other; another client may take the only foreground turn; the server may
drop events, say so, or lose them; a dynamic import may fail or arrive after the user
changed their mind; and the browser answers a lock request long after it was abandoned.
`PROJECT.json` lists the hazards at their lines with the properties that cover them.

## 2. Modules

- `PromptQueue`: the queue's methods as operators on a record. No state of its own.
- `TurnController`: every handler of the controller as an operator from controller to
  controller. A request gate is reduced to the turn that owns it.
- `TurnSystem` extends it with the user, the record's transport and Core. Actions of the
  user (Admit, Submit, Cancel, Stop, SendPendingNow, RetryRecovery, Continue, ...),
  of the client (Dispatch, StartReply, SteerReply, LookupReply, timeouts), of the
  transport (LoseTransport, Reopen, ReopenFails, Gap, GapFails, Hydrated, Observe, Ready)
  and of Core (external).
- `RpcClient`: the client with its sockets; the network, the far end and the socket's
  own state machine are external. Whether the client's endpoint gives a URL at all is
  chosen once, in `Init` (`addressable`), since the options never change; one that does
  not makes every `connect()` fail after "connecting" was reported
  (`ConnectMisaddressed`).
- `SessionStream`: the projection, a managed runtime, its candidates and the record
  manager's loops for one record, with an external server log.
- `InteractionLedger`: the ledger of one record, the answers in flight, the record's
  transport as far as it matters here, and an external Core that asks and resolves.
- `ServerRuntime`: the lazy facade, the unmanaged runtime behind it and the client as
  its contract describes it (external to this module).
- `TabLock`: the lock controllers of several tabs over an external model of Web Locks.
- `ClientContract`: the abstract specification of the protocol client, which
  `ServerRuntime` takes for granted of its transport: one link that dials, comes up,
  fails and goes down; calls begin only while it is connected, end once and for good,
  and none is left waiting when the link goes down. `RpcClient` instantiates
  it with a refinement mapping: `Link` (the status, "down" while there is no socket) and
  `Outcome` (new, waiting or settled, from `pending` and the settlements). The
  abstract specification is the property `KeepsContract`, checked and proved.
- `MC...`: model values, sets and symmetry for TLC.
- `TurnControllerProofs`, `TurnViewProofs`, `TurnSystemProofs`, `RpcClientProofs`,
  `InteractionLedgerProofs`, `ServerRuntimeProofs`, `TabLockProofs`,
  `SessionStreamProofs`: the proofs.

Definitions called a mutant in their comment are deliberately wrong variants of the
definition that follows them; each shows that one property notices one plausible bug.

### Modelling decisions

Turns.
- The commit of a hydrate, the replay of the buffer and the ready event are one
  synchronous stretch in the code: while the link is "draining" nothing else runs.
- Replies are not ordered with the stream: the code loads decoders lazily between a
  reply and its use. Core is modelled from the client's use of it: one foreground turn,
  a typed busy refusal, atomic steering with fallback and return, hydrate and
  `turn/state/get`. It forgets an ended turn only when nothing about it is in flight.
- The await of the driver seat is a preflight stage before the frame is written. A turn
  in preflight may be dispatched while a recovery runs, as lines 357-366 allow.
- Returned steering is matched by identity: two steered texts are never equal.
- Events in flight when a reopen fails are modelled as emitted after it.
- Media, reasoning effort, timeline messages and history leases are left out.

Client.
- A socket is a number in the order of creation; its ready state follows the browser's
  rules (close may be called while connecting or open; no event after the close event).
- The order in which `rejectPending` walks the map is that of the requests.
- Frames that do not parse only emit an error and are left out.

Stream.
- An envelope is its position in the server's log; that is its cursor, and its sequence
  number counts the envelopes of its thread up to it. The timeline is the set of
  positions shown; a hydrate shows all positions up to its snapshot.
- `Canonical` says whether hydrate carries `projection_thread_sequences`. With an older
  server a late live envelope may be folded again, as the comment in `observe` admits,
  so the runs are canonical. `Receipts` are the positions whose envelope is a
  receipt; the first position is one in `stream_recovery`.
- Opening is two steps at the server (open, hydrate) with the stream running between
  them. One candidate is staged at a time.
- A history mutation is its lease and its refresh; what it changes on the server is not
  modelled (the log only grows).
- Left out: notices of other Sessions (filtered before anything else), notices that are
  not envelopes, a change of the cursor's stream id, the displayed recovery detail.
- `RECOVERY_NOTIFICATION_LIMIT` is the constant `Limit`. The staging listener, the
  candidate commit and the recovery buffer use the same limit; that is why the drain of
  a full candidate cannot overflow the recovery it starts and be declared ready by the
  unconditional `#finishRecovery` that follows it.

Interactions.
- Answers are numbered. The code compares the objects it stored to see whether a reply
  still concerns what is shown; the stamp on a shown request says after which answer it
  was stored, which tells those objects apart as far as an answer can.
- Core has at most one open request of each kind: the agent of a turn is blocked by it.
  Every end of an approval is notified. Core sends no notice when a question ends without
  this client's answer, so a question answered elsewhere stays on screen until its turn
  ends or a hydrate comes; ApprovalShownIsOpen therefore speaks of approvals only.
- A replayed terminal carries a cursor and is dropped as stale; requests and resolutions
  carry none and are applied whenever they come.
- Left out: the unread mark (`markRead`) and the decoding of requests.

Server connection.
- Every await is a step: the import, connect, the capabilities request and its
  decoder, the retry.
  Calls are numbered; the number is the intent of the facade and the identity of the
  target object in the runtime.
- The attempt counter and the growing delay are left out (a timer may fire at any time).
- The facade offers authenticate and disconnect only, so the target is always a server.
  The unmanaged runtime with a Session target is reached by its own tests only.

Tab lock.
- A request is a number. The browser runs its callback, possibly long after the tab has
  gone on; its promise is settled in a later step. A stolen lock's promise resolves, as
  the code's comment says, or rejects, as browsers do: both are allowed.
- A tab may be mounted without a Session, switch, take over, and be closed, which makes
  the browser release everything it held or asked for.
- The hook's effect has a cleanup, `dispose()`, only while a Session is on screen
  (`HasCleanup`). A lock granted late, after the tab went to no Session, is therefore
  kept with its release function until a later Session's cleanup calls it, or until
  another callback or `.then` overwrites it and the lock is held for good.

## 3. Runs

| Run | Result | What it asks |
|---|---|---|
| `turns_recovery` | pass | two prompts, a turn of another client, one transport loss, one gap or failed reopen: no turn id is sent twice, no prompt is lost, waiting prompts are startable, the lease names the active turn, client and Core agree when nothing is in flight, no prompt overtakes, the queue never advances over a foreground turn |
| `turns_steering` | pass | two steerable prompts, a foreign turn, one transport loss and its reopen: no text runs twice, none is lost, returned text goes first |
| `turns_liveness` | pass | one steerable prompt and a native review, policy refusals and approvals, one transport loss: FifoDrains and LookupEnds under fairness |
| `rpc_client` | pass | two sockets, three requests, a ring of one: late answers are ignored, old sockets are harmless, the contract is kept; every request and connect settles under fair timers |
| `stream_recovery` | pass | three envelopes on two threads (one a receipt), one each dropped, lost, malformed; one socket loss; one history mutation; a buffer of two: a ready record misses nothing, folds once, in thread order |
| `stream_liveness` | pass | RecoveryEnds and EventuallyShown under fairness |
| `interactions` | pass | one approval and two questions of one turn, one loss, one gap, two answers: the panel is busy only for an answer in flight and of what it shows; what blocks Core is shown; an approval shown is open |
| `tab_lock` | pass | two tabs, two Sessions, three requests: a resting owner holds the lock; a robbed tab finds out, under fairness |
| `server_runtime` | pass | four calls of Connect or Disconnect and three faults: the last call owns socket and timer, an established connection is never stranded and comes back, every Connect is answered |
| `turns_stuck_lookup`, `stream_rehydrate`, `tab_lock_leak` | violation | see section 5 |

Why the bounds are enough. Two prompts are the least that have an order; one foreign
turn is enough to take the slot, and one loss plus one gap already puts every stale
reply next to every newer authority. Two sockets give an old one and its replacement;
a ring of one with three requests evicts. Two envelopes of one thread and one of
another show a gap, a duplicate and an independent thread; a buffer of two fills and
overflows. Two questions are needed for a reply to the first to meet the second; the
second answer is the user's retry. Three lock requests are one by each tab and a second
by either, abandoned or stealing. Four calls let a Connect be overtaken by a Disconnect
and both by another pair, each with a fault at its await. `ReceiptLimit` (256 in the
code) is 8 and never reached: evicting a receipt takes more turns than TLC can follow.
Each mutant is a plausible bug that these bounds do reveal. Symmetry is used for
prompts, threads and questions in safety runs only. The proofs of section 4 remove the
bounds for what they state.

`CHECK_DEADLOCK FALSE` is set everywhere: a client whose user does nothing, and whose
bounds are used up, is at rest.

Fairness. `TurnSystem` and `SessionStream` assume weak fairness of what the browser
runs by itself (queued replies and notifications), of Core answering what it received
or the request timer firing, and of the reconnect loop. `RpcClient` assumes only the
request timer, the connect timer and nothing of the network. `ServerRuntime` assumes it
of the promise continuations of the facade and of the runtime (the event loop runs
them), of an armed timer, of the import settling one way or the other, and of the
network answering one way or the other, which the client's own timers guarantee
(RequestSettles and ConnectSettles of `rpc_client`). `TabLock` assumes it of the
controller's continuations and of the browser granting and settling. Users, faults,
other clients and bounds are free everywhere. `turns_liveness` has no gap recovery,
because finding 1 below is a stuck lookup that needs one; `stream_liveness` has no
history mutation, because finding 2 makes a record deaf.

## 4. Proofs

TLAPS checks these for every value of the constants.

- `TurnSystemProofs`: ten theorems from seven layers of invariants. `TurnControllerProofs`
  shows for each handler what it preserves by itself, `TurnViewProofs` what it preserves
  given what Core and the stream say of the turns; the induction step composes them.
  - `TypeCorrect` and `AtMostOneStart` (a turn id crosses the wire at most once).
    StartedAtMostOnce is not inductive: the controller decides from `attempted` and
    `preflight`, not from what was sent. `SentInv` adds `NotYetSent` (as long as the
    record is not closed, a turn that is not attempted, or is still in preflight, has
    been sent zero times) and `WellFormed` (a start in preflight is attempted; a steer
    in flight has an owner). Handlers keep it (`Keeps`).
  - `KnownInv` adds that Core's registry, its stream and its replies name a local turn
    only once its start was sent, and that a steering text is on its way to Core or
    among its inputs at most once. Without it an event could accept a turn that is
    still in preflight, and the lease would be wrong.
  - `LeaseAgrees` (LeaseIsActive), `WaitingNeverAttempted` (WaitingIsStartable) and
    `RunAtMostOnce` (NeverRunTwice) come from `TurnInv`. Its first part, `Orderly`, is
    about the controller alone: lease, owner, preflight and gate agree with the head of
    the queue; no id is queued twice; text held for steering is held once and is
    neither queued nor attempted. Handlers keep it (`Orders`, `OrdersWith`,
    `Observes`), provided that the turns Core names cannot be sent any more (`Sure`,
    from `KnownInv`). Its other parts relate the controller to Core: a prompt is in one
    place (`OnePlace`), and whatever the controller could still start or steer with is
    unknown to Core and was not run (`StillFresh`, `SteersKnown`).
  - `NothingLost` (NoPromptLost) comes from `LostInv`. That a prompt is held says nothing
    about whether the next handler may drop it: text sent as steering is kept until its
    turn ends, and Core may return it, with an event that precedes the terminal, after
    the controller learnt of the end from a hydrate, a lookup or a later turn. So the
    invariant says what the stream still owes. `CoreInvariant` is about Core alone: one
    foreground turn, a terminal is the last event of its turn, text is returned once and
    neither while it is on its way nor after it ran. `View` sums up what Core and the
    stream say of the turns (known, ended, nothing more to come, only events from before
    the hydrate, no input left to return, whose events precede whose). `Tended` says of
    the controller, given such a view, that whichever turn it could settle next, steers
    that are still owed something survive. `Cared` and `KeptIsReturned` tie retained text
    to what Core holds or returns, `Aimed` to the steer in flight, `FellBackLast` and
    `SnapSteers` are about a fallback reply and a hydrate reply still to be taken. A
    retired record holds nothing and hears nothing (`Shut`). In `TurnViewProofs`
    every handler keeps `Tended` and has a `Spares` lemma that names what it lets go;
    here every action shows that those turns ran, are somewhere else, or are owed
    nothing, and that the view only grows.
  - `NothingOvertakes` (NoOvertaking) and `ReturnedTextFirst` (ReturnedTextGoesFirst)
    are action properties: a start frame carries the head of the queue. What they need
    is the order of everything else, `OrderInv`: of two prompts that were never sent,
    the one admitted first is not behind the other, and returned steering text is behind
    no prompt of the FIFO (`InOrder`); an admitted prompt that was never sent is queued
    or was let go, and no prompt is both admitted and steering text (`Places`); an empty
    head has nothing behind it (`Packed`). Prompts that were sent are left out on
    purpose: an adopted foreground turn or an accepted start may displace an earlier
    prompt. In `TurnViewProofs` every handler has a `Shifts` lemma that names the
    turns it may move ahead and those it may take out of the queue; here every action
    shows that the former were sent or are returned text.
  - `ForegroundComesFirst` (NeverAdvancesOverForeground) is an action property too. The
    code has no test "is hydrate's foreground turn live" where it starts a turn: what
    keeps it from starting one is that the head of the queue is not startable then.
    `ForegroundInv` says so: while that turn is live and the user did not let it go, the
    head was sent already, or a recovery holds it (`Barred`). A recovery outlives the
    head it was begun for when that prompt's start collided with another turn
    (finding 1), so the invariant allows one that names a prompt Core does not know and
    will not hear of (`NeverTurns`), and a start in progress beside it only for the turn
    in recovery or one that Core knows. In `TurnViewProofs` every handler has a `Bars` lemma;
    here every action shows that the turns it is told of are known to Core, and that
    Core and the client do not make a turn known that was taken for unknown, but by
    sending it, when it holds the queue itself.
  - `AgreesAtRest` (QuiescentAgreement) says that the queue never waits for a terminal
    that will not come. `AgreeInv` says it of every state: a turn of this client at the
    head of the queue runs in Core, or its terminal is still in the stream, or its start
    is leased, or its outcome is being recovered (`HeadAgrees`); the turn that hydrate
    reported runs, and the turn that refused the start in progress runs or left a
    receipt (`RefusalAgrees`). From the moment the stream is cut, or a gap is seen, until
    a hydrate commits, any turn may run as far as the client can tell (`RunningTurns`);
    the hydrate that ends this is still right when it is taken, because what ended since
    it was answered has its terminal behind it in the buffer (`SnapFresh`). In
    `TurnViewProofs` every handler keeps `Agrees`; here every action shows that
    what Core stops running is announced (`Tells`), and that Core and the stream are
    silent about the turns that were never sent. The theorem assumes
    `EveryReceiptKept`: there are no more turns than `ReceiptLimit` (256 in the code).
    The assumption is needed: the controller recognises a refusal by a turn that already
    ended only by that turn's receipt, and the ring of receipts forgets the oldest. With the
    constants of `turns_recovery` and a `ReceiptLimit` of 1, TLC finds such a state.
- `RpcClientProofs`: `ClientTypeCorrect`, `RequestSettledAtMostOnce`,
  `NoRequestLeftBehind`, `StatusIsCurrent`, `FramesOnlyOnOpened` and the action property
  `OldSocketsAreHarmless`, all from one inductive invariant `IInv`. Its strengthenings
  are `CurrentPhase` (status, ready state and connect attempt of the current socket
  agree, and only a client without an address says "connecting" without a socket),
  `OnlyOnResolved` (requests and answers only exist on sockets that opened) and
  `SettlesFresh` (a pending request, or one not made yet, is unsettled).
  `ClientKeepsContract` is the refinement: `Init` implies the contract's initial states
  under the mapping, and every step of the client is a step of the contract or leaves
  what it speaks of alone; `IInv` supplies the facts about the current socket.
  `LateAnswersAreIgnored` has an invariant of its own, `LateInv`: the ring holds exactly
  the ids given up last, a request travels once, and whatever the current socket may
  still answer waits, is quarantined, or was given up so long ago that the ring has
  rightly dropped it.
- `InteractionLedgerProofs`: `LedgerTypeCorrect`, `BusyWaitsForAnswer`,
  `AnswerIsForShown`, `ErrorIsOfShown` from `PanelInv` (types; every answer in flight is
  numbered below the next one; what the panel waits for is on screen as it was stored
  when the answer was sent), and `OpenRequestIsShown`, `ShownApprovalIsOpen` from
  `StreamInv`. The last two speak of a record at rest and are not inductive; `StreamInv`
  says for every state what they say at rest: what the client does not know yet is on
  its way, in the stream or in a snapshot, in an order whose last word is right.
- `ServerRuntimeProofs`: `RuntimeTypeCorrect`, `LastCallOwnsSocket`,
  `EstablishedIsServed`, `AuthenticatedHasSocket`, from `IInv`: the types, `Ownership`
  (authority, target and timer belong to the newest call the runtime has been told of),
  `Attempt` (what a continuation between two awaits still holds), `NeverStranded` and
  `AuthenticatedIsUp`, which are needed together.
- `TabLockProofs`: `TabTypeCorrect`, `OwnerReallyHolds`, `TabsExclude`. A tab that calls
  itself owner is not enough for the induction; `Grants` adds that a granted request
  whose promise is pending holds its lock, and `Owners` that a tab owns only through
  the request of its present generation. Exclusion follows: a lock has one holder.
- `SessionStreamProofs`: `StreamTypeCorrect`, `ReadyOnlyWhenSettled`, `NothingMissed`,
  `NeverFoldedTwice` and `NoHoleInThread`, from `StreamInv`. A ready record that misses
  nothing is the end of a long chain, so the invariant says of every stage what it
  already has: the record's projection (`Sound`), its buffer (`Resting`), the candidate
  of a recovery (`CandidateComplete`), the calls and their continuations (`Operations`,
  `CallsComplete`), the socket (`Shape`, `Link`) and the ready record
  (`ReadyComplete`). `Canon`, for canonical snapshots, relates the thread sequences to
  the timeline; FoldedOnce and ThreadsContiguous are stated for those. The replay of
  the buffer is a recursive function on the number of envelopes taken; what it
  preserves is shown step by step, by contradiction with the least step that fails
  (well-foundedness of the naturals), since induction over data is not available.
- `TurnControllerProofs` also has the lemmas about the queue operators: types, which ids
  they leave in the queue, and which of two prompts may be ahead of the other.

Assumptions are the named ASSUMEs of the modules (natural bounds, disjoint prompt
sets, a queue sentinel that is not a turn); TLC evaluates them in every run.

Only model-checked: all liveness (`FifoDrains`, `LookupEnds`, `RequestSettles`,
`ConnectSettles`, `RecoveryEnds`, `EventuallyShown`, `LossIsSeen`, `Reconnects`,
`ConnectIsAnswered`), because fairness and ENABLED are outside the prover. Every
invariant and every safety action property that a passing run checks is proved, the one
hypothesis being `EveryReceiptKept` of `AgreesAtRest`; every run satisfies it.

## 5. Findings

1. `turns_stuck_lookup`: a gap hydrate that omits a turn whose start is in flight begins
   a lookup on it; the busy refusal then settles that turn without clearing the lookup,
   whose answer is dropped. Neither Retry nor Continue is offered.
2. `stream_rehydrate`: a record quarantined while a history mutation holds its lease
   becomes ready through the refresh, with no binding: it shows ready and hears nothing.
   The passing stream properties therefore speak of records that are ready *and*
   listening.
3. `tab_lock_leak`: a tab that leaves a Session before its lock callback ran takes the
   lock all the same, when its cleanup is over; coming back, it reports that
   another tab holds the Session, and it is itself that tab. Take over repairs it. Going
   to no Session first does not help: that state of the hook has no cleanup.

Further behaviours met while modelling, which no run singles out:
- A `turn/started` replayed after a hydrate that already saw its turn end is adopted
  (`use-turn-controller.ts:906`), and no terminal is left to release the queue.
- An interrupted turn whose end is learnt from hydrate leaves the queue without its
  prompt being given back to the composer (`use-turn-controller.ts:1303`); the same turn
  ended by its terminal does give it back.
- A receipt covered by hydrate is discarded as stale before it can take part in
  ordering; with a server that sends no thread sequences the thread's next lost
  envelope would go unnoticed.
- A question answered from another client stays on screen until its turn ends.
- `connect()` reports "connecting" before it builds its URL, outside the `try`
  (`client.ts:386-394`): a client whose endpoint is not a URL, or not http, https, ws or
  wss, stays "connecting" with no socket until someone calls `disconnect()`.

## 6. Not modelled

The models cover the state machines of the client and not its surface, a few per cent
of the repository's lines. The largest parts have no protocol state a model could say
something about: the React components and pages (`App.tsx`, the sidebar, settings and
model forms), the translations, the mock server script of the tests, the wire decoders
(shape checks of parsed JSON), the display projections of autonomy, supervision, fleet
and timeline, and formatting. Their lines are not mapped, and mapping them to the
present definitions would be untrue.

Parts with state that are left for later: several records on one socket with selection
and overlapping candidates (`use-octos-session.ts:3116`), the peer coordinator, the
connector OAuth flow, uploads, and the forwarding facade of the record manager.
`background-turn-manager` is used by its own tests only.

## 7. Plan

1. `SessionRecords`: several records on one socket, selection, leases across a
   workspace, overlapping candidates; a run of `SessionStream` for older servers.
2. The peer coordinator, then connector OAuth.
3. Abstract specifications: an at-most-once FIFO of prompts implemented by `TurnSystem`;
   a session view (a prefix of the log, or not ready) implemented by `SessionStream`.
4. Proofs: the refinements that item 3 will state.
