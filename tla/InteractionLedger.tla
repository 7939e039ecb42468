------------------------- MODULE InteractionLedger -------------------------
(***************************************************************************)
(* The pending approvals and questions of one retained Session: class      *)
(* SessionInteractionLedger (session-interaction-ledger.ts), driven by the *)
(* record's reducer (session-record-manager.ts) and answered by the user.  *)
(*                                                                         *)
(* Answers are numbered as the user gives them.  #operation is read only   *)
(* to ask whether anything happened since an answer was sent, so here it   *)
(* is the number of that answer, or 0 once it was invalidated.  Records    *)
(* are compared by object identity in the code; here the stamp says after  *)
(* which answer an object was stored, so that an answer and an error tell  *)
(* their own object from every later one.                                  *)
(*                                                                         *)
(* Core, the transport and the decoding of notifications are external.     *)
(* Core has at most one open request of a kind per Session.  Every end of  *)
(* an approval is notified; a question only ends with its turn or with its *)
(* answer.  The terminal of a turn is a durable envelope, which a replay   *)
(* after a hydrate discards; requests and resolutions carry no cursor.     *)
(***************************************************************************)
EXTENDS Integers, Sequences

CONSTANTS
    Approvals,    \* approval requests Core may make
    Questions,    \* user questions Core may ask
    Turns,        \* turns they belong to
    TurnOf,       \* the turn of every request
    MaxLosses,    \* bound: socket losses
    MaxGaps,      \* bound: recoveries on the live authority and failed reopens
    MaxAnswers    \* bound: answers the user gives

Ids == Approvals \cup Questions

ASSUME LedgerAssumption ==
    /\ Approvals \cap Questions = {}
    /\ TurnOf \in [Ids -> Turns]
    /\ MaxLosses \in Nat
    /\ MaxGaps \in Nat
    /\ MaxAnswers \in Nat

VARIABLES
    records,     \* #records
    operation,   \* #operation: the answer that owns the ledger, or 0
    answers,     \* answers the user gave so far
    busy,        \* #busy
    error,       \* the record whose failure #error describes, or NoRecord
    calls,       \* resolve() calls that await their RPC
    generation,  \* the generation of the record's current authority
    link,        \* the record's runtime, as module TurnSystem names its phases
    \* external: Core and the stream to this client
    srv,         \* every request in Core
    ended,       \* turns that ended
    wire,        \* answers on their way to Core
    notes,       \* notifications on their way, in order
    snap,        \* the hydrate in flight: asked for, or what it says is pending
    buffered,    \* notifications older than the hydrate, not yet replayed
    bounds       \* what is left of the bounds

ledger == <<records, operation, answers, busy, error, calls>>
core == <<srv, ended, wire>>
stream == <<notes, snap, buffered>>
vars == <<ledger, generation, link, core, stream, bounds>>

NoRecord == [id |-> "none", generation |-> 0, stamp |-> 0]
NoSnap == [kind |-> "none", pending |-> {}]

SameKind(i, j) == {i, j} \subseteq Approvals \/ {i, j} \subseteq Questions
Shown == {r.id : r \in records}
Links == {"down", "opening", "faulted", "recovering", "draining", "ready", "deaf", "closed"}

Init ==
    /\ records = {}
    /\ operation = 0
    /\ answers = 0
    /\ busy = FALSE
    /\ error = NoRecord
    /\ calls = {}
    /\ generation = 0
    /\ link = "down"
    /\ srv = [i \in Ids |-> "new"]
    /\ ended = {}
    /\ wire = {}
    /\ notes = <<>>
    /\ snap = NoSnap
    /\ buffered = 0
    /\ bounds = [losses |-> MaxLosses, gaps |-> MaxGaps]
-----------------------------------------------------------------------------
(* The ledger: operators from ledger states to ledger states *)

Ledger == [records |-> records, operation |-> operation, busy |-> busy, error |-> error]

Becomes(l) ==
    /\ records' = l.records
    /\ operation' = l.operation
    /\ busy' = l.busy
    /\ error' = l.error
    /\ UNCHANGED answers

\* Mutant: the guard of the next answer is not released.
InvalidateKeepsBusy(l) == [l EXCEPT !.operation = 0, !.error = NoRecord]

\* #invalidate
Invalidate(l) == [l EXCEPT !.operation = 0, !.busy = FALSE, !.error = NoRecord]

\* "Replayed observations of the same tuple cannot cancel its response."
Replayed(l, i, gen) == \E r \in l.records : r.id = i /\ r.generation = gen

\* Mutant: the answer to the superseded request keeps the panel.
StoreUninvalidated(l, i, gen) ==
    IF Replayed(l, i, gen) THEN l
    ELSE [l EXCEPT !.records = {r \in @ : ~SameKind(r.id, i)}
                     \cup {[id |-> i, generation |-> gen, stamp |-> answers]}]

\* #store: a newer request of the same kind supersedes the older one.
Store(l, i, gen) ==
    IF Replayed(l, i, gen) THEN l
    ELSE [Invalidate(l) EXCEPT
            !.records = {r \in @ : ~SameKind(r.id, i)}
                        \cup {[id |-> i, generation |-> gen, stamp |-> answers]}]

\* #observeNotification of approval/decided, auto_resolved or cancelled.
ResolveNotified(l, i, gen) ==
    IF Replayed(l, i, gen)
    THEN Invalidate([l EXCEPT !.records = {r \in @ : r.id # i}])
    ELSE l

\* settleTurn
SettleTurn(l, t) ==
    IF \E r \in l.records : TurnOf[r.id] = t
    THEN Invalidate([l EXCEPT !.records = {r \in @ : TurnOf[r.id] # t}])
    ELSE l

\* What #store leaves of a list of pending requests: the last one of each kind,
\* in whichever order the server lists them.
LastOfEachKind(pending) ==
    {S \in SUBSET pending :
        /\ \A i, j \in S : SameKind(i, j) => i = j
        /\ \A i \in pending : \E j \in S : SameKind(i, j)}

\* Mutant: what is on screen stays there.
RestoreFromHydrateMerges(l, gen, last) ==
    [Invalidate(l) EXCEPT
        !.records = @ \cup {[id |-> i, generation |-> gen, stamp |-> answers] : i \in last}]

\* restoreFromHydrate: the hydrate replaces everything.
RestoreFromHydrate(l, gen, last) ==
    [Invalidate(l) EXCEPT
        !.records = {[id |-> i, generation |-> gen, stamp |-> answers] : i \in last}]

Clear(l) == [Invalidate(l) EXCEPT !.records = {}]
-----------------------------------------------------------------------------
(* The user *)

\* authorityFor: a current authority whose runtime is ready.
Authorized(r) == link = "ready" /\ r.generation = generation

\* respondApproval, respondQuestion and the part of resolve before its await.
Respond(r) ==
    /\ link # "closed"
    /\ r \in records
    /\ ~busy
    /\ answers < MaxAnswers
    /\ answers' = answers + 1
    /\ IF Authorized(r)
       THEN /\ operation' = answers'
            /\ busy' = TRUE
            /\ error' = NoRecord
            /\ calls' = calls \cup {[rec |-> r, op |-> answers',
                                     result |-> "none"]}
            /\ wire' = wire \cup {[id |-> r.id, op |-> answers']}
       ELSE /\ error' = r
            /\ UNCHANGED <<operation, busy, calls, wire>>
    /\ UNCHANGED <<records, generation, link, srv, ended, stream, bounds>>

\* retireAll, evict and closeRetainedRecord.
Close ==
    /\ link # "closed"
    /\ link' = "closed"
    /\ Becomes(Clear(Ledger))
    /\ notes' = <<>> /\ snap' = NoSnap /\ buffered' = 0
    /\ UNCHANGED <<calls, generation, core, bounds>>

User == (\E r \in records : Respond(r)) \/ Close
-----------------------------------------------------------------------------
(* The end of a resolve() call *)

\* isCurrent: the same operation, the same object, the same authority, ready.
IsCurrent(c) ==
    /\ operation = c.op
    /\ c.rec \in records
    /\ link = "ready"
    /\ generation = c.rec.generation

Finally(c) == IF operation = c.op THEN FALSE ELSE busy

\* Mutant: the request leaves the screen whether or not it was answered.
ReplyAlwaysDeletes(c) ==
    /\ c.result # "none"
    /\ calls' = calls \ {c}
    /\ records' = IF IsCurrent(c) THEN {r \in records : r.id # c.rec.id} ELSE records
    /\ busy' = Finally(c)
    /\ UNCHANGED <<operation, answers, error, generation, link, core, stream, bounds>>

Reply(c) ==
    /\ c.result # "none"
    /\ calls' = calls \ {c}
    /\ records' = IF IsCurrent(c) /\ c.result = "accepted"
                  THEN {r \in records : r.id # c.rec.id} ELSE records
    /\ error' = IF IsCurrent(c) /\ c.result # "accepted" THEN c.rec ELSE error
    /\ busy' = Finally(c)
    /\ UNCHANGED <<operation, answers, generation, link, core, stream, bounds>>

\* The request timer gives up on an answer.
ReplyTimeout(c) ==
    /\ c.result = "none"
    /\ calls' = (calls \ {c}) \cup {[c EXCEPT !.result = "failed"]}
    /\ UNCHANGED <<records, operation, answers, busy, error, generation, link,
                   core, stream, bounds>>

Completions == \E c \in calls : Reply(c) \/ ReplyTimeout(c)
-----------------------------------------------------------------------------
(* The record's transport, and the reducer's calls *)

CutStream == notes' = <<>> /\ snap' = NoSnap /\ buffered' = 0

\* suspendRecords: the socket is lost and its calls reject.
LoseTransport ==
    /\ link \notin {"down", "closed"}
    /\ bounds.losses > 0
    /\ bounds' = [bounds EXCEPT !.losses = @ - 1]
    /\ link' = "down"
    /\ Becomes(Invalidate(Ledger))
    /\ calls' = {[c EXCEPT !.result = IF @ = "none" THEN "failed" ELSE @] : c \in calls}
    /\ CutStream
    /\ UNCHANGED <<generation, core>>

\* recoverRecords: suspend again, then open and hydrate a candidate.
Reopen ==
    /\ link \in {"down", "faulted", "deaf"}
    /\ link' = "opening"
    /\ Becomes(Invalidate(Ledger))
    /\ CutStream
    /\ UNCHANGED <<calls, generation, core, bounds>>

\* restoreSuspendedSession: a new authority on the old identity, not ready.
ReopenFails ==
    /\ link = "opening"
    /\ generation > 0
    /\ bounds.gaps > 0
    /\ bounds' = [bounds EXCEPT !.gaps = @ - 1]
    /\ link' = "faulted"
    /\ generation' = generation + 1
    /\ CutStream
    /\ UNCHANGED <<ledger, core>>

\* Events were dropped and the server says so: hydrate on the live authority.
Gap ==
    /\ link \in {"ready", "faulted", "draining"}
    /\ bounds.gaps > 0
    /\ bounds' = [bounds EXCEPT !.gaps = @ - 1]
    /\ link' = "recovering"
    /\ CutStream
    /\ UNCHANGED <<ledger, generation, core>>

\* #failCurrent of a managed runtime.
GapFails ==
    /\ link = "recovering"
    /\ link' = "deaf"
    /\ CutStream
    /\ UNCHANGED <<ledger, generation, core, bounds>>

AnswerHydrate ==
    /\ link \in {"opening", "recovering"}
    /\ snap = NoSnap
    /\ snap' = [kind |-> "answer", pending |-> {i \in Ids : srv[i] = "open"}]
    /\ buffered' = Len(notes)
    /\ UNCHANGED <<ledger, generation, link, core, notes, bounds>>

\* session-hydrate: a candidate brings a new authority, a recovery keeps it.
Hydrated ==
    /\ snap # NoSnap
    /\ generation' = IF link = "opening" THEN generation + 1 ELSE generation
    /\ link' = "draining"
    /\ \E last \in LastOfEachKind(snap.pending) :
          Becomes(RestoreFromHydrate(Ledger, generation', last))
    /\ snap' = NoSnap
    /\ UNCHANGED <<calls, core, notes, buffered, bounds>>

Ready ==
    /\ link = "draining"
    /\ buffered = 0
    /\ link' = "ready"
    /\ UNCHANGED <<ledger, generation, core, stream, bounds>>

\* A notification, live or replayed.  A replayed terminal is stale.
Observe ==
    /\ link \in {"draining", "ready", "faulted"}
    /\ notes # <<>>
    /\ LET n == Head(notes)
       IN  \/ n.kind = "requested" /\ Becomes(Store(Ledger, n.id, generation))
           \/ n.kind = "resolved" /\ Becomes(ResolveNotified(Ledger, n.id, generation))
           \/ n.kind = "terminal" /\ Becomes(IF buffered = 0 THEN SettleTurn(Ledger, n.turn)
                                            ELSE Ledger)
    /\ notes' = Tail(notes)
    /\ buffered' = IF buffered = 0 THEN 0 ELSE buffered - 1
    /\ UNCHANGED <<calls, generation, link, core, snap, bounds>>

\* onRecoveredTerminal: a lifecycle lookup proved the turn terminal.
RecoveredTerminal(t) ==
    /\ link \in {"ready", "faulted", "recovering"}
    /\ t \in ended
    /\ \E r \in records : TurnOf[r.id] = t
    /\ Becomes(SettleTurn(Ledger, t))
    /\ UNCHANGED <<calls, generation, link, core, stream, bounds>>

Transport ==
    \/ LoseTransport \/ Reopen \/ ReopenFails \/ Gap \/ GapFails
    \/ AnswerHydrate \/ Hydrated \/ Ready \/ Observe
    \/ \E t \in Turns : RecoveredTerminal(t)
-----------------------------------------------------------------------------
(* Core *)

Heard == link \notin {"down", "closed", "deaf"}
Emit(ns) == notes' = IF Heard THEN notes \o ns ELSE notes
Resolutions(S) ==
    IF S \cap Approvals = {} THEN <<>>
    ELSE <<[kind |-> "resolved", id |-> CHOOSE i \in S \cap Approvals : TRUE]>>

CoreAsks(i) ==
    /\ srv[i] = "new"
    /\ TurnOf[i] \notin ended
    /\ \A j \in Ids : SameKind(i, j) => srv[j] # "open"
    /\ srv' = [srv EXCEPT ![i] = "open"]
    /\ Emit(<<[kind |-> "requested", id |-> i]>>)
    /\ UNCHANGED <<ledger, generation, link, ended, wire, snap, buffered, bounds>>

\* The first answer decides; the caller hears the outcome if it still listens.
CoreAnswered(m) ==
    LET accepted == srv[m.id] = "open"
    IN  /\ wire' = wire \ {m}
        /\ srv' = [srv EXCEPT ![m.id] = IF accepted THEN "closed" ELSE @]
        /\ calls' = {IF c.op = m.op /\ c.result = "none"
                     THEN [c EXCEPT !.result = IF accepted THEN "accepted" ELSE "rejected"]
                     ELSE c : c \in calls}
        /\ Emit(IF accepted THEN Resolutions({m.id}) ELSE <<>>)
        /\ UNCHANGED <<records, operation, answers, busy, error, generation, link,
                       ended, snap, buffered, bounds>>

AnswerLost(m) ==
    /\ \A c \in calls : c.op = m.op => c.result # "none"
    /\ wire' = wire \ {m}
    /\ UNCHANGED <<ledger, generation, link, srv, ended, stream, bounds>>

\* Another client answers, or Core decides by itself.
CoreResolves(i) ==
    /\ srv[i] = "open"
    /\ srv' = [srv EXCEPT ![i] = "closed"]
    /\ Emit(Resolutions({i}))
    /\ UNCHANGED <<ledger, generation, link, ended, wire, snap, buffered, bounds>>

TurnEnds(t) ==
    LET open == {i \in Ids : srv[i] = "open" /\ TurnOf[i] = t}
    IN  /\ t \notin ended
        /\ ended' = ended \cup {t}
        /\ srv' = [i \in Ids |-> IF i \in open THEN "closed" ELSE srv[i]]
        /\ Emit(Resolutions(open) \o <<[kind |-> "terminal", turn |-> t]>>)
        /\ UNCHANGED <<ledger, generation, link, wire, snap, buffered, bounds>>

\* Once the record is closed, what Core does with the Session is not followed.
Core ==
    /\ link # "closed"
    /\ \/ \E i \in Ids : CoreAsks(i) \/ CoreResolves(i)
       \/ \E m \in wire : CoreAnswered(m) \/ AnswerLost(m)
       \/ \E t \in Turns : TurnEnds(t)
-----------------------------------------------------------------------------
Next == User \/ Completions \/ Transport \/ Core

Spec == Init /\ [][Next]_vars
-----------------------------------------------------------------------------
Notes == [kind : {"requested", "resolved"}, id : Ids] \cup [kind : {"terminal"}, turn : Turns]
Records == [id : Ids, generation : Nat, stamp : Nat]

\* respondApproval and respondQuestion take the first record of their kind for
\* the one the user sees: there is never a second.
OnePerKind == \A r, q \in records : SameKind(r.id, q.id) => r = q

\* The shape of the state, with at most one pending record of each kind.
TypeOK ==
    /\ records \subseteq Records /\ OnePerKind
    /\ operation \in Nat
    /\ answers \in Nat
    /\ busy \in BOOLEAN
    /\ error \in Records \cup {NoRecord}
    /\ calls \subseteq [rec : Records, op : Nat,
                        result : {"none", "accepted", "rejected", "failed"}]
    /\ generation \in Nat
    /\ link \in Links
    /\ srv \in [Ids -> {"new", "open", "closed"}]
    /\ ended \subseteq Turns
    /\ wire \subseteq [id : Ids, op : Nat]
    /\ notes \in Seq(Notes)
    /\ snap \in [kind : {"none", "answer"}, pending : SUBSET Ids]
    /\ buffered \in Nat
    /\ bounds \in [losses : Nat, gaps : Nat]

\* The panel is busy only while the answer it waits for is really in flight: no
\* suspend, hydrate, supersession or late reply of an older answer leaves the
\* buttons disabled with nothing that could enable them again.
BusyIsInFlight == busy => \E c \in calls : c.op = operation

\* What the user is answering is what was on screen when the answer was sent: as
\* long as the panel waits for it, no other request of that kind replaces it.
BusyAnswersShown ==
    busy => \A c \in calls : c.op = operation => c.rec \in records

\* Nothing is on its way between Core and a ready record.
Settled == link = "ready" /\ notes = <<>>

\* "the first interaction is never missed": at rest a request that blocks its turn
\* in Core is on screen, whatever was lost, replayed or hydrated before.
OpenIsShown == Settled => \A i \in Ids : srv[i] = "open" => i \in Shown

\* At rest an approval on screen is still open in Core: one that was answered
\* here, by another client or by Core itself, or whose turn ended, has left.
ApprovalShownIsOpen ==
    Settled => \A i \in Approvals : i \in Shown => srv[i] = "open"
=============================================================================
