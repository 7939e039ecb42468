---------------------- MODULE InteractionLedgerProofs ----------------------
(***************************************************************************)
(* What is proved of the interaction ledger, for any requests, turns and   *)
(* bounds: its types, the panel's relation to the answer in flight, and    *)
(* that at rest the screen and Core agree.                                 *)
(*                                                                         *)
(* The invariant has two halves.  Panel ties #busy, #operation, #error and *)
(* the calls in flight together; it does not look at the stream.  The      *)
(* stream half says, for every request, that what the client does not know *)
(* about it yet is still on its way, in an order that makes the last word  *)
(* the right one.                                                          *)
(***************************************************************************)
EXTENDS InteractionLedger, TLAPS

\* No answer is awaited twice, and none has a number from the future.
Answers ==
    /\ \A c \in calls : c.op \in 1..answers
    /\ \A m \in wire : m.op \in 1..answers
    /\ \A c, d \in calls : c.op = d.op => c = d
    /\ \A c \in calls, m \in wire : c.op = m.op => c.rec.id = m.id

\* An error is shown with the very request that failed: it never outlives that
\* request and is never shown for the one that superseded it.
ErrorHasRecord == error # NoRecord => error \in records

Panel ==
    /\ BusyIsInFlight
    /\ BusyAnswersShown
    /\ \A c \in calls : c.op = operation => busy
    /\ busy => error = NoRecord
    /\ ErrorHasRecord

IsReq(n, i) == n.kind = "requested" /\ n.id = i
IsRes(n, i) == n.kind = "resolved" /\ n.id = i
ReqComing(i) == \E k \in 1..Len(notes) : IsReq(notes[k], i)
ResComing(i) == \E k \in 1..Len(notes) : IsRes(notes[k], i)

\* What Core's state says about the notifications on their way.
Truth ==
    /\ \A i, j \in Ids : SameKind(i, j) /\ srv[i] = "open" /\ srv[j] = "open" => i = j
    /\ \A i \in Ids : srv[i] = "open" => TurnOf[i] \notin ended
    /\ \A c \in calls : c.result = "accepted" => srv[c.rec.id] = "closed"
    /\ \A k \in 1..Len(notes) :
          /\ notes[k].kind = "resolved" => srv[notes[k].id] = "closed"
          /\ notes[k].kind = "terminal" => notes[k].turn \in ended
    /\ ~Heard => notes = <<>>

\* A request on its way is superseded by an open one only in the right order, and
\* an approval that is no longer open is resolved after it was requested.
Order ==
    /\ \A i \in Ids, j \in Ids, k \in 1..Len(notes) :
          srv[i] = "open" /\ SameKind(i, j) /\ IsReq(notes[k], j)
            => i = j \/ \E m \in (k + 1)..Len(notes) : IsReq(notes[m], i)
    /\ \A i \in Approvals, k \in 1..Len(notes) :
          IsReq(notes[k], i) => srv[i] = "open" \/ \E m \in (k + 1)..Len(notes) : IsRes(notes[m], i)

Snapshot ==
    snap # NoSnap =>
        /\ link \in {"opening", "recovering"}
        /\ \A i, j \in snap.pending : SameKind(i, j) => i = j
        /\ \A i \in Ids : srv[i] = "open" => i \in snap.pending \/ ReqComing(i)
        /\ \A i \in Approvals : i \in snap.pending => srv[i] = "open" \/ ResComing(i)

Screen ==
    link \in {"draining", "ready"} =>
        /\ \A r \in records : r.generation = generation
        /\ \A i \in Ids : srv[i] = "open" => i \in Shown \/ ReqComing(i)
        /\ \A i \in Approvals : i \in Shown => srv[i] = "open" \/ ResComing(i)

PanelInv == TypeOK /\ Answers /\ Panel
StreamInv == Truth /\ Order /\ Snapshot /\ Screen
-----------------------------------------------------------------------------
(* What the ledger's operators do to the ledger *)

\* The ledger is invalidated and then shows the records S.
Quiet(S) ==
    /\ records' = S
    /\ operation' = 0
    /\ busy' = FALSE
    /\ error' = NoRecord
    /\ answers' = answers

Kept == UNCHANGED <<records, operation, busy, error, answers>>

Fresh(i, gen) == [id |-> i, generation |-> gen, stamp |-> answers]
Stored(i, gen) == {r \in records : ~SameKind(r.id, i)} \cup {Fresh(i, gen)}
Restored(last, gen) == {Fresh(i, gen) : i \in last}

\* suspendTransport: nothing but the records survives #invalidate.
LEMMA InvalidateEffect == Becomes(Invalidate(Ledger)) => Quiet(records)
  BY DEF Becomes, Invalidate, Ledger, Quiet

\* clear: nothing survives.
LEMMA ClearEffect == Becomes(Clear(Ledger)) => Quiet({})
  BY DEF Becomes, Clear, Invalidate, Ledger, Quiet

\* #store: a replay changes nothing, a new request takes the place of its kind.
LEMMA StoreEffect ==
  ASSUME NEW i, NEW gen, Becomes(Store(Ledger, i, gen))
  PROVE  \/ Kept /\ \E r \in records : r.id = i /\ r.generation = gen
         \/ Quiet(Stored(i, gen))
  <1>1. CASE Replayed(Ledger, i, gen)
    BY <1>1 DEF Becomes, Store, Replayed, Ledger, Kept
  <1>2. CASE ~Replayed(Ledger, i, gen)
    BY <1>2 DEF Becomes, Store, Invalidate, Ledger, Quiet, Stored, Fresh
  <1> QED BY <1>1, <1>2

\* #observeNotification: a resolution removes its own approval.
LEMMA ResolveEffect ==
  ASSUME NEW i, NEW gen, Becomes(ResolveNotified(Ledger, i, gen))
  PROVE  \/ Kept /\ ~\E r \in records : r.id = i /\ r.generation = gen
         \/ Quiet({r \in records : r.id # i})
  <1>1. CASE Replayed(Ledger, i, gen)
    BY <1>1 DEF Becomes, ResolveNotified, Invalidate, Ledger, Quiet
  <1>2. CASE ~Replayed(Ledger, i, gen)
    BY <1>2 DEF Becomes, ResolveNotified, Replayed, Ledger, Kept
  <1> QED BY <1>1, <1>2

\* settleTurn: the requests of the turn leave.
LEMMA SettleEffect ==
  ASSUME NEW t, Becomes(SettleTurn(Ledger, t))
  PROVE  Kept \/ Quiet({r \in records : TurnOf[r.id] # t})
  <1>1. CASE \E r \in Ledger.records : TurnOf[r.id] = t
    BY <1>1 DEF Becomes, SettleTurn, Invalidate, Ledger, Quiet
  <1>2. CASE ~\E r \in Ledger.records : TurnOf[r.id] = t
    BY <1>2 DEF Becomes, SettleTurn, Ledger, Kept
  <1> QED BY <1>1, <1>2

\* restoreFromHydrate: what the hydrate lists, and nothing else.
LEMMA RestoreEffect ==
  ASSUME NEW gen, NEW last, Becomes(RestoreFromHydrate(Ledger, gen, last))
  PROVE  Quiet(Restored(last, gen))
  BY DEF Becomes, RestoreFromHydrate, Invalidate, Ledger, Quiet, Restored, Fresh

\* Becomes with the ledger itself changes nothing.
LEMMA KeepEffect == Becomes(Ledger) => Kept
  BY DEF Becomes, Ledger, Kept
-----------------------------------------------------------------------------
(* Types *)

\* What a step does to the records keeps their type and one of each kind.
LEMMA QuietTyped ==
  ASSUME TypeOK, NEW S, Quiet(S), S \subseteq Records,
         \A r, q \in S : SameKind(r.id, q.id) => r = q
  PROVE  /\ records' \subseteq Records /\ OnePerKind'
         /\ operation' \in Nat /\ answers' \in Nat /\ busy' \in BOOLEAN
         /\ error' \in Records \cup {NoRecord}
  BY DEF TypeOK, Quiet, OnePerKind

\* A smaller set of records is fine.
LEMMA SubsetTyped ==
  ASSUME TypeOK, NEW S, S \subseteq records
  PROVE  S \subseteq Records /\ \A r, q \in S : SameKind(r.id, q.id) => r = q
  BY DEF TypeOK, OnePerKind

\* The ledger's variables are typed after a step that keeps them.
LEMMA KeptTyped ==
  ASSUME TypeOK, Kept
  PROVE  /\ records' \subseteq Records /\ OnePerKind'
         /\ operation' \in Nat /\ answers' \in Nat /\ busy' \in BOOLEAN
         /\ error' \in Records \cup {NoRecord}
  BY DEF TypeOK, Kept, OnePerKind

LedgerTyped ==
    /\ records \subseteq Records /\ OnePerKind
    /\ operation \in Nat /\ answers \in Nat /\ busy \in BOOLEAN
    /\ error \in Records \cup {NoRecord}

CallsTyped ==
    calls \subseteq [rec : Records, op : Nat,
                     result : {"none", "accepted", "rejected", "failed"}]

RestTyped ==
    /\ generation \in Nat
    /\ link \in Links
    /\ srv \in [Ids -> {"new", "open", "closed"}]
    /\ ended \subseteq Turns
    /\ wire \subseteq [id : Ids, op : Nat]
    /\ notes \in Seq(Notes)
    /\ snap \in [kind : {"none", "answer"}, pending : SUBSET Ids]
    /\ buffered \in Nat
    /\ bounds \in [losses : Nat, gaps : Nat]

\* TypeOK in the three groups the steps change.
LEMMA TypeParts == TypeOK <=> LedgerTyped /\ CallsTyped /\ RestTyped
  BY DEF TypeOK, LedgerTyped, CallsTyped, RestTyped

\* The same after a step.
LEMMA TypePartsNext == LedgerTyped' /\ CallsTyped' /\ RestTyped' => TypeOK'
  BY DEF TypeOK, LedgerTyped, CallsTyped, RestTyped

\* The initial ledger.
LEMMA InitTyped == Init => TypeOK
  <1> SUFFICES ASSUME Init PROVE TypeOK OBVIOUS
  <1>1. LedgerTyped BY DEF Init, LedgerTyped, OnePerKind
  <1>2. CallsTyped BY DEF Init, CallsTyped
  <1>3. RestTyped
    <2>1. bounds \in [losses : Nat, gaps : Nat] BY LedgerAssumption DEF Init
    <2>2. snap \in [kind : {"none", "answer"}, pending : SUBSET Ids] BY DEF Init, NoSnap
    <2>3. notes \in Seq(Notes) BY DEF Init
    <2> QED BY <2>1, <2>2, <2>3 DEF Init, RestTyped, Links
  <1> QED BY <1>1, <1>2, <1>3, TypeParts

\* CutStream leaves a typed stream.
LEMMA CutTyped ==
  CutStream => /\ notes' \in Seq(Notes)
               /\ snap' \in [kind : {"none", "answer"}, pending : SUBSET Ids]
               /\ buffered' \in Nat
  BY DEF CutStream, NoSnap

\* The fields of a record and of a call.
LEMMA Fields ==
  ASSUME TypeOK
  PROVE  /\ \A r \in records : r.id \in Ids /\ r.generation \in Nat /\ r.stamp \in Nat
         /\ \A c \in calls : c.rec \in Records /\ c.rec.id \in Ids /\ c.op \in Nat
                             /\ c.result \in {"none", "accepted", "rejected", "failed"}
  BY DEF TypeOK, Records

\* The user's steps.
LEMMA UserTyped == TypeOK /\ User => TypeOK'
  <1> SUFFICES ASSUME TypeOK, User PROVE TypeOK' OBVIOUS
  <1>1. CASE Close
    <2>1. LedgerTyped' BY <1>1, ClearEffect, QuietTyped, SubsetTyped DEF Close, LedgerTyped
    <2>2. CallsTyped' BY <1>1, TypeParts DEF Close, CallsTyped
    <2>3. RestTyped' BY <1>1, TypeParts, CutTyped DEF Close, RestTyped, CutStream, core, Links
    <2> QED BY <2>1, <2>2, <2>3, TypePartsNext
  <1>2. ASSUME NEW r \in records, Respond(r) PROVE TypeOK'
    <2>0. r \in Records BY DEF TypeOK
    <2>a. r.id \in Ids BY Fields
    <2>b. answers' \in Nat BY <1>2 DEF Respond, TypeOK
    <2>c. operation' \in Nat BY <1>2, <2>b DEF Respond, TypeOK
    <2>d. busy' \in BOOLEAN BY <1>2 DEF Respond, TypeOK
    <2>e. error' \in Records \cup {NoRecord} BY <1>2, <2>0 DEF Respond, TypeOK
    <2>f. records' \subseteq Records /\ OnePerKind' BY <1>2 DEF Respond, TypeOK, OnePerKind
    <2>1. LedgerTyped' BY <2>b, <2>c, <2>d, <2>e, <2>f DEF LedgerTyped
    <2>2. CallsTyped' BY <1>2, <2>0, TypeParts DEF Respond, CallsTyped, LedgerTyped
    <2>3. wire' \subseteq [id : Ids, op : Nat]
      BY <1>2, <2>a, TypeParts DEF Respond, RestTyped, LedgerTyped
    <2>4. RestTyped' BY <1>2, <2>3, TypeParts DEF Respond, RestTyped, stream
    <2> QED BY <2>1, <2>2, <2>4, TypePartsNext
  <1> QED BY <1>1, <1>2 DEF User

\* The ends of resolve().
LEMMA CompletionsTyped == TypeOK /\ Completions => TypeOK'
  <1> SUFFICES ASSUME TypeOK, NEW c \in calls, Reply(c) \/ ReplyTimeout(c) PROVE TypeOK'
    BY DEF Completions
  <1>1. CASE Reply(c)
    <2>1. records' \subseteq records BY <1>1 DEF Reply
    <2>2. error' \in Records \cup {NoRecord} /\ busy' \in BOOLEAN
      BY <1>1, Fields DEF Reply, TypeOK, Finally
    <2>3. LedgerTyped' BY <1>1, <2>1, <2>2, SubsetTyped DEF Reply, LedgerTyped, TypeOK, OnePerKind
    <2>4. CallsTyped' BY <1>1, TypeParts DEF Reply, CallsTyped
    <2>5. RestTyped' BY <1>1, TypeParts DEF Reply, RestTyped, core, stream
    <2> QED BY <2>3, <2>4, <2>5, TypePartsNext
  <1>2. CASE ReplyTimeout(c)
    <2>3. LedgerTyped' BY <1>2, TypeParts DEF ReplyTimeout, LedgerTyped, OnePerKind
    <2>4. CallsTyped' BY <1>2, TypeParts DEF ReplyTimeout, CallsTyped
    <2>5. RestTyped' BY <1>2, TypeParts DEF ReplyTimeout, RestTyped, core, stream
    <2> QED BY <2>3, <2>4, <2>5, TypePartsNext
  <1> QED BY <1>1, <1>2

\* The kinds of a record and of the request it stands for.
LEMMA FreshTyped ==
  ASSUME TypeOK, NEW i \in Ids, NEW gen \in Nat
  PROVE  Fresh(i, gen) \in Records /\ Fresh(i, gen).id = i /\ Fresh(i, gen).generation = gen
  BY DEF TypeOK, Fresh, Records

\* #store keeps one record of each kind.
LEMMA StoredTyped ==
  ASSUME TypeOK, NEW i \in Ids, NEW gen \in Nat
  PROVE  /\ Stored(i, gen) \subseteq Records
         /\ \A r, q \in Stored(i, gen) : SameKind(r.id, q.id) => r = q
  <1> DEFINE S == Stored(i, gen)
  <1>1. Fresh(i, gen) \in Records /\ Fresh(i, gen).id = i BY FreshTyped
  <1>2. S \subseteq Records BY <1>1 DEF TypeOK, Stored
  <1>3. ASSUME NEW r \in S, NEW q \in S, SameKind(r.id, q.id) PROVE r = q
    <2>1. \A j, k : SameKind(j, k) => SameKind(k, j) BY DEF SameKind
    <2>2. CASE r \in records /\ q \in records
      BY <2>2, <1>3 DEF TypeOK, OnePerKind
    <2> QED BY <1>1, <1>3, <2>1, <2>2 DEF Stored
  <1> QED BY <1>2, <1>3

\* The hydrate lists at most one request of a kind.
LEMMA RestoredTyped ==
  ASSUME TypeOK, NEW gen \in Nat, NEW pending \in SUBSET Ids, NEW last \in LastOfEachKind(pending)
  PROVE  /\ Restored(last, gen) \subseteq Records
         /\ \A r, q \in Restored(last, gen) : SameKind(r.id, q.id) => r = q
  <1>1. last \subseteq Ids /\ \A i, j \in last : SameKind(i, j) => i = j
    BY DEF LastOfEachKind
  <1>2. \A i \in last : Fresh(i, gen) \in Records /\ Fresh(i, gen).id = i BY <1>1, FreshTyped
  <1> QED BY <1>1, <1>2 DEF Restored

\* Emit only adds notifications.
LEMMA EmitTyped ==
  ASSUME TypeOK, NEW ns \in Seq(Notes), Emit(ns)
  PROVE  notes' \in Seq(Notes)
  BY DEF Emit, TypeOK

\* What Core says when requests end.
LEMMA ResolutionsTyped ==
  ASSUME NEW S \in SUBSET Ids
  PROVE  /\ Resolutions(S) \in Seq(Notes)
         /\ S \cap Approvals = {} => Resolutions(S) = <<>>
         /\ S \cap Approvals # {} =>
              /\ Len(Resolutions(S)) = 1
              /\ Resolutions(S)[1].kind = "resolved"
              /\ Resolutions(S)[1].id \in S \cap Approvals
  <1>1. CASE S \cap Approvals = {} BY <1>1 DEF Resolutions
  <1>2. CASE S \cap Approvals # {}
    <2> DEFINE i == CHOOSE i \in S \cap Approvals : TRUE
    <2>1. i \in S \cap Approvals BY <1>2
    <2> HIDE DEF i
    <2>2. [kind |-> "resolved", id |-> i] \in Notes BY <2>1 DEF Notes
    <2>3. Resolutions(S) = <<[kind |-> "resolved", id |-> i]>> BY <1>2 DEF Resolutions, i
    <2> QED BY <1>2, <2>1, <2>2, <2>3
  <1> QED BY <1>1, <1>2

\* The transport's steps and the reducer's.
LEMMA TransportTyped == TypeOK /\ Transport => TypeOK'
  <1> SUFFICES ASSUME TypeOK, Transport PROVE TypeOK' OBVIOUS
  <1>0. LedgerTyped /\ CallsTyped /\ RestTyped BY TypeParts
  <1>1. CASE LoseTransport
    <2>1. LedgerTyped'
      BY <1>1, InvalidateEffect, QuietTyped, SubsetTyped DEF LoseTransport, LedgerTyped
    <2>2. CallsTyped' BY <1>0, <1>1 DEF LoseTransport, CallsTyped
    <2>3. RestTyped' BY <1>0, <1>1, CutTyped DEF LoseTransport, RestTyped, core, Links
    <2> QED BY <2>1, <2>2, <2>3, TypePartsNext
  <1>2. CASE Reopen
    <2>1. LedgerTyped'
      BY <1>2, InvalidateEffect, QuietTyped, SubsetTyped DEF Reopen, LedgerTyped
    <2>2. CallsTyped' BY <1>0, <1>2 DEF Reopen, CallsTyped
    <2>3. RestTyped' BY <1>0, <1>2, CutTyped DEF Reopen, RestTyped, core, Links
    <2> QED BY <2>1, <2>2, <2>3, TypePartsNext
  <1>3. CASE ReopenFails \/ Gap \/ GapFails
    <2>1. LedgerTyped' /\ CallsTyped'
      BY <1>0, <1>3 DEF ReopenFails, Gap, GapFails, ledger, LedgerTyped, CallsTyped, OnePerKind
    <2>2. generation' \in Nat /\ bounds' \in [losses : Nat, gaps : Nat]
      BY <1>0, <1>3 DEF ReopenFails, Gap, GapFails, RestTyped
    <2>3. RestTyped'
      BY <1>0, <1>3, <2>2, CutTyped DEF ReopenFails, Gap, GapFails, RestTyped, core, Links
    <2> QED BY <2>1, <2>3, TypePartsNext
  <1>4. CASE AnswerHydrate \/ Ready
    <2>1. LedgerTyped' /\ CallsTyped'
      BY <1>0, <1>4 DEF AnswerHydrate, Ready, ledger, LedgerTyped, CallsTyped, OnePerKind
    <2>2. buffered' \in Nat /\ snap' \in [kind : {"none", "answer"}, pending : SUBSET Ids]
      BY <1>0, <1>4 DEF AnswerHydrate, Ready, RestTyped, stream
    <2>3. RestTyped' BY <1>0, <1>4, <2>2 DEF AnswerHydrate, Ready, RestTyped, core, stream, Links
    <2> QED BY <2>1, <2>3, TypePartsNext
  <1>5. CASE Hydrated
    <2>1. generation' \in Nat /\ snap.pending \in SUBSET Ids BY <1>0, <1>5 DEF Hydrated, RestTyped
    <2>2. PICK last \in LastOfEachKind(snap.pending) :
            Becomes(RestoreFromHydrate(Ledger, generation', last))
      BY <1>5 DEF Hydrated
    <2>3. Quiet(Restored(last, generation')) BY <2>2, RestoreEffect
    <2>5. LedgerTyped' BY <2>1, <2>3, RestoredTyped, QuietTyped DEF LedgerTyped
    <2>6. CallsTyped' BY <1>0, <1>5 DEF Hydrated, CallsTyped
    <2>7. RestTyped' BY <1>0, <1>5, <2>1 DEF Hydrated, RestTyped, core, Links, NoSnap
    <2> QED BY <2>5, <2>6, <2>7, TypePartsNext
  <1>6. CASE Observe
    <2> DEFINE n == Head(notes)
    <2>1. n \in Notes /\ notes' \in Seq(Notes) BY <1>0, <1>6 DEF Observe, RestTyped
    <2>2. ASSUME n.kind = "requested", Becomes(Store(Ledger, n.id, generation))
          PROVE  LedgerTyped'
      <3>1. n.id \in Ids BY <2>1, <2>2 DEF Notes
      <3>2. Kept \/ Quiet(Stored(n.id, generation)) BY <2>2, StoreEffect
      <3>3. generation \in Nat BY DEF TypeOK
      <3> QED BY <3>1, <3>2, <3>3, StoredTyped, KeptTyped, QuietTyped DEF LedgerTyped
    <2>3. ASSUME n.kind = "resolved", Becomes(ResolveNotified(Ledger, n.id, generation))
          PROVE  LedgerTyped'
      BY <2>3, ResolveEffect, KeptTyped, QuietTyped, SubsetTyped DEF LedgerTyped
    <2>4. ASSUME n.kind = "terminal",
                 Becomes(IF buffered = 0 THEN SettleTurn(Ledger, n.turn) ELSE Ledger)
          PROVE  LedgerTyped'
      BY <2>4, SettleEffect, KeepEffect, KeptTyped, QuietTyped, SubsetTyped DEF LedgerTyped
    <2>5. LedgerTyped' BY <1>6, <2>2, <2>3, <2>4 DEF Observe
    <2>6. CallsTyped' BY <1>0, <1>6 DEF Observe, CallsTyped
    <2>7. RestTyped' BY <1>0, <1>6, <2>1 DEF Observe, RestTyped, core
    <2> QED BY <2>5, <2>6, <2>7, TypePartsNext
  <1>7. ASSUME NEW t \in Turns, RecoveredTerminal(t) PROVE TypeOK'
    <2>1. LedgerTyped'
      BY <1>7, SettleEffect, KeptTyped, QuietTyped, SubsetTyped DEF RecoveredTerminal, LedgerTyped
    <2>2. CallsTyped' BY <1>0, <1>7 DEF RecoveredTerminal, CallsTyped
    <2>3. RestTyped' BY <1>0, <1>7 DEF RecoveredTerminal, RestTyped, core, stream
    <2> QED BY <2>1, <2>2, <2>3, TypePartsNext
  <1> QED BY <1>1, <1>2, <1>3, <1>4, <1>5, <1>6, <1>7 DEF Transport

\* Core's steps leave the panel alone.
LEMMA CoreTyped == TypeOK /\ Core => TypeOK'
  <1> SUFFICES ASSUME TypeOK, Core PROVE TypeOK' OBVIOUS
  <1>0. LedgerTyped /\ CallsTyped /\ RestTyped BY TypeParts
  <1>1. ASSUME NEW i \in Ids, CoreAsks(i) \/ CoreResolves(i) PROVE TypeOK'
    <2>1. LedgerTyped' /\ CallsTyped'
      BY <1>0, <1>1 DEF CoreAsks, CoreResolves, ledger, LedgerTyped, CallsTyped, OnePerKind
    <2>2. <<[kind |-> "requested", id |-> i]>> \in Seq(Notes) BY DEF Notes
    <2>3. Resolutions({i}) \in Seq(Notes) BY ResolutionsTyped
    <2>4. notes' \in Seq(Notes) BY <1>1, <2>2, <2>3, EmitTyped DEF CoreAsks, CoreResolves
    <2>5. RestTyped' BY <1>0, <1>1, <2>4 DEF CoreAsks, CoreResolves, RestTyped
    <2> QED BY <2>1, <2>5, TypePartsNext
  <1>2. ASSUME NEW m \in wire, CoreAnswered(m) PROVE TypeOK'
    <2>0. m.id \in Ids BY <1>0 DEF RestTyped
    <2>1. LedgerTyped' BY <1>0, <1>2 DEF CoreAnswered, LedgerTyped, OnePerKind
    <2>2. CallsTyped' BY <1>0, <1>2 DEF CoreAnswered, CallsTyped
    <2>3. Resolutions({m.id}) \in Seq(Notes) BY <2>0, ResolutionsTyped
    <2>4. <<>> \in Seq(Notes) OBVIOUS
    <2>5. PICK ns \in Seq(Notes) : Emit(ns) BY <1>2, <2>3, <2>4 DEF CoreAnswered
    <2>6. notes' \in Seq(Notes) BY <2>5, EmitTyped
    <2>7. srv' \in [Ids -> {"new", "open", "closed"}]
      BY <1>0, <1>2 DEF CoreAnswered, RestTyped
    <2>8. RestTyped' BY <1>0, <1>2, <2>6, <2>7 DEF CoreAnswered, RestTyped
    <2> QED BY <2>1, <2>2, <2>8, TypePartsNext
  <1>3. ASSUME NEW m \in wire, AnswerLost(m) PROVE TypeOK'
    <2>1. LedgerTyped' /\ CallsTyped'
      BY <1>0, <1>3 DEF AnswerLost, ledger, LedgerTyped, CallsTyped, OnePerKind
    <2>2. RestTyped' BY <1>0, <1>3 DEF AnswerLost, RestTyped, stream
    <2> QED BY <2>1, <2>2, TypePartsNext
  <1>4. ASSUME NEW t \in Turns, TurnEnds(t) PROVE TypeOK'
    <2> DEFINE open == {i \in Ids : srv[i] = "open" /\ TurnOf[i] = t}
    <2>1. LedgerTyped' /\ CallsTyped'
      BY <1>0, <1>4 DEF TurnEnds, ledger, LedgerTyped, CallsTyped, OnePerKind
    <2>2. Resolutions(open) \in Seq(Notes) BY ResolutionsTyped
    <2>3. <<[kind |-> "terminal", turn |-> t]>> \in Seq(Notes) BY DEF Notes
    <2>4. Resolutions(open) \o <<[kind |-> "terminal", turn |-> t]>> \in Seq(Notes)
      BY <2>2, <2>3
    <2>5. notes' \in Seq(Notes) BY <1>4, <2>4, EmitTyped DEF TurnEnds
    <2>6. srv' \in [Ids -> {"new", "open", "closed"}] BY <1>0, <1>4 DEF TurnEnds, RestTyped
    <2>7. RestTyped' BY <1>0, <1>4, <2>5, <2>6 DEF TurnEnds, RestTyped
    <2> QED BY <2>1, <2>7, TypePartsNext
  <1> QED BY <1>1, <1>2, <1>3, <1>4 DEF Core

\* Every step keeps the types.
LEMMA StepTyped == TypeOK /\ [Next]_vars => TypeOK'
  <1>1. TypeOK /\ UNCHANGED vars => TypeOK'
    BY DEF TypeOK, vars, ledger, core, stream, OnePerKind
  <1> QED BY <1>1, UserTyped, CompletionsTyped, TransportTyped, CoreTyped DEF Next

\* Every variable keeps its type and at most one approval and one question are
\* pending, so that respondApproval and respondQuestion, which take the first
\* record of their kind, answer the one the user sees.
THEOREM LedgerTypeCorrect == Spec => []TypeOK
  BY InitTyped, StepTyped, PTL DEF Spec
-----------------------------------------------------------------------------
(* The panel and the answer in flight *)

\* Once the ledger is invalidated no answer in flight owns it.
LEMMA QuietPanel ==
  ASSUME NEW S, Quiet(S), Answers'
  PROVE  Panel'
  BY DEF Quiet, Answers, Panel, BusyIsInFlight, BusyAnswersShown, ErrorHasRecord

\* The calls may learn their results, but no call comes or goes.
SameCalls ==
    /\ \A c \in calls : \E d \in calls' : d.op = c.op /\ d.rec = c.rec
    /\ \A d \in calls' : \E c \in calls : d.op = c.op /\ d.rec = c.rec

\* The panel does not look at results.
LEMMA KeptPanel ==
  ASSUME Panel, Kept, SameCalls
  PROVE  Panel'
  <1>1. BusyIsInFlight' BY DEF Panel, Kept, SameCalls, BusyIsInFlight
  <1>2. BusyAnswersShown' BY DEF Panel, Kept, SameCalls, BusyAnswersShown
  <1>3. \A d \in calls' : d.op = operation' => busy' BY DEF Panel, Kept, SameCalls
  <1> QED BY <1>1, <1>2, <1>3 DEF Panel, Kept, ErrorHasRecord

\* A step that adds no answer and only removes calls and answers on the wire.
LEMMA FewerAnswers ==
  ASSUME Answers, answers' = answers, calls' \subseteq calls, wire' \subseteq wire
  PROVE  Answers'
  BY DEF Answers

\* A step that gives calls their results.
LEMMA SettledAnswers ==
  ASSUME Answers, answers' = answers, wire' \subseteq wire,
         \A d \in calls' : \E c \in calls : d.op = c.op /\ d.rec = c.rec,
         \A d, e \in calls' : d.op = e.op => d = e
  PROVE  Answers'
  <1>1. \A d \in calls' : d.op \in 1..answers' BY DEF Answers
  <1>2. \A m \in wire' : m.op \in 1..answers' BY DEF Answers
  <1>3. \A d \in calls', m \in wire' : d.op = m.op => d.rec.id = m.id BY DEF Answers
  <1> QED BY <1>1, <1>2, <1>3 DEF Answers

\* The initial ledger.
LEMMA InitPanel == Init => Answers /\ Panel
  BY DEF Init, Answers, Panel, BusyIsInFlight, BusyAnswersShown, ErrorHasRecord

\* The user answers, or the record is closed.
LEMMA UserPanel == PanelInv /\ User => Answers' /\ Panel'
  <1> SUFFICES ASSUME TypeOK, Answers, Panel, User PROVE Answers' /\ Panel'
    BY DEF PanelInv
  <1>1. CASE Close
    <2>1. Quiet({}) BY <1>1, ClearEffect DEF Close
    <2>2. Answers' BY <1>1, <2>1, FewerAnswers DEF Close, Quiet, core
    <2> QED BY <2>1, <2>2, QuietPanel
  <1>2. ASSUME NEW r \in records, Respond(r) PROVE Answers' /\ Panel'
    <2>0. /\ answers \in Nat /\ answers' = answers + 1 /\ ~busy /\ records' = records
      BY <1>2 DEF Respond, TypeOK
    <2>a. /\ \A c \in calls : c.op # answers' /\ c.op \in 1..answers'
          /\ \A m \in wire : m.op # answers' /\ m.op \in 1..answers'
      BY <2>0 DEF Answers
    <2>b. answers' \in 1..answers' BY <2>0
    <2>1. CASE Authorized(r)
      <3> DEFINE c == [rec |-> r, op |-> answers', result |-> "none"]
                 m == [id |-> r.id, op |-> answers']
      <3>1. /\ calls' = calls \cup {c} /\ wire' = wire \cup {m}
            /\ operation' = answers' /\ busy' = TRUE /\ error' = NoRecord
        BY <1>2, <2>1 DEF Respond
      <3>2. c.op = answers' /\ c.rec = r /\ m.op = answers' /\ m.id = r.id OBVIOUS
      <3> HIDE DEF c, m
      <3>3. Answers'
        <4>1. \A d \in calls' : d.op \in 1..answers' BY <2>a, <2>b, <3>1, <3>2
        <4>2. \A d \in wire' : d.op \in 1..answers' BY <2>a, <2>b, <3>1, <3>2
        <4>3. \A d, e \in calls' : d.op = e.op => d = e BY <2>a, <3>1, <3>2 DEF Answers
        <4>4. \A d \in calls', e \in wire' : d.op = e.op => d.rec.id = e.id
          BY <2>a, <3>1, <3>2 DEF Answers
        <4> QED BY <4>1, <4>2, <4>3, <4>4 DEF Answers
      <3>4. Panel'
        <4>1. \A d \in calls' : d.op = operation' => d = c BY <2>a, <3>1, <3>2
        <4> QED BY <2>0, <3>1, <3>2, <4>1
              DEF Panel, BusyIsInFlight, BusyAnswersShown, ErrorHasRecord
      <3> QED BY <3>3, <3>4
    <2>2. CASE ~Authorized(r)
      <3>1. /\ error' = r /\ operation' = operation /\ busy' = busy
            /\ calls' = calls /\ wire' = wire
        BY <1>2, <2>2 DEF Respond
      <3>2. Answers' BY <2>a, <3>1 DEF Answers
      <3>3. Panel' BY <2>0, <3>1 DEF Panel, BusyIsInFlight, BusyAnswersShown, ErrorHasRecord
      <3> QED BY <3>2, <3>3
    <2> QED BY <2>1, <2>2
  <1> QED BY <1>1, <1>2 DEF User

\* A reply releases the panel it owns and no other.
LEMMA CompletionsPanel == PanelInv /\ Completions => Answers' /\ Panel'
  <1> SUFFICES ASSUME TypeOK, Answers, Panel, NEW c \in calls, Reply(c) \/ ReplyTimeout(c)
               PROVE  Answers' /\ Panel'
    BY DEF Completions, PanelInv
  <1>1. CASE Reply(c)
    <2>1. Answers' BY <1>1, FewerAnswers DEF Reply, core
    <2>0. calls' = calls \ {c} /\ operation' = operation BY <1>1 DEF Reply
    <2>2. CASE operation = c.op
      <3>1. busy' = FALSE BY <1>1, <2>2 DEF Reply, Finally
      <3>2. busy /\ error = NoRecord BY <2>2 DEF Panel
      <3>3. \A d \in calls' : d.op # operation' BY <2>0, <2>2 DEF Answers
      <3>4. ErrorHasRecord'
        <4>1. CASE IsCurrent(c) /\ c.result # "accepted"
          BY <1>1, <4>1 DEF Reply, IsCurrent, ErrorHasRecord
        <4>2. CASE ~(IsCurrent(c) /\ c.result # "accepted")
          BY <1>1, <3>2, <4>2 DEF Reply, ErrorHasRecord
        <4> QED BY <4>1, <4>2
      <3> QED BY <2>1, <3>1, <3>3, <3>4 DEF Panel, BusyIsInFlight, BusyAnswersShown
    <2>3. CASE operation # c.op
      <3>1. busy' = busy /\ records' = records /\ error' = error
        BY <1>1, <2>3 DEF Reply, Finally, IsCurrent
      <3> QED BY <2>0, <2>1, <2>3, <3>1
            DEF Panel, BusyIsInFlight, BusyAnswersShown, ErrorHasRecord
    <2> QED BY <2>2, <2>3
  <1>2. CASE ReplyTimeout(c)
    <2> DEFINE d == [c EXCEPT !.result = "failed"]
    <2>1. d.op = c.op /\ d.rec = c.rec BY DEF TypeOK
    <2>2. calls' = (calls \ {c}) \cup {d} BY <1>2 DEF ReplyTimeout
    <2> HIDE DEF d
    <2>3. SameCalls BY <2>1, <2>2 DEF SameCalls
    <2>4. \A e, f \in calls' : e.op = f.op => e = f BY <2>1, <2>2 DEF Answers
    <2>5. Answers' BY <1>2, <2>3, <2>4, SettledAnswers DEF ReplyTimeout, SameCalls, core
    <2>6. Kept BY <1>2 DEF ReplyTimeout, Kept
    <2> QED BY <2>3, <2>5, <2>6, KeptPanel
  <1> QED BY <1>1, <1>2

\* The transport and the reducer either keep the ledger or invalidate it.
LEMMA TransportEffect ==
  ASSUME Transport
  PROVE  /\ Kept \/ \E S : Quiet(S)
         /\ calls' = calls \/ LoseTransport
         /\ wire' = wire
  <1>1. CASE LoseTransport BY <1>1, InvalidateEffect DEF LoseTransport, core
  <1>2. CASE Reopen BY <1>2, InvalidateEffect DEF Reopen, core
  <1>3. CASE ReopenFails \/ Gap \/ GapFails \/ AnswerHydrate \/ Ready
    BY <1>3 DEF ReopenFails, Gap, GapFails, AnswerHydrate, Ready, ledger, core, Kept
  <1>4. CASE Hydrated
    BY <1>4, RestoreEffect DEF Hydrated, core
  <1>5. CASE Observe
    <2>1. Kept \/ \E S : Quiet(S)
      BY <1>5, StoreEffect, ResolveEffect, SettleEffect, KeepEffect DEF Observe
    <2> QED BY <1>5, <2>1 DEF Observe, core
  <1>6. ASSUME NEW t \in Turns, RecoveredTerminal(t) PROVE /\ Kept \/ \E S : Quiet(S)
                                                         /\ calls' = calls /\ wire' = wire
    BY <1>6, SettleEffect DEF RecoveredTerminal, core
  <1> QED BY <1>1, <1>2, <1>3, <1>4, <1>5, <1>6 DEF Transport

\* No transport step strands the panel.
LEMMA TransportPanel == PanelInv /\ Transport => Answers' /\ Panel'
  <1> SUFFICES ASSUME TypeOK, Answers, Panel, Transport PROVE Answers' /\ Panel'
    BY DEF PanelInv
  <1>0. answers' = answers BY TransportEffect DEF Kept, Quiet
  <1>1. CASE calls' = calls
    <2>1. Answers' BY <1>0, <1>1, TransportEffect, FewerAnswers
    <2>2. SameCalls BY <1>1 DEF SameCalls
    <2> QED BY <2>1, <2>2, TransportEffect, KeptPanel, QuietPanel
  <1>2. CASE LoseTransport
    <2> DEFINE g(c) == [c EXCEPT !.result = IF @ = "none" THEN "failed" ELSE @]
    <2>1. calls' = {g(c) : c \in calls} BY <1>2 DEF LoseTransport
    <2>2. \A c \in calls : g(c).op = c.op /\ g(c).rec = c.rec BY DEF TypeOK
    <2> HIDE DEF g
    <2>3. \A d, e \in calls' : d.op = e.op => d = e BY <2>1, <2>2 DEF Answers
    <2>4. Answers' BY <1>0, <2>1, <2>2, <2>3, TransportEffect, SettledAnswers
    <2>5. Quiet(records) BY <1>2, InvalidateEffect DEF LoseTransport
    <2> QED BY <2>4, <2>5, QuietPanel
  <1> QED BY <1>1, <1>2, TransportEffect

\* Core only gives calls their results.
LEMMA CorePanel == PanelInv /\ Core => Answers' /\ Panel'
  <1> SUFFICES ASSUME TypeOK, Answers, Panel, Core PROVE Answers' /\ Panel'
    BY DEF PanelInv
  <1>1. CASE UNCHANGED ledger /\ wire' \subseteq wire
    <2>1. Answers' BY <1>1, FewerAnswers DEF ledger
    <2>2. SameCalls /\ Kept BY <1>1 DEF SameCalls, Kept, ledger
    <2> QED BY <2>1, <2>2, KeptPanel
  <1>2. ASSUME NEW m \in wire, CoreAnswered(m) PROVE Answers' /\ Panel'
    <2> DEFINE g(c) == IF c.op = m.op /\ c.result = "none"
                       THEN [c EXCEPT !.result = IF srv[m.id] = "open" THEN "accepted"
                                                 ELSE "rejected"]
                       ELSE c
    <2>1. calls' = {g(c) : c \in calls} BY <1>2 DEF CoreAnswered
    <2>2. \A c \in calls : g(c).op = c.op /\ g(c).rec = c.rec BY DEF TypeOK
    <2> HIDE DEF g
    <2>3. \A d, e \in calls' : d.op = e.op => d = e BY <2>1, <2>2 DEF Answers
    <2>4. SameCalls BY <2>1, <2>2 DEF SameCalls
    <2>5. Kept /\ wire' \subseteq wire BY <1>2 DEF CoreAnswered, Kept
    <2>6. Answers' BY <2>3, <2>4, <2>5, SettledAnswers DEF SameCalls, Kept
    <2> QED BY <2>4, <2>5, <2>6, KeptPanel
  <1>3. ASSUME NEW m \in wire, AnswerLost(m) PROVE UNCHANGED ledger /\ wire' \subseteq wire
    BY <1>3 DEF AnswerLost
  <1>4. ASSUME NEW i \in Ids, CoreAsks(i) \/ CoreResolves(i)
        PROVE  UNCHANGED ledger /\ wire' \subseteq wire
    BY <1>4 DEF CoreAsks, CoreResolves
  <1>5. ASSUME NEW t \in Turns, TurnEnds(t) PROVE UNCHANGED ledger /\ wire' \subseteq wire
    BY <1>5 DEF TurnEnds
  <1> QED BY <1>1, <1>2, <1>3, <1>4, <1>5 DEF Core

\* Every step keeps the panel.
LEMMA StepPanel == PanelInv /\ [Next]_vars => PanelInv'
  <1> SUFFICES ASSUME PanelInv, [Next]_vars PROVE PanelInv' OBVIOUS
  <1>1. TypeOK' BY StepTyped DEF PanelInv
  <1>2. CASE UNCHANGED vars
    <2>1. Answers' BY <1>2, FewerAnswers DEF PanelInv, vars, ledger, core
    <2>2. SameCalls /\ Kept BY <1>2 DEF SameCalls, Kept, vars, ledger
    <2> QED BY <1>1, <2>1, <2>2, KeptPanel DEF PanelInv
  <1>3. CASE Next
    BY <1>1, <1>3, UserPanel, CompletionsPanel, TransportPanel, CorePanel DEF PanelInv, Next
  <1> QED BY <1>2, <1>3

\* The panel's invariant.
LEMMA PanelInvariant == Spec => []PanelInv
  <1>1. Init => PanelInv BY InitTyped, InitPanel DEF PanelInv
  <1> QED BY <1>1, StepPanel, PTL DEF Spec

\* The panel is busy only while the answer it waits for is in flight: no suspend,
\* hydrate, supersession or late reply leaves the buttons disabled for good.
THEOREM BusyWaitsForAnswer == Spec => []BusyIsInFlight
  <1>1. PanelInv => BusyIsInFlight BY DEF PanelInv, Panel
  <1> QED BY <1>1, PanelInvariant, PTL

\* While the panel waits for an answer, the request it answers stays on screen.
THEOREM AnswerIsForShown == Spec => []BusyAnswersShown
  <1>1. PanelInv => BusyAnswersShown BY DEF PanelInv, Panel
  <1> QED BY <1>1, PanelInvariant, PTL

\* A failure is never shown with another request than the one that failed.
THEOREM ErrorIsOfShown == Spec => []ErrorHasRecord
  <1>1. PanelInv => ErrorHasRecord BY DEF PanelInv, Panel
  <1> QED BY <1>1, PanelInvariant, PTL
-----------------------------------------------------------------------------
(* The stream: how notifications come and go *)

Grown(ns) ==
    /\ notes' \in Seq(Notes)
    /\ Len(notes') = Len(notes) + Len(ns)
    /\ \A k \in 1..Len(notes) : notes'[k] = notes[k]
    /\ \A k \in 1..Len(ns) : notes'[Len(notes) + k] = ns[k]

\* What Core emits to a client that listens comes after what is on its way.
LEMMA EmitGrows ==
  ASSUME TypeOK, NEW ns \in Seq(Notes), Emit(ns), Heard
  PROVE  Grown(ns)
  <1>1. notes \in Seq(Notes) /\ notes' = notes \o ns BY DEF TypeOK, Emit
  <1>2. notes' \in Seq(Notes) /\ Len(notes') = Len(notes) + Len(ns) BY <1>1
  <1>3. \A k \in 1..Len(notes) : notes'[k] = notes[k] BY <1>1
  <1>4. \A k \in 1..Len(ns) : notes'[Len(notes) + k] = ns[k] BY <1>1
  <1> QED BY <1>2, <1>3, <1>4 DEF Grown

\* Handling the first notification moves the others up.
LEMMA TailFacts ==
  ASSUME TypeOK, notes # <<>>, notes' = Tail(notes)
  PROVE  /\ Len(notes) \in Nat \ {0}
         /\ Head(notes) = notes[1] /\ notes[1] \in Notes
         /\ Len(notes') = Len(notes) - 1
         /\ \A k \in 1..Len(notes') : notes'[k] = notes[k + 1]
         /\ \A k \in 2..Len(notes) : k - 1 \in 1..Len(notes') /\ notes'[k - 1] = notes[k]
  <1>1. notes \in Seq(Notes) BY DEF TypeOK
  <1>2. Len(notes) \in Nat \ {0} /\ Head(notes) = notes[1] /\ notes[1] \in Notes BY <1>1
  <1>3. Len(notes') = Len(notes) - 1 BY <1>1
  <1>4. \A k \in 1..Len(notes') : notes'[k] = notes[k + 1] BY <1>1, <1>2, <1>3
  <1>5. \A k \in 2..Len(notes) : k - 1 \in 1..Len(notes') /\ notes'[k - 1] = notes[k]
    BY <1>2, <1>3, <1>4
  <1> QED BY <1>2, <1>3, <1>4, <1>5

\* What was on its way stays so when the stream grows.
LEMMA ComingStays ==
  ASSUME TypeOK, NEW ns \in Seq(Notes), Grown(ns), NEW i
  PROVE  /\ ReqComing(i) => ReqComing(i)'
         /\ ResComing(i) => ResComing(i)'
         /\ (\E k \in 1..Len(ns) : IsReq(ns[k], i)) => ReqComing(i)'
         /\ (\E k \in 1..Len(ns) : IsRes(ns[k], i)) => ResComing(i)'
  <1>1. Len(notes) \in Nat /\ Len(ns) \in Nat BY DEF TypeOK
  <1>2. \A k \in 1..Len(notes) : k \in 1..Len(notes') /\ notes'[k] = notes[k]
    BY <1>1 DEF Grown
  <1>3. \A k \in 1..Len(ns) : Len(notes) + k \in 1..Len(notes') /\ notes'[Len(notes) + k] = ns[k]
    BY <1>1 DEF Grown
  <1>4. ReqComing(i) => ReqComing(i)' BY <1>2 DEF ReqComing
  <1>5. ResComing(i) => ResComing(i)' BY <1>2 DEF ResComing
  <1>6. (\E k \in 1..Len(ns) : IsReq(ns[k], i)) => ReqComing(i)' BY <1>3 DEF ReqComing
  <1>7. (\E k \in 1..Len(ns) : IsRes(ns[k], i)) => ResComing(i)' BY <1>3 DEF ResComing
  <1> QED BY <1>4, <1>5, <1>6, <1>7

\* Requests end in Core, which says so with ns.
Closing(ns) ==
    /\ srv' \in [Ids -> {"new", "open", "closed"}]
    /\ \A i \in Ids : srv'[i] = "open" => srv[i] = "open" /\ TurnOf[i] \notin ended'
    /\ \A i \in Ids : srv[i] = "closed" => srv'[i] = "closed"
    /\ ended \subseteq ended'
    /\ \A k \in 1..Len(ns) :
          /\ ns[k].kind # "requested"
          /\ ns[k].kind = "resolved" => srv'[ns[k].id] = "closed"
          /\ ns[k].kind = "terminal" => ns[k].turn \in ended'
    /\ \A i \in Approvals : srv[i] = "open" /\ srv'[i] # "open"
                              => \E k \in 1..Len(ns) : IsRes(ns[k], i)
    /\ UNCHANGED <<records, generation, link, snap>>

\* The end of a request keeps the stream's invariant.
LEMMA ClosingKeeps ==
  ASSUME TypeOK, StreamInv, NEW ns \in Seq(Notes), Closing(ns), Emit(ns),
         \A c \in calls' : c.result = "accepted" => srv'[c.rec.id] = "closed"
  PROVE  StreamInv'
  <1>0. Len(notes) \in Nat /\ Len(ns) \in Nat BY DEF TypeOK
  <1>a. \A i \in Approvals : i \in Ids BY DEF Ids
  <1>1. CASE ~Heard
    <2>1. notes = <<>> /\ notes' = <<>> BY <1>1 DEF StreamInv, Truth, Emit
    <2>2. Truth' BY <2>1 DEF StreamInv, Truth, Closing
    <2>3. Order' BY <2>1 DEF Order
    <2>4. Snapshot' BY <1>1 DEF StreamInv, Snapshot, Closing, Heard
    <2>5. Screen' BY <1>1 DEF Screen, Closing, Heard
    <2> QED BY <2>2, <2>3, <2>4, <2>5 DEF StreamInv
  <1>2. CASE Heard
    <2>1. Grown(ns) BY <1>2, EmitGrows
    <2>2. \A k \in 1..Len(notes') :
            \/ k \in 1..Len(notes) /\ notes'[k] = notes[k]
            \/ k - Len(notes) \in 1..Len(ns) /\ notes'[k] = ns[k - Len(notes)]
      <3> TAKE k \in 1..Len(notes')
      <3>1. CASE k <= Len(notes) BY <1>0, <2>1, <3>1 DEF Grown
      <3>2. CASE k > Len(notes)
        <4>1. k - Len(notes) \in 1..Len(ns) /\ Len(notes) + (k - Len(notes)) = k
          BY <1>0, <2>1, <3>2 DEF Grown
        <4> QED BY <2>1, <4>1 DEF Grown
      <3> QED BY <1>0, <2>1, <3>1, <3>2 DEF Grown
    <2>3. \A k \in 1..Len(notes) : k \in 1..Len(notes') /\ notes'[k] = notes[k]
      BY <1>0, <2>1 DEF Grown
    <2>4. \A k \in 1..Len(notes), m \in 1..Len(ns) :
             Len(notes) + m \in (k + 1)..Len(notes') /\ notes'[Len(notes) + m] = ns[m]
      BY <1>0, <2>1 DEF Grown
    <2>5. Truth'
      <3>1. \A i, j \in Ids : SameKind(i, j) /\ srv'[i] = "open" /\ srv'[j] = "open" => i = j
        BY DEF StreamInv, Truth, Closing
      <3>2. ASSUME NEW k \in 1..Len(notes')
            PROVE  /\ notes'[k].kind = "resolved" => srv'[notes'[k].id] = "closed"
                   /\ notes'[k].kind = "terminal" => notes'[k].turn \in ended'
        <4>1. CASE k \in 1..Len(notes) /\ notes'[k] = notes[k]
          <5>1. notes[k].kind = "resolved" => notes[k].id \in Ids
            <6>1. notes[k] \in Notes BY <4>1 DEF TypeOK
            <6> QED BY <6>1 DEF Notes
          <5> QED BY <4>1, <5>1 DEF StreamInv, Truth, Closing
        <4>2. CASE k - Len(notes) \in 1..Len(ns) /\ notes'[k] = ns[k - Len(notes)]
          BY <4>2 DEF Closing
        <4> QED BY <2>2, <4>1, <4>2
      <3>3. Heard' BY <1>2 DEF Heard, Closing
      <3> QED BY <3>1, <3>2, <3>3 DEF Truth, Closing
    <2>6. Order'
      <3>1. ASSUME NEW i \in Ids, NEW j \in Ids, NEW k \in 1..Len(notes'),
                   srv'[i] = "open", SameKind(i, j), IsReq(notes'[k], j)
            PROVE  i = j \/ \E m \in (k + 1)..Len(notes') : IsReq(notes'[m], i)
        <4>1. k \in 1..Len(notes) /\ IsReq(notes[k], j)
          BY <2>2, <3>1 DEF Closing, IsReq
        <4>2. i = j \/ \E m \in (k + 1)..Len(notes) : IsReq(notes[m], i)
          BY <3>1, <4>1 DEF StreamInv, Order, Closing
        <4>3. \A m \in (k + 1)..Len(notes) : m \in (k + 1)..Len(notes') /\ notes'[m] = notes[m]
          BY <1>0, <2>1, <4>1 DEF Grown
        <4> QED BY <4>2, <4>3
      <3>2. ASSUME NEW i \in Approvals, NEW k \in 1..Len(notes'), IsReq(notes'[k], i)
            PROVE  srv'[i] = "open" \/ \E m \in (k + 1)..Len(notes') : IsRes(notes'[m], i)
        <4>1. k \in 1..Len(notes) /\ IsReq(notes[k], i)
          BY <2>2, <3>2, SMTT(30) DEF Closing, IsReq
        <4>2. srv[i] = "open" \/ \E m \in (k + 1)..Len(notes) : IsRes(notes[m], i)
          BY <4>1 DEF StreamInv, Order
        <4>3. \A m \in (k + 1)..Len(notes) : m \in (k + 1)..Len(notes') /\ notes'[m] = notes[m]
          BY <1>0, <2>1, <4>1 DEF Grown
        <4>4. CASE srv[i] = "open" /\ srv'[i] # "open"
          <5>1. PICK m \in 1..Len(ns) : IsRes(ns[m], i) BY <4>4 DEF Closing
          <5>2. Len(notes) + m \in (k + 1)..Len(notes') /\ notes'[Len(notes) + m] = ns[m]
            BY <2>4, <4>1
          <5> QED BY <5>1, <5>2
        <4> QED BY <4>2, <4>3, <4>4
      <3> QED BY <3>1, <3>2 DEF Order
    <2>7. Snapshot'
      BY <1>a, <2>1, ComingStays DEF StreamInv, Snapshot, Closing
    <2>8. Screen'
      <3> SUFFICES ASSUME link' \in {"draining", "ready"} PROVE Screen' BY DEF Screen
      <3>0. link \in {"draining", "ready"} BY DEF Closing
      <3>1. \A r \in records' : r.generation = generation' BY <3>0 DEF StreamInv, Screen, Closing
      <3>2. \A i \in Ids : srv'[i] = "open" => i \in Shown' \/ ReqComing(i)'
        BY <2>1, <3>0, ComingStays DEF StreamInv, Screen, Closing, Shown
      <3>3. \A i \in Approvals : i \in Shown' => srv'[i] = "open" \/ ResComing(i)'
        BY <1>a, <2>1, <3>0, ComingStays DEF StreamInv, Screen, Closing, Shown
      <3> QED BY <3>1, <3>2, <3>3 DEF Screen
    <2> QED BY <2>5, <2>6, <2>7, <2>8 DEF StreamInv
  <1> QED BY <1>1, <1>2

\* Nothing is on its way at first.
LEMMA InitStream == Init => StreamInv
  <1> SUFFICES ASSUME Init PROVE StreamInv OBVIOUS
  <1>1. Truth BY DEF Init, Truth, Ids
  <1>2. Order BY DEF Init, Order
  <1>3. Snapshot BY DEF Init, Snapshot
  <1>4. Screen BY DEF Init, Screen
  <1> QED BY <1>1, <1>2, <1>3, <1>4 DEF StreamInv

\* Results of calls are true of Core.
Accepted == \A c \in calls : c.result = "accepted" => srv[c.rec.id] = "closed"

\* A step that leaves Core, the stream and the link alone.
LEMMA SameStream ==
  ASSUME StreamInv, UNCHANGED <<srv, ended, notes, link, snap>>, Accepted', Screen'
  PROVE  StreamInv'
  <1>1. Truth' BY DEF StreamInv, Truth, Accepted, Heard
  <1>2. Order' BY DEF StreamInv, Order
  <1>3. Snapshot' BY DEF StreamInv, Snapshot, ReqComing, ResComing
  <1> QED BY <1>1, <1>2, <1>3 DEF StreamInv

\* And the records with it.
LEMMA SameScreen ==
  ASSUME StreamInv, UNCHANGED <<records, generation, srv, notes, link>>
  PROVE  Screen'
  BY DEF StreamInv, Screen, Shown, ReqComing, ResComing

\* A stream that was cut holds nothing that could be wrong.
LEMMA CutKeeps ==
  ASSUME StreamInv, CutStream, UNCHANGED <<srv, ended>>, Accepted',
         link' \notin {"draining", "ready"}
  PROVE  StreamInv'
  <1>1. Truth' BY DEF StreamInv, Truth, Accepted, CutStream
  <1>2. Order' BY DEF Order, CutStream
  <1>3. Snapshot' BY DEF Snapshot, CutStream
  <1>4. Screen' BY DEF Screen
  <1> QED BY <1>1, <1>2, <1>3, <1>4 DEF StreamInv

\* The user's steps.
LEMMA UserStream == TypeOK /\ StreamInv /\ User => StreamInv'
  <1> SUFFICES ASSUME TypeOK, StreamInv, User PROVE StreamInv' OBVIOUS
  <1>0. Accepted BY DEF StreamInv, Truth, Accepted
  <1>1. CASE Close
    BY <1>0, <1>1, CutKeeps DEF Close, CutStream, core, Accepted
  <1>2. ASSUME NEW r \in records, Respond(r) PROVE StreamInv'
    <2>1. UNCHANGED <<records, generation, srv, ended, notes, link, snap>>
      BY <1>2 DEF Respond, stream
    <2>2. calls' \subseteq calls \cup {[rec |-> r, op |-> answers', result |-> "none"]}
      BY <1>2 DEF Respond
    <2>3. Accepted' BY <1>0, <2>1, <2>2 DEF Accepted
    <2> QED BY <2>1, <2>3, SameScreen, SameStream
  <1> QED BY <1>1, <1>2 DEF User

\* An accepted reply removes a request that Core has closed.
LEMMA CompletionsStream == TypeOK /\ StreamInv /\ Completions => StreamInv'
  <1> SUFFICES ASSUME TypeOK, StreamInv, NEW c \in calls, Reply(c) \/ ReplyTimeout(c)
               PROVE  StreamInv'
    BY DEF Completions
  <1>0. Accepted BY DEF StreamInv, Truth, Accepted
  <1>1. CASE Reply(c)
    <2>1. UNCHANGED <<generation, srv, ended, notes, link, snap>>
      BY <1>1 DEF Reply, core, stream
    <2>2. Accepted' BY <1>0, <1>1, <2>1 DEF Accepted, Reply
    <2>3. Screen'
      <3>1. records' \subseteq records BY <1>1 DEF Reply
      <3>2. \A r \in records : srv[r.id] = "open" => r \in records'
        BY <1>0, <1>1 DEF Accepted, Reply
      <3>3. \A i : (ReqComing(i) <=> ReqComing(i)') /\ (ResComing(i) <=> ResComing(i)')
        BY <2>1 DEF ReqComing, ResComing
      <3> QED BY <2>1, <3>1, <3>2, <3>3 DEF StreamInv, Screen, Shown
    <2> QED BY <2>1, <2>2, <2>3, SameStream
  <1>2. CASE ReplyTimeout(c)
    <2>1. UNCHANGED <<records, generation, srv, ended, notes, link, snap>>
      BY <1>2 DEF ReplyTimeout, core, stream
    <2>2. Accepted' BY <1>0, <1>2, <2>1 DEF Accepted, ReplyTimeout, TypeOK
    <2> QED BY <2>1, <2>2, SameScreen, SameStream
  <1> QED BY <1>1, <1>2

\* A request that Core opens supersedes what was asked before it.
LEMMA AskStream ==
  ASSUME TypeOK, StreamInv, NEW i \in Ids, CoreAsks(i)
  PROVE  StreamInv'
  <1> DEFINE n == [kind |-> "requested", id |-> i]
             ns == <<n>>
  <1>0. /\ srv \in [Ids -> {"new", "open", "closed"}] /\ Len(notes) \in Nat
        /\ srv[i] = "new" /\ srv' = [srv EXCEPT ![i] = "open"] /\ ended' = ended
        /\ TurnOf[i] \notin ended
        /\ \A j \in Ids : SameKind(i, j) => srv[j] # "open"
        /\ UNCHANGED <<records, calls, generation, link, snap>>
    BY DEF CoreAsks, TypeOK, ledger
  <1>a. /\ ns \in Seq(Notes) /\ Len(ns) = 1 /\ ns[1] = n /\ IsReq(n, i)
        /\ n.kind = "requested" /\ Emit(ns)
    BY DEF Notes, IsReq, CoreAsks
  <1> HIDE DEF n, ns
  <1>b. /\ srv'[i] = "open" /\ \A j \in Ids : j # i => srv'[j] = srv[j]
        /\ \A j \in Ids : srv[j] = "closed" => srv'[j] = "closed"
    BY <1>0
  <1>c. \A j, k : SameKind(j, k) => SameKind(k, j) BY DEF SameKind
  <1>d. Accepted'
    <2>1. \A c \in calls : c.rec.id \in Ids BY Fields
    <2> QED BY <1>0, <1>b, <2>1 DEF StreamInv, Truth, Accepted
  <1>e. /\ \A j, k \in Ids : SameKind(j, k) /\ srv'[j] = "open" /\ srv'[k] = "open" => j = k
        /\ \A j \in Ids : srv'[j] = "open" => TurnOf[j] \notin ended'
    BY <1>0, <1>b, <1>c DEF StreamInv, Truth
  <1>1. CASE ~Heard
    <2>1. notes = <<>> /\ notes' = <<>> BY <1>1, <1>a DEF StreamInv, Truth, Emit
    <2>2. Truth' BY <1>d, <1>e, <2>1 DEF Truth, Accepted
    <2>3. Order' BY <2>1 DEF Order
    <2>4. Snapshot' BY <1>0, <1>1 DEF StreamInv, Snapshot, Heard
    <2>5. Screen' BY <1>0, <1>1 DEF Screen, Heard
    <2> QED BY <2>2, <2>3, <2>4, <2>5 DEF StreamInv
  <1>2. CASE Heard
    <2> DEFINE L == Len(notes) + 1
    <2>1. Grown(ns) BY <1>2, <1>a, EmitGrows
    <2>2. /\ Len(notes') = L /\ notes'[L] = n
          /\ \A k \in 1..Len(notes') : k = L \/ (k \in 1..Len(notes) /\ notes'[k] = notes[k])
          /\ \A k \in 1..Len(notes) : L \in (k + 1)..Len(notes')
      <3>1. Len(notes') = L BY <1>a, <2>1 DEF Grown
      <3>2. notes'[Len(notes) + 1] = ns[1] BY <1>a, <2>1 DEF Grown
      <3>3. \A k \in 1..Len(notes) : notes'[k] = notes[k] BY <2>1 DEF Grown
      <3>4. notes'[L] = n BY <1>a, <3>2
      <3>5. \A k \in 1..Len(notes') : k = L \/ k \in 1..Len(notes) BY <1>0, <3>1
      <3>6. \A k \in 1..Len(notes) : L \in (k + 1)..Len(notes') BY <1>0, <3>1
      <3> HIDE DEF L
      <3>7. \A k \in 1..Len(notes') : k = L \/ (k \in 1..Len(notes) /\ notes'[k] = notes[k])
        BY <3>3, <3>5
      <3> QED BY <3>1, <3>4, <3>6, <3>7
    <2>3. Truth'
      <3>1. ASSUME NEW k \in 1..Len(notes')
            PROVE  /\ notes'[k].kind = "resolved" => srv'[notes'[k].id] = "closed"
                   /\ notes'[k].kind = "terminal" => notes'[k].turn \in ended'
        <4>1. CASE k \in 1..Len(notes) /\ notes'[k] = notes[k]
          <5>1. notes[k].kind = "resolved" => notes[k].id \in Ids
            <6>1. notes[k] \in Notes BY <4>1 DEF TypeOK
            <6> QED BY <6>1 DEF Notes
          <5> QED BY <1>0, <1>b, <4>1, <5>1 DEF StreamInv, Truth
        <4>2. CASE k = L BY <1>a, <2>2, <4>2
        <4> QED BY <2>2, <4>1, <4>2
      <3>2. Heard' BY <1>0, <1>2 DEF Heard
      <3> QED BY <1>d, <1>e, <3>1, <3>2 DEF Truth, Accepted
    <2>4. Order'
      <3>1. ASSUME NEW g \in Ids, NEW j \in Ids, NEW k \in 1..Len(notes'),
                   srv'[g] = "open", SameKind(g, j), IsReq(notes'[k], j)
            PROVE  g = j \/ \E m \in (k + 1)..Len(notes') : IsReq(notes'[m], g)
        <4>1. CASE k = L
          <5>1. j = i BY <1>a, <2>2, <3>1, <4>1 DEF IsReq
          <5> QED BY <1>b, <1>e, <3>1, <5>1
        <4>2. CASE k \in 1..Len(notes) /\ notes'[k] = notes[k]
          <5>1. CASE g = i BY <1>a, <2>2, <4>2, <5>1
          <5>2. CASE g # i
            <6>1. g = j \/ \E m \in (k + 1)..Len(notes) : IsReq(notes[m], g)
              BY <1>b, <3>1, <4>2, <5>2 DEF StreamInv, Order
            <6>2. \A m \in (k + 1)..Len(notes) : m \in (k + 1)..Len(notes')
                                                 /\ notes'[m] = notes[m]
              BY <1>0, <1>a, <2>1, <4>2 DEF Grown
            <6> QED BY <6>1, <6>2
          <5> QED BY <5>1, <5>2
        <4> QED BY <2>2, <4>1, <4>2
      <3>2. ASSUME NEW g \in Approvals, NEW k \in 1..Len(notes'), IsReq(notes'[k], g)
            PROVE  srv'[g] = "open" \/ \E m \in (k + 1)..Len(notes') : IsRes(notes'[m], g)
        <4>1. CASE k = L BY <1>a, <1>b, <2>2, <3>2, <4>1 DEF IsReq
        <4>2. CASE k \in 1..Len(notes) /\ notes'[k] = notes[k]
          <5>1. srv[g] = "open" \/ \E m \in (k + 1)..Len(notes) : IsRes(notes[m], g)
            BY <3>2, <4>2 DEF StreamInv, Order
          <5>2. \A m \in (k + 1)..Len(notes) : m \in (k + 1)..Len(notes')
                                               /\ notes'[m] = notes[m]
            BY <1>0, <1>a, <2>1, <4>2 DEF Grown
          <5>3. g \in Ids BY DEF Ids
          <5> QED BY <1>b, <5>1, <5>2, <5>3
        <4> QED BY <2>2, <4>1, <4>2
      <3> QED BY <3>1, <3>2 DEF Order
    <2>5. /\ \A j : (ReqComing(j) => ReqComing(j)') /\ (ResComing(j) => ResComing(j)')
          /\ ReqComing(i)'
      <3>1. \E k \in 1..Len(ns) : IsReq(ns[k], i) BY <1>a
      <3> QED BY <1>a, <2>1, <3>1, ComingStays
    <2>6. \A j \in Approvals : j \in Ids BY DEF Ids
    <2>7. Snapshot' BY <1>0, <1>b, <2>5, <2>6 DEF StreamInv, Snapshot
    <2>8. Screen' BY <1>0, <1>b, <2>5, <2>6 DEF StreamInv, Screen, Shown
    <2> QED BY <2>3, <2>4, <2>7, <2>8 DEF StreamInv
  <1> QED BY <1>1, <1>2

\* Core's steps.
LEMMA CoreStream == TypeOK /\ Answers /\ StreamInv /\ Core => StreamInv'
  <1> SUFFICES ASSUME TypeOK, Answers, StreamInv, Core PROVE StreamInv' OBVIOUS
  <1>0. /\ srv \in [Ids -> {"new", "open", "closed"}]
        /\ \A c \in calls : c.rec.id \in Ids
        /\ Accepted
    BY Fields DEF TypeOK, StreamInv, Truth, Accepted
  <1>1. ASSUME NEW i \in Ids, CoreAsks(i) PROVE StreamInv' BY <1>1, AskStream
  <1>2. ASSUME NEW i \in Ids, CoreResolves(i) PROVE StreamInv'
    <2> DEFINE ns == Resolutions({i})
    <2>1. ns \in Seq(Notes) /\ Emit(ns) BY <1>2, ResolutionsTyped DEF CoreResolves
    <2>2. srv' = [srv EXCEPT ![i] = "closed"] /\ srv[i] = "open" /\ ended' = ended
      BY <1>2 DEF CoreResolves
    <2>3. /\ \A k \in 1..Len(ns) : ns[k].kind = "resolved" /\ ns[k].id = i
          /\ i \in Approvals => \E k \in 1..Len(ns) : IsRes(ns[k], i)
      BY ResolutionsTyped DEF IsRes
    <2>4. Closing(ns)
      <3> HIDE DEF ns
      <3>1. UNCHANGED <<records, generation, link, snap>> BY <1>2 DEF CoreResolves, ledger
      <3>2. \A j \in Approvals : srv[j] = "open" /\ srv'[j] # "open" => j = i
        BY <1>0, <2>2 DEF Ids
      <3> QED BY <1>0, <2>2, <2>3, <3>1, <3>2 DEF Closing, StreamInv, Truth
    <2>5. \A c \in calls' : c.result = "accepted" => srv'[c.rec.id] = "closed"
      BY <1>0, <1>2, <2>2 DEF CoreResolves, ledger, Accepted
    <2> QED BY <2>1, <2>4, <2>5, ClosingKeeps
  <1>3. ASSUME NEW m \in wire, CoreAnswered(m) PROVE StreamInv'
    <2> DEFINE acc == srv[m.id] = "open"
               ns == IF acc THEN Resolutions({m.id}) ELSE <<>>
    <2>0. m.id \in Ids BY DEF TypeOK
    <2>1. ns \in Seq(Notes) /\ Emit(ns) BY <1>3, <2>0, ResolutionsTyped DEF CoreAnswered
    <2>2. /\ srv' = [srv EXCEPT ![m.id] = IF acc THEN "closed" ELSE @]
          /\ ended' = ended
      BY <1>3 DEF CoreAnswered
    <2>3. /\ \A k \in 1..Len(ns) : ns[k].kind = "resolved" /\ ns[k].id = m.id /\ acc
          /\ m.id \in Approvals /\ acc => \E k \in 1..Len(ns) : IsRes(ns[k], m.id)
      BY <2>0, ResolutionsTyped DEF IsRes
    <2>4. Closing(ns)
      <3> HIDE DEF ns
      <3>1. UNCHANGED <<records, generation, link, snap>> BY <1>3 DEF CoreAnswered
      <3>2. \A j \in Approvals : srv[j] = "open" /\ srv'[j] # "open" => j = m.id /\ acc
        BY <1>0, <2>2 DEF Ids
      <3>3. \A j \in Ids : srv'[j] = "open" => srv[j] = "open" /\ TurnOf[j] \notin ended'
        BY <1>0, <2>2 DEF StreamInv, Truth
      <3>4. \A j \in Ids : srv[j] = "closed" => srv'[j] = "closed" BY <1>0, <2>2
      <3>5. acc => srv'[m.id] = "closed" BY <1>0, <2>0, <2>2
      <3>6. srv' \in [Ids -> {"new", "open", "closed"}] BY <1>0, <2>0, <2>2
      <3> HIDE DEF acc
      <3> QED BY <2>2, <2>3, <3>1, <3>2, <3>3, <3>4, <3>5, <3>6 DEF Closing
    <2>5. ASSUME NEW d \in calls', d.result = "accepted" PROVE srv'[d.rec.id] = "closed"
      <3>1. PICK c \in calls :
              d = IF c.op = m.op /\ c.result = "none"
                  THEN [c EXCEPT !.result = IF srv[m.id] = "open" THEN "accepted"
                                            ELSE "rejected"]
                  ELSE c
        BY <1>3 DEF CoreAnswered
      <3>2. CASE c.op = m.op /\ c.result = "none"
        <4>1. d.rec = c.rec /\ acc BY <2>5, <3>1, <3>2 DEF TypeOK
        <4>2. c.rec.id = m.id BY <3>2 DEF Answers
        <4> QED BY <1>0, <2>0, <2>2, <4>1, <4>2
      <3>3. CASE ~(c.op = m.op /\ c.result = "none")
        <4>1. d = c BY <3>1, <3>3
        <4> QED BY <1>0, <2>2, <2>5, <4>1 DEF Accepted
      <3> QED BY <3>2, <3>3
    <2> QED BY <2>1, <2>4, <2>5, ClosingKeeps
  <1>4. ASSUME NEW m \in wire, AnswerLost(m) PROVE StreamInv'
    <2>1. UNCHANGED <<records, generation, srv, ended, notes, link, snap, calls>>
      BY <1>4 DEF AnswerLost, ledger, stream
    <2> QED BY <1>0, <2>1, SameScreen, SameStream DEF Accepted
  <1>5. ASSUME NEW t \in Turns, TurnEnds(t) PROVE StreamInv'
    <2> DEFINE open == {i \in Ids : srv[i] = "open" /\ TurnOf[i] = t}
               rs == Resolutions(open)
               last == [kind |-> "terminal", turn |-> t]
               ns == rs \o <<last>>
    <2>1. rs \in Seq(Notes) /\ <<last>> \in Seq(Notes) BY ResolutionsTyped DEF Notes
    <2>2. ns \in Seq(Notes) /\ Emit(ns) BY <1>5, <2>1 DEF TurnEnds
    <2>3. /\ srv' = [i \in Ids |-> IF i \in open THEN "closed" ELSE srv[i]]
          /\ ended' = ended \cup {t}
          /\ UNCHANGED <<records, calls, generation, link, snap>>
      BY <1>5 DEF TurnEnds, ledger
    <2>4. \A i, j \in open \cap Approvals : i = j
      BY DEF StreamInv, Truth, SameKind, Ids
    <2>5. /\ Len(rs) \in Nat
          /\ \A k \in 1..Len(rs) : rs[k].kind = "resolved" /\ rs[k].id \in open \cap Approvals
          /\ open \cap Approvals # {} => Len(rs) = 1
      BY ResolutionsTyped
    <2>6. last.kind = "terminal" /\ last.turn = t OBVIOUS
    <2>7. /\ Len(ns) = Len(rs) + 1
          /\ \A k \in 1..Len(rs) : k \in 1..Len(ns) /\ ns[k] = rs[k]
          /\ \A k \in 1..Len(ns) : k \in 1..Len(rs) \/ ns[k] = last
      <3> HIDE DEF rs, last
      <3>1. Len(ns) = Len(rs) + 1 BY <2>1
      <3>2. \A k \in 1..Len(rs) : ns[k] = rs[k] BY <2>1
      <3>3. ns[Len(rs) + 1] = last BY <2>1, <2>5
      <3> HIDE DEF ns
      <3> QED BY <2>5, <3>1, <3>2, <3>3
    <2>8. Closing(ns)
      <3>1. \A i \in Ids : (srv'[i] = "open" => srv[i] = "open" /\ TurnOf[i] \notin ended')
                           /\ (srv[i] = "closed" => srv'[i] = "closed")
        BY <1>0, <2>3 DEF StreamInv, Truth
      <3>2. \A i \in open : srv'[i] = "closed" BY <2>3
      <3>3. srv' \in [Ids -> {"new", "open", "closed"}] BY <1>0, <2>3
      <3>4. \A i \in Approvals : srv[i] = "open" /\ srv'[i] # "open" => i \in open \cap Approvals
        BY <2>3 DEF Ids
      <3> HIDE DEF ns, rs, open, last
      <3>5. ASSUME NEW k \in 1..Len(ns)
            PROVE  /\ ns[k].kind # "requested"
                   /\ ns[k].kind = "resolved" => srv'[ns[k].id] = "closed"
                   /\ ns[k].kind = "terminal" => ns[k].turn \in ended'
        BY <2>3, <2>5, <2>6, <2>7, <3>2
      <3>6. ASSUME NEW i \in open \cap Approvals PROVE \E k \in 1..Len(ns) : IsRes(ns[k], i)
        <4>1. 1 \in 1..Len(rs) BY <2>5
        <4>2. rs[1].id = i /\ rs[1].kind = "resolved" BY <2>4, <2>5, <4>1
        <4> QED BY <2>7, <4>1, <4>2 DEF IsRes
      <3> QED BY <2>3, <3>1, <3>3, <3>4, <3>5, <3>6 DEF Closing
    <2>9. \A c \in calls' : c.result = "accepted" => srv'[c.rec.id] = "closed"
      BY <1>0, <2>3, <2>8 DEF Accepted, Closing
    <2> HIDE DEF ns
    <2> QED BY <2>2, <2>8, <2>9, ClosingKeeps
  <1> QED BY <1>1, <1>2, <1>3, <1>4, <1>5 DEF Core

\* Handling a notification that is on its way.
LEMMA ObserveStream ==
  ASSUME TypeOK, StreamInv, Observe
  PROVE  StreamInv'
  <1> DEFINE n == Head(notes)
  <1>0. /\ UNCHANGED <<calls, generation, link, srv, ended, snap>>
        /\ notes # <<>> /\ notes' = Tail(notes)
        /\ link \in {"draining", "ready", "faulted"}
    BY DEF Observe, core
  <1>1. /\ Len(notes) \in Nat \ {0} /\ n = notes[1] /\ n \in Notes /\ 1 \in 1..Len(notes)
        /\ Len(notes') = Len(notes) - 1
        /\ \A k \in 1..Len(notes') : k + 1 \in 1..Len(notes) /\ notes'[k] = notes[k + 1]
        /\ \A k \in 2..Len(notes) : k - 1 \in 1..Len(notes') /\ notes'[k - 1] = notes[k]
    <2>1. /\ Len(notes) \in Nat \ {0} /\ n = notes[1] /\ n \in Notes
          /\ Len(notes') = Len(notes) - 1
          /\ \A k \in 1..Len(notes') : notes'[k] = notes[k + 1]
          /\ \A k \in 2..Len(notes) : k - 1 \in 1..Len(notes') /\ notes'[k - 1] = notes[k]
      BY <1>0, TailFacts
    <2> QED BY <2>1
  <1>2. Truth'
    <2>1. Heard' BY <1>0 DEF Heard
    <2> QED BY <1>0, <1>1, <2>1 DEF StreamInv, Truth
  <1>3. Order'
    <2>1. ASSUME NEW i \in Ids, NEW j \in Ids, NEW k \in 1..Len(notes'),
                 srv'[i] = "open", SameKind(i, j), IsReq(notes'[k], j)
          PROVE  i = j \/ \E m \in (k + 1)..Len(notes') : IsReq(notes'[m], i)
      <3>1. k + 1 \in 1..Len(notes) /\ IsReq(notes[k + 1], j) BY <1>1, <2>1
      <3>2. i = j \/ \E m \in (k + 1 + 1)..Len(notes) : IsReq(notes[m], i)
        BY <1>0, <2>1, <3>1 DEF StreamInv, Order
      <3>3. \A m \in (k + 1 + 1)..Len(notes) : m - 1 \in (k + 1)..Len(notes')
                                               /\ notes'[m - 1] = notes[m]
        BY <1>1
      <3> QED BY <3>2, <3>3
    <2>2. ASSUME NEW i \in Approvals, NEW k \in 1..Len(notes'), IsReq(notes'[k], i)
          PROVE  srv'[i] = "open" \/ \E m \in (k + 1)..Len(notes') : IsRes(notes'[m], i)
      <3>1. k + 1 \in 1..Len(notes) /\ IsReq(notes[k + 1], i) BY <1>1, <2>2
      <3>2. srv[i] = "open" \/ \E m \in (k + 1 + 1)..Len(notes) : IsRes(notes[m], i)
        BY <3>1 DEF StreamInv, Order
      <3>3. \A m \in (k + 1 + 1)..Len(notes) : m - 1 \in (k + 1)..Len(notes')
                                               /\ notes'[m - 1] = notes[m]
        BY <1>1
      <3> QED BY <1>0, <3>2, <3>3
    <2> QED BY <2>1, <2>2 DEF Order
  <1>4. Snapshot' BY <1>0 DEF StreamInv, Snapshot
  <1>5. Screen'
    <2> SUFFICES ASSUME link' \in {"draining", "ready"} PROVE Screen' BY DEF Screen
    <2>0. /\ link \in {"draining", "ready"}
          /\ \A r \in records : r.generation = generation
          /\ \A i \in Ids : srv[i] = "open" => i \in Shown \/ ReqComing(i)
          /\ \A i \in Approvals : i \in Shown => srv[i] = "open" \/ ResComing(i)
      BY <1>0 DEF StreamInv, Screen
    <2>a. \A i : ReqComing(i) => IsReq(n, i) \/ ReqComing(i)'
      BY <1>1 DEF ReqComing
    <2>b. \A i : ResComing(i) => IsRes(n, i) \/ ResComing(i)'
      BY <1>1 DEF ResComing
    <2>c. generation \in Nat BY DEF TypeOK
    <2> HIDE DEF n
    <2>1. ASSUME n.kind = "requested", Becomes(Store(Ledger, n.id, generation))
          PROVE  Screen'
      <3>1. n.id \in Ids BY <1>1, <2>1 DEF Notes
      <3>2. \/ Kept /\ \E r \in records : r.id = n.id
            \/ Quiet(Stored(n.id, generation))
        BY <2>1, StoreEffect
      <3>3. Fresh(n.id, generation).id = n.id /\ Fresh(n.id, generation).generation = generation
        BY DEF Fresh
      <3>4. n.id \in Shown' BY <3>2, <3>3 DEF Kept, Quiet, Stored, Shown
      <3>5. \A r \in records' : r \in records \/ r = Fresh(n.id, generation)
        BY <3>2 DEF Kept, Quiet, Stored
      <3>6. \A r \in records : r \in records' \/ SameKind(r.id, n.id)
        BY <3>2 DEF Kept, Quiet, Stored
      <3>7. \A r \in records' : r.generation = generation' BY <1>0, <2>0, <3>3, <3>5
      <3>8. ASSUME NEW i \in Ids, srv'[i] = "open" PROVE i \in Shown' \/ ReqComing(i)'
        <4>1. srv[i] = "open" BY <1>0, <3>8
        <4>2. CASE ReqComing(i) BY <2>a, <3>4, <4>2 DEF IsReq
        <4>3. CASE i \in Shown
          <5>1. PICK r \in records : r.id = i BY <4>3 DEF Shown
          <5>2. CASE r \in records' BY <5>1, <5>2 DEF Shown
          <5>3. CASE SameKind(i, n.id)
            <6>1. IsReq(notes[1], n.id) BY <1>1, <2>1 DEF IsReq
            <6>2. i = n.id \/ \E m \in (1 + 1)..Len(notes) : IsReq(notes[m], i)
              BY <1>1, <3>1, <4>1, <5>3, <6>1 DEF StreamInv, Order
            <6>3. \A m \in (1 + 1)..Len(notes) : m - 1 \in 1..Len(notes')
                                                 /\ notes'[m - 1] = notes[m]
              BY <1>1
            <6> QED BY <3>4, <6>2, <6>3 DEF ReqComing
          <5> QED BY <3>6, <5>1, <5>2, <5>3
        <4> QED BY <2>0, <4>1, <4>2, <4>3
      <3>9. ASSUME NEW i \in Approvals, i \in Shown' PROVE srv'[i] = "open" \/ ResComing(i)'
        <4>1. PICK r \in records' : r.id = i BY <3>9 DEF Shown
        <4>2. CASE r \in records
          <5>1. srv[i] = "open" \/ ResComing(i) BY <2>0, <4>1, <4>2 DEF Shown
          <5>2. ~IsRes(n, i) BY <2>1 DEF IsRes
          <5> QED BY <1>0, <2>b, <5>1, <5>2
        <4>3. CASE r = Fresh(n.id, generation)
          <5>1. IsReq(notes[1], i) BY <1>1, <2>1, <3>3, <4>1, <4>3 DEF IsReq
          <5>2. srv[i] = "open" \/ \E m \in (1 + 1)..Len(notes) : IsRes(notes[m], i)
            BY <1>1, <5>1 DEF StreamInv, Order
          <5>3. \A m \in (1 + 1)..Len(notes) : m - 1 \in 1..Len(notes')
                                               /\ notes'[m - 1] = notes[m]
            BY <1>1
          <5> QED BY <1>0, <5>2, <5>3 DEF ResComing
        <4> QED BY <3>5, <4>1, <4>2, <4>3
      <3> QED BY <3>7, <3>8, <3>9 DEF Screen
    <2>2. ASSUME NEW gone, gone \subseteq Ids, \A i \in gone : srv[i] # "open",
                 \A i \in Approvals : IsRes(n, i) => i \in gone,
                 ~\E i \in Ids : IsReq(n, i),
                 \/ records' = {r \in records : r.id \notin gone}
                 \/ Kept /\ \A r \in records : ~IsRes(n, r.id)
          PROVE  Screen'
      <3>1. records' \subseteq records BY <2>2 DEF Kept
      <3>2. \A r \in records : srv[r.id] = "open" => r \in records' BY <2>2 DEF Kept
      <3>3. \A r \in records' : r.generation = generation' BY <1>0, <2>0, <3>1
      <3>4. \A i \in Ids : srv'[i] = "open" => i \in Shown' \/ ReqComing(i)'
        BY <1>0, <2>0, <2>a, <2>2, <3>2 DEF Shown
      <3>5. ASSUME NEW i \in Approvals, i \in Shown' PROVE srv'[i] = "open" \/ ResComing(i)'
        <4>1. PICK r \in records' : r.id = i BY <3>5 DEF Shown
        <4>2. ~IsRes(n, i) BY <2>2, <3>1, <4>1
        <4>3. srv[i] = "open" \/ ResComing(i) BY <2>0, <3>1, <4>1 DEF Shown
        <4> QED BY <1>0, <2>b, <4>2, <4>3
      <3> QED BY <3>3, <3>4, <3>5 DEF Screen
    <2>3. ASSUME n.kind = "resolved", Becomes(ResolveNotified(Ledger, n.id, generation))
          PROVE  Screen'
      <3>1. n.id \in Ids /\ srv[n.id] = "closed"
        <4>1. n.id \in Ids BY <1>1, <2>3 DEF Notes
        <4>2. srv[n.id] = "closed" BY <1>1, <2>3 DEF StreamInv, Truth
        <4> QED BY <4>1, <4>2
      <3>2. \/ Kept /\ ~\E r \in records : r.id = n.id /\ r.generation = generation
            \/ Quiet({r \in records : r.id # n.id})
        BY <2>3, ResolveEffect
      <3>3. \/ records' = {r \in records : r.id \notin {n.id}}
            \/ Kept /\ \A r \in records : ~IsRes(n, r.id)
        BY <2>0, <3>2 DEF Quiet, IsRes
      <3>4. \A i : IsRes(n, i) => i \in {n.id} BY DEF IsRes
      <3>5. ~\E i \in Ids : IsReq(n, i) BY <2>3 DEF IsReq
      <3>6. {n.id} \subseteq Ids /\ \A i \in {n.id} : srv[i] # "open" BY <3>1
      <3> QED BY <2>2, <3>3, <3>4, <3>5, <3>6
    <2>4. ASSUME n.kind = "terminal",
                 Becomes(IF buffered = 0 THEN SettleTurn(Ledger, n.turn) ELSE Ledger)
          PROVE  Screen'
      <3> DEFINE gone == {i \in Ids : TurnOf[i] = n.turn}
      <3>1. n.turn \in ended BY <1>1, <2>4 DEF StreamInv, Truth
      <3>2. gone \subseteq Ids /\ \A i \in gone : srv[i] # "open"
        BY <3>1 DEF StreamInv, Truth
      <3>3. ~(\E i \in Ids : IsReq(n, i)) /\ ~(\E i : IsRes(n, i)) BY <2>4 DEF IsReq, IsRes
      <3>4. \A r \in records : r.id \in Ids BY Fields
      <3>5. Kept \/ Quiet({r \in records : TurnOf[r.id] # n.turn})
        BY <2>4, SettleEffect, KeepEffect
      <3>6. \/ records' = {r \in records : r.id \notin gone}
            \/ Kept /\ \A r \in records : ~IsRes(n, r.id)
        BY <3>3, <3>4, <3>5 DEF Quiet
      <3> HIDE DEF gone
      <3> QED BY <2>2, <3>2, <3>3, <3>6
    <2> QED BY <2>1, <2>3, <2>4 DEF Observe, n
  <1> QED BY <1>2, <1>3, <1>4, <1>5 DEF StreamInv

\* The transport's steps and the reducer's.
LEMMA TransportStream == TypeOK /\ StreamInv /\ Transport => StreamInv'
  <1> SUFFICES ASSUME TypeOK, StreamInv, Transport PROVE StreamInv' OBVIOUS
  <1>0. Accepted BY DEF StreamInv, Truth, Accepted
  <1>1. CASE LoseTransport
    <2>1. calls' = {[c EXCEPT !.result = IF @ = "none" THEN "failed" ELSE @] : c \in calls}
          /\ UNCHANGED <<srv, ended>>
      BY <1>1 DEF LoseTransport, core
    <2>2. \A d \in calls' : \E c \in calls : d.rec = c.rec /\ (d.result = "accepted" =>
                                                               c.result = "accepted")
      BY <2>1 DEF TypeOK
    <2>3. Accepted' BY <1>0, <2>1, <2>2 DEF Accepted
    <2> QED BY <1>1, <2>1, <2>3, CutKeeps DEF LoseTransport
  <1>2. CASE Reopen \/ ReopenFails \/ Gap \/ GapFails
    <2>1. UNCHANGED <<calls, srv, ended>> /\ CutStream /\ link' \notin {"draining", "ready"}
      BY <1>2 DEF Reopen, ReopenFails, Gap, GapFails, core, ledger
    <2> QED BY <1>0, <2>1, CutKeeps DEF Accepted
  <1>3. CASE AnswerHydrate
    <2>1. /\ UNCHANGED <<records, calls, generation, srv, ended, notes, link>>
          /\ link \in {"opening", "recovering"}
          /\ snap' = [kind |-> "answer", pending |-> {i \in Ids : srv[i] = "open"}]
      BY <1>3 DEF AnswerHydrate, ledger, core
    <2>2. snap'.pending = {i \in Ids : srv[i] = "open"} BY <2>1
    <2>3. Snapshot' BY <2>1, <2>2 DEF Snapshot, StreamInv, Truth
    <2>4. Truth' BY <2>1 DEF StreamInv, Truth, Heard
    <2>5. Order' BY <2>1 DEF StreamInv, Order
    <2> QED BY <2>1, <2>3, <2>4, <2>5, SameScreen DEF StreamInv
  <1>4. CASE Hydrated
    <2>0. /\ UNCHANGED <<calls, srv, ended, notes>>
          /\ snap # NoSnap /\ snap' = NoSnap /\ link' = "draining"
      BY <1>4 DEF Hydrated, core
    <2>1. PICK last \in LastOfEachKind(snap.pending) :
            Becomes(RestoreFromHydrate(Ledger, generation', last))
      BY <1>4 DEF Hydrated
    <2>2. records' = Restored(last, generation') BY <2>1, RestoreEffect DEF Quiet
    <2>3. /\ \A i, j \in snap.pending : SameKind(i, j) => i = j
          /\ \A i \in Ids : srv[i] = "open" => i \in snap.pending \/ ReqComing(i)
          /\ \A i \in Approvals : i \in snap.pending => srv[i] = "open" \/ ResComing(i)
          /\ link \in {"opening", "recovering"}
      BY <2>0 DEF StreamInv, Snapshot
    <2>4. last = snap.pending
      <3>1. last \subseteq snap.pending BY DEF LastOfEachKind
      <3>2. \A i \in snap.pending : \E j \in last : SameKind(i, j) BY DEF LastOfEachKind
      <3> QED BY <2>3, <3>1, <3>2
    <2>5. \A i : i \in Shown' <=> i \in last
      <3>1. \A i \in last : Fresh(i, generation').id = i BY DEF Fresh
      <3>2. Shown' = {r.id : r \in Restored(last, generation')} BY <2>2 DEF Shown
      <3> QED BY <3>1, <3>2 DEF Restored
    <2>6. \A r \in records' : r.generation = generation' BY <2>2 DEF Restored, Fresh
    <2>7. \A i : (ReqComing(i) <=> ReqComing(i)') /\ (ResComing(i) <=> ResComing(i)')
      BY <2>0 DEF ReqComing, ResComing
    <2>8. Screen' BY <2>0, <2>3, <2>4, <2>5, <2>6, <2>7 DEF Screen
    <2>9. Truth' BY <2>0 DEF StreamInv, Truth, Heard
    <2>10. Order' BY <2>0 DEF StreamInv, Order
    <2> QED BY <2>0, <2>8, <2>9, <2>10 DEF StreamInv, Snapshot
  <1>5. CASE Ready
    <2>1. /\ UNCHANGED <<records, calls, generation, srv, ended, notes, snap>>
          /\ link = "draining" /\ link' = "ready"
      BY <1>5 DEF Ready, ledger, core, stream
    <2>2. Truth' BY <2>1 DEF StreamInv, Truth, Heard
    <2>3. Order' BY <2>1 DEF StreamInv, Order
    <2>4. Snapshot' BY <2>1 DEF StreamInv, Snapshot
    <2>5. Screen' BY <2>1 DEF StreamInv, Screen, Shown, ReqComing, ResComing
    <2> QED BY <2>2, <2>3, <2>4, <2>5 DEF StreamInv
  <1>6. CASE Observe BY <1>6, ObserveStream
  <1>7. ASSUME NEW t \in Turns, RecoveredTerminal(t) PROVE StreamInv'
    <2>1. /\ UNCHANGED <<calls, generation, srv, ended, notes, link, snap>> /\ t \in ended
          /\ Kept \/ Quiet({r \in records : TurnOf[r.id] # t})
      BY <1>7, SettleEffect DEF RecoveredTerminal, core, stream
    <2>2. records' \subseteq records BY <2>1 DEF Kept, Quiet
    <2>3. \A r \in records : srv[r.id] = "open" => r \in records'
      BY <2>1, Fields DEF Kept, Quiet, StreamInv, Truth
    <2>4. \A i : (ReqComing(i) <=> ReqComing(i)') /\ (ResComing(i) <=> ResComing(i)')
      BY <2>1 DEF ReqComing, ResComing
    <2>5. Screen' BY <2>1, <2>2, <2>3, <2>4 DEF StreamInv, Screen, Shown
    <2>6. Accepted' BY <1>0, <2>1 DEF Accepted
    <2> QED BY <2>1, <2>5, <2>6, SameStream
  <1> QED BY <1>1, <1>2, <1>3, <1>4, <1>5, <1>6, <1>7 DEF Transport

\* Every step keeps the stream's invariant.
LEMMA StepStream == PanelInv /\ StreamInv /\ [Next]_vars => StreamInv'
  <1> SUFFICES ASSUME TypeOK, Answers, StreamInv, [Next]_vars PROVE StreamInv'
    BY DEF PanelInv
  <1>1. CASE UNCHANGED vars
    <2>1. UNCHANGED <<records, calls, generation, srv, ended, notes, link, snap>>
      BY <1>1 DEF vars, ledger, core, stream
    <2>2. Accepted' BY <2>1 DEF StreamInv, Truth, Accepted
    <2> QED BY <2>1, <2>2, SameScreen, SameStream
  <1> QED BY <1>1, UserStream, CompletionsStream, TransportStream, CoreStream DEF Next

\* The whole invariant.
LEMMA StreamInvariant == Spec => []StreamInv
  <1>1. Init => PanelInv /\ StreamInv BY InitTyped, InitPanel, InitStream DEF PanelInv
  <1>2. PanelInv /\ StreamInv /\ [Next]_vars => (PanelInv /\ StreamInv)'
    BY StepPanel, StepStream
  <1> QED BY <1>1, <1>2, PTL DEF Spec

\* "the first interaction is never missed": once the record is ready and nothing
\* is on its way, a request that is open in Core is on screen, whatever was lost,
\* hydrated, buffered, replayed or superseded before.
THEOREM OpenRequestIsShown == Spec => []OpenIsShown
  <1>1. StreamInv => OpenIsShown
    BY DEF StreamInv, Screen, ReqComing, OpenIsShown, Settled
  <1> QED BY <1>1, StreamInvariant, PTL

\* At rest no approval stays on screen that Core has decided or cancelled.
THEOREM ShownApprovalIsOpen == Spec => []ApprovalShownIsOpen
  <1>1. StreamInv => ApprovalShownIsOpen
    BY DEF StreamInv, Screen, ResComing, ApprovalShownIsOpen, Settled
  <1> QED BY <1>1, StreamInvariant, PTL
=============================================================================
