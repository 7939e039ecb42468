--------------------------- MODULE TurnViewProofs ---------------------------
(***************************************************************************)
(* What every handler of the turn controller preserves, given what Core    *)
(* and its stream say of the turns, in four parts.                         *)
(*                                                                         *)
(* Tended and Spares: a handler drops text held for steering only when     *)
(* nothing is owed to it any more (a view, ViewOf, says what is), and lets *)
(* go of no prompt but the ones that the lemma about it names.             *)
(*                                                                         *)
(* Shifts: no handler moves a prompt ahead of one that it was behind, but  *)
(* for the text admitted as steering, which goes first.                    *)
(*                                                                         *)
(* Bars: while the foreground turn that hydrate reported is live, the head *)
(* of the queue was sent or is being recovered, so that nothing starts.    *)
(*                                                                         *)
(* Agrees: a turn of this client at the head of the queue runs in Core, or *)
(* its start is leased, or its outcome is being recovered, given the turns *)
(* that run and what is said of the others.                                *)
(***************************************************************************)
EXTENDS TurnControllerProofs

\* What Core and its stream say of the turns, as a handler finds it: the turns that
\* Core knows, the ones that ended, the ones of which the stream has nothing more to
\* say (quiet) or only events that precede the hydrate (old), the ones that have no
\* steering input left to return (unowed), which turns' events precede whose, and the
\* turns that Core will never know because their start was refused (dead).
ViewOf(c, w) ==
    /\ w.quiet \subseteq w.old /\ w.quiet \subseteq w.unowed
    /\ w.old \subseteq w.done /\ w.unowed \subseteq w.done
    /\ w.done \subseteq w.known /\ w.known \subseteq Turns
    /\ \A x, y : <<x, y>> \in w.before => y \in w.known
    /\ c.link = "ready" => w.old \subseteq w.quiet
    /\ \A t \in w.known : Sure(c, t)

SteerOwners(c) == {e.owner : e \in c.retained}

\* The steers aimed at x may be dropped only when nothing is owed to them any more.
Tends(c, x, w) ==
    /\ x \in w.known
    /\ x # Active(c) => x \in w.done /\ (x \in w.old \/ <<x, Active(c)>> \in w.before)
    /\ Recovering(c) /\ x = Active(c) => x \in w.quiet
    /\ x = c.lookup => x \in w.quiet
    /\ Recovering(c) => \/ x \in w.old
                        \/ /\ c.link \in {"draining", "ready"}
                           /\ x = c.hydrated.turn /\ x # Active(c)
    /\ c.local # NoTurn => x \in w.quiet
    /\ Received(c, x) => x \in w.unowed

\* The active turn is leased, under recovery, or known to Core.
Vouched(c, w) ==
    c.link \in {"draining", "ready"} /\ Active(c) \in c.attempted
    => c.local = Active(c) \/ c.recovery.turn = Active(c) \/ Active(c) \in w.known

\* What the parts of the controller that survive a settled turn say.
Sound(c, w) ==
    /\ c.hydrated.turn \in w.known \cup {NoTurn}
    /\ c.steerReq # NoTurn => c.steerOwner \in w.known
    /\ \A e \in c.retained : ~e.sent => e.turn = c.steerReq
    /\ c.steerUnknown => c.steerReq = NoTurn
    /\ c.lookup # NoTurn => Recovering(c)
    /\ c.retained # {} => c.link \in {"ready", "recovering", "draining", "deaf"}
    /\ \A x : Received(c, x) => x \in w.done \cup w.dead

Tended(c, w) ==
    /\ Sound(c, w)
    /\ Vouched(c, w)
    /\ c.link = "draining" /\ Recovering(c)
       => c.recovery.turn = Active(c) /\ Active(c) \in c.attempted
    /\ \A x \in SteerOwners(c) : Tends(c, x, w)

\* From c to d no prompt is let go but the turns T, the steers sent to the turns O,
\* and the steers M that become prompts of their own.
Spares(c, d, T, O, M) ==
    /\ QueuedIds(c.q) \subseteq QueuedIds(d.q) \cup d.composer \cup T
    /\ c.composer \subseteq d.composer
    /\ \A e \in c.retained :
          \/ \E g \in d.retained : g.turn = e.turn /\ g.owner = e.owner /\ g.sent = e.sent
          \/ e.sent /\ e.owner \in O
          \/ e.turn \in M /\ e.turn \in QueuedIds(d.q) \cup d.composer \cup T

LEMMA SparesReflexive ==
    ASSUME NEW c, NEW T, NEW O, NEW M
    PROVE  Spares(c, c, T, O, M)
BY DEF Spares

LEMMA SparesTransitive ==
    ASSUME NEW c, NEW d, NEW e, NEW T, NEW O, NEW M,
           Spares(c, d, T, O, M), Spares(d, e, T, O, M)
    PROVE  Spares(c, e, T, O, M)
<1>1. /\ QueuedIds(c.q) \subseteq QueuedIds(e.q) \cup e.composer \cup T
      /\ QueuedIds(d.q) \cup d.composer \cup T \subseteq QueuedIds(e.q) \cup e.composer \cup T
      /\ c.composer \subseteq e.composer
    BY DEF Spares
<1>2. ASSUME NEW x \in c.retained
      PROVE  \/ \E g \in e.retained : g.turn = x.turn /\ g.owner = x.owner /\ g.sent = x.sent
             \/ x.sent /\ x.owner \in O
             \/ x.turn \in M /\ x.turn \in QueuedIds(e.q) \cup e.composer \cup T
  <2>1. CASE \E g \in d.retained : g.turn = x.turn /\ g.owner = x.owner /\ g.sent = x.sent
    BY <2>1 DEF Spares
  <2>2. CASE x.turn \in M /\ x.turn \in QueuedIds(d.q) \cup d.composer \cup T
    BY <1>1, <2>2
  <2> QED BY <2>1, <2>2 DEF Spares
<1> QED BY <1>1, <1>2 DEF Spares

\* The handlers that leave all of this alone, whatever else they do.
Rests(c, d) ==
    /\ d.q.active = c.q.active /\ d.q.pending = c.q.pending
    /\ d.link = c.link /\ d.attempted = c.attempted
    /\ d.local = c.local /\ d.recovery = c.recovery /\ d.lookup = c.lookup
    /\ d.hydrated = c.hydrated /\ d.receipts = c.receipts /\ d.retained = c.retained
    /\ d.steerReq = c.steerReq /\ d.steerOwner = c.steerOwner
    /\ d.steerUnknown = c.steerUnknown /\ c.composer \subseteq d.composer

LEMMA RestsTended ==
    ASSUME NEW c, NEW d, Rests(c, d), NEW w, NEW T, NEW O, NEW M
    PROVE  /\ Tended(c, w) => Tended(d, w)
           /\ Sound(c, w) => Sound(d, w)
           /\ Spares(c, d, T, O, M)
           /\ Active(d) = Active(c) /\ SteerOwners(d) = SteerOwners(c)
<1>1. Active(d) = Active(c) /\ SteerOwners(d) = SteerOwners(c) /\ QueuedIds(d.q) = QueuedIds(c.q)
    BY DEF Rests, Active, SteerOwners, QueuedIds, Ids
<1>2. Sound(c, w) => Sound(d, w)
    BY DEF Rests, Sound, Recovering, Received
<1>3. \A x : Tends(c, x, w) => Tends(d, x, w)
    BY <1>1 DEF Rests, Tends, Recovering, Received
<1>4. Vouched(c, w) => Vouched(d, w)
    BY <1>1 DEF Rests, Vouched
<1>5. Tended(c, w) => Tended(d, w)
    BY <1>1, <1>2, <1>3, <1>4 DEF Tended, Rests, Recovering
<1>6. Spares(c, d, T, O, M)
    BY <1>1 DEF Rests, Spares
<1> QED BY <1>1, <1>2, <1>5, <1>6

LEMMA ViewKept ==
    ASSUME NEW c, NEW d, NEW w, ViewOf(c, w), Unsent(d) \subseteq Unsent(c), d.link = c.link
    PROVE  ViewOf(d, w)
BY DEF ViewOf, Sure

\* The turns that Core knows are not waiting to be started.
LEMMA UnknownIsNext ==
    ASSUME NEW c, WellFormed(c), Orderly(c), NEW w, ViewOf(c, w), Active(c) \notin c.attempted
    PROVE  Active(c) \notin w.known
<1>1. Active(c) \in c.attempted \cup Locals \cup {NoTurn}
    BY DEF Orderly, Fifo
<1>2. Active(c) \in Locals => Active(c) \in Unsent(c)
    BY DEF Unsent, Turns
<1> QED BY <1>1, <1>2, TurnsAssumption DEF ViewOf, Sure, Turns

LEMMA InvalidateStartRests ==
    ASSUME NEW c, WellFormed(c)
    PROVE  Rests(c, InvalidateStart(c))
BY DEF Rests, InvalidateStart, WellFormed, Controllers

LEMMA GiveBackRests ==
    ASSUME NEW c, WellFormed(c), NEW t
    PROVE  Rests(c, GiveBackInterrupted(c, t))
<1>1. c.q \in Queues
    BY DEF WellFormed, Controllers
<1>2. /\ TakeInterruptPrompt(c.q, t).active = c.q.active
      /\ TakeInterruptPrompt(c.q, t).pending = c.q.pending
    BY <1>1, StashIds
<1> QED BY <1>2 DEF Rests, GiveBackInterrupted, WellFormed, Controllers

\* startTurn leaves nothing owed behind: the head it starts was never attempted.
LEMMA StartTurnTended ==
    ASSUME NEW c, WellFormed(c), Orderly(c), NEW w, ViewOf(c, w), Tended(c, w), NEW t,
           NEW T, NEW O, NEW M
    PROVE  Tended(StartTurn(c, t), w) /\ Spares(c, StartTurn(c, t), T, O, M)
<1>1. CASE ~MayStart(c, t)
    BY <1>1, SparesReflexive DEF StartTurn
<1>2. CASE MayStart(c, t)
  <2> DEFINE d == StartTurn(c, t)
  <2>1. /\ d.q = c.q /\ d.link = c.link /\ d.local = t /\ d.recovery = c.recovery
        /\ d.lookup = c.lookup /\ d.hydrated = c.hydrated /\ d.receipts = c.receipts
        /\ d.retained = c.retained /\ d.steerReq = c.steerReq /\ d.steerOwner = c.steerOwner
        /\ d.steerUnknown = c.steerUnknown /\ d.composer = c.composer
    BY <1>2 DEF StartTurn, WellFormed, Controllers
  <2> HIDE DEF d
  <2>2. /\ Active(c) = t /\ Active(d) = t /\ c.link = "ready" /\ ~Recovering(c) /\ ~Recovering(d)
        /\ Active(c) \notin c.attempted
    BY <1>2, <2>1 DEF MayStart, Active, Recovering
  <2>3. t \notin w.known
    BY <2>2, UnknownIsNext
  <2>4. ASSUME NEW x \in SteerOwners(d) PROVE Tends(d, x, w)
    <3>1. Tends(c, x, w)
        BY <2>1 DEF Tended, SteerOwners
    <3>2. x # t /\ x \in w.old
        BY <2>2, <2>3, <3>1 DEF Tends, ViewOf
    <3>3. x \in w.quiet /\ x \in w.unowed /\ x \in w.done
        BY <2>2, <3>2 DEF ViewOf
    <3> QED BY <2>1, <2>2, <3>1, <3>2, <3>3 DEF Tends
  <2>5. Sound(d, w)
    BY <2>1, <2>2 DEF Tended, Sound, Recovering, Received
  <2>6. Tended(d, w)
    BY <2>1, <2>2, <2>4, <2>5 DEF Tended, Vouched
  <2> QED BY <2>1, <2>6 DEF Spares, d
<1> QED BY <1>1, <1>2

\* A controller whose queue has advanced, before h or the next prompt takes its place.
Loose(c, h, w) ==
    /\ Sound(c, w)
    /\ c.link = "draining" => ~Recovering(c)
    /\ \A x \in SteerOwners(c) :
          /\ x \in w.known
          /\ x # h => x \in w.old
          /\ x = h /\ Recovering(c) => x \in w.quiet
          /\ x = c.lookup => x \in w.quiet
          /\ Received(c, x) => x \in w.unowed

LEMMA LooseTended ==
    ASSUME NEW c, WellFormed(c), Orderly(c), NEW w, ViewOf(c, w), Active(c) \notin c.attempted,
           Loose(c, NoTurn, w)
    PROVE  Tended(c, w)
<1>1. c.local = NoTurn
    BY IdleIsFree
<1>2. Active(c) \notin w.known
    BY UnknownIsNext
<1>3. ASSUME NEW x \in SteerOwners(c) PROVE Tends(c, x, w)
  <2>1. x # NoTurn
    BY TurnsAssumption DEF Loose, ViewOf, Turns
  <2> QED BY <1>1, <1>2, <2>1 DEF Loose, Tends, ViewOf
<1> QED BY <1>3 DEF Loose, Tended, Vouched

LEMMA TendedIsLoose ==
    ASSUME NEW c, WellFormed(c), Orderly(c), NEW w, ViewOf(c, w), Active(c) \notin c.attempted,
           Tended(c, w), NEW h, h \in SteerOwners(c) /\ Recovering(c) => h \in w.quiet
    PROVE  Loose(c, h, w)
<1>1. Active(c) \notin w.known
    BY UnknownIsNext
<1>2. c.link = "draining" => ~Recovering(c)
    BY DEF Tended
<1>3. \A x \in SteerOwners(c) : x # Active(c) /\ x \in w.old
    BY <1>1 DEF Tended, Tends, ViewOf
<1> QED BY <1>2, <1>3 DEF Loose, Tended, Tends

\* A turn of the server is installed over a head that was never attempted.
LEMMA AdoptTended ==
    ASSUME NEW c, WellFormed(c), Orderly(c), NEW w, ViewOf(c, w), Active(c) \notin c.attempted,
           NEW h \in w.known, Loose(c, h, w), NEW T, NEW O, NEW M
    PROVE  LET d == AdoptForeground(c, h)
           IN  /\ Tended(d, w) /\ Spares(c, d, T, O, M)
               /\ WellFormed(d) /\ Orderly(d) /\ ViewOf(d, w)
<1> DEFINE d == AdoptForeground(c, h)
           q == RestoreActive(c.q, ObservedTurn(h), TRUE)
<1>1. Sure(c, h) /\ h \in Turns
    BY DEF ViewOf
<1>2. Orders(c, d) /\ Active(d) = h /\ Keeps(c, d)
    BY <1>1, AdoptForegroundOrders, AdoptForegroundKeeps
<1>3. /\ d.q = q /\ d.link = c.link /\ d.local = c.local /\ d.recovery = c.recovery
      /\ d.lookup = c.lookup /\ d.hydrated = c.hydrated /\ d.receipts = c.receipts
      /\ d.retained = c.retained /\ d.steerReq = c.steerReq /\ d.steerOwner = c.steerOwner
      /\ d.steerUnknown = c.steerUnknown /\ d.composer = c.composer
    BY DEF AdoptForeground, WellFormed, Controllers
<1> HIDE DEF d
<1>4. QueuedIds(c.q) \subseteq QueuedIds(q)
  <2>1. c.q \in Queues /\ OneEach(c.q) /\ Ids(c.q.pending) \subseteq Locals \ c.attempted
    BY DEF WellFormed, Controllers, Orderly, Fifo
  <2>2. ObservedTurn(h) \in Entries /\ ObservedTurn(h).id = h
    BY <1>1 DEF ObservedTurn, Entries
  <2>3. h \notin Ids(c.q.pending)
    BY <1>1, <2>1 DEF Sure, Unsent
  <2>4. /\ q.active.id = h
        /\ Ids(q.pending) = Ids(c.q.pending) \cup ({c.q.active.id} \ {NoTurn, h})
    BY <2>1, <2>2, <2>3, RestoreActiveIds
  <2> HIDE DEF q
  <2>5. h # NoTurn
    BY <1>1, TurnsAssumption DEF Turns
  <2> QED BY <2>4, <2>5 DEF QueuedIds
<1>5. c.local = NoTurn
    BY IdleIsFree
<1>6. ASSUME NEW x \in SteerOwners(d) PROVE Tends(d, x, w)
  <2>1. x \in SteerOwners(c)
    BY <1>3 DEF SteerOwners
  <2> QED BY <1>2, <1>3, <1>5, <2>1 DEF Loose, Tends, ViewOf, Received, Recovering
<1>7. Sound(d, w)
    BY <1>3 DEF Loose, Sound, Recovering, Received
<1>8. Tended(d, w)
    BY <1>2, <1>3, <1>6, <1>7 DEF Loose, Tended, Vouched, Recovering
<1>9. Spares(c, d, T, O, M)
    BY <1>3, <1>4 DEF Spares
<1>10. ViewOf(d, w)
    BY <1>2, ViewKept DEF Keeps
<1> QED BY <1>2, <1>8, <1>9, <1>10 DEF d, Keeps, Orders

\* releaseQueueTurn lets go of its turn only, and neither starts a prompt nor forgets
\* the foreground turn while the stream still owes steers something.
LEMMA ReleaseTended ==
    ASSUME NEW c, WellFormed(c), NEW t \in Turns, Active(c) = t,
           Orderly(InvalidateStart(c)),
           c.local = NoTurn, c.owner.state \notin {"running", "waiting"},
           NEW w, ViewOf(c, w), NEW h, h = (IF c.hydrated.turn = t THEN NoTurn ELSE c.hydrated.turn),
           Loose(c, h, w), NEW T, t \in T, NEW O, NEW M
    PROVE  /\ Tended(ReleaseQueueTurn(c, t), w)
           /\ Spares(c, ReleaseQueueTurn(c, t), T, O, M)
<1> DEFINE other == c.hydrated
           inv == InvalidateStart(c)
           s == [inv EXCEPT !.q = Settle(@, t)]
           quiet == [inv EXCEPT !.interruptReq = NoTurn, !.q = Settle(@, t)]
<1>1. WellFormed(inv) /\ Unsent(inv) \subseteq Unsent(c)
    BY InvalidateStartKeeps DEF Keeps
<1>2. /\ inv.q = c.q /\ inv.local = c.local /\ inv.owner = c.owner
      /\ inv.hydrated = c.hydrated /\ inv.attempted = c.attempted /\ inv.preflight = c.preflight
      /\ inv.link = c.link /\ inv.recovery = c.recovery /\ inv.lookup = c.lookup
      /\ inv.receipts = c.receipts /\ inv.retained = c.retained /\ inv.steerReq = c.steerReq
      /\ inv.steerOwner = c.steerOwner /\ inv.steerUnknown = c.steerUnknown
      /\ inv.composer = c.composer /\ inv.stage = "none"
    BY DEF InvalidateStart, WellFormed, Controllers
<1> HIDE DEF inv
<1>3. Orders(inv, s) /\ Active(s) \notin s.attempted /\ WellFormed(s)
    BY <1>1, <1>2, SettleQueueOrders DEF Active, inv
<1>4. /\ SameLease(s, quiet) /\ quiet.attempted = s.attempted /\ Active(quiet) = Active(s)
      /\ quiet.q = s.q /\ quiet.q = Settle(c.q, t)
      /\ quiet.hydrated = c.hydrated /\ quiet.attempted = c.attempted
      /\ quiet.preflight = c.preflight /\ quiet.local = c.local
      /\ quiet.link = c.link /\ quiet.recovery = c.recovery /\ quiet.lookup = c.lookup
      /\ quiet.receipts = c.receipts /\ quiet.retained = c.retained
      /\ quiet.steerReq = c.steerReq /\ quiet.steerOwner = c.steerOwner
      /\ quiet.steerUnknown = c.steerUnknown /\ quiet.composer = c.composer
      /\ quiet.stage = "none"
    BY <1>1, <1>2 DEF SameLease, OwnerFades, Active, Holds, WellFormed, Controllers
<1>5. WellFormed(quiet)
  <2>1. quiet = [s EXCEPT !.interruptReq = NoTurn]
    BY <1>1 DEF WellFormed, Controllers
  <2> HIDE DEF s, quiet
  <2>2. quiet \in Controllers
    BY <1>3, <2>1, NullTypes DEF WellFormed, Controllers
  <2> QED BY <1>3, <2>1, <2>2 DEF WellFormed, Controllers
<1> HIDE DEF s, quiet
<1>6. Orderly(quiet) /\ Active(quiet) \notin quiet.attempted
    BY <1>3, <1>4, SameLeaseOrders DEF Orders
<1>7. ViewOf(quiet, w)
  <2>1. Unsent(quiet) \subseteq Unsent(c)
    BY <1>4 DEF Unsent
  <2> QED BY <1>4, <2>1, ViewKept
<1>8. Loose(quiet, h, w)
  <2>1. SteerOwners(quiet) = SteerOwners(c)
    BY <1>4 DEF SteerOwners
  <2> QED BY <1>4, <2>1 DEF Loose, Sound, Recovering, Received
<1>9. Spares(c, quiet, T, O, M)
  <2>1. c.q \in Queues /\ OneEach(c.q) /\ c.q.active.id = t
    BY <1>2 DEF WellFormed, Controllers, Orderly, Fifo, Active, inv
  <2>2. LET r == Settle(c.q, t) IN Ids(c.q.pending) = Ids(r.pending) \cup ({r.active.id} \ {NoTurn})
    BY <2>1, SettleIds
  <2>3. QueuedIds(c.q) \subseteq QueuedIds(quiet.q) \cup T
    BY <1>4, <2>1, <2>2 DEF QueuedIds
  <2> QED BY <1>4, <2>3 DEF Spares
<1>10. CASE other.turn # NoTurn /\ other.turn # t
  <2> DEFINE adopted == AdoptForeground(quiet, other.turn)
             i == IF other.state = "interrupting" THEN other.turn ELSE NoTurn
             d == [adopted EXCEPT !.interrupting = i]
  <2>1. other.turn \in w.known /\ h = other.turn
    BY <1>10 DEF Loose, Sound
  <2>2. Tended(adopted, w) /\ Spares(quiet, adopted, T, O, M) /\ WellFormed(adopted)
    BY <1>5, <1>6, <1>7, <1>8, <2>1, AdoptTended
  <2>3. i \in OptTurn
    BY <2>1, NullTypes DEF ViewOf
  <2> HIDE DEF adopted, i
  <2>4. d \in Controllers
    BY <2>2, <2>3 DEF WellFormed, Controllers
  <2>5. WellFormed(d) /\ Rests(adopted, d)
    BY <2>2, <2>4 DEF WellFormed, Controllers, Rests
  <2> HIDE DEF d
  <2>6. Rests(d, GiveBackInterrupted(d, t))
    BY <2>5, GiveBackRests
  <2>7. ReleaseQueueTurn(c, t) = GiveBackInterrupted(d, t)
    BY <1>10, Zenon DEF ReleaseQueueTurn, quiet, inv, adopted, i, d
  <2>8. Tended(d, w) /\ Spares(adopted, d, T, O, M)
    BY <2>2, <2>5, RestsTended
  <2>9. Tended(GiveBackInterrupted(d, t), w) /\ Spares(d, GiveBackInterrupted(d, t), T, O, M)
    BY <2>6, <2>8, RestsTended
  <2> QED BY <1>9, <2>2, <2>7, <2>8, <2>9, SparesTransitive
<1>11. CASE other.turn = NoTurn \/ other.turn = t
  <2> DEFINE e == [quiet EXCEPT !.interrupting = Without(@, t)]
             d == GiveBackInterrupted(e, t)
  <2>1. Without(quiet.interrupting, t) \in OptTurn
    BY <1>5, WithoutType DEF WellFormed, Controllers
  <2>2. e \in Controllers
    BY <1>5, <2>1 DEF WellFormed, Controllers
  <2>3. WellFormed(e) /\ SameLease(quiet, e) /\ Rests(quiet, e) /\ Unsent(e) = Unsent(quiet)
    <3>1. WellFormed(e) /\ Unsent(e) = Unsent(quiet)
        BY <1>5, <2>2 DEF WellFormed, Controllers, Unsent
    <3>2. Rests(quiet, e)
        BY <1>5 DEF WellFormed, Controllers, Rests
    <3>3. SameLease(quiet, e)
        BY <1>5 DEF WellFormed, Controllers, SameLease, OwnerFades, Holds
    <3> QED BY <3>1, <3>2, <3>3
  <2> HIDE DEF e
  <2>4. Orderly(e)
    BY <1>6, <2>3, SameLeaseOrders DEF Orders
  <2>5. h = NoTurn
    BY <1>11
  <2>6. Tended(quiet, w)
    BY <1>5, <1>6, <1>7, <1>8, <2>5, LooseTended
  <2>7. Tended(e, w) /\ Spares(quiet, e, T, O, M)
    BY <2>3, <2>6, RestsTended
  <2>8. Orderly(d) /\ WellFormed(d) /\ Unsent(d) \subseteq Unsent(e) /\ d.link = e.link
    BY <2>3, <2>4, GiveBackInterruptedOrders, GiveBackInterruptedKeeps DEF Orders, Keeps
  <2>9. Rests(e, d)
    BY <2>3, GiveBackRests
  <2> HIDE DEF d
  <2>10. Tended(d, w) /\ Spares(e, d, T, O, M)
    BY <2>7, <2>9, RestsTended
  <2>11. ViewOf(d, w)
    BY <1>7, <2>3, <2>8, ViewKept DEF Rests
  <2>12. Tended(StartTurn(d, Active(d)), w) /\ Spares(d, StartTurn(d, Active(d)), T, O, M)
    BY <2>8, <2>10, <2>11, StartTurnTended
  <2>13. ReleaseQueueTurn(c, t) = StartTurn(d, Active(d))
    BY <1>11, Zenon DEF ReleaseQueueTurn, quiet, inv, e, d
  <2> QED BY <1>9, <2>7, <2>10, <2>12, <2>13, SparesTransitive
<1> QED BY <1>10, <1>11
-----------------------------------------------------------------------------
(* settleTurn *)

LEMMA AddReceiptHas ==
    ASSUME NEW s \in Seq(Turns), NEW t \in Turns, NEW i \in DOMAIN AddReceipt(s, t)
    PROVE  AddReceipt(s, t)[i] = t \/ \E j \in DOMAIN s : s[j] = AddReceipt(s, t)[i]
<1>1. ASSUME NEW r \in Seq(Turns), NEW k \in DOMAIN Append(r, t)
      PROVE  Append(r, t)[k] = t \/ (k \in DOMAIN r /\ r[k] = Append(r, t)[k])
    OBVIOUS
<1>2. CASE \E j \in DOMAIN s : s[j] = t
    BY <1>2 DEF AddReceipt
<1>3. CASE ~(\E j \in DOMAIN s : s[j] = t) /\ Len(s) = ReceiptLimit
  <2>1. s # <<>> /\ AddReceipt(s, t) = Append(Tail(s), t)
    BY <1>3, ControllerAssumption DEF AddReceipt
  <2>2. Tail(s) \in Seq(Turns) /\ \A k \in DOMAIN Tail(s) : k + 1 \in DOMAIN s /\ Tail(s)[k] = s[k + 1]
    BY <2>1
  <2>3. i \in DOMAIN Append(Tail(s), t)
    BY <2>1
  <2>4. \/ AddReceipt(s, t)[i] = t
        \/ i \in DOMAIN Tail(s) /\ Tail(s)[i] = AddReceipt(s, t)[i]
    BY <1>1, <2>1, <2>2, <2>3
  <2> QED BY <2>2, <2>4
<1>4. CASE ~(\E j \in DOMAIN s : s[j] = t) /\ Len(s) # ReceiptLimit
  <2>1. AddReceipt(s, t) = Append(s, t)
    BY <1>4 DEF AddReceipt
  <2> QED BY <1>1, <2>1
<1> QED BY <1>2, <1>3, <1>4

\* The part of settleTurn before the queue advances.
LEMMA SettlingSound ==
    ASSUME NEW c, WellFormed(c), NEW t \in Turns, NEW d, Settling(c, d, t),
           NEW w, ViewOf(c, w), Sound(c, w), t \in w.done \cup w.dead,
           NEW T, NEW O, t \in O, NEW M
    PROVE  /\ Sound(d, w) /\ ViewOf(d, w) /\ Spares(c, d, T, O, M)
           /\ SteerOwners(d) \subseteq SteerOwners(c)
           /\ \A x : Received(d, x) => Received(c, x) \/ x = t
           /\ c.steerReq = NoTurn => t \notin SteerOwners(d)
<1>1. \A x : Received(d, x) => Received(c, x) \/ x = t
  <2>1. c.receipts \in Seq(Turns) /\ d.receipts = AddReceipt(c.receipts, t)
    BY DEF WellFormed, Controllers, Settling
  <2>2. \A i \in DOMAIN d.receipts : d.receipts[i] = t \/ \E j \in DOMAIN c.receipts : c.receipts[j] = d.receipts[i]
    BY <2>1, AddReceiptHas
  <2> QED BY <2>2 DEF Received
<1>2. /\ d.retained \subseteq c.retained /\ SteerOwners(d) \subseteq SteerOwners(c)
      /\ c.steerReq = NoTurn => t \notin SteerOwners(d)
    BY DEF Settling, DropSteersOf, SteerOwners
<1>3. Sound(d, w)
  <2>1. d.hydrated.turn \in {c.hydrated.turn, NoTurn}
    BY DEF Settling
  <2>2. d.lookup # NoTurn => Recovering(d)
    BY DEF Settling, Sound, Recovering
  <2>3. /\ d.steerReq = c.steerReq /\ d.steerOwner = c.steerOwner
        /\ d.steerUnknown = c.steerUnknown /\ d.link = c.link
    BY DEF Settling
  <2> QED BY <1>1, <1>2, <2>1, <2>2, <2>3 DEF Sound
<1>4. ASSUME NEW e \in c.retained, e \notin d.retained PROVE e.sent /\ e.owner \in O
  <2>1. c.steerReq = NoTurn /\ e.owner = t
    BY <1>4 DEF Settling, DropSteersOf
  <2>2. e.turn # NoTurn /\ e.sent \in BOOLEAN
    BY TurnsAssumption DEF WellFormed, Controllers, Steers, Turns
  <2> QED BY <2>1, <2>2 DEF Sound
<1>5. Spares(c, d, T, O, M)
    BY <1>4 DEF Spares, Settling
<1>6. ViewOf(d, w)
  <2>1. Unsent(d) = Unsent(c) /\ d.link = c.link
    BY DEF Settling, Unsent
  <2> QED BY <2>1, ViewKept
<1> QED BY <1>1, <1>2, <1>3, <1>5, <1>6

\* The end of the active turn.  What the stream still owes is owed to steers of a
\* turn that hydrate reported as the foreground, which takes over.
LEMMA SettleActiveTended ==
    ASSUME NEW c, WellFormed(c), NEW t \in Turns, Active(c) = t, Orderly(InvalidateStart(c)),
           NEW w, ViewOf(c, w), Sound(c, w), t \in w.done \cup w.dead,
           c.link = "draining" /\ Recovering(c) => c.recovery.turn = t,
           \A x \in SteerOwners(c) :
              /\ x \in w.known
              /\ Received(c, x) => x \in w.unowed
              /\ \/ x \in w.quiet
                 \/ /\ x # t /\ (x \in w.old \/ x = c.hydrated.turn)
                    /\ Recovering(c) => c.recovery.turn = t,
           NEW T, t \in T, NEW O, t \in O, NEW M
    PROVE  Tended(SettleTurn(c, t), w) /\ Spares(c, SettleTurn(c, t), T, O, M)
<1>1. PICK d : Settling(c, d, t)
    BY SettlePrefix
<1>2. /\ Sound(d, w) /\ ViewOf(d, w) /\ Spares(c, d, T, O, M)
      /\ SteerOwners(d) \subseteq SteerOwners(c)
      /\ \A x : Received(d, x) => Received(c, x) \/ x = t
    BY <1>1, SettlingSound
<1> DEFINE i == InvalidateStart(c)
           j == InvalidateStart(d)
           r == RetireLocalDispatch(d, t)
<1>3. Orderly(j)
    BY <1>1, SameLeaseInvalidate, SameLeaseOrders DEF Orders, Settling
<1>4. d.owner.state \notin {"running", "waiting"}
  <2>1. i.owner = c.owner /\ i.q = c.q
    BY DEF InvalidateStart, WellFormed, Controllers
  <2>2. i.owner.state \in {"running", "waiting"} => i.owner.turn = Active(i)
    BY DEF Orderly, Leased
  <2> HIDE DEF i
  <2>3. c.owner.state \in {"running", "waiting"} => c.owner.turn = t
    BY <2>1, <2>2 DEF Active
  <2> QED BY <1>1, <2>3 DEF OwnerFades, Settling
<1>5. Active(d) = t /\ WellFormed(d)
    BY <1>1 DEF Active, Settling
<1>6. /\ Orders(j, InvalidateStart(r)) /\ r.q = d.q /\ r.owner = d.owner /\ r.local = NoTurn
      /\ WellFormed(r) /\ Unsent(r) \subseteq Unsent(d) /\ r.link = d.link
    BY <1>1, <1>3, <1>5, RetireLocalDispatchOrders, RetireLocalDispatchKeeps DEF Keeps, Settling
<1>7. /\ r.recovery = d.recovery /\ r.lookup = d.lookup /\ r.hydrated = d.hydrated
      /\ r.receipts = d.receipts /\ r.retained = d.retained /\ r.steerReq = d.steerReq
      /\ r.steerOwner = d.steerOwner /\ r.steerUnknown = d.steerUnknown
      /\ r.composer = d.composer
    BY <1>5 DEF RetireLocalDispatch, WellFormed, Controllers
<1> HIDE DEF i, j, r
<1>8. Active(r) = t /\ Orderly(InvalidateStart(r)) /\ r.owner.state \notin {"running", "waiting"}
    BY <1>4, <1>5, <1>6 DEF Active, Orders
<1>9. ViewOf(r, w)
    BY <1>2, <1>6, ViewKept
<1>10. PICK h : h = (IF r.hydrated.turn = t THEN NoTurn ELSE r.hydrated.turn)
    OBVIOUS
<1>11. h = r.hydrated.turn /\ (c.hydrated.turn # t => h = c.hydrated.turn)
  <2>1. NoHydrated.turn = NoTurn /\ t # NoTurn
    BY TurnsAssumption DEF NoHydrated, Turns
  <2> QED BY <1>1, <1>7, <1>10, <2>1 DEF Settling
<1>12. Sound(r, w)
    BY <1>2, <1>6, <1>7 DEF Sound, Recovering, Received
<1>13. Recovering(r) => Recovering(c) /\ c.recovery.turn # t
  <2>1. NoRecovery.turn = NoTurn
    BY DEF NoRecovery
  <2> QED BY <1>1, <1>7, <2>1 DEF Settling, Recovering
<1>14. ASSUME NEW x \in SteerOwners(r)
       PROVE  /\ x \in w.known
              /\ x # h => x \in w.old
              /\ x = h /\ Recovering(r) => x \in w.quiet
              /\ x = r.lookup => x \in w.quiet
              /\ Received(r, x) => x \in w.unowed
  <2>1. x \in SteerOwners(c) /\ x # NoTurn
    BY <1>2, <1>7, TurnsAssumption DEF SteerOwners, ViewOf, Turns
  <2>2. CASE x \in w.quiet
    BY <2>1, <2>2 DEF ViewOf
  <2>3. CASE x \notin w.quiet
    <3>1. /\ x # t /\ (x \in w.old \/ x = c.hydrated.turn)
          /\ Recovering(c) => c.recovery.turn = t
        BY <2>1, <2>3
    <3>2. ~Recovering(r)
        BY <1>13, <3>1
    <3>3. x # r.lookup
        BY <1>12, <2>1, <3>2 DEF Sound
    <3>4. Received(r, x) => Received(c, x)
        BY <1>2, <1>7, <3>1 DEF Received
    <3> QED BY <1>11, <2>1, <3>1, <3>2, <3>3, <3>4
  <2> QED BY <2>2, <2>3
<1>15. Loose(r, h, w)
  <2>1. r.link = c.link
    BY <1>1, <1>6 DEF Settling
  <2> QED BY <1>12, <1>13, <1>14, <2>1 DEF Loose
<1>16. /\ Tended(ReleaseQueueTurn(r, t), w)
       /\ Spares(r, ReleaseQueueTurn(r, t), T, O, M)
    BY <1>6, <1>8, <1>9, <1>10, <1>15, ReleaseTended
<1>17. Spares(d, r, T, O, M)
    BY <1>6, <1>7 DEF Spares
<1>18. SettleTurn(c, t) = ReleaseQueueTurn(r, t)
    BY <1>1 DEF r, Settling
<1> QED BY <1>2, <1>16, <1>17, <1>18, SparesTransitive

\* The end of a turn that is not at the head of the queue.
LEMMA SettleOtherTended ==
    ASSUME NEW c, WellFormed(c), NEW t \in Turns, Active(c) # t, Orderly(c),
           NEW w, ViewOf(c, w), Tended(c, w), t \in w.done \cup w.dead,
           t \in SteerOwners(c) => t \in w.quiet,
           NEW T, NEW O, t \in O, NEW M
    PROVE  Tended(SettleTurn(c, t), w) /\ Spares(c, SettleTurn(c, t), T, O, M)
<1>1. PICK d : Settling(c, d, t)
    BY SettlePrefix
<1>2. /\ Sound(d, w) /\ Spares(c, d, T, O, M)
      /\ SteerOwners(d) \subseteq SteerOwners(c)
      /\ \A x : Received(d, x) => Received(c, x) \/ x = t
    BY <1>1, SettlingSound DEF Tended
<1>3. d.local # t /\ Active(d) # t
    BY <1>1, TurnsAssumption DEF Orderly, Leased, Active, Turns, Settling
<1>4. SettleTurn(c, t) = d
    BY <1>1, <1>3 DEF RetireLocalDispatch, ReleaseQueueTurn, Settling
<1>5. /\ Active(d) = Active(c) /\ d.local = c.local /\ d.attempted = c.attempted /\ d.link = c.link
      /\ Recovering(d) => Recovering(c) /\ d.recovery = c.recovery /\ d.lookup = c.lookup
      /\ c.recovery.turn = Active(c) => d.recovery = c.recovery
      /\ c.hydrated.turn # t => d.hydrated = c.hydrated
  <2>1. NoRecovery.turn = NoTurn
    BY DEF NoRecovery
  <2> QED BY <1>1, <2>1 DEF Settling, Active, Recovering
<1>6. ASSUME NEW x \in SteerOwners(d) PROVE Tends(d, x, w)
  <2>1. Tends(c, x, w) /\ x \in SteerOwners(c)
    BY <1>2 DEF Tended
  <2>2. x = t => x \in w.quiet /\ x \in w.old /\ x \in w.unowed
    BY <2>1 DEF ViewOf
  <2>3. x # NoTurn /\ (d.lookup # NoTurn => Recovering(d))
    BY <1>2, <2>1, TurnsAssumption DEF Tends, ViewOf, Turns, Sound
  <2>4. x = d.lookup => x = c.lookup
    BY <1>5, <2>3
  <2>5. Received(d, x) => x \in w.unowed
    BY <1>2, <2>1, <2>2 DEF Tends
  <2> QED BY <1>5, <2>1, <2>2, <2>4, <2>5 DEF Tends
<1>7. Vouched(d, w)
    BY <1>5 DEF Tended, Vouched
<1>8. Tended(d, w)
    BY <1>2, <1>5, <1>6, <1>7 DEF Tended
<1> QED BY <1>2, <1>4, <1>8
-----------------------------------------------------------------------------
(* The queue *)

LEMMA RequeuedTended ==
    ASSUME NEW c, WellFormed(c), Orderly(c), NEW d, WellFormed(d), Orderly(d), Requeues(c, d),
           NEW w, ViewOf(c, w), Tended(c, w), NEW T,
           QueuedIds(c.q) \subseteq QueuedIds(d.q) \cup T, NEW O, NEW M
    PROVE  Tended(d, w) /\ ViewOf(d, w) /\ Spares(c, d, T, O, M)
<1>1. ViewOf(d, w)
  <2>1. Unsent(d) = Unsent(c) /\ d.link = c.link
    BY DEF Requeues, Unsent
  <2> QED BY <2>1, ViewKept
<1>2. SteerOwners(d) = SteerOwners(c) /\ \A x : Received(d, x) = Received(c, x)
    BY DEF Requeues, SteerOwners, Received
<1>3. Sound(c, w) => Sound(d, w)
    BY <1>2 DEF Requeues, Sound, Recovering
<1>4. CASE Active(d) = Active(c)
  <2>1. \A x : Tends(c, x, w) => Tends(d, x, w)
    BY <1>2, <1>4 DEF Requeues, Tends, Recovering
  <2> QED BY <1>1, <1>2, <1>3, <1>4, <2>1 DEF Requeues, Tended, Vouched, Recovering, Spares
<1>5. CASE Active(c) \notin c.attempted /\ Active(d) \notin d.attempted
  <2>1. NoTurn \notin SteerOwners(c)
    BY TurnsAssumption DEF Tended, Tends, ViewOf, Turns
  <2>2. Loose(c, NoTurn, w)
    BY <1>5, <2>1, TendedIsLoose
  <2>3. Loose(d, NoTurn, w)
    BY <1>2, <1>3, <2>2 DEF Loose, Requeues, Recovering
  <2>4. Tended(d, w)
    BY <1>1, <1>5, <2>3, LooseTended
  <2> QED BY <1>1, <2>4 DEF Requeues, Spares
<1> QED BY <1>4, <1>5 DEF Requeues

LEMMA EnqueueTurnTended ==
    ASSUME NEW c, WellFormed(c), Orderly(c), NEW t \in Locals, MayEnqueue(c, t),
           NEW w, ViewOf(c, w), Tended(c, w), NEW T, NEW O, NEW M
    PROVE  LET e == EnqueueTurn(c, t)
           IN  Tended(e, w) /\ Spares(c, e, T, O, M) /\ t \in QueuedIds(e.q)
<1>1. PICK d : /\ EnqueueTurn(c, t) \in {d, StartTurn(d, t)} /\ WellFormed(d) /\ Orderly(d)
               /\ Requeues(c, d) /\ QueuedIds(d.q) = QueuedIds(c.q) \cup {t}
    BY EnqueueTurnOrders
<1>2. Tended(d, w) /\ ViewOf(d, w) /\ Spares(c, d, T, O, M)
  <2>1. QueuedIds(c.q) \subseteq QueuedIds(d.q) \cup T
    BY <1>1
  <2> QED BY <1>1, <2>1, RequeuedTended
<1>3. Tended(StartTurn(d, t), w) /\ Spares(d, StartTurn(d, t), T, O, M)
    BY <1>1, <1>2, StartTurnTended
<1>4. StartTurn(d, t).q = d.q
    BY <1>1 DEF StartTurn, WellFormed, Controllers
<1>5. Spares(c, StartTurn(d, t), T, O, M)
    BY <1>2, <1>3, SparesTransitive
<1> QED BY <1>1, <1>2, <1>3, <1>4, <1>5

LEMMA CancelQueuedPromptTended ==
    ASSUME NEW c, WellFormed(c), Orderly(c), NEW t,
           NEW w, ViewOf(c, w), Tended(c, w), NEW T, t \in T, NEW O, NEW M
    PROVE  LET d == CancelQueuedPrompt(c, t)
           IN  Tended(d, w) /\ Spares(c, d, T, O, M)
<1> DEFINE q == RemovePending(c.q, t)
           d == [c EXCEPT !.q = q]
<1>1. c.q \in Queues /\ OneEach(c.q)
    BY DEF WellFormed, Controllers, Orderly, Fifo
<1>2. q.active = c.q.active /\ Ids(q.pending) = Ids(c.q.pending) \ {t}
    BY <1>1, RemovePendingIds
<1>3. CancelQueuedPrompt(c, t) = d
    BY Zenon DEF CancelQueuedPrompt
<1> HIDE DEF q
<1>4. Requeues(c, d) /\ d.q = q
    BY <1>2, RequeueRequeues DEF Active, WellFormed, Controllers
<1> HIDE DEF d
<1>5. WellFormed(d) /\ Orderly(d)
    BY <1>3, CancelQueuedPromptKeeps, CancelQueuedPromptOrders DEF Keeps, Orders
<1>6. QueuedIds(c.q) \subseteq QueuedIds(d.q) \cup T
    BY <1>2, <1>4 DEF QueuedIds
<1> QED BY <1>3, <1>4, <1>5, <1>6, RequeuedTended

LEMMA RestageSteersTended ==
    ASSUME NEW c, WellFormed(c), Orderly(c), NEW turns \in Seq(Turns), NoRepeat(turns),
           TurnsOf(turns) \subseteq Locals,
           TurnsOf(turns) \cap (c.attempted \cup QueuedIds(c.q) \cup RetainedTurns(c)) = {},
           NEW w, ViewOf(c, w), Tended(c, w), NEW T, NEW O, NEW M
    PROVE  LET d == RestageSteers(c, turns)
           IN  /\ Tended(d, w) /\ ViewOf(d, w) /\ Spares(c, d, T, O, M)
               /\ WellFormed(d) /\ Orderly(d) /\ Requeues(c, d)
               /\ QueuedIds(d.q) = QueuedIds(c.q) \cup TurnsOf(turns)
<1> DEFINE d == RestageSteers(c, turns)
<1>1. /\ WellFormed(d) /\ Orderly(d) /\ Requeues(c, d)
      /\ QueuedIds(d.q) = QueuedIds(c.q) \cup TurnsOf(turns)
    BY RestageSteersOrders, RestageSteersKeeps DEF OrdersWith, Keeps
<1> HIDE DEF d
<1>2. Tended(d, w) /\ ViewOf(d, w) /\ Spares(c, d, T, O, M)
  <2>1. QueuedIds(c.q) \subseteq QueuedIds(d.q) \cup T
    BY <1>1
  <2> QED BY <1>1, <2>1, RequeuedTended
<1> QED BY <1>1, <1>2 DEF d

-----------------------------------------------------------------------------
(* Handlers that leave all of it alone *)

LEMMA QuietHandlersRest ==
    ASSUME NEW c, WellFormed(c), NEW t, NEW b \in BOOLEAN
    PROVE  /\ Rests(c, MarkSent(c, t)) /\ Rests(c, Interrupt(c, b))
           /\ Rests(c, InterruptReturned(c, t, b)) /\ Rests(c, SetAcceptedOwnerInteraction(c, b))
           /\ Rests(c, StartUnconfirmed(c, t)) /\ Rests(c, [c EXCEPT !.steering = ~@])
<1> USE DEF WellFormed, Controllers
<1>1. Rests(c, MarkSent(c, t)) /\ Rests(c, SetAcceptedOwnerInteraction(c, b))
    BY DEF Rests, MarkSent, SetAcceptedOwnerInteraction
<1>2. Rests(c, InterruptReturned(c, t, b)) /\ Rests(c, [c EXCEPT !.steering = ~@])
    BY DEF Rests, InterruptReturned
<1>3. Rests(c, Interrupt(c, b))
  <2> DEFINE q == IF b THEN StashInterruptPrompt(c.q, c.q.active)
                  ELSE TakeInterruptPrompt(c.q, c.q.active.id)
  <2>1. q.active = c.q.active /\ q.pending = c.q.pending
    BY StashIds
  <2> HIDE DEF q
  <2>2. Rests(c, [c EXCEPT !.q = q, !.interrupting = Active(c), !.interruptReq = Active(c)])
    BY <2>1 DEF Rests
  <2> QED BY <2>2, Zenon DEF Interrupt, q
<1>4. Rests(c, StartUnconfirmed(c, t))
  <2>1. Rests(c, InvalidateStart(c))
    BY InvalidateStartRests
  <2>2. Rests(c, InvalidateStart([c EXCEPT !.timedOut = t]))
    BY DEF Rests, InvalidateStart
  <2> QED BY <2>1, <2>2, Zenon DEF StartUnconfirmed
<1> QED BY <1>1, <1>2, <1>3, <1>4

\* The server proved the start: a lease becomes the accepted owner.
LEMMA AcceptLocalDispatchTended ==
    ASSUME NEW c, WellFormed(c), Orderly(c), NEW t, NEW state,
           NEW w, t \in w.known, ViewOf(c, w), Tended(c, w), NEW T, NEW O, NEW M
    PROVE  LET d == AcceptLocalDispatch(c, t, state)
           IN  /\ Tended(d, w) /\ Spares(c, d, T, O, M)
               /\ d.hydrated = c.hydrated /\ d.q = c.q /\ d.retained = c.retained
               /\ d.steerReq = c.steerReq /\ d.steerOwner = c.steerOwner
               /\ d.link = c.link /\ d.recovery \in {c.recovery, NoRecovery}
<1> DEFINE d == AcceptLocalDispatch(c, t, state)
<1>1. CASE c.local # t \/ ~Linked(c)
  <2>1. d = c
    BY <1>1 DEF AcceptLocalDispatch
  <2> QED BY <2>1, SparesReflexive
<1>2. CASE c.local = t /\ Linked(c)
  <2>1. /\ d.q = c.q /\ d.link = c.link /\ d.attempted = c.attempted
        /\ d.local = NoTurn /\ d.hydrated = c.hydrated /\ d.receipts = c.receipts
        /\ d.retained = c.retained /\ d.steerReq = c.steerReq /\ d.steerOwner = c.steerOwner
        /\ d.steerUnknown = c.steerUnknown /\ d.composer = c.composer
        /\ d.recovery = (IF c.recovery.turn = t THEN NoRecovery ELSE c.recovery)
        /\ d.lookup = (IF c.recovery.turn = t THEN NoTurn ELSE c.lookup)
    BY <1>2 DEF AcceptLocalDispatch, ClearRecoveryOf, ClearRecovery, WellFormed, Controllers
  <2> HIDE DEF d
  <2>2. t # NoTurn /\ Active(c) = t /\ Active(d) = t /\ SteerOwners(d) = SteerOwners(c)
        /\ NoRecovery.turn = NoTurn
    BY <1>2, <2>1, TurnsAssumption DEF ViewOf, Turns, Orderly, Leased, Active, SteerOwners, NoRecovery
  <2>3. Recovering(d) => Recovering(c) /\ d.recovery = c.recovery /\ d.lookup = c.lookup
    BY <2>1, <2>2 DEF Recovering
  <2>4. Sound(d, w)
    BY <2>1, <2>2, <2>3 DEF Tended, Sound, Recovering, Received
  <2>5. ASSUME NEW x \in SteerOwners(d) PROVE Tends(d, x, w)
    <3>1. Tends(c, x, w) /\ x # NoTurn
        BY <2>2, TurnsAssumption DEF Tended, Tends, ViewOf, Turns
    <3>2. x = d.lookup => x = c.lookup
        BY <2>1, <3>1
    <3>3. Received(d, x) = Received(c, x)
        BY <2>1 DEF Received
    <3> QED BY <2>1, <2>2, <2>3, <3>1, <3>2, <3>3 DEF Tends
  <2>6. Tended(d, w)
    BY <2>1, <2>2, <2>3, <2>4, <2>5 DEF Tended, Vouched
  <2> QED BY <2>1, <2>6 DEF Spares, d
<1> QED BY <1>1, <1>2
-----------------------------------------------------------------------------
(* Notifications *)

LEMMA ConfirmTurnAcceptedTended ==
    ASSUME NEW c, WellFormed(c), Orderly(c), NEW t,
           NEW w, t \in w.known, ViewOf(c, w), Tended(c, w), NEW T, NEW O, NEW M
    PROVE  LET d == ConfirmTurnAccepted(c, t)
           IN  /\ Tended(d, w) /\ ViewOf(d, w) /\ Spares(c, d, T, O, M)
               /\ WellFormed(d) /\ Orderly(d) /\ d.q = c.q /\ d.retained = c.retained
               /\ d.link = c.link /\ Sure(c, t) /\ Sure(d, t)
<1> DEFINE d == ConfirmTurnAccepted(c, t)
<1>1. Sure(c, t)
    BY DEF ViewOf
<1>2. Orderly(d) /\ WellFormed(d) /\ Sure(d, t)
    BY <1>1, ConfirmTurnAcceptedOrders
<1>3. /\ Tended(d, w) /\ Spares(c, d, T, O, M) /\ d.q = c.q /\ d.retained = c.retained
      /\ d.link = c.link
    BY AcceptLocalDispatchTended DEF ConfirmTurnAccepted
<1>4. Unsent(d) \subseteq Unsent(c)
    BY <1>1, AcceptLocalDispatchKeeps DEF ConfirmTurnAccepted, Keeps, Sure
<1> HIDE DEF d
<1>5. ViewOf(d, w)
    BY <1>3, <1>4, ViewKept
<1> QED BY <1>1, <1>2, <1>3, <1>5 DEF d

LEMMA ObserveTurnStartedTended ==
    ASSUME NEW c, WellFormed(c), Orderly(c), c.link \in {"draining", "ready", "faulted"},
           NEW w, NEW t \in w.known, ViewOf(c, w), Tended(c, w), NEW T, NEW O, NEW M
    PROVE  LET d == ObserveTurnStarted(c, t)
           IN  Tended(d, w) /\ Spares(c, d, T, O, M)
<1> DEFINE d == ConfirmTurnAccepted(c, t)
<1>1. /\ Tended(d, w) /\ ViewOf(d, w) /\ Spares(c, d, T, O, M)
      /\ WellFormed(d) /\ Orderly(d) /\ d.link = c.link
    BY ConfirmTurnAcceptedTended
<1> HIDE DEF d
<1>2. CASE AdoptObservedTurn(d, t) = d
    BY <1>1, <1>2 DEF ObserveTurnStarted, d
<1>3. CASE AdoptObservedTurn(d, t) # d
  <2>1. AdoptObservedTurn(d, t) = AdoptForeground(d, t) /\ Active(d) = NoTurn
    BY <1>3 DEF AdoptObservedTurn
  <2>2. Active(d) \notin d.attempted /\ NoTurn \notin w.known
    BY <1>1, <2>1, TurnsAssumption DEF WellFormed, Controllers, ViewOf, Turns
  <2>3. ASSUME t \in SteerOwners(d), Recovering(d) PROVE t \in w.quiet
    <3>1. d.link = "ready"
      <4>1. d.link # "draining"
        BY <1>1, <2>1, <2>2, <2>3 DEF Tended
      <4>2. d.retained # {}
        BY <2>3 DEF SteerOwners
      <4> QED BY <1>1, <4>1, <4>2 DEF Tended, Sound
    <3>2. t \in w.old
        BY <1>1, <2>1, <2>2, <2>3 DEF Tended, Tends, ViewOf
    <3> QED BY <1>1, <3>1, <3>2 DEF ViewOf
  <2>4. Loose(d, t, w)
    BY <1>1, <2>2, <2>3, TendedIsLoose
  <2>5. Tended(AdoptForeground(d, t), w) /\ Spares(d, AdoptForeground(d, t), T, O, M)
    BY <1>1, <2>2, <2>4, AdoptTended
  <2> QED BY <1>1, <2>1, <2>5, SparesTransitive DEF ObserveTurnStarted, d
<1> QED BY <1>2, <1>3

\* A live terminal: the stream has nothing more to say of its turn, and when that turn
\* is the active one, of no turn that was steered.
LEMMA ObserveTerminalTended ==
    ASSUME NEW c, WellFormed(c), Orderly(c),
           NEW w, NEW t \in w.quiet, ViewOf(c, w), Tended(c, w),
           Active(c) = t => SteerOwners(c) \subseteq w.quiet,
           NEW T, t \in T, NEW O, t \in O, NEW M
    PROVE  LET d == ObserveTerminal(c, t)
           IN  Tended(d, w) /\ Spares(c, d, T, O, M)
<1> DEFINE d == ConfirmTurnAccepted(c, t)
<1>1. t \in w.known /\ t \in w.done \cup w.dead
    BY DEF ViewOf
<1>2. /\ Tended(d, w) /\ ViewOf(d, w) /\ Spares(c, d, T, O, M)
      /\ WellFormed(d) /\ Orderly(d) /\ d.q = c.q /\ d.retained = c.retained /\ t \in Turns
    BY <1>1, ConfirmTurnAcceptedTended DEF Sure
<1> HIDE DEF d
<1>3. CASE Active(d) # t
  <2>1. Tended(SettleTurn(d, t), w) /\ Spares(d, SettleTurn(d, t), T, O, M)
    BY <1>1, <1>2, <1>3, SettleOtherTended
  <2> QED BY <1>2, <2>1, SparesTransitive DEF ObserveTerminal, d
<1>4. CASE Active(d) = t
  <2>1. Orderly(InvalidateStart(d))
    BY <1>2, InvalidateStartOrders DEF Orders
  <2>2. SteerOwners(d) \subseteq w.quiet
    BY <1>2, <1>4 DEF SteerOwners, Active
  <2>3. \A x \in SteerOwners(d) : x \in w.known /\ x \in w.unowed
    BY <1>2, <2>2 DEF ViewOf
  <2>4. d.link = "draining" /\ Recovering(d) => d.recovery.turn = t
    BY <1>2, <1>4 DEF Tended
  <2>5. Sound(d, w)
    BY <1>2 DEF Tended
  <2>6. Tended(SettleTurn(d, t), w) /\ Spares(d, SettleTurn(d, t), T, O, M)
    BY <1>1, <1>2, <1>4, <2>1, <2>2, <2>3, <2>4, <2>5, SettleActiveTended
  <2> QED BY <1>2, <2>6, SparesTransitive DEF ObserveTerminal, d
<1> QED BY <1>3, <1>4

\* Steers may be let go of without touching what is promised to the others.
LEMMA FewerSteersTended ==
    ASSUME NEW c, NEW d, d.q = c.q, d.link = c.link, d.attempted = c.attempted,
           d.local = c.local, d.recovery = c.recovery, d.lookup = c.lookup,
           d.hydrated = c.hydrated, d.receipts = c.receipts, d.retained \subseteq c.retained,
           \/ d.steerReq = c.steerReq /\ d.steerOwner = c.steerOwner
           \/ d.steerReq = NoTurn /\ \A e \in d.retained : e.sent,
           d.steerUnknown => d.steerReq = NoTurn,
           NEW w, Tended(c, w)
    PROVE  Tended(d, w)
<1>1. SteerOwners(d) \subseteq SteerOwners(c) /\ Active(d) = Active(c)
      /\ Recovering(d) = Recovering(c) /\ \A x : Received(d, x) = Received(c, x)
    BY DEF SteerOwners, Active, Recovering, Received
<1>2. Sound(d, w)
    BY <1>1 DEF Tended, Sound
<1>3. \A x : Tends(c, x, w) => Tends(d, x, w)
    BY <1>1 DEF Tends
<1> QED BY <1>1, <1>2, <1>3 DEF Tended, Vouched

LEMMA ObserveSteerDroppedTended ==
    ASSUME NEW c, WellFormed(c), Orderly(c), NEW given \in Seq(Turns), NoRepeat(given),
           NEW w, NEW t \in w.known, ViewOf(c, w), Tended(c, w),
           NEW T, NEW O, NEW M, TurnsOf(given) \subseteq M
    PROVE  LET d == ObserveSteerDropped(c, t, given)
           IN  /\ Tended(d, w) /\ Spares(c, d, T, O, M)
               /\ \A e \in c.retained : e.owner = t /\ e.sent /\ e.turn \in TurnsOf(given)
                                        => e.turn \in QueuedIds(d.q)
<1> DEFINE d == ConfirmTurnAccepted(c, t)
           mine == {e \in d.retained : /\ e.owner = t /\ e.sent
                                       /\ \E i \in DOMAIN given : given[i] = e.turn}
           N == {e.turn : e \in mine}
           returned == Keep(given, N)
           b == d.steerUnknown /\ mine = {}
           s == [d EXCEPT !.retained = d.retained \ mine, !.steerUnknown = b]
<1>1. /\ Tended(d, w) /\ ViewOf(d, w) /\ Spares(c, d, T, O, M)
      /\ WellFormed(d) /\ Orderly(d) /\ d.retained = c.retained
    BY ConfirmTurnAcceptedTended
<1> HIDE DEF d
<1>2. /\ mine \subseteq d.retained /\ N \subseteq RetainedTurns(d) /\ N \subseteq TurnsOf(given)
    BY DEF RetainedTurns, TurnsOf
<1>3. \A e \in d.retained : e.turn \in N => e \in mine
  <2> SUFFICES ASSUME NEW e \in d.retained, NEW g \in mine, e.turn = g.turn PROVE e \in mine
    OBVIOUS
  <2>1. g \in d.retained /\ g.owner = t /\ g.sent /\ \E i \in DOMAIN given : given[i] = g.turn
    OBVIOUS
  <2>2. e.owner = g.owner /\ e.sent = g.sent
    BY <1>1, <2>1 DEF Orderly, Fifo, OneSteer
  <2> QED BY <2>1, <2>2
<1>4. returned \in Seq(Turns) /\ NoRepeat(returned) /\ TurnsOf(returned) = N
  <2>1. returned \in Seq(Turns)
    BY KeepType
  <2>2. /\ \A i, j \in DOMAIN returned : returned[i] = returned[j] => i = j
        /\ \A i \in DOMAIN returned : returned[i] \in N
    <3>1. \A i, j \in DOMAIN given : given[i] = given[j] => i = j
        BY DEF NoRepeat
    <3> HIDE DEF N
    <3> QED BY <3>1, KeepDistinct
  <2>3. ASSUME NEW p \in N PROVE \E k \in DOMAIN returned : returned[k] = p
    <3>1. PICK i \in DOMAIN given : given[i] = p
        BY <1>2 DEF TurnsOf
    <3> HIDE DEF N
    <3>2. \E k \in DOMAIN Keep(given, N) : Keep(given, N)[k] = given[i]
        BY <3>1, KeepAll
    <3> QED BY <3>1, <3>2 DEF returned
  <2> HIDE DEF returned, N
  <2> QED BY <2>1, <2>2, <2>3 DEF NoRepeat, TurnsOf
<1>5. ObserveSteerDropped(c, t, given) = RestageSteers(s, returned)
    BY Zenon DEF ObserveSteerDropped, d
<1>6. \A e \in mine : e.turn \in N
    OBVIOUS
<1>7. \A e \in c.retained : e.owner = t /\ e.sent /\ e.turn \in TurnsOf(given) => e \in mine
    BY <1>1 DEF TurnsOf
<1> HIDE DEF mine
<1>8. b \in BOOLEAN /\ (b => d.steerUnknown)
    BY <1>1 DEF WellFormed, Controllers
<1> HIDE DEF b, N, returned
<1>9. /\ s.q = d.q /\ s.link = d.link /\ s.attempted = d.attempted /\ s.local = d.local
      /\ s.dispatching = d.dispatching /\ s.owner = d.owner /\ s.preflight = d.preflight
      /\ s.startReq = d.startReq /\ s.stage = d.stage /\ s.steerAdmitted = d.steerAdmitted
      /\ s.recovery = d.recovery /\ s.lookup = d.lookup /\ s.hydrated = d.hydrated
      /\ s.receipts = d.receipts /\ s.retained = d.retained \ mine
      /\ s.steerReq = d.steerReq /\ s.steerOwner = d.steerOwner /\ s.steerUnknown = b
      /\ s.composer = d.composer
    BY <1>1 DEF WellFormed, Controllers
<1>10. s \in Controllers
  <2>1. d.retained \ mine \in SUBSET Steers
    BY <1>1 DEF WellFormed, Controllers
  <2> QED BY <1>1, <1>8, <2>1 DEF WellFormed, Controllers
<1> HIDE DEF s
<1>11. WellFormed(s)
    BY <1>1, <1>9, <1>10 DEF WellFormed
<1>12. Orderly(s)
  <2>1. SameLease(d, s)
    BY <1>9 DEF SameLease, OwnerFades, Holds
  <2> QED BY <1>1, <2>1, SameLeaseOrders DEF Orders
<1>13. Tended(s, w)
  <2>1. s.steerUnknown => s.steerReq = NoTurn
    BY <1>1, <1>8, <1>9 DEF Tended, Sound
  <2> QED BY <1>1, <1>9, <2>1, FewerSteersTended
<1>14. ViewOf(s, w)
  <2>1. Unsent(s) = Unsent(d)
    BY <1>9 DEF Unsent
  <2> QED BY <1>1, <1>9, <2>1, ViewKept
<1>15. /\ TurnsOf(returned) \subseteq Locals
       /\ TurnsOf(returned) \cap (s.attempted \cup QueuedIds(s.q) \cup RetainedTurns(s)) = {}
  <2>1. N \cap RetainedTurns(s) = {}
    BY <1>3, <1>9 DEF RetainedTurns
  <2> QED BY <1>1, <1>2, <1>4, <1>9, <2>1 DEF Orderly, Fifo
<1>16. PICK r : r = RestageSteers(s, returned)
    OBVIOUS
<1>17. /\ Tended(r, w) /\ Spares(s, r, T, O, M) /\ Requeues(s, r)
       /\ QueuedIds(r.q) = QueuedIds(s.q) \cup TurnsOf(returned)
    BY <1>4, <1>11, <1>12, <1>13, <1>14, <1>15, <1>16, RestageSteersTended
<1>18. Spares(d, r, T, O, M)
  <2>1. QueuedIds(d.q) \subseteq QueuedIds(r.q) /\ r.composer = d.composer
        /\ r.retained = d.retained \ mine
    BY <1>9, <1>17 DEF Requeues
  <2>2. \A e \in mine : e.turn \in M /\ e.turn \in QueuedIds(r.q)
    BY <1>2, <1>4, <1>6, <1>17
  <2> QED BY <2>1, <2>2 DEF Spares
<1>19. \A e \in c.retained : e.owner = t /\ e.sent /\ e.turn \in TurnsOf(given)
                            => e.turn \in QueuedIds(r.q)
    BY <1>4, <1>6, <1>17, <1>7
<1> QED BY <1>1, <1>5, <1>16, <1>17, <1>18, <1>19, SparesTransitive
-----------------------------------------------------------------------------
(* The ends of startTurn *)

LEMMA StartAckedTended ==
    ASSUME NEW c, WellFormed(c), Orderly(c), NEW w, NEW t \in w.known, ViewOf(c, w),
           Tended(c, w), NEW T, NEW O, NEW M
    PROVE  LET d == StartAcked(c, t)
           IN  Tended(d, w) /\ Spares(c, d, T, O, M)
<1> DEFINE a == AcceptLocalDispatch(c, t, "running")
<1>1. Tended(a, w) /\ Spares(c, a, T, O, M) /\ WellFormed(a)
    BY AcceptLocalDispatchTended, AcceptLocalDispatchKeeps DEF Keeps
<1> HIDE DEF a
<1>2. Rests(a, InvalidateStart(a)) /\ Rests(c, InvalidateStart(c))
    BY <1>1, InvalidateStartRests
<1>3. /\ Tended(InvalidateStart(a), w) /\ Spares(a, InvalidateStart(a), T, O, M)
      /\ Tended(InvalidateStart(c), w) /\ Spares(c, InvalidateStart(c), T, O, M)
    BY <1>1, <1>2, RestsTended
<1>4. Spares(c, InvalidateStart(a), T, O, M)
    BY <1>1, <1>3, SparesTransitive
<1>5. StartAcked(c, t) \in {InvalidateStart(a), InvalidateStart(c)}
    BY Zenon DEF StartAcked, a
<1> QED BY <1>3, <1>4, <1>5

\* A turn whose lease is gone and that left the head of the queue is never sent again.
LEMMA PassedIsSent ==
    ASSUME NEW d, Orderly(d), NEW t \in Turns, t \in d.attempted, Active(d) # t
    PROVE  t \notin Unsent(d)
<1>1. t # NoTurn
    BY TurnsAssumption DEF Turns
<1>2. d.local # t /\ d.preflight # t /\ (d.stage = "preflight" => d.startReq # t)
    BY <1>1 DEF Orderly, Leased
<1> QED BY <1>2 DEF Unsent

LEMMA ReleasePassed ==
    ASSUME NEW c, WellFormed(c), NEW t \in Turns, Active(c) = t, Orderly(InvalidateStart(c)),
           c.local = NoTurn, c.owner.state \notin {"running", "waiting"}, t \in c.attempted,
           c.hydrated.turn \in {NoTurn, t} \/ Sure(c, c.hydrated.turn)
    PROVE  t \notin Unsent(ReleaseQueueTurn(c, t))
<1> DEFINE d == ReleaseQueueTurn(c, t)
           inv == InvalidateStart(c)
           quiet == [inv EXCEPT !.interruptReq = NoTurn, !.q = Settle(@, t)]
           q == Settle(c.q, t)
<1>1. Orderly(d)
    BY ReleaseQueueTurnOrders DEF Orders
<1>2. inv.q = c.q /\ inv.attempted = c.attempted /\ WellFormed(inv)
    BY InvalidateStartKeeps DEF InvalidateStart, WellFormed, Controllers, Keeps
<1>3. q \in Queues /\ q.active.id # t /\ OneEach(q)
  <2>1. c.q \in Queues /\ OneEach(c.q) /\ c.q.active.id = t
    BY <1>2 DEF WellFormed, Controllers, Orderly, Fifo, Active
  <2>2. t # NoTurn
    BY TurnsAssumption DEF Turns
  <2> QED BY <2>1, <2>2, SettleIds, SettleType DEF OneEach
<1> HIDE DEF inv
<1>4. quiet.q = q /\ quiet.attempted = c.attempted /\ quiet \in Controllers
    BY <1>2, <1>3, NullTypes DEF WellFormed, Controllers
<1> HIDE DEF q, quiet
<1>5. CASE c.hydrated.turn # NoTurn /\ c.hydrated.turn # t
  <2> DEFINE h == c.hydrated.turn
             i == IF c.hydrated.state = "interrupting" THEN h ELSE NoTurn
             a == AdoptForeground(quiet, h)
             b == [a EXCEPT !.interrupting = i]
             r == RestoreActive(q, ObservedTurn(h), TRUE)
  <2>1. ReleaseQueueTurn(c, t) = GiveBackInterrupted(b, t)
    BY <1>5, Zenon DEF ReleaseQueueTurn, quiet, inv
  <2>2. h \in Turns
    BY <1>5 DEF Sure
  <2>3. r.active.id = h /\ r \in Queues
    <3>1. ObservedTurn(h) \in Entries /\ ObservedTurn(h).id = h
        BY <2>2 DEF ObservedTurn, Entries
    <3>2. r \in Queues
        BY <1>3, <3>1, RestoreActiveType
    <3>3. r.active.id = h
      <4> HIDE DEF h
      <4> QED BY <1>3, <3>1 DEF RestoreActive, Queues
    <3> QED BY <3>2, <3>3
  <2>4. a.q = r /\ a.attempted = c.attempted \cup {h} /\ a \in Controllers
    BY <1>4, <2>2, <2>3 DEF AdoptForeground, WellFormed, Controllers
  <2> HIDE DEF a, r, h, i
  <2>5. b.q = r /\ b.attempted = c.attempted \cup {h}
    BY <2>4 DEF Controllers
  <2>6. d.attempted = c.attempted \cup {h} /\ d.q = TakeInterruptPrompt(r, t)
    BY <2>1, <2>4, <2>5 DEF GiveBackInterrupted, Controllers
  <2>7. Active(d) = h
    BY <2>3, <2>6, StashIds DEF Active
  <2> QED BY <1>1, <1>5, <2>6, <2>7, PassedIsSent DEF h
<1>6. CASE c.hydrated.turn = NoTurn \/ c.hydrated.turn = t
  <2> DEFINE b == [quiet EXCEPT !.interrupting = Without(@, t)]
             g == GiveBackInterrupted(b, t)
  <2>1. ReleaseQueueTurn(c, t) = StartTurn(g, Active(g))
    BY <1>6, Zenon DEF ReleaseQueueTurn, quiet, inv
  <2>2. b.q = q /\ b.attempted = c.attempted
    BY <1>4 DEF Controllers
  <2>3. g.q = TakeInterruptPrompt(q, t) /\ g.attempted = c.attempted
    BY <1>4 DEF GiveBackInterrupted, Controllers
  <2>4. StartTurn(g, Active(g)).q = g.q /\ g.attempted \subseteq StartTurn(g, Active(g)).attempted
    BY <1>4 DEF StartTurn, GiveBackInterrupted, Controllers
  <2> HIDE DEF g
  <2>5. Active(d) # t /\ t \in d.attempted
    BY <1>3, <2>1, <2>3, <2>4, StashIds DEF Active
  <2> QED BY <1>1, <2>5, PassedIsSent
<1> QED BY <1>5, <1>6

LEMMA SettlePassed ==
    ASSUME NEW c, WellFormed(c), NEW t \in Turns, Active(c) = t, Orderly(InvalidateStart(c)),
           t \in c.attempted, c.hydrated.turn = NoTurn \/ Sure(c, c.hydrated.turn)
    PROVE  t \notin Unsent(SettleTurn(c, t))
<1>1. PICK d : Settling(c, d, t)
    BY SettlePrefix
<1> DEFINE i == InvalidateStart(c)
           j == InvalidateStart(d)
           r == RetireLocalDispatch(d, t)
<1>2. Orderly(j)
    BY <1>1, SameLeaseInvalidate, SameLeaseOrders DEF Orders, Settling
<1>3. d.owner.state \notin {"running", "waiting"}
  <2>1. i.owner = c.owner /\ i.q = c.q
    BY DEF InvalidateStart, WellFormed, Controllers
  <2>2. i.owner.state \in {"running", "waiting"} => i.owner.turn = Active(i)
    BY DEF Orderly, Leased
  <2> HIDE DEF i
  <2>3. c.owner.state \in {"running", "waiting"} => c.owner.turn = t
    BY <2>1, <2>2 DEF Active
  <2> QED BY <1>1, <2>3 DEF OwnerFades, Settling
<1>4. Active(d) = t
    BY <1>1 DEF Active, Settling
<1>5. /\ Orderly(InvalidateStart(r)) /\ r.q = d.q /\ r.owner = d.owner /\ r.local = NoTurn
      /\ WellFormed(r) /\ r.attempted = d.attempted /\ r.hydrated = d.hydrated
      /\ Unsent(r) \subseteq Unsent(d)
    BY <1>1, <1>2, <1>4, RetireLocalDispatchOrders, RetireLocalDispatchKeeps
       DEF Keeps, Settling, Orders
<1> HIDE DEF i, j, r
<1>6. r.hydrated.turn \in {NoTurn, t} \/ Sure(r, r.hydrated.turn)
  <2>1. Unsent(d) = Unsent(c)
    BY <1>1 DEF Settling, Unsent
  <2> QED BY <1>1, <1>5, <2>1 DEF Settling, Sure, NoHydrated
<1>7. Active(r) = t /\ t \in r.attempted
    BY <1>1, <1>4, <1>5 DEF Active, Settling
<1>8. t \notin Unsent(ReleaseQueueTurn(r, t))
    BY <1>3, <1>5, <1>6, <1>7, ReleasePassed
<1> QED BY <1>1, <1>8 DEF r, Settling

\* Retiring a lease leaves everything but the lease alone.
LEMMA RetireLocalDispatchRests ==
    ASSUME NEW c, WellFormed(c), NEW t
    PROVE  LET r == RetireLocalDispatch(c, t)
           IN  /\ r.q = c.q /\ r.link = c.link /\ r.attempted = c.attempted /\ r.owner = c.owner
               /\ r.recovery = c.recovery /\ r.lookup = c.lookup /\ r.hydrated = c.hydrated
               /\ r.receipts = c.receipts /\ r.retained = c.retained
               /\ r.steerReq = c.steerReq /\ r.steerOwner = c.steerOwner
               /\ r.steerUnknown = c.steerUnknown /\ r.composer = c.composer
               /\ WellFormed(r) /\ Unsent(r) \subseteq Unsent(c)
<1>1. WellFormed(RetireLocalDispatch(c, t)) /\ Unsent(RetireLocalDispatch(c, t)) \subseteq Unsent(c)
    BY RetireLocalDispatchKeeps DEF Keeps
<1> QED BY <1>1 DEF RetireLocalDispatch, WellFormed, Controllers

\* While a start is leased, the stream owes the steers nothing.
LEMMA LeasedIsQuiet ==
    ASSUME NEW c, NEW w, ViewOf(c, w), Tended(c, w), c.local # NoTurn, NEW x \in SteerOwners(c)
    PROVE  x \in w.quiet /\ x \in w.old /\ x \in w.unowed /\ x \in w.done /\ x \in w.known
BY DEF Tended, Tends, ViewOf

LEMMA RefusedTended ==
    ASSUME NEW c, WellFormed(c), Orderly(c), NEW t \in Turns, c.local = t, c.link # "draining",
           NEW w, ViewOf(c, w), Tended(c, w), t \in w.done \cup w.dead,
           NEW r, WellFormed(r), r = RetireLocalDispatch(c, t)
                  \/ r = [RetireLocalDispatch(c, t) EXCEPT !.composer = @ \cup {t}],
           NEW T, t \in T, NEW O, t \in O, NEW M
    PROVE  LET d == SettleTurn(r, t)
           IN  Tended(d, w) /\ Spares(c, d, T, O, M) /\ Spares(r, d, T, O, M) /\ t \notin Unsent(d)
<1> DEFINE b == RetireLocalDispatch(c, t)
<1>1. /\ b.q = c.q /\ b.link = c.link /\ b.attempted = c.attempted /\ b.owner = c.owner
      /\ b.recovery = c.recovery /\ b.lookup = c.lookup /\ b.hydrated = c.hydrated
      /\ b.receipts = c.receipts /\ b.retained = c.retained
      /\ b.steerReq = c.steerReq /\ b.steerOwner = c.steerOwner
      /\ b.steerUnknown = c.steerUnknown /\ b.composer = c.composer
      /\ WellFormed(b) /\ Unsent(b) \subseteq Unsent(c)
    BY RetireLocalDispatchRests
<1>2. Orderly(InvalidateStart(b))
    BY InvalidateStartOrders, RetireLocalDispatchOrders DEF Orders
<1> HIDE DEF b
<1>3. /\ r.q = b.q /\ r.link = b.link /\ r.attempted = b.attempted /\ r.owner = b.owner
      /\ r.recovery = b.recovery /\ r.lookup = b.lookup /\ r.hydrated = b.hydrated
      /\ r.receipts = b.receipts /\ r.retained = b.retained
      /\ r.steerReq = b.steerReq /\ r.steerOwner = b.steerOwner
      /\ r.steerUnknown = b.steerUnknown /\ b.composer \subseteq r.composer
      /\ r.local = b.local /\ r.dispatching = b.dispatching /\ r.preflight = b.preflight
      /\ r.steerAdmitted = b.steerAdmitted /\ r.startReq = b.startReq /\ r.stage = b.stage
    BY <1>1 DEF b, WellFormed, Controllers
<1>4. Orderly(InvalidateStart(r))
  <2>1. Holds(b, r) /\ OwnerFades(b, r)
    BY <1>3 DEF Holds, OwnerFades
  <2> QED BY <1>1, <1>2, <1>3, <2>1, SameLeaseInvalidate, SameLeaseOrders DEF Orders
<1>5. t # NoTurn /\ Active(c) = t /\ t \in c.attempted
    BY TurnsAssumption DEF Orderly, Leased, Turns
<1>6. Active(r) = t /\ t \in r.attempted
    BY <1>1, <1>3, <1>5 DEF Active
<1>7. Sound(r, w) /\ Unsent(r) \subseteq Unsent(c) /\ Spares(c, r, T, O, M)
      /\ SteerOwners(r) = SteerOwners(c) /\ r.link # "draining"
  <2>1. Unsent(r) = Unsent(b)
    BY <1>3 DEF Unsent
  <2> QED BY <1>1, <1>3, <2>1 DEF Tended, Sound, Recovering, Received, Spares, SteerOwners
<1>8. ViewOf(r, w)
    BY <1>1, <1>3, <1>7, ViewKept
<1>9. \A x \in SteerOwners(r) : x \in w.known /\ x \in w.unowed /\ x \in w.quiet
    BY <1>5, <1>7, LeasedIsQuiet
<1>10. Tended(SettleTurn(r, t), w) /\ Spares(r, SettleTurn(r, t), T, O, M)
    BY <1>4, <1>6, <1>7, <1>8, <1>9, SettleActiveTended
<1>11. r.hydrated.turn = NoTurn \/ Sure(r, r.hydrated.turn)
    BY <1>7, <1>8 DEF Sound, ViewOf
<1>12. t \notin Unsent(SettleTurn(r, t))
    BY <1>4, <1>6, <1>11, SettlePassed
<1> QED BY <1>7, <1>10, <1>12, SparesTransitive

LEMMA StartRefusedTended ==
    ASSUME NEW c, WellFormed(c), Orderly(c), NEW t \in Turns, c.local = t, c.link # "draining",
           NEW w, ViewOf(c, w), Tended(c, w), t \in w.done \cup w.dead,
           NEW T, t \in T, NEW O, t \in O, NEW M
    PROVE  LET d == StartRefused(c, t)
           IN  /\ Tended(d, w) /\ Spares(c, d, T, O, M) /\ t \notin Unsent(d)
               /\ t \notin Reviews => t \in d.composer
<1> DEFINE b == RetireLocalDispatch(c, t)
           e == [b EXCEPT !.composer = @ \cup {t}]
<1>1. WellFormed(b)
    BY RetireLocalDispatchRests
<1> HIDE DEF b
<1>2. e \in Controllers
    BY <1>1 DEF WellFormed, Controllers
<1>3. WellFormed(e) /\ t \in e.composer
    BY <1>1, <1>2 DEF WellFormed, Controllers
<1>4. CASE t \in Reviews
  <2>1. StartRefused(c, t) = SettleTurn(b, t)
    BY <1>4 DEF StartRefused, b
  <2>2. LET d == SettleTurn(b, t) IN Tended(d, w) /\ Spares(c, d, T, O, M) /\ t \notin Unsent(d)
    BY <1>1, RefusedTended DEF b
  <2> QED BY <1>4, <2>1, <2>2
<1>5. CASE t \notin Reviews
  <2>1. StartRefused(c, t) = SettleTurn(e, t)
    BY <1>5, Zenon DEF StartRefused, b, e
  <2>2. LET d == SettleTurn(e, t)
        IN  Tended(d, w) /\ Spares(c, d, T, O, M) /\ Spares(e, d, T, O, M) /\ t \notin Unsent(d)
    BY <1>3, RefusedTended DEF b, e
  <2> QED BY <1>3, <2>1, <2>2 DEF Spares
<1> QED BY <1>4, <1>5

LEMMA PreflightNotReadyTended ==
    ASSUME NEW c, WellFormed(c), Orderly(c), NEW t \in Locals, c.link # "draining",
           c.startReq = t, c.stage = "preflight",
           NEW w, ViewOf(c, w), Tended(c, w), t \in Reviews => t \in w.done \cup w.dead,
           NEW T, t \in Reviews => t \in T, NEW O, t \in O, NEW M
    PROVE  LET d == PreflightNotReady(c, t)
           IN  /\ Tended(d, w) /\ Spares(c, d, T, O, M)
               /\ t \in Reviews => t \notin Unsent(d)
<1>0. t \in Turns /\ t # NoTurn /\ c.local = t /\ Active(c) = t /\ t \in c.attempted
    BY TurnsAssumption DEF Turns, Orderly, Leased
<1>1. CASE t \in Reviews
  <2>1. WellFormed(RetireLocalDispatch(c, t))
    BY RetireLocalDispatchRests
  <2>2. LET d == SettleTurn(RetireLocalDispatch(c, t), t)
        IN  Tended(d, w) /\ Spares(c, d, T, O, M) /\ t \notin Unsent(d)
    BY <1>0, <1>1, <2>1, RefusedTended
  <2> QED BY <1>1, <2>2 DEF PreflightNotReady
<1>2. CASE t \notin Reviews
  <2> DEFINE a == [c EXCEPT !.attempted = @ \ {t}, !.preflight = NoTurn]
             r == RetireLocalDispatch(a, t)
             d == PreflightNotReady(c, t)
  <2>1. /\ a.q = c.q /\ a.local = t /\ a.attempted = c.attempted \ {t}
        /\ a.link = c.link /\ a.recovery = c.recovery /\ a.lookup = c.lookup
        /\ a.hydrated = c.hydrated /\ a.receipts = c.receipts /\ a.retained = c.retained
        /\ a.steerReq = c.steerReq /\ a.steerOwner = c.steerOwner
        /\ a.steerUnknown = c.steerUnknown /\ a.composer = c.composer /\ a \in Controllers
    BY <1>0, NullTypes DEF WellFormed, Controllers
  <2> HIDE DEF a
  <2>2. /\ r.q = a.q /\ r.local = NoTurn /\ r.attempted = a.attempted
        /\ r.link = a.link /\ r.recovery = a.recovery /\ r.lookup = a.lookup
        /\ r.hydrated = a.hydrated /\ r.receipts = a.receipts /\ r.retained = a.retained
        /\ r.steerReq = a.steerReq /\ r.steerOwner = a.steerOwner
        /\ r.steerUnknown = a.steerUnknown /\ r.composer = a.composer /\ r \in Controllers
    BY <2>1, NullTypes DEF RetireLocalDispatch, Without, Controllers
  <2> HIDE DEF r
  <2>3. d = InvalidateStart(r)
    BY <1>2, Zenon DEF PreflightNotReady, a, r
  <2>4. /\ d.q = c.q /\ d.attempted = c.attempted \ {t}
        /\ d.link = c.link /\ d.recovery = c.recovery /\ d.lookup = c.lookup
        /\ d.hydrated = c.hydrated /\ d.receipts = c.receipts /\ d.retained = c.retained
        /\ d.steerReq = c.steerReq /\ d.steerOwner = c.steerOwner
        /\ d.steerUnknown = c.steerUnknown /\ d.composer = c.composer
    BY <2>1, <2>2, <2>3 DEF InvalidateStart, Controllers
  <2>5. WellFormed(d) /\ Orderly(d) /\ Unsent(d) \subseteq Unsent(c)
    BY <1>0, PreflightNotReadyKeeps, PreflightNotReadyOrders DEF Keeps, Orders
  <2> HIDE DEF d
  <2>6. ViewOf(d, w)
    BY <2>4, <2>5, ViewKept
  <2>7. Active(d) \notin d.attempted /\ SteerOwners(d) = SteerOwners(c) /\ Spares(c, d, T, O, M)
    BY <1>0, <2>4 DEF Active, SteerOwners, Spares
  <2>8. Loose(d, NoTurn, w)
    <3>1. \A x \in SteerOwners(d) : x \in w.known /\ x \in w.old /\ x \in w.unowed /\ x \in w.quiet
        BY <1>0, <2>7, LeasedIsQuiet
    <3> QED BY <2>4, <3>1 DEF Loose, Tended, Sound, Recovering, Received
  <2>9. Tended(d, w)
    BY <2>5, <2>6, <2>7, <2>8, LooseTended
  <2> QED BY <1>2, <2>7, <2>9 DEF d
<1> QED BY <1>1, <1>2

LEMMA StartCollidedTended ==
    ASSUME NEW c, WellFormed(c), Orderly(c), NEW t \in Turns, c.local = t, c.link # "draining",
           NEW w, ViewOf(c, w), Tended(c, w), NEW f \in w.known,
           NEW T, t \in T, NEW O, NEW M
    PROVE  LET d == StartCollided(c, t, f)
           IN  Tended(d, w) /\ Spares(c, d, T, O, M) /\ t \in d.composer
<1> DEFINE i == InvalidateStart(c)
           r == RetireLocalDispatch(c, t)
           e == InvalidateStart(r)
           s == [e EXCEPT !.q = Settle(@, t)]
           d == [e EXCEPT !.q = Settle(@, t), !.composer = @ \cup {t}]
<1>0. t # NoTurn /\ Active(c) = t /\ t \in c.attempted
    BY TurnsAssumption DEF Orderly, Leased, Turns
<1>1. Orders(c, i) /\ Orderly(i)
    BY InvalidateStartOrders DEF Orders
<1>2. /\ Orders(i, e) /\ r.local = NoTurn
      /\ r.q = c.q /\ r.link = c.link /\ r.attempted = c.attempted /\ r.owner = c.owner
      /\ r.recovery = c.recovery /\ r.lookup = c.lookup /\ r.hydrated = c.hydrated
      /\ r.receipts = c.receipts /\ r.retained = c.retained
      /\ r.steerReq = c.steerReq /\ r.steerOwner = c.steerOwner
      /\ r.steerUnknown = c.steerUnknown /\ r.composer = c.composer
      /\ WellFormed(r) /\ Unsent(r) \subseteq Unsent(c)
    BY <1>0, <1>1, RetireLocalDispatchOrders, RetireLocalDispatchRests
<1>3. WellFormed(e) /\ Unsent(e) \subseteq Unsent(r)
    BY <1>2, InvalidateStartKeeps DEF Keeps
<1> HIDE DEF r
<1>4. /\ e.local = NoTurn
      /\ e.q = c.q /\ e.link = c.link /\ e.attempted = c.attempted /\ e.owner = c.owner
      /\ e.recovery = c.recovery /\ e.lookup = c.lookup /\ e.hydrated = c.hydrated
      /\ e.receipts = c.receipts /\ e.retained = c.retained
      /\ e.steerReq = c.steerReq /\ e.steerOwner = c.steerOwner
      /\ e.steerUnknown = c.steerUnknown /\ e.composer = c.composer
    BY <1>2 DEF InvalidateStart, WellFormed, Controllers
<1> HIDE DEF e, i
<1>5. e.owner.state \notin {"running", "waiting"} /\ Orderly(e) /\ Active(e) = t
    BY <1>0, <1>2, <1>4 DEF Orderly, Leased, Orders, Active
<1>6. Orders(e, s) /\ Active(s) \notin s.attempted /\ WellFormed(s)
    BY <1>3, <1>4, <1>5, SettleQueueOrders
<1>7. /\ d = [s EXCEPT !.composer = @ \cup {t}]
      /\ s.q = Settle(c.q, t) /\ s.link = e.link /\ s.attempted = e.attempted
      /\ s.recovery = e.recovery /\ s.lookup = e.lookup /\ s.hydrated = e.hydrated
      /\ s.receipts = e.receipts /\ s.retained = e.retained
      /\ s.steerReq = e.steerReq /\ s.steerOwner = e.steerOwner
      /\ s.steerUnknown = e.steerUnknown /\ s.composer = e.composer
      /\ s.preflight = e.preflight /\ s.startReq = e.startReq /\ s.stage = e.stage
    BY <1>3, <1>4 DEF WellFormed, Controllers
<1> HIDE DEF s, d
<1>8. /\ d \in Controllers /\ SameLease(s, d) /\ d.attempted = s.attempted /\ Active(d) = Active(s)
      /\ d.q = s.q /\ d.link = s.link /\ d.recovery = s.recovery /\ d.lookup = s.lookup
      /\ d.hydrated = s.hydrated /\ d.receipts = s.receipts /\ d.retained = s.retained
      /\ d.steerReq = s.steerReq /\ d.steerOwner = s.steerOwner
      /\ d.steerUnknown = s.steerUnknown /\ d.composer = s.composer \cup {t}
    BY <1>6, <1>7 DEF WellFormed, Controllers, SameLease, OwnerFades, Holds, Active
<1>9. WellFormed(d)
    BY <1>6, <1>7, <1>8 DEF WellFormed, Controllers
<1>10. Orderly(d) /\ Active(d) \notin d.attempted
    BY <1>6, <1>8, SameLeaseOrders DEF Orders
<1>11. ViewOf(d, w)
  <2>1. Unsent(d) \subseteq Unsent(c)
    BY <1>2, <1>3, <1>7, <1>8 DEF Unsent, SameLease
  <2> QED BY <1>4, <1>7, <1>8, <2>1, ViewKept
<1>12. /\ \A x \in SteerOwners(d) : x \in w.known /\ x \in w.old /\ x \in w.unowed /\ x \in w.quiet
       /\ Sound(d, w) /\ d.link # "draining"
  <2>1. SteerOwners(d) = SteerOwners(c)
    BY <1>4, <1>7, <1>8 DEF SteerOwners
  <2> QED BY <1>0, <1>4, <1>7, <1>8, <2>1, LeasedIsQuiet DEF Tended, Sound, Recovering, Received
<1>13. Loose(d, NoTurn, w) /\ Loose(d, f, w)
    BY <1>12 DEF Loose
<1>14. Spares(c, d, T, O, M)
  <2>1. c.q \in Queues /\ OneEach(c.q) /\ c.q.active.id = t
    BY <1>0 DEF WellFormed, Controllers, Orderly, Fifo, Active
  <2>2. LET u == Settle(c.q, t) IN Ids(c.q.pending) = Ids(u.pending) \cup ({u.active.id} \ {NoTurn})
    BY <2>1, SettleIds
  <2>3. QueuedIds(c.q) \subseteq QueuedIds(d.q) \cup T
    BY <1>7, <1>8, <2>1, <2>2 DEF QueuedIds
  <2> QED BY <1>4, <1>7, <1>8, <2>3 DEF Spares
<1>15. Tended(d, w)
    BY <1>9, <1>10, <1>11, <1>13, LooseTended
<1>16. /\ Tended(StartTurn(d, Active(d)), w) /\ Spares(d, StartTurn(d, Active(d)), T, O, M)
       /\ Tended(AdoptForeground(d, f), w) /\ Spares(d, AdoptForeground(d, f), T, O, M)
    BY <1>9, <1>10, <1>11, <1>13, <1>15, StartTurnTended, AdoptTended
<1>17. StartCollided(c, t, f) \in {StartTurn(d, Active(d)), AdoptForeground(d, f)}
    BY Zenon DEF StartCollided, d, e, r
<1>18. PICK g : g = StartCollided(c, t, f)
    OBVIOUS
<1>19. Tended(g, w) /\ Spares(d, g, T, O, M)
    BY <1>16, <1>17, <1>18
<1>20. Spares(c, g, T, O, M) /\ t \in g.composer
  <2>1. t \in d.composer
    BY <1>8
  <2> QED BY <1>14, <1>19, <2>1, SparesTransitive DEF Spares
<1> QED BY <1>18, <1>19, <1>20
-----------------------------------------------------------------------------
(* Native steering *)

\* The active turn is steered only when nothing of it is settled, or when what it owes
\* is owed to text that is still held.
LEMMA SubmitSteerTended ==
    ASSUME NEW c, WellFormed(c), Orderly(c), CanSteerText(c), NEW t \in Locals,
           NEW w, ViewOf(c, w), Tended(c, w),
           Active(c) \in w.done \ w.unowed => Active(c) \in SteerOwners(c),
           Received(c, Active(c)) => Active(c) \in w.done,
           NEW T, NEW O, NEW M
    PROVE  LET d == SubmitSteer(c, t)
           IN  Tended(d, w) /\ Spares(c, d, T, O, M)
<1> DEFINE g == [turn |-> t, owner |-> Active(c), sent |-> FALSE, accepted |-> FALSE]
           d == SubmitSteer(c, t)
<1>1. /\ d.q = c.q /\ d.link = c.link /\ d.attempted = c.attempted /\ d.local = c.local
      /\ d.recovery = c.recovery /\ d.lookup = c.lookup /\ d.hydrated = c.hydrated
      /\ d.receipts = c.receipts /\ d.retained = c.retained \cup {g} /\ d.steerReq = t
      /\ d.steerOwner = Active(c) /\ d.steerUnknown = c.steerUnknown /\ d.composer = c.composer
    BY DEF SubmitSteer, WellFormed, Controllers
<1>2. /\ ~Recovering(c) /\ c.link = "ready" /\ Active(c) \in c.attempted /\ c.local = NoTurn
      /\ ~c.steerUnknown /\ c.steerReq = NoTurn
    BY DEF CanSteerText, Orderly, Leased
<1>3. Active(c) # NoTurn /\ c.recovery.turn # Active(c) /\ Active(c) \in w.known
  <2>1. Active(c) # NoTurn /\ c.recovery.turn # Active(c)
    BY <1>2, TurnsAssumption DEF WellFormed, Controllers, Turns, Recovering
  <2> QED BY <1>2, <2>1 DEF Tended, Vouched
<1>g. g.owner = Active(c) /\ g.turn = t
    OBVIOUS
<1> HIDE DEF d, g
<1>4. SteerOwners(d) = SteerOwners(c) \cup {Active(c)} /\ g.turn = t
      /\ Active(d) = Active(c) /\ Recovering(d) = Recovering(c)
      /\ \A x : Received(d, x) = Received(c, x)
  <2>1. SteerOwners(d) = SteerOwners(c) \cup {Active(c)}
    BY <1>1, <1>g DEF SteerOwners
  <2> QED BY <1>1, <1>g, <2>1 DEF Active, Recovering, Received
<1>5. \A e \in c.retained : e.sent
  <2>1. \A e \in c.retained : e.turn # NoTurn /\ e.sent \in BOOLEAN
    BY TurnsAssumption DEF WellFormed, Controllers, Steers, Turns
  <2> QED BY <1>2, <2>1 DEF Tended, Sound
<1> HIDE DEF d, g
<1>6. Sound(d, w)
    BY <1>1, <1>2, <1>3, <1>4, <1>5 DEF Tended, Sound
<1>7. ASSUME NEW x \in SteerOwners(d) PROVE Tends(d, x, w)
  <2>1. CASE x \in SteerOwners(c)
    <3>1. Tends(c, x, w)
        BY <2>1 DEF Tended
    <3> QED BY <1>1, <1>4, <3>1 DEF Tends
  <2>2. CASE x = Active(c) /\ x \notin SteerOwners(c)
    <3>1. Received(c, x) => x \in w.unowed
        BY <2>2
    <3>2. c.lookup = NoTurn
        BY <1>2 DEF Tended, Sound
    <3> QED BY <1>1, <1>2, <1>3, <1>4, <2>2, <3>1, <3>2 DEF Tends
  <2> QED BY <1>4, <2>1, <2>2
<1>8. Vouched(d, w)
    BY <1>1, <1>4 DEF Tended, Vouched
<1>9. Tended(d, w)
    BY <1>1, <1>2, <1>4, <1>6, <1>7, <1>8 DEF Tended
<1>10. Spares(c, d, T, O, M)
    BY <1>1 DEF Spares
<1> QED BY <1>9, <1>10 DEF d

\* With no steer in flight, every text that is held was sent.
LEMMA SettledSteersSent ==
    ASSUME NEW c, WellFormed(c), NEW w, Sound(c, w), NEW e \in c.retained,
           c.steerReq = NoTurn \/ e.turn # c.steerReq
    PROVE  e.sent
<1>1. e.turn # NoTurn /\ e.sent \in BOOLEAN
    BY TurnsAssumption DEF WellFormed, Controllers, Steers, Turns
<1> QED BY <1>1 DEF Sound

\* The finally block of a steer call, from b or from b with the delivery unconfirmed.
LEMMA FinishSteerTended ==
    ASSUME NEW c, WellFormed(c), Orderly(c), NEW w, ViewOf(c, w),
           NEW b, WellFormed(b), Tended(b, w), c = b \/ c = [b EXCEPT !.steerUnknown = TRUE],
           \A e \in c.retained : e.sent,
           NEW T, NEW O, w.unowed \subseteq O, NEW M
    PROVE  LET d == FinishSteer(c)
           IN  Tended(d, w) /\ Spares(c, d, T, O, M)
<1> DEFINE k == IF ~c.steerUnknown /\ Received(c, c.steerOwner)
                THEN DropSteersOf(c.retained, c.steerOwner) ELSE c.retained
           d == [c EXCEPT !.steerReq = NoTurn, !.steerOwner = NoTurn, !.retained = k]
<1>1. k \in SUBSET Steers /\ k \subseteq c.retained
    BY DEF WellFormed, Controllers, DropSteersOf
<1>2. \A e \in c.retained \ k : Received(c, e.owner)
    BY DEF DropSteersOf
<1> HIDE DEF k
<1>3. d \in Controllers
    BY <1>1, NullTypes DEF WellFormed, Controllers
<1>4. WellFormed(d)
    BY <1>3 DEF WellFormed, Controllers
<1>5. SameLease(c, d)
    BY <1>1 DEF SameLease, OwnerFades, Holds, WellFormed, Controllers
<1>6. /\ d.q = c.q /\ d.link = c.link /\ d.attempted = c.attempted
      /\ d.local = c.local /\ d.recovery = c.recovery /\ d.lookup = c.lookup
      /\ d.hydrated = c.hydrated /\ d.receipts = c.receipts /\ d.retained = k
      /\ d.steerReq = NoTurn /\ d.steerUnknown = c.steerUnknown /\ d.composer = c.composer
      /\ d.preflight = c.preflight /\ d.startReq = c.startReq /\ d.stage = c.stage
    BY DEF WellFormed, Controllers
<1>7. /\ c.q = b.q /\ c.link = b.link /\ c.attempted = b.attempted
      /\ c.local = b.local /\ c.recovery = b.recovery /\ c.lookup = b.lookup
      /\ c.hydrated = b.hydrated /\ c.receipts = b.receipts /\ c.retained = b.retained
    BY DEF WellFormed, Controllers
<1>8. FinishSteer(c) = StartTurn(d, Active(d))
    BY Zenon DEF FinishSteer, d, k
<1> HIDE DEF d
<1>9. Orderly(d)
    BY <1>5, SameLeaseOrders DEF Orders
<1>10. ViewOf(d, w)
  <2>1. Unsent(d) = Unsent(c)
    BY <1>6 DEF Unsent
  <2> QED BY <1>6, <2>1, ViewKept
<1>11. Tended(d, w)
  <2>1. d.retained \subseteq b.retained /\ \A e \in d.retained : e.sent
    BY <1>1, <1>6, <1>7
  <2> QED BY <1>6, <1>7, <2>1, FewerSteersTended
<1>12. ASSUME NEW e \in c.retained, e \notin k PROVE e.sent /\ e.owner \in O
  <2>1. e.owner \in SteerOwners(b) /\ Received(b, e.owner)
    BY <1>2, <1>7, <1>12 DEF SteerOwners, Received
  <2> QED BY <2>1 DEF Tended, Tends
<1>13. Spares(c, d, T, O, M)
    BY <1>6, <1>12 DEF Spares
<1>14. Tended(StartTurn(d, Active(d)), w) /\ Spares(d, StartTurn(d, Active(d)), T, O, M)
    BY <1>4, <1>9, <1>10, <1>11, StartTurnTended
<1> QED BY <1>8, <1>13, <1>14, SparesTransitive

LEMMA ForgetSteerTended ==
    ASSUME NEW c, WellFormed(c), Orderly(c), NEW w, ViewOf(c, w), Tended(c, w)
    PROVE  LET d == ForgetSteer(c, c.steerReq)
           IN  /\ Tended(d, w) /\ ViewOf(d, w) /\ WellFormed(d) /\ Orderly(d)
               /\ \A e \in d.retained : e.sent
               /\ \A e \in c.retained : e \in d.retained \/ e.turn = c.steerReq
               /\ d.q = c.q /\ d.composer = c.composer /\ d.attempted = c.attempted
               /\ d.steerReq = c.steerReq /\ c.steerReq \notin RetainedTurns(d)
               /\ d.link = c.link /\ SteerOwners(d) \subseteq SteerOwners(c)
<1> DEFINE d == ForgetSteer(c, c.steerReq)
<1>1. /\ d.q = c.q /\ d.link = c.link /\ d.attempted = c.attempted
      /\ d.local = c.local /\ d.recovery = c.recovery /\ d.lookup = c.lookup
      /\ d.hydrated = c.hydrated /\ d.receipts = c.receipts
      /\ d.retained = {e \in c.retained : e.turn # c.steerReq}
      /\ d.steerReq = c.steerReq /\ d.steerOwner = c.steerOwner
      /\ d.steerUnknown = c.steerUnknown /\ d.composer = c.composer
    BY DEF ForgetSteer, WellFormed, Controllers
<1>2. /\ WellFormed(d) /\ Orderly(d) /\ Unsent(d) \subseteq Unsent(c)
      /\ c.steerReq \notin RetainedTurns(d)
    BY ForgetSteerKeeps, ForgetSteerOrders DEF Keeps, Orders
<1> HIDE DEF d
<1>3. \A e \in d.retained : e.sent
    BY <1>1, SettledSteersSent DEF Tended
<1>4. Tended(d, w)
  <2>1. d.retained \subseteq c.retained /\ (d.steerUnknown => d.steerReq = NoTurn)
    BY <1>1 DEF Tended, Sound
  <2> QED BY <1>1, <2>1, FewerSteersTended
<1>5. ViewOf(d, w)
    BY <1>1, <1>2, ViewKept
<1>6. SteerOwners(d) \subseteq SteerOwners(c)
    BY <1>1 DEF SteerOwners
<1>7. \A e \in c.retained : e \in d.retained \/ e.turn = c.steerReq
    BY <1>1
<1> QED BY <1>1, <1>2, <1>3, <1>4, <1>5, <1>6, <1>7 DEF d

LEMMA SteerNotAdmittedTended ==
    ASSUME NEW c, WellFormed(c), Orderly(c), c.steerReq # NoTurn,
           NEW w, ViewOf(c, w), Tended(c, w),
           NEW T, NEW O, w.unowed \subseteq O, NEW M, c.steerReq \in M
    PROVE  LET d == SteerNotAdmitted(c)
           IN  Tended(d, w) /\ Spares(c, d, T, O, M)
<1> DEFINE t == c.steerReq
           f == ForgetSteer(c, t)
           r == RestageSteers(f, <<t>>)
<1>1. t \in Turns /\ t \in Locals
    BY DEF WellFormed, Controllers, OptLocal, Turns
<1>2. CASE t \in RetainedTurns(c)
  <2>1. /\ Tended(f, w) /\ ViewOf(f, w) /\ WellFormed(f) /\ Orderly(f)
        /\ \A e \in f.retained : e.sent
        /\ \A e \in c.retained : e \in f.retained \/ e.turn = t
        /\ f.q = c.q /\ f.composer = c.composer /\ f.attempted = c.attempted
        /\ t \notin RetainedTurns(f)
    BY ForgetSteerTended
  <2>2. <<t>> \in Seq(Turns) /\ NoRepeat(<<t>>) /\ TurnsOf(<<t>>) = {t}
    BY <1>1 DEF NoRepeat, TurnsOf
  <2> HIDE DEF f
  <2>3. TurnsOf(<<t>>) \cap (f.attempted \cup QueuedIds(f.q) \cup RetainedTurns(f)) = {}
        /\ TurnsOf(<<t>>) \subseteq Locals
    BY <1>1, <1>2, <2>1, <2>2 DEF Orderly, Fifo
  <2>4. PICK s : s = <<t>>
    OBVIOUS
  <2>5. /\ Tended(r, w) /\ ViewOf(r, w) /\ WellFormed(r) /\ Orderly(r)
        /\ Requeues(f, r) /\ QueuedIds(r.q) = QueuedIds(f.q) \cup {t}
    <3>1. s \in Seq(Turns) /\ NoRepeat(s) /\ TurnsOf(s) = {t} /\ TurnsOf(s) \subseteq Locals
          /\ TurnsOf(s) \cap (f.attempted \cup QueuedIds(f.q) \cup RetainedTurns(f)) = {}
        BY <2>2, <2>3, <2>4
    <3>2. r = RestageSteers(f, s)
        BY <2>4
    <3> HIDE DEF r, t
    <3>3. LET d == RestageSteers(f, s)
          IN  /\ Tended(d, w) /\ ViewOf(d, w) /\ WellFormed(d) /\ Orderly(d) /\ Requeues(f, d)
              /\ QueuedIds(d.q) = QueuedIds(f.q) \cup TurnsOf(s)
        BY <2>1, <3>1, RestageSteersTended
    <3> QED BY <3>1, <3>2, <3>3
  <2> HIDE DEF r
  <2>6. \A e \in r.retained : e.sent
    BY <2>1, <2>5 DEF Requeues
  <2>7. Tended(FinishSteer(r), w) /\ Spares(r, FinishSteer(r), T, O, M)
    BY <2>5, <2>6, FinishSteerTended
  <2>8. Spares(c, r, T, O, M)
    BY <2>1, <2>5 DEF Spares, Requeues
  <2>9. SteerNotAdmitted(c) = FinishSteer(r)
    BY <1>2, Zenon DEF SteerNotAdmitted, f, r
  <2> QED BY <2>7, <2>8, <2>9, SparesTransitive
<1>3. CASE t \notin RetainedTurns(c)
  <2>1. \A e \in c.retained : e.sent
    BY <1>3, SettledSteersSent DEF RetainedTurns, Tended
  <2>2. SteerNotAdmitted(c) = FinishSteer(c)
    BY <1>3, Zenon DEF SteerNotAdmitted
  <2> QED BY <2>1, <2>2, FinishSteerTended
<1> QED BY <1>2, <1>3

\* What updateSteer keeps of a retained steer.
Updated(e, g, t, field) ==
    /\ g.turn = e.turn /\ g.owner = e.owner
    /\ g.sent = (e.sent \/ (e.turn = t /\ field = "sent"))

LEMMA UpdateSteerTended ==
    ASSUME NEW c, WellFormed(c), Orderly(c), NEW t, NEW field,
           NEW w, ViewOf(c, w), Tended(c, w)
    PROVE  LET d == UpdateSteer(c, t, field)
           IN  /\ Tended(d, w) /\ ViewOf(d, w) /\ WellFormed(d) /\ Orderly(d)
               /\ d.q = c.q /\ d.composer = c.composer
               /\ \A e \in c.retained : \E g \in d.retained : Updated(e, g, t, field)
               /\ \A g \in d.retained : \E e \in c.retained : Updated(e, g, t, field)
<1> DEFINE up(e) == [e EXCEPT !.sent = @ \/ (e.turn = t /\ field = "sent"),
                              !.accepted = @ \/ (e.turn = t /\ field = "accepted")]
           d == UpdateSteer(c, t, field)
           k == {up(e) : e \in c.retained}
<1>1. d = [c EXCEPT !.retained = k]
    BY Zenon DEF UpdateSteer
<1>2. \A e \in c.retained : /\ up(e).turn = e.turn /\ up(e).owner = e.owner
                            /\ up(e).sent = (e.sent \/ (e.turn = t /\ field = "sent"))
                            /\ e.sent \in BOOLEAN
    BY DEF WellFormed, Controllers, Steers
<1>3. WellFormed(d) /\ Orderly(d) /\ Unsent(d) \subseteq Unsent(c)
    BY UpdateSteerOrders, UpdateSteerKeeps DEF Keeps
<1> HIDE DEF k, d, up
<1>4. /\ d.q = c.q /\ d.link = c.link /\ d.attempted = c.attempted
      /\ d.local = c.local /\ d.recovery = c.recovery /\ d.lookup = c.lookup
      /\ d.hydrated = c.hydrated /\ d.receipts = c.receipts /\ d.retained = k
      /\ d.steerReq = c.steerReq /\ d.steerOwner = c.steerOwner
      /\ d.steerUnknown = c.steerUnknown /\ d.composer = c.composer
    BY <1>1 DEF WellFormed, Controllers
<1>5. \A e \in c.retained : \E g \in d.retained :
         /\ g.turn = e.turn /\ g.owner = e.owner
         /\ g.sent = (e.sent \/ (e.turn = t /\ field = "sent"))
  <2> SUFFICES ASSUME NEW e \in c.retained
               PROVE  \E g \in d.retained :
                         /\ g.turn = e.turn /\ g.owner = e.owner
                         /\ g.sent = (e.sent \/ (e.turn = t /\ field = "sent"))
    OBVIOUS
  <2>1. up(e) \in d.retained
    BY <1>4 DEF k
  <2> QED BY <1>2, <2>1
<1>6. \A g \in d.retained : \E e \in c.retained :
         /\ g.turn = e.turn /\ g.owner = e.owner
         /\ g.sent = (e.sent \/ (e.turn = t /\ field = "sent"))
  <2> SUFFICES ASSUME NEW g \in d.retained
               PROVE  \E e \in c.retained :
                         /\ g.turn = e.turn /\ g.owner = e.owner
                         /\ g.sent = (e.sent \/ (e.turn = t /\ field = "sent"))
    OBVIOUS
  <2>1. PICK e \in c.retained : g = up(e)
    BY <1>4 DEF k
  <2> QED BY <1>2, <2>1
<1>7. SteerOwners(d) = SteerOwners(c) /\ Active(d) = Active(c) /\ Recovering(d) = Recovering(c)
      /\ \A x : Received(d, x) = Received(c, x)
  <2>1. SteerOwners(d) = SteerOwners(c)
    BY <1>5, <1>6 DEF SteerOwners
  <2> QED BY <1>4, <2>1 DEF Active, Recovering, Received
<1>8. Sound(d, w)
  <2>1. \A g \in d.retained : ~g.sent => g.turn = d.steerReq
    BY <1>4, <1>6 DEF Tended, Sound
  <2>2. d.retained # {} => c.retained # {}
    BY <1>6
  <2> QED BY <1>4, <1>7, <2>1, <2>2 DEF Tended, Sound
<1>9. \A x : Tends(c, x, w) => Tends(d, x, w)
    BY <1>4, <1>7 DEF Tends
<1>10. Tended(d, w)
    BY <1>4, <1>7, <1>8, <1>9 DEF Tended, Vouched
<1>11. ViewOf(d, w)
    BY <1>3, <1>4, ViewKept
<1>12. /\ \A e \in c.retained : \E g \in d.retained : Updated(e, g, t, field)
       /\ \A g \in d.retained : \E e \in c.retained : Updated(e, g, t, field)
    BY <1>5, <1>6 DEF Updated
<1> QED BY <1>3, <1>4, <1>10, <1>11, <1>12 DEF d

LEMMA SteerEndsTended ==
    ASSUME NEW c, WellFormed(c), Orderly(c), c.steerReq # NoTurn,
           NEW w, ViewOf(c, w), Tended(c, w), \A e \in c.retained : e.sent,
           NEW T, NEW O, w.unowed \subseteq O, NEW M
    PROVE  /\ Tended(SteerAccepted(c), w) /\ Spares(c, SteerAccepted(c), T, O, M)
           /\ Tended(SteerUnconfirmed(c), w) /\ Spares(c, SteerUnconfirmed(c), T, O, M)
<1>1. Tended(SteerAccepted(c), w) /\ Spares(c, SteerAccepted(c), T, O, M)
  <2> DEFINE u == UpdateSteer(c, c.steerReq, "accepted")
  <2>1. /\ Tended(u, w) /\ ViewOf(u, w) /\ WellFormed(u) /\ Orderly(u)
        /\ u.q = c.q /\ u.composer = c.composer
        /\ \A e \in c.retained : \E g \in u.retained : Updated(e, g, c.steerReq, "accepted")
        /\ \A g \in u.retained : \E e \in c.retained : Updated(e, g, c.steerReq, "accepted")
    BY UpdateSteerTended
  <2> HIDE DEF u
  <2>2. \A e \in u.retained : e.sent
    BY <2>1 DEF Updated
  <2>3. Spares(c, u, T, O, M)
    <3>1. \A e \in c.retained : \E g \in u.retained :
              g.turn = e.turn /\ g.owner = e.owner /\ g.sent = e.sent
      <4> SUFFICES ASSUME NEW e \in c.retained
                   PROVE  \E g \in u.retained : g.turn = e.turn /\ g.owner = e.owner /\ g.sent = e.sent
        OBVIOUS
      <4>1. e.sent \in BOOLEAN
        BY DEF WellFormed, Controllers, Steers
      <4> QED BY <2>1, <4>1 DEF Updated
    <3> QED BY <2>1, <3>1 DEF Spares
  <2>4. Tended(FinishSteer(u), w) /\ Spares(u, FinishSteer(u), T, O, M)
    BY <2>1, <2>2, FinishSteerTended
  <2> QED BY <2>3, <2>4, SparesTransitive DEF SteerAccepted, u
<1>2. Tended(SteerUnconfirmed(c), w) /\ Spares(c, SteerUnconfirmed(c), T, O, M)
  <2> DEFINE u == [c EXCEPT !.steerUnknown = TRUE]
  <2>1. u \in Controllers
    BY DEF WellFormed, Controllers
  <2>2. /\ WellFormed(u) /\ SameLease(c, u) /\ u.retained = c.retained /\ u.q = c.q
        /\ u.composer = c.composer /\ Unsent(u) = Unsent(c) /\ u.link = c.link
    BY <2>1 DEF WellFormed, Controllers, SameLease, OwnerFades, Holds, Unsent
  <2>3. Orderly(u) /\ ViewOf(u, w) /\ Spares(c, u, T, O, M)
    <3> HIDE DEF u
    <3> QED BY <2>2, SameLeaseOrders, ViewKept DEF Orders, Spares
  <2>4. Tended(FinishSteer(u), w) /\ Spares(u, FinishSteer(u), T, O, M)
    BY <2>2, <2>3, FinishSteerTended
  <2>5. Tended(FinishSteer(c), w) /\ Spares(c, FinishSteer(c), T, O, M)
    BY FinishSteerTended
  <2>6. SteerUnconfirmed(c) \in {FinishSteer(u), FinishSteer(c)}
    BY Zenon DEF SteerUnconfirmed, u
  <2> HIDE DEF u
  <2> QED BY <2>3, <2>4, <2>5, <2>6, SparesTransitive
<1> QED BY <1>1, <1>2

LEMMA RetrySteerDeliveryTended ==
    ASSUME NEW c, WellFormed(c), Orderly(c), c.steerUnknown,
           NEW w, ViewOf(c, w), Tended(c, w), NEW T, NEW O, NEW M
    PROVE  LET d == RetrySteerDelivery(c)
           IN  Tended(d, w) /\ Spares(c, d, T, O, M)
<1> DEFINE d == [c EXCEPT !.steerUnknown = FALSE, !.steerReq = NoTurn, !.steerOwner = NoTurn]
<1>1. d \in Controllers
    BY NullTypes DEF WellFormed, Controllers
<1>2. WellFormed(d)
    BY <1>1 DEF WellFormed, Controllers
<1>3. SameLease(c, d)
    BY DEF SameLease, OwnerFades, Holds, WellFormed, Controllers
<1>4. /\ d.q = c.q /\ d.link = c.link /\ d.attempted = c.attempted
      /\ d.local = c.local /\ d.recovery = c.recovery /\ d.lookup = c.lookup
      /\ d.hydrated = c.hydrated /\ d.receipts = c.receipts /\ d.retained = c.retained
      /\ d.steerReq = NoTurn /\ d.composer = c.composer /\ Unsent(d) = Unsent(c)
    BY DEF WellFormed, Controllers, Unsent
<1>5. RetrySteerDelivery(c) = StartTurn(d, Active(d))
    BY Zenon DEF RetrySteerDelivery, d
<1> HIDE DEF d
<1>6. Orderly(d) /\ ViewOf(d, w) /\ Spares(c, d, T, O, M)
    BY <1>3, <1>4, SameLeaseOrders, ViewKept DEF Orders, Spares
<1>7. Tended(d, w)
  <2>1. \A e \in c.retained : e.sent
    BY SettledSteersSent DEF Tended, Sound
  <2> QED BY <1>4, <2>1, FewerSteersTended
<1>8. Tended(StartTurn(d, Active(d)), w) /\ Spares(d, StartTurn(d, Active(d)), T, O, M)
    BY <1>2, <1>6, <1>7, StartTurnTended
<1> QED BY <1>5, <1>6, <1>8, SparesTransitive

\* The new turn of Core takes the place of the steered one, whose events, and those of
\* every turn steered before, precede its own.
LEMMA SteerFellBackTended ==
    ASSUME NEW c, WellFormed(c), Orderly(c), NEW f \in Foreign, c.steerReq # NoTurn,
           c.link # "draining",
           NEW w, ViewOf(c, w), Tended(c, w), f \in w.known,
           \A x \in SteerOwners(c) : x # f /\ x \in w.done /\ <<x, f>> \in w.before,
           NEW T, c.steerReq \in T, c.steerOwner \in T,
           NEW O, w.unowed \subseteq O, NEW M, c.steerReq \in M
    PROVE  LET d == SteerFellBack(c, f)
           IN  Tended(d, w) /\ Spares(c, d, T, O, M)
<1> DEFINE t == c.steerReq
           a == c.steerOwner
           g == ForgetSteer(c, t)
           d == [g EXCEPT !.attempted = @ \cup {f}]
           superseded == Active(c) \notin {NoTurn, a, f} /\ Active(c) \in c.attempted
           q == IF Active(c) = a THEN Settle(c.q, a) ELSE c.q
           x == [id |-> f, text |-> TRUE]
           p == RestoreActive(q, x, TRUE)
           o == [turn |-> f, state |-> "running"]
           e == [d EXCEPT !.q = p, !.owner = o]
<1>1. /\ Tended(g, w) /\ ViewOf(g, w) /\ WellFormed(g) /\ Orderly(g)
      /\ \A y \in g.retained : y.sent
      /\ \A y \in c.retained : y \in g.retained \/ y.turn = t
      /\ g.q = c.q /\ g.composer = c.composer /\ g.attempted = c.attempted
      /\ g.steerReq = t /\ t \notin RetainedTurns(g)
      /\ g.link = c.link /\ SteerOwners(g) \subseteq SteerOwners(c)
    BY ForgetSteerTended
<1> HIDE DEF g
<1>2. /\ Orderly(d) /\ WellFormed(d) /\ d.q = c.q
      /\ d.attempted = c.attempted \cup {f} /\ d.steerReq = t /\ d.retained = g.retained
    BY <1>1, AttemptForeignOrders DEF Orders
<1>3. /\ d.link = g.link /\ d.local = g.local /\ d.recovery = g.recovery /\ d.lookup = g.lookup
      /\ d.hydrated = g.hydrated /\ d.receipts = g.receipts /\ d.steerOwner = g.steerOwner
      /\ d.steerUnknown = g.steerUnknown /\ d.composer = g.composer
      /\ d.preflight = g.preflight /\ d.startReq = g.startReq /\ d.stage = g.stage
    BY <1>1 DEF WellFormed, Controllers
<1> HIDE DEF d
<1>4. SteerOwners(d) = SteerOwners(g) /\ Active(d) = Active(g) /\ Recovering(d) = Recovering(g)
      /\ \A y : Received(d, y) = Received(g, y)
    BY <1>1, <1>2, <1>3 DEF SteerOwners, Active, Recovering, Received
<1>5. Sound(d, w)
    BY <1>1, <1>2, <1>3, <1>4 DEF Tended, Sound
<1>6. Tended(d, w)
  <2>1. \A y : Tends(g, y, w) => Tends(d, y, w)
    BY <1>3, <1>4 DEF Tends
  <2>2. Vouched(d, w)
    BY <1>1, <1>2, <1>3, <1>4 DEF Tended, Vouched
  <2>3. d.link # "draining"
    BY <1>1, <1>3
  <2> QED BY <1>1, <1>4, <1>5, <2>1, <2>2, <2>3 DEF Tended
<1>7. ViewOf(d, w) /\ Unsent(d) \subseteq Unsent(g)
  <2>1. Unsent(d) \subseteq Unsent(g)
    BY <1>1, <1>2, <1>3 DEF Unsent
  <2> QED BY <1>1, <1>3, <2>1, ViewKept
<1>8. Spares(c, d, T, O, M)
    BY <1>1, <1>2, <1>3 DEF Spares
<1>9. ASSUME NEW u, NEW v, WellFormed(u), Orderly(u), ViewOf(u, w), Spares(c, u, T, O, M),
             WellFormed(v), Tended(v, w), u = v \/ u = [v EXCEPT !.steerUnknown = TRUE],
             \A y \in u.retained : y.sent
      PROVE  Tended(FinishSteer(u), w) /\ Spares(c, FinishSteer(u), T, O, M)
  <2>1. Tended(FinishSteer(u), w) /\ Spares(u, FinishSteer(u), T, O, M)
    BY <1>9, FinishSteerTended
  <2> QED BY <1>9, <2>1, SparesTransitive
<1>10. t \notin RetainedTurns(c) => Tended(FinishSteer(c), w) /\ Spares(c, FinishSteer(c), T, O, M)
  <2> SUFFICES ASSUME t \notin RetainedTurns(c)
               PROVE  Tended(FinishSteer(c), w) /\ Spares(c, FinishSteer(c), T, O, M)
    OBVIOUS
  <2>1. \A y \in c.retained : y.sent
    BY SettledSteersSent DEF RetainedTurns, Tended
  <2> QED BY <2>1, FinishSteerTended
<1>11. Tended(FinishSteer(d), w) /\ Spares(c, FinishSteer(d), T, O, M)
    BY <1>1, <1>2, <1>6, <1>7, <1>8, <1>9
<1>12. /\ Tended(FinishSteer([d EXCEPT !.steerUnknown = TRUE]), w)
       /\ Spares(c, FinishSteer([d EXCEPT !.steerUnknown = TRUE]), T, O, M)
  <2> DEFINE u == [d EXCEPT !.steerUnknown = TRUE]
  <2>1. u \in Controllers
    BY <1>2 DEF WellFormed, Controllers
  <2>2. /\ WellFormed(u) /\ SameLease(d, u) /\ u.retained = d.retained /\ u.q = d.q
        /\ u.composer = d.composer /\ Unsent(u) = Unsent(d) /\ u.link = d.link
    BY <1>2, <2>1 DEF WellFormed, Controllers, SameLease, OwnerFades, Holds, Unsent
  <2>3. u = [d EXCEPT !.steerUnknown = TRUE]
    OBVIOUS
  <2> HIDE DEF u
  <2>4. Orderly(u) /\ ViewOf(u, w) /\ Spares(d, u, T, O, M)
    BY <1>2, <1>7, <2>2, SameLeaseOrders, ViewKept DEF Orders, Spares
  <2>5. Spares(c, u, T, O, M) /\ \A y \in u.retained : y.sent
    BY <1>1, <1>2, <1>8, <2>2, <2>4, SparesTransitive
  <2> QED BY <1>2, <1>6, <1>9, <2>2, <2>3, <2>4, <2>5
<1>13. ASSUME ~superseded
       PROVE  Tended(FinishSteer(e), w) /\ Spares(c, FinishSteer(e), T, O, M)
  <2>1. /\ c.q \in Queues /\ OneEach(c.q) /\ Active(c) = c.q.active.id
        /\ a # NoTurn /\ Ids(c.q.pending) \subseteq Locals \ c.attempted
        /\ RetainedTurns(d) \cap QueuedIds(c.q) = {}
    <3>1. RetainedTurns(d) \cap QueuedIds(d.q) = {}
        BY <1>2 DEF Orderly, Fifo
    <3> QED BY <1>2, <3>1 DEF WellFormed, Controllers, Orderly, Fifo, Active
  <2>2. f \in Turns /\ f # NoTurn /\ f \notin Locals /\ x \in Entries /\ x.id = f
    BY TurnsAssumption DEF Turns, Entries
  <2>3. /\ q \in Queues /\ OneEach(q) /\ Ids(q.pending) \subseteq Ids(c.q.pending)
        /\ QueuedIds(q) \subseteq QueuedIds(c.q)
        /\ q.active.id \in {NoTurn, f} \/ q.active.id \in Locals \ c.attempted
    <3>1. CASE Active(c) = a
        <4>1. q = Settle(c.q, a)
            BY <3>1
        <4>2. /\ q \in Queues /\ OneEach(q)
              /\ q.active.id # NoTurn => q.active.id \in Ids(c.q.pending)
              /\ Ids(c.q.pending) = Ids(q.pending) \cup ({q.active.id} \ {NoTurn})
            BY <2>1, <3>1, <4>1, SettleIds, SettleType
        <4> HIDE DEF q
        <4> QED BY <2>1, <4>2 DEF QueuedIds
    <3>2. CASE Active(c) # a
        <4>1. q = c.q
            BY <3>2
        <4>2. Active(c) \in {NoTurn, f} \/ Active(c) \notin c.attempted
            BY <1>13, <3>2
        <4>3. Active(c) \in c.attempted \cup Locals \cup {NoTurn}
            BY DEF Orderly, Fifo
        <4> HIDE DEF q
        <4> QED BY <2>1, <4>1, <4>2, <4>3
    <3> QED BY <3>1, <3>2
  <2> HIDE DEF q, x
  <2>4. /\ p \in Queues /\ OneEach(p) /\ p.active.id = f
        /\ Ids(p.pending) = Ids(q.pending) \cup ({q.active.id} \ {NoTurn, f})
    <3>1. f \notin Ids(q.pending)
        BY <2>1, <2>2, <2>3
    <3> QED BY <2>2, <2>3, <3>1, RestoreActiveIds, RestoreActiveType
  <2> HIDE DEF p
  <2>5. /\ Ids(p.pending) \subseteq Locals \ d.attempted
        /\ QueuedIds(p) \subseteq QueuedIds(c.q) \cup {f}
    <3>1. Ids(p.pending) \subseteq Locals \ c.attempted
        BY <2>1, <2>3, <2>4
    <3> QED BY <1>2, <2>2, <2>3, <2>4, <3>1 DEF QueuedIds
  <2>6. o \in Owners /\ o.turn = f /\ o.state = "running"
    BY <2>2 DEF Owners, OptTurn
  <2> HIDE DEF o
  <2>7. /\ e.q = p /\ e.local = d.local /\ e.dispatching = d.dispatching
        /\ e.owner = o /\ e.preflight = d.preflight /\ e.startReq = d.startReq
        /\ e.stage = d.stage /\ e.attempted = d.attempted
        /\ e.steerAdmitted = d.steerAdmitted /\ e.steerReq = d.steerReq
        /\ e.link = d.link /\ e.hydrated = d.hydrated /\ e.retained = d.retained
        /\ e.steerOwner = d.steerOwner
    BY <1>2 DEF WellFormed, Controllers
  <2>8. e \in Controllers
    BY <1>2, <2>4, <2>6 DEF WellFormed, Controllers
  <2> HIDE DEF e
  <2>9. WellFormed(e)
    BY <1>2, <2>7, <2>8 DEF WellFormed
  <2>10. d.local = NoTurn
    BY <1>2 DEF Orderly, Leased
  <2>11. Leased(e)
    BY <1>2, <2>2, <2>4, <2>6, <2>7, <2>10 DEF Orderly, Leased, Active, Linked
  <2>12. Fifo(e)
    <3>1. Unsent(e) = Unsent(d) /\ RetainedTurns(e) = RetainedTurns(d)
        BY <2>7 DEF Unsent, RetainedTurns
    <3>2. RetainedTurns(e) \cap (e.attempted \cup QueuedIds(e.q)) = {}
      <4>1. RetainedTurns(d) \cap d.attempted = {} /\ f \in d.attempted
        BY <1>2 DEF Orderly, Fifo
      <4> QED BY <2>1, <2>5, <2>7, <3>1, <4>1
    <3>3. OneSteer(e)
        BY <1>2, <2>7 DEF Orderly, Fifo, OneSteer
    <3> QED BY <1>2, <2>4, <2>5, <2>7, <3>1, <3>2, <3>3 DEF Orderly, Fifo, Active
  <2>13. Startable(e) \subseteq Startable(d) /\ Holds(d, e) /\ Accepted(e) = Accepted(d)
    BY <1>2, <2>5, <2>7 DEF Startable, Holds, Accepted
  <2>14. Orders(d, e) /\ Orderly(e)
    BY <2>7, <2>11, <2>12, <2>13 DEF Orders, Orderly
  <2>15. QueuedIds(c.q) \subseteq QueuedIds(p) \cup {a}
    <3>1. CASE Active(c) = a
        <4>1. q = Settle(c.q, a)
            BY <3>1 DEF q
        <4>2. Ids(c.q.pending) = Ids(q.pending) \cup ({q.active.id} \ {NoTurn})
            BY <2>1, <3>1, <4>1, SettleIds
        <4> QED BY <2>1, <2>2, <2>4, <3>1, <4>2 DEF QueuedIds
    <3>2. CASE Active(c) # a
        <4>1. q = c.q
            BY <3>2 DEF q
        <4> QED BY <2>1, <2>2, <2>4, <4>1 DEF QueuedIds
    <3> QED BY <3>1, <3>2
  <2>16. /\ e.recovery = d.recovery /\ e.lookup = d.lookup /\ e.receipts = d.receipts
         /\ e.steerUnknown = d.steerUnknown /\ e.composer = d.composer /\ Active(e) = f
    BY <1>2, <2>4, <2>7 DEF WellFormed, Controllers, e, Active
  <2>17. Sound(e, w)
    BY <1>5, <2>7, <2>16 DEF Sound, Recovering, Received
  <2>18. ASSUME NEW y \in SteerOwners(e) PROVE Tends(e, y, w)
    <3>1. y \in SteerOwners(d)
        BY <2>7 DEF SteerOwners
    <3>2. Tends(d, y, w) /\ y # f /\ y \in w.done /\ <<y, f>> \in w.before /\ y \in w.known
        BY <1>1, <1>4, <1>6, <3>1 DEF Tended, ViewOf
    <3> QED BY <2>7, <2>10, <2>16, <3>2 DEF Tends, Recovering, Received
  <2>19. Tended(e, w)
    BY <1>1, <1>3, <2>7, <2>16, <2>17, <2>18 DEF Tended, Vouched
  <2>20. ViewOf(e, w)
    <3>1. Unsent(e) \subseteq Unsent(d)
        BY <2>7 DEF Unsent
    <3> QED BY <1>7, <2>7, <3>1, ViewKept
  <2>21. Spares(c, e, T, O, M)
    <3>1. QueuedIds(c.q) \subseteq QueuedIds(e.q) \cup e.composer \cup T
        BY <2>7, <2>15
    <3>2. e.retained = g.retained /\ e.composer = c.composer
        BY <1>1, <1>2, <1>3, <2>7, <2>16
    <3> QED BY <1>1, <3>1, <3>2 DEF Spares
  <2>22. \A y \in e.retained : y.sent
    BY <1>1, <1>2, <2>7
  <2> QED BY <1>9, <2>9, <2>14, <2>19, <2>20, <2>21, <2>22
<1>14. \/ SteerFellBack(c, f) = FinishSteer(c) /\ t \notin RetainedTurns(c)
       \/ SteerFellBack(c, f) = FinishSteer(d)
       \/ SteerFellBack(c, f) = FinishSteer([d EXCEPT !.steerUnknown = TRUE])
       \/ SteerFellBack(c, f) = FinishSteer(e) /\ ~superseded
  BY Zenon DEF SteerFellBack, d, e, superseded, q, x, p, o, t, a, g
<1> QED BY <1>10, <1>11, <1>12, <1>13, <1>14

-----------------------------------------------------------------------------
(* Lifecycle recovery *)

\* The active turn's state is asked for: hydrate did not report it, so the stream has
\* nothing more to say of it, and of the other steered turns nothing that is not either
\* old or about the foreground turn.
LEMMA RetryTurnRecoveryTended ==
    ASSUME NEW c, WellFormed(c), NEW w, Sound(c, w), w.known \subseteq Turns,
           \A x \in SteerOwners(c) : Tends(c, x, w),
           Vouched(c, w) \/ (Linked(c) /\ Active(c) # NoTurn /\ c.recovery.phase # "checking"),
           c.link = "draining" => Active(c) \in c.attempted /\ ~Recovering(c),
           \A x \in SteerOwners(c) :
              /\ x = Active(c) => x \in w.quiet
              /\ \/ x \in w.old
                 \/ /\ c.link \in {"draining", "ready"}
                    /\ x = c.hydrated.turn /\ x # Active(c),
           NEW T, NEW O, NEW M
    PROVE  LET d == RetryTurnRecovery(c)
           IN  Tended(d, w) /\ Spares(c, d, T, O, M)
<1> DEFINE t == Active(c)
           r(p) == [turn |-> t, phase |-> p]
           a == [c EXCEPT !.lookup = t, !.recovery = r("checking")]
           b == [c EXCEPT !.recovery = r("unavailable")]
           d == RetryTurnRecovery(c)
<1>1. \/ d = c /\ (~Linked(c) \/ t = NoTurn \/ c.recovery.phase = "checking")
      \/ d \in {a, b} /\ t # NoTurn
    BY Zenon DEF RetryTurnRecovery
<1>2. CASE d = c /\ (~Linked(c) \/ t = NoTurn \/ c.recovery.phase = "checking")
    BY <1>2, SparesReflexive DEF Tended
<1>3. CASE d \in {a, b} /\ t # NoTurn
  <2> DEFINE Same(u) ==
        /\ u.q = c.q /\ u.link = c.link /\ u.attempted = c.attempted
        /\ u.local = c.local /\ u.recovery.turn = t /\ u.lookup \in {t, c.lookup}
        /\ u.hydrated = c.hydrated /\ u.receipts = c.receipts /\ u.retained = c.retained
        /\ u.steerReq = c.steerReq /\ u.steerOwner = c.steerOwner
        /\ u.steerUnknown = c.steerUnknown /\ u.composer = c.composer
  <2>0. Same(a) /\ Same(b)
    BY DEF WellFormed, Controllers
  <2> HIDE DEF d, t, a, b
  <2>1. Same(d)
    BY <1>3, <2>0
  <2>2. Active(d) = t /\ SteerOwners(d) = SteerOwners(c) /\ Recovering(d)
        /\ \A x : Received(d, x) = Received(c, x)
    BY <1>3, <2>1 DEF Active, SteerOwners, Recovering, Received, t
  <2>3. Sound(d, w)
    BY <2>1, <2>2 DEF Sound
  <2>4. ASSUME NEW x \in SteerOwners(d) PROVE Tends(d, x, w)
    <3>1. Tends(c, x, w) /\ x \in SteerOwners(c)
        BY <2>2
    <3> QED BY <2>1, <2>2, <3>1 DEF Tends, t
  <2>5. Tended(d, w)
    BY <2>1, <2>2, <2>3, <2>4 DEF Tended, Vouched, t
  <2> QED BY <2>1, <2>5 DEF Spares, d
<1> QED BY <1>1, <1>2, <1>3

\* The recovery of the active turn is over: Core knows the turn.
LEMMA ClearRecoveryTended ==
    ASSUME NEW c, WellFormed(c), NEW w, Tended(c, w), w.known \subseteq Turns,
           Active(c) \in w.known
    PROVE  Tended(ClearRecovery(c), w)
<1> DEFINE d == ClearRecovery(c)
<1>1. /\ d.q = c.q /\ d.link = c.link /\ d.attempted = c.attempted
      /\ d.local = c.local /\ d.recovery = NoRecovery /\ d.lookup = NoTurn
      /\ d.hydrated = c.hydrated /\ d.receipts = c.receipts /\ d.retained = c.retained
      /\ d.steerReq = c.steerReq /\ d.steerOwner = c.steerOwner
      /\ d.steerUnknown = c.steerUnknown
    BY DEF ClearRecovery, WellFormed, Controllers
<1> HIDE DEF d
<1>2. Active(d) = Active(c) /\ SteerOwners(d) = SteerOwners(c) /\ ~Recovering(d)
      /\ \A x : Received(d, x) = Received(c, x)
    BY <1>1 DEF Active, SteerOwners, Recovering, Received, NoRecovery
<1>3. Sound(d, w)
    BY <1>1, <1>2 DEF Sound, Tended
<1>4. ASSUME NEW x \in SteerOwners(d) PROVE Tends(d, x, w)
  <2>1. Tends(c, x, w) /\ x # NoTurn
    BY <1>2, TurnsAssumption DEF Tended, Tends, Turns
  <2> QED BY <1>1, <1>2, <2>1 DEF Tends
<1>5. Vouched(d, w)
    BY <1>1, <1>2 DEF Vouched
<1> QED BY <1>1, <1>2, <1>3, <1>4, <1>5 DEF Tended, d

LEMMA ApplyRecoveredStateTended ==
    ASSUME NEW c, WellFormed(c), Orderly(c), c.link # "draining", NEW t \in Turns, Active(c) = t,
           Recovering(c), NEW w, ViewOf(c, w), Tended(c, w), t \in w.known,
           NEW state, state \notin {"active", "interrupting"} => t \in w.done,
           NEW T, t \in T, NEW O, t \in O, NEW M
    PROVE  LET d == ApplyRecoveredState(c, t, state)
           IN  Tended(d, w) /\ Spares(c, d, T, O, M)
<1> DEFINE live == state \in {"active", "interrupting"}
           a == ClearRecovery(c)
           b == InvalidateStart(a)
           st == IF live THEN "running" ELSE "ended"
           e == AcceptLocalDispatch(b, t, st)
           i == IF state = "interrupting" THEN t ELSE NoTurn
           d == [e EXCEPT !.interruptReq = NoTurn, !.interrupting = i]
<1>1. /\ Orderly(a) /\ WellFormed(a) /\ Tended(a, w) /\ Unsent(a) \subseteq Unsent(c)
      /\ a.link = c.link
  <2>1. w.known \subseteq Turns
    BY DEF ViewOf
  <2> QED BY <2>1, ClearRecoveryOrders, ClearRecoveryKeeps, ClearRecoveryTended DEF Orders, Keeps
<1>2. /\ a.q = c.q /\ a.retained = c.retained /\ a.composer = c.composer
      /\ a.hydrated = c.hydrated /\ a.receipts = c.receipts /\ a.recovery = NoRecovery
    BY DEF ClearRecovery, WellFormed, Controllers
<1> HIDE DEF a
<1>3. /\ Orderly(b) /\ WellFormed(b) /\ b.stage = "none" /\ Tended(b, w)
      /\ Unsent(b) \subseteq Unsent(a) /\ b.link = a.link
      /\ b.q = a.q /\ b.retained = a.retained /\ b.composer = a.composer
      /\ b.hydrated = a.hydrated /\ b.receipts = a.receipts /\ b.recovery = a.recovery
  <2>1. /\ b.stage = "none" /\ b.q = a.q /\ b.retained = a.retained /\ b.composer = a.composer
        /\ b.hydrated = a.hydrated /\ b.receipts = a.receipts /\ b.recovery = a.recovery
    BY <1>1 DEF InvalidateStart, WellFormed, Controllers
  <2> QED BY <1>1, <2>1, InvalidateStartOrders, InvalidateStartKeeps, InvalidateStartRests,
             RestsTended DEF Orders, Keeps
<1>4. st \in {"running", "ended"} /\ i \in OptTurn
    BY DEF OptTurn
<1> HIDE DEF b, st, i
<1>5. ViewOf(b, w)
  <2>1. Unsent(b) \subseteq Unsent(c)
    BY <1>1, <1>3
  <2> QED BY <1>1, <1>3, <2>1, ViewKept
<1>6. Observes(b, e, t) /\ e.stage = "none" /\ WellFormed(e) /\ Unsent(e) \subseteq Unsent(b)
    BY <1>3, <1>4, AcceptLocalDispatchOrders, AcceptLocalDispatchKeeps DEF Keeps
<1>7. /\ Tended(e, w) /\ Spares(b, e, T, O, M)
      /\ e.hydrated = b.hydrated /\ e.q = b.q /\ e.retained = b.retained
      /\ e.steerReq = b.steerReq /\ e.steerOwner = b.steerOwner
      /\ e.link = b.link /\ e.recovery \in {b.recovery, NoRecovery}
    BY <1>3, <1>5, AcceptLocalDispatchTended
<1>8. e.receipts = b.receipts /\ e.composer = b.composer
    BY <1>3 DEF AcceptLocalDispatch, ClearRecoveryOf, ClearRecovery, WellFormed, Controllers
<1> HIDE DEF e
<1>9. d \in Controllers
    BY <1>4, <1>6, NullTypes DEF WellFormed, Controllers
<1>10. WellFormed(d) /\ SameLease(e, d) /\ Rests(e, d) /\ Unsent(d) = Unsent(e)
       /\ d.hydrated = e.hydrated /\ d.q = e.q /\ d.retained = e.retained
       /\ d.link = e.link /\ d.recovery = e.recovery /\ d.receipts = e.receipts
       /\ d.composer = e.composer
    BY <1>6, <1>9 DEF WellFormed, Controllers, SameLease, OwnerFades, Holds, Rests, Unsent
<1> HIDE DEF d
<1>11. Tended(d, w) /\ Orderly(d)
  <2>1. Orderly(e)
    BY <1>6 DEF Observes
  <2> QED BY <1>7, <1>10, <2>1, RestsTended, SameLeaseOrders DEF Orders
<1>12. Spares(c, d, T, O, M)
    BY <1>2, <1>3, <1>7, <1>8, <1>10 DEF Spares
<1>13. state \notin {"active", "interrupting"}
       => Tended(SettleTurn(d, t), w) /\ Spares(d, SettleTurn(d, t), T, O, M)
  <2> SUFFICES ASSUME state \notin {"active", "interrupting"}
               PROVE  Tended(SettleTurn(d, t), w) /\ Spares(d, SettleTurn(d, t), T, O, M)
    OBVIOUS
  <2>1. ViewOf(d, w)
    <3>1. Unsent(d) \subseteq Unsent(b)
        BY <1>6, <1>10
    <3> QED BY <1>5, <1>7, <1>10, <3>1, ViewKept
  <2>2. Active(d) = t /\ SteerOwners(d) = SteerOwners(c) /\ ~Recovering(d)
    BY <1>2, <1>3, <1>7, <1>10 DEF Active, SteerOwners, Recovering, NoRecovery
  <2>3. ASSUME NEW x \in SteerOwners(d)
        PROVE  /\ x \in w.known
               /\ Received(d, x) => x \in w.unowed
               /\ \/ x \in w.quiet
                  \/ /\ x # t /\ (x \in w.old \/ x = d.hydrated.turn)
                     /\ Recovering(d) => d.recovery.turn = t
    <3>1. Tends(c, x, w)
        BY <2>2 DEF Tended
    <3>2. d.hydrated = c.hydrated /\ Received(d, x) = Received(c, x)
        BY <1>2, <1>3, <1>7, <1>8, <1>10 DEF Received
    <3> QED BY <2>2, <3>1, <3>2 DEF Tends
  <2>4. Orderly(InvalidateStart(d))
    BY <1>10, <1>11, InvalidateStartOrders DEF Orders
  <2>5. Sound(d, w) /\ t \in w.done
    BY <1>11 DEF Tended
  <2> QED BY <1>10, <2>1, <2>2, <2>3, <2>4, <2>5, SettleActiveTended
<1>14. ApplyRecoveredState(c, t, state) =
         IF state \in {"active", "interrupting"} THEN d ELSE SettleTurn(d, t)
    BY Zenon DEF ApplyRecoveredState, a, b, st, e, i, d
<1>15. Spares(c, SettleTurn(d, t), T, O, M) \/ state \in {"active", "interrupting"}
    BY <1>12, <1>13, SparesTransitive
<1> QED BY <1>11, <1>12, <1>13, <1>14, <1>15

\* turn/state/get answered, or failed.
LEMMA LookupReturnedTended ==
    ASSUME NEW c, WellFormed(c), Orderly(c), c.link # "draining", NEW t \in Turns, c.lookup = t,
           NEW w, ViewOf(c, w), Tended(c, w), NEW result,
           result \notin {"unknown", "error"} => t \in w.known,
           result \notin {"unknown", "error", "active", "interrupting"} => t \in w.done,
           NEW T, t \in T, NEW O, t \in O, NEW M
    PROVE  LET d == LookupReturned(c, t, result)
           IN  Tended(d, w) /\ Spares(c, d, T, O, M)
<1> DEFINE d == [c EXCEPT !.lookup = NoTurn]
           r == [turn |-> t, phase |-> result]
           e == [d EXCEPT !.recovery = r]
<1>1. d \in Controllers
    BY NullTypes DEF WellFormed, Controllers
<1>2. /\ WellFormed(d) /\ SameLease(c, d) /\ Unsent(d) = Unsent(c) /\ d.link = c.link
      /\ d.q = c.q /\ d.attempted = c.attempted /\ d.local = c.local
      /\ d.recovery = c.recovery /\ d.lookup = NoTurn
      /\ d.hydrated = c.hydrated /\ d.receipts = c.receipts /\ d.retained = c.retained
      /\ d.steerReq = c.steerReq /\ d.steerOwner = c.steerOwner
      /\ d.steerUnknown = c.steerUnknown /\ d.composer = c.composer
    BY <1>1 DEF WellFormed, Controllers, SameLease, OwnerFades, Holds, Unsent
<1>3. r.turn = t
    OBVIOUS
<1> HIDE DEF d, r
<1>4. /\ e.link = d.link /\ e.q = d.q /\ e.attempted = d.attempted /\ e.local = d.local
      /\ e.recovery = r /\ e.lookup = NoTurn
      /\ e.hydrated = d.hydrated /\ e.receipts = d.receipts /\ e.retained = d.retained
      /\ e.steerReq = d.steerReq /\ e.steerOwner = d.steerOwner
      /\ e.steerUnknown = d.steerUnknown /\ e.composer = d.composer
    BY <1>2 DEF WellFormed, Controllers
<1> HIDE DEF e
<1>5. Recovering(c) /\ t # NoTurn /\ w.known \subseteq Turns
    BY TurnsAssumption DEF Tended, Sound, Turns, ViewOf
<1>6. ASSUME NEW u, u = d \/ (u = e /\ Active(c) = t)
      PROVE  Tended(u, w) /\ Spares(c, u, T, O, M)
  <2>1. /\ u.link = c.link /\ u.q = c.q /\ u.attempted = c.attempted /\ u.local = c.local
        /\ u.recovery = c.recovery \/ (u.recovery.turn = t /\ Active(c) = t)
        /\ u.lookup = NoTurn
        /\ u.hydrated = c.hydrated /\ u.receipts = c.receipts /\ u.retained = c.retained
        /\ u.steerReq = c.steerReq /\ u.steerOwner = c.steerOwner
        /\ u.steerUnknown = c.steerUnknown /\ u.composer = c.composer
    BY <1>2, <1>3, <1>4, <1>6
  <2>2. /\ Recovering(u) /\ Active(u) = Active(c) /\ SteerOwners(u) = SteerOwners(c)
        /\ \A x : Received(u, x) = Received(c, x)
    BY <1>5, <2>1 DEF Recovering, Active, SteerOwners, Received
  <2>3. Sound(u, w)
    BY <2>1, <2>2 DEF Sound, Tended
  <2>4. ASSUME NEW x \in SteerOwners(u) PROVE Tends(u, x, w)
    <3>1. Tends(c, x, w) /\ x # NoTurn
        BY <1>5, <2>2, TurnsAssumption DEF Tended, Tends, Turns
    <3> QED BY <1>5, <2>1, <2>2, <3>1 DEF Tends
  <2>5. Vouched(u, w)
    BY <2>1, <2>2 DEF Vouched, Tended
  <2> QED BY <2>1, <2>2, <2>3, <2>4, <2>5 DEF Tended, Spares
<1>7. Orderly(d) /\ ViewOf(d, w)
    BY <1>2, SameLeaseOrders, ViewKept DEF Orders
<1>8. ASSUME Active(c) = t, result \notin {"unknown", "error"}
      PROVE  /\ Tended(ApplyRecoveredState(d, t, result), w)
             /\ Spares(c, ApplyRecoveredState(d, t, result), T, O, M)
  <2>1. Active(d) = t /\ Recovering(d) /\ Tended(d, w) /\ Spares(c, d, T, O, M)
    BY <1>2, <1>5, <1>6, <1>8 DEF Active, Recovering
  <2>2. t \in w.known /\ (result \notin {"active", "interrupting"} => t \in w.done)
    BY <1>8
  <2>3. /\ Tended(ApplyRecoveredState(d, t, result), w)
        /\ Spares(d, ApplyRecoveredState(d, t, result), T, O, M)
    BY <1>2, <1>7, <2>1, <2>2, ApplyRecoveredStateTended
  <2> QED BY <2>1, <2>3, SparesTransitive
<1>9. LookupReturned(c, t, result) =
        IF ~Linked(c) \/ Active(c) # t THEN d
        ELSE IF result \in {"unknown", "error"} THEN e ELSE ApplyRecoveredState(d, t, result)
    BY Zenon DEF LookupReturned, d, e, r
<1>10. Tended(d, w) /\ Spares(c, d, T, O, M)
    BY <1>6
<1>11. Active(c) = t => Tended(e, w) /\ Spares(c, e, T, O, M)
    BY <1>6
<1> HIDE DEF e, d
<1> QED BY <1>8, <1>9, <1>10, <1>11

\* The user goes on without the active turn, under recovery.
LEMMA ContinueWithoutTurnTended ==
    ASSUME NEW c, WellFormed(c), Orderly(c), c.link # "draining", MayContinueWithoutTurn(c),
           NEW w, ViewOf(c, w), Tended(c, w), NEW T, Active(c) \in T, NEW O, NEW M
    PROVE  LET d == ContinueWithoutTurn(c)
           IN  Tended(d, w) /\ Spares(c, d, T, O, M)
<1> DEFINE t == Active(c)
           d == Continuing(c)
<1>0. Active(c) # NoTurn /\ Recovering(c)
    BY DEF MayContinueWithoutTurn, Recovering
<1>1. t \in Turns
    BY <1>0, ActiveType DEF WellFormed
<1>2. /\ WellFormed(d) /\ Orders(c, InvalidateStart(d)) /\ Active(d) = t
      /\ d.local = NoTurn /\ d.owner.state \notin {"running", "waiting"}
      /\ d.q.active = c.q.active /\ d.q.pending = c.q.pending
      /\ d.link = c.link /\ d.attempted = c.attempted /\ d.hydrated = c.hydrated
      /\ d.recovery = NoRecovery /\ d.lookup = NoTurn /\ d.receipts = c.receipts
      /\ d.retained = c.retained /\ d.steerReq = c.steerReq
      /\ d.steerOwner = c.steerOwner /\ d.steerUnknown = c.steerUnknown
      /\ d.composer = c.composer /\ Unsent(d) \subseteq Unsent(c)
    BY <1>0, ContinuingOrders
<1>3. ContinueWithoutTurn(c) = ReleaseQueueTurn(d, t)
    BY Zenon DEF ContinueWithoutTurn, Continuing
<1> HIDE DEF d, t
<1>4. Orderly(InvalidateStart(d)) /\ ViewOf(d, w)
    BY <1>2, ViewKept DEF Orders
<1>5. PICK h : h = (IF d.hydrated.turn = t THEN NoTurn ELSE d.hydrated.turn)
    OBVIOUS
<1>6. Loose(d, h, w)
  <2>1. SteerOwners(d) = SteerOwners(c) /\ ~Recovering(d) /\ \A x : Received(d, x) = Received(c, x)
    BY <1>2 DEF SteerOwners, Recovering, NoRecovery, Received
  <2>2. Sound(d, w)
    BY <1>2, <2>1 DEF Sound, Tended
  <2>3. ASSUME NEW x \in SteerOwners(d)
        PROVE  /\ x \in w.known /\ (x # h => x \in w.old) /\ x # d.lookup
               /\ Received(d, x) => x \in w.unowed
    <3>1. Tends(c, x, w) /\ x # NoTurn
        BY <2>1, TurnsAssumption DEF Tended, Tends, ViewOf, Turns
    <3> QED BY <1>0, <1>2, <1>5, <2>1, <3>1 DEF Tends, ViewOf, t
  <2> QED BY <1>2, <2>1, <2>2, <2>3 DEF Loose
<1>7. t \in T
    BY DEF t
<1>8. Tended(ReleaseQueueTurn(d, t), w) /\ Spares(d, ReleaseQueueTurn(d, t), T, O, M)
    BY <1>1, <1>2, <1>4, <1>5, <1>6, <1>7, ReleaseTended
<1>9. Spares(c, d, T, O, M)
    BY <1>2 DEF Spares, QueuedIds, Ids
<1> QED BY <1>3, <1>8, <1>9, SparesTransitive

LEMMA ReconcilingFields ==
    ASSUME NEW c, WellFormed(c), NEW snap, NEW preserve
    PROVE  LET d == Reconciling(c, snap, preserve)
           IN  /\ d.q = c.q /\ d.link = c.link /\ d.receipts = c.receipts
               /\ d.retained = c.retained /\ d.steerReq = c.steerReq
               /\ d.steerOwner = c.steerOwner /\ d.composer = c.composer
               /\ ~d.steerUnknown /\ d.recovery = NoRecovery /\ d.lookup = NoTurn
               /\ d.local \in {c.local, NoTurn}
<1> DEFINE fg == HydratedForeground(snap)
           i == IF fg.state = "interrupting" THEN fg.turn ELSE NoTurn
           a == [c EXCEPT !.steerUnknown = FALSE]
           b == ClearRecovery(a)
           r == RetireLocalDispatch(b, b.local)
           e == [r EXCEPT !.owner = NoOwner]
           l == ReconcileLeases(c, preserve)
           F(x) == /\ x.q = c.q /\ x.link = c.link /\ x.receipts = c.receipts
                   /\ x.retained = c.retained /\ x.steerReq = c.steerReq
                   /\ x.steerOwner = c.steerOwner /\ x.composer = c.composer
                   /\ ~x.steerUnknown /\ x.recovery = NoRecovery /\ x.lookup = NoTurn
                   /\ x.local \in {c.local, NoTurn}
<1>1. a \in Controllers
    BY DEF WellFormed, Controllers
<1>2. WellFormed(a) /\ a.q = c.q /\ a.link = c.link /\ a.receipts = c.receipts
      /\ a.retained = c.retained /\ a.steerReq = c.steerReq
      /\ a.steerOwner = c.steerOwner /\ a.composer = c.composer
      /\ ~a.steerUnknown /\ a.local = c.local
    BY <1>1 DEF WellFormed, Controllers
<1> HIDE DEF a
<1>3. WellFormed(b) /\ F(b)
  <2>1. F(b)
    BY <1>2 DEF ClearRecovery, WellFormed, Controllers
  <2> QED BY <1>2, <2>1, ClearRecoveryKeeps DEF Keeps
<1> HIDE DEF b
<1>4. WellFormed(r) /\ F(r)
  <2>1. r.local = NoTurn
    BY <1>3 DEF RetireLocalDispatch, WellFormed, Controllers
  <2> QED BY <1>3, <2>1, RetireLocalDispatchRests
<1> HIDE DEF r
<1>5. F(e) /\ e \in Controllers
    BY <1>4, NullTypes DEF WellFormed, Controllers
<1>6. l = (IF preserve /\ Linked(c) THEN b ELSE e)
    BY Zenon DEF ReconcileLeases, a, b, r
<1> HIDE DEF e, l
<1>7. l \in Controllers /\ F(l)
    BY <1>3, <1>5, <1>6 DEF WellFormed
<1>8. Reconciling(c, snap, preserve) =
        [l EXCEPT !.hydrated = fg, !.interruptReq = NoTurn, !.interrupting = i]
    BY Zenon DEF Reconciling, l
<1> HIDE DEF fg, i
<1>9. F([l EXCEPT !.hydrated = fg, !.interruptReq = NoTurn, !.interrupting = i])
    BY <1>7 DEF Controllers
<1> QED BY <1>8, <1>9

\* session-hydrate.  Of a steered turn the snapshot says that it is the foreground turn,
\* or the stream has only old events of it, or none at all when it is not reported.
LEMMA ReconcileFromHydrateTended ==
    ASSUME NEW c, WellFormed(c), Orderly(c), c.link = "draining", NEW snap, NEW preserve,
           preserve \/ c.local = NoTurn,
           NEW w, ViewOf(c, w), Sound(c, w),
           \A y \in Turns : /\ snap[y] # "absent" => y \in w.known
                            /\ snap[y] = "done" => y \in w.done,
           \A x \in SteerOwners(c) :
              /\ x \in w.known
              /\ x # Active(c) => x \in w.done /\ (x \in w.old \/ <<x, Active(c)>> \in w.before)
              /\ c.local # NoTurn => x \in w.quiet
              /\ Received(c, x) => x \in w.unowed
              /\ x \in w.old \/ x = HydratedForeground(snap).turn
              /\ snap[x] = "absent" => x \in w.quiet,
           NEW T, snap[Active(c)] = "done" => Active(c) \in T, NEW O, NEW M
    PROVE  LET d == ReconcileFromHydrate(c, snap, preserve)
           IN  Tended(d, w) /\ Spares(c, d, T, O, M)
<1> DEFINE fg == HydratedForeground(snap)
           d == Reconciling(c, snap, preserve)
           t == Active(c)
           z == ReconcileEnded(d, t)
           live == AcceptLocalDispatch(InvalidateStart(d), t, "running")
<1>0. \A x \in ServerForeground(snap) : x \in w.known /\ Sure(c, x) /\ snap[x] \notin {"absent", "done"}
    BY DEF ServerForeground, ViewOf
<1>1. /\ Orders(c, d) /\ WellFormed(d) /\ Unsent(d) \subseteq Unsent(c) /\ Linked(d)
      /\ Active(d) = t /\ d.attempted = c.attempted /\ d.hydrated = fg
      /\ fg.turn = NoTurn \/ fg.turn \in ServerForeground(snap)
    BY <1>0, ReconcilingOrders DEF Linked
<1>2. /\ d.q = c.q /\ d.link = c.link /\ d.receipts = c.receipts
      /\ d.retained = c.retained /\ d.steerReq = c.steerReq
      /\ d.steerOwner = c.steerOwner /\ d.composer = c.composer
      /\ ~d.steerUnknown /\ d.recovery = NoRecovery /\ d.lookup = NoTurn
      /\ d.local \in {c.local, NoTurn}
    BY ReconcilingFields
<1>3. ReconcileFromHydrate(c, snap, preserve) =
         IF fg.turn \notin {NoTurn, t} /\ t \notin c.attempted
         THEN AdoptForeground(InvalidateStart(d), fg.turn)
         ELSE IF t = NoTurn \/ t \notin c.attempted THEN d
         ELSE IF snap[t] # "absent" THEN ReconcileActive(d, t, snap[t])
         ELSE RetryTurnRecovery(d)
    BY Zenon DEF ReconcileFromHydrate, Reconciling
<1>4. t # NoTurn => t \in Turns
    BY ActiveType DEF WellFormed
<1> HIDE DEF d, fg, t
<1>5. Orderly(d) /\ ViewOf(d, w) /\ Spares(c, d, T, O, M) /\ fg.turn \in w.known \cup {NoTurn}
      /\ (fg.turn # NoTurn => snap[fg.turn] \notin {"absent", "done"})
  <2>1. ViewOf(d, w)
    BY <1>1, <1>2, ViewKept
  <2> QED BY <1>0, <1>1, <1>2, <2>1 DEF Orders, Spares
<1>6. /\ SteerOwners(d) = SteerOwners(c) /\ ~Recovering(d)
      /\ \A x : Received(d, x) = Received(c, x)
    BY <1>2 DEF SteerOwners, Recovering, NoRecovery, Received
<1>7. Sound(d, w)
    BY <1>1, <1>2, <1>5, <1>6 DEF Sound
<1>8. ASSUME NEW x \in SteerOwners(d) PROVE Tends(d, x, w) /\ x \in Turns
  <2>1. x # NoTurn /\ x \in Turns
    BY <1>6, TurnsAssumption DEF ViewOf, Turns
  <2> QED BY <1>1, <1>2, <1>6, <2>1 DEF Tends, t
<1>9. Loose(d, fg.turn, w)
  <2>1. \A x \in SteerOwners(d) : x # d.lookup
    BY <1>2, <1>8, TurnsAssumption DEF Turns
  <2> QED BY <1>2, <1>6, <1>7, <2>1 DEF Loose, fg
<1>10. ASSUME fg.turn \notin {NoTurn, t}, t \notin c.attempted
       PROVE  /\ Tended(AdoptForeground(InvalidateStart(d), fg.turn), w)
              /\ Spares(c, AdoptForeground(InvalidateStart(d), fg.turn), T, O, M)
  <2> DEFINE e == InvalidateStart(d)
  <2>1. /\ WellFormed(e) /\ Orderly(e) /\ Unsent(e) \subseteq Unsent(d) /\ e.link = d.link
        /\ Rests(d, e)
    BY <1>1, <1>5, InvalidateStartOrders, InvalidateStartKeeps, InvalidateStartRests DEF Orders, Keeps
  <2> HIDE DEF e
  <2>2. /\ ViewOf(e, w) /\ Active(e) \notin e.attempted /\ Loose(e, fg.turn, w)
        /\ Spares(d, e, T, O, M)
    <3>1. /\ Active(e) = Active(d) /\ SteerOwners(e) = SteerOwners(d) /\ Spares(d, e, T, O, M)
          /\ Sound(e, w)
        BY <1>7, <2>1, RestsTended
    <3>2. Loose(e, fg.turn, w)
        BY <1>9, <2>1, <3>1 DEF Loose, Rests, Recovering, Received
    <3> QED BY <1>1, <1>5, <1>10, <2>1, <3>1, <3>2, ViewKept DEF Rests
  <2>3. fg.turn \in w.known
    BY <1>5, <1>10
  <2>4. Tended(AdoptForeground(e, fg.turn), w) /\ Spares(e, AdoptForeground(e, fg.turn), T, O, M)
    BY <2>1, <2>2, <2>3, AdoptTended
  <2>5. Spares(c, AdoptForeground(e, fg.turn), T, O, M)
    BY <1>5, <2>2, <2>4, SparesTransitive
  <2> QED BY <2>4, <2>5 DEF e
<1>11. ASSUME fg.turn \in {NoTurn, t}, t \notin c.attempted PROVE Tended(d, w)
  <2>1. Active(d) \notin d.attempted
    BY <1>1, <1>11
  <2>2. fg.turn = NoTurn
    <3>1. t \notin w.known
        BY <1>1, <1>5, <2>1, UnknownIsNext
    <3> QED BY <1>5, <1>11, <3>1
  <2> QED BY <1>1, <1>5, <1>9, <2>1, <2>2, LooseTended
<1>12. ASSUME t \in c.attempted, t # NoTurn, snap[t] \notin {"absent", "done"}
       PROVE  Tended(live, w) /\ Spares(c, live, T, O, M)
  <2>1. t \in w.known
    BY <1>4, <1>12
  <2>2. Tended(d, w)
    BY <1>1, <1>6, <1>7, <1>8, <2>1 DEF Tended, Vouched
  <2> DEFINE e == InvalidateStart(d)
  <2>3. /\ WellFormed(e) /\ Orderly(e) /\ Unsent(e) \subseteq Unsent(d) /\ e.link = d.link
        /\ Tended(e, w) /\ Spares(d, e, T, O, M)
    BY <1>1, <1>5, <2>2, InvalidateStartOrders, InvalidateStartKeeps, InvalidateStartRests,
       RestsTended DEF Orders, Keeps
  <2> HIDE DEF e
  <2>4. ViewOf(e, w)
    BY <1>5, <2>3, ViewKept
  <2>5. Tended(AcceptLocalDispatch(e, t, "running"), w)
        /\ Spares(e, AcceptLocalDispatch(e, t, "running"), T, O, M)
    BY <2>1, <2>3, <2>4, AcceptLocalDispatchTended
  <2>6. Spares(c, AcceptLocalDispatch(e, t, "running"), T, O, M)
    BY <1>5, <2>3, <2>5, SparesTransitive
  <2> QED BY <2>5, <2>6 DEF e
<1>13. ASSUME t \in c.attempted, t # NoTurn, snap[t] = "done"
       PROVE  /\ fg.turn \in {NoTurn, t} => Tended(z, w) /\ Spares(c, z, T, O, M)
              /\ fg.turn \notin {NoTurn, t}
                 => /\ Tended(AdoptForeground(z, fg.turn), w)
                    /\ Spares(c, AdoptForeground(z, fg.turn), T, O, M)
  <2>1. /\ WellFormed(z) /\ Orders(d, z) /\ Active(z) \notin z.attempted
        /\ z.hydrated = d.hydrated /\ z.q = Settle(d.q, t)
    BY <1>1, <1>4, <1>5, <1>13, ReconcileEndedOrders
  <2>2. /\ z.link = d.link /\ z.receipts = d.receipts /\ z.attempted = d.attempted
        /\ z.retained = d.retained /\ z.steerReq = d.steerReq
        /\ z.steerOwner = d.steerOwner /\ z.composer = d.composer
        /\ z.steerUnknown = d.steerUnknown /\ z.recovery = NoRecovery /\ z.lookup = NoTurn
        /\ Unsent(z) \subseteq Unsent(d)
    <3> DEFINE a == InvalidateStart(d)
               e == AcceptLocalDispatch(a, t, "ended")
               o == IF e.owner.turn = t THEN [e.owner EXCEPT !.state = "ended"] ELSE e.owner
    <3>1. /\ WellFormed(a) /\ Unsent(a) \subseteq Unsent(d)
          /\ a.link = d.link /\ a.receipts = d.receipts /\ a.attempted = d.attempted
          /\ a.retained = d.retained /\ a.steerReq = d.steerReq
          /\ a.steerOwner = d.steerOwner /\ a.composer = d.composer
          /\ a.steerUnknown = d.steerUnknown /\ a.recovery = NoRecovery /\ a.lookup = NoTurn
      <4>1. WellFormed(a) /\ Unsent(a) \subseteq Unsent(d)
        BY <1>1, InvalidateStartKeeps DEF Keeps
      <4> QED BY <1>1, <1>2, <4>1 DEF InvalidateStart, WellFormed, Controllers
    <3> HIDE DEF a
    <3>2. /\ WellFormed(e) /\ Unsent(e) \subseteq Unsent(a)
          /\ e.link = a.link /\ e.receipts = a.receipts /\ e.attempted = a.attempted
          /\ e.retained = a.retained /\ e.steerReq = a.steerReq
          /\ e.steerOwner = a.steerOwner /\ e.composer = a.composer
          /\ e.steerUnknown = a.steerUnknown /\ e.recovery = NoRecovery /\ e.lookup = NoTurn
      <4>1. WellFormed(e) /\ Unsent(e) \subseteq Unsent(a)
        BY <1>4, <1>13, <3>1, AcceptLocalDispatchKeeps DEF Keeps
      <4> QED BY <3>1, <4>1 DEF AcceptLocalDispatch, ClearRecoveryOf, ClearRecovery, WellFormed, Controllers
    <3>3. z = [e EXCEPT !.owner = o, !.q = Settle(@, t)]
        BY Zenon DEF ReconcileEnded, a
    <3> HIDE DEF e, o, z
    <3>4. /\ z.link = e.link /\ z.receipts = e.receipts /\ z.attempted = e.attempted
          /\ z.retained = e.retained /\ z.steerReq = e.steerReq
          /\ z.steerOwner = e.steerOwner /\ z.composer = e.composer
          /\ z.steerUnknown = e.steerUnknown /\ z.recovery = e.recovery /\ z.lookup = e.lookup
          /\ Unsent(z) = Unsent(e)
        BY <3>2, <3>3 DEF WellFormed, Controllers, Unsent
    <3> QED BY <3>1, <3>2, <3>4
  <2> HIDE DEF z
  <2>3. Orderly(z) /\ ViewOf(z, w) /\ Loose(z, fg.turn, w)
    <3>1. SteerOwners(z) = SteerOwners(d) /\ ~Recovering(z) /\ \A x : Received(z, x) = Received(d, x)
        BY <2>2 DEF SteerOwners, Recovering, NoRecovery, Received
    <3>2. Loose(z, fg.turn, w)
        BY <1>2, <1>6, <1>9, <2>1, <2>2, <3>1 DEF Loose, Sound
    <3> QED BY <1>5, <2>1, <2>2, <3>2, ViewKept DEF Orders
  <2>4. Spares(c, z, T, O, M)
    <3>1. c.q \in Queues /\ OneEach(c.q) /\ c.q.active.id = t
        BY DEF WellFormed, Controllers, Orderly, Fifo, Active, t
    <3>2. LET r == Settle(c.q, t)
          IN  Ids(c.q.pending) = Ids(r.pending) \cup ({r.active.id} \ {NoTurn})
        BY <1>4, <1>13, <3>1, SettleIds
    <3>3. QueuedIds(c.q) \subseteq QueuedIds(z.q) \cup T
        BY <1>2, <1>13, <2>1, <3>1, <3>2 DEF QueuedIds, t
    <3> QED BY <1>2, <2>2, <3>3 DEF Spares
  <2>5. CASE fg.turn = NoTurn
    BY <2>1, <2>3, <2>4, <2>5, LooseTended
  <2>6. CASE fg.turn # NoTurn
    <3>1. fg.turn # t /\ fg.turn \in w.known
        BY <1>5, <1>13, <2>6
    <3>2. /\ Tended(AdoptForeground(z, fg.turn), w)
          /\ Spares(z, AdoptForeground(z, fg.turn), T, O, M)
        BY <2>1, <2>3, <3>1, AdoptTended
    <3> QED BY <2>4, <2>6, <3>1, <3>2, SparesTransitive
  <2> QED BY <2>5, <2>6
<1>14. ASSUME t \in c.attempted, t # NoTurn, snap[t] = "absent"
       PROVE  Tended(RetryTurnRecovery(d), w) /\ Spares(c, RetryTurnRecovery(d), T, O, M)
  <2>1. \A x \in SteerOwners(d) :
           /\ x = Active(d) => x \in w.quiet
           /\ \/ x \in w.old
              \/ /\ d.link \in {"draining", "ready"}
                 /\ x = d.hydrated.turn /\ x # Active(d)
    BY <1>1, <1>2, <1>5, <1>6, <1>14 DEF fg, ViewOf
  <2>2. d.recovery.phase # "checking" /\ w.known \subseteq Turns
    BY <1>2 DEF NoRecovery, ViewOf
  <2>3. \A x \in SteerOwners(d) : Tends(d, x, w)
    BY <1>8
  <2>4. Tended(RetryTurnRecovery(d), w) /\ Spares(d, RetryTurnRecovery(d), T, O, M)
    BY <1>1, <1>6, <1>7, <1>14, <2>1, <2>2, <2>3, RetryTurnRecoveryTended
  <2> QED BY <1>5, <2>4, SparesTransitive
<1>15. snap[t] # "absent" => ReconcileActive(d, t, snap[t]) =
          IF snap[t] # "done" THEN live
          ELSE IF fg.turn \notin {NoTurn, t} THEN AdoptForeground(z, fg.turn) ELSE z
  <2> SUFFICES ReconcileActive(d, t, snap[t]) =
                 IF snap[t] # "done" THEN live
                 ELSE IF d.hydrated.turn \notin {NoTurn, t}
                 THEN AdoptForeground(z, d.hydrated.turn) ELSE z
    BY <1>1
  <2>1. CASE snap[t] = "done"
    BY <2>1, Zenon DEF ReconcileActive, ReconcileEnded
  <2>2. CASE snap[t] # "done"
    BY <2>2, Zenon DEF ReconcileActive
  <2> QED BY <2>1, <2>2
<1> HIDE DEF z, live
<1>16. CASE t \notin c.attempted
    BY <1>3, <1>5, <1>10, <1>11, <1>16
<1>17. CASE t \in c.attempted
  <2>1. t # NoTurn
    BY <1>17, TurnsAssumption DEF WellFormed, Controllers, Turns
  <2> QED BY <1>3, <1>12, <1>13, <1>14, <1>15, <1>17, <2>1
<1> QED BY <1>16, <1>17

-----------------------------------------------------------------------------
(* Transport *)

\* A record without an authority holds no text for steering.
LEMMA SuspendTended ==
    ASSUME NEW c, WellFormed(c), Orderly(c), NEW link \in {"down", "opening"},
           NEW w, ViewOf(c, w), Tended(c, w), NEW d,
           d = [SuspendTransport(c) EXCEPT !.link = link,
                                           !.lookup = IF link = "down" THEN NoTurn ELSE @],
           NEW T, NEW O, Turns \subseteq O, NEW M, c.steerReq \in M
    PROVE  Tended(d, w) /\ Spares(c, d, T, O, M)
<1> DEFINE a == [c EXCEPT !.retained = {}, !.steerReq = NoTurn,
                          !.steerOwner = NoTurn, !.steerUnknown = FALSE]
           us == UnsentSteers(c)
           b == RestageSteers(a, us)
           s == SuspendTransport(c)
<1>1. a \in Controllers
    BY NullTypes DEF WellFormed, Controllers
<1>2. /\ WellFormed(a) /\ SameLease(c, a) /\ Unsent(a) = Unsent(c)
      /\ a.q = c.q /\ a.link = c.link /\ a.attempted = c.attempted
      /\ a.local = c.local /\ a.recovery = c.recovery /\ a.lookup = c.lookup
      /\ a.hydrated = c.hydrated /\ a.receipts = c.receipts /\ a.retained = {}
      /\ a.steerReq = NoTurn /\ ~a.steerUnknown /\ a.composer = c.composer
    BY <1>1 DEF WellFormed, Controllers, SameLease, OwnerFades, Holds, Unsent
<1>3. s = [InvalidateStart(b) EXCEPT !.attempted = @ \ {c.preflight}, !.preflight = NoTurn,
             !.interruptReq = NoTurn, !.local = NoTurn, !.owner = NoOwner,
             !.dispatching = NoTurn, !.interrupting = NoTurn]
    BY Zenon DEF SuspendTransport
<1> HIDE DEF a
<1>4. Orderly(a) /\ ViewOf(a, w) /\ Tended(a, w)
    BY <1>2, SameLeaseOrders, ViewKept, FewerSteersTended DEF Orders
<1>5. /\ us \in Seq(Turns) /\ NoRepeat(us) /\ TurnsOf(us) \subseteq RetainedTurns(c)
      /\ \A e \in c.retained : ~e.sent => e.turn \in TurnsOf(us)
  <2>1. CASE \E e \in c.retained : e.turn = c.steerReq /\ ~e.sent
    <3>1. us = <<c.steerReq>> /\ c.steerReq \in RetainedTurns(c)
        BY <2>1 DEF UnsentSteers, RetainedTurns
    <3>2. c.steerReq \in Turns
        BY <3>1 DEF Orderly, Fifo, Turns
    <3>3. \A e \in c.retained : ~e.sent => e.turn = c.steerReq
        BY DEF Tended, Sound
    <3> HIDE DEF us
    <3>4. us \in Seq(Turns) /\ DOMAIN us = {1} /\ us[1] = c.steerReq
        BY <3>1, <3>2
    <3> QED BY <3>1, <3>2, <3>3, <3>4 DEF NoRepeat, TurnsOf
  <2>2. CASE ~\E e \in c.retained : e.turn = c.steerReq /\ ~e.sent
    <3>1. us = <<>>
        BY <2>2 DEF UnsentSteers
    <3>2. \A e \in c.retained : e.sent
        BY <2>2 DEF Tended, Sound
    <3> QED BY <3>1, <3>2 DEF NoRepeat, TurnsOf
  <2> QED BY <2>1, <2>2
<1> HIDE DEF us
<1>6. /\ TurnsOf(us) \subseteq Locals
      /\ TurnsOf(us) \cap (a.attempted \cup QueuedIds(a.q) \cup RetainedTurns(a)) = {}
    BY <1>2, <1>5 DEF Orderly, Fifo, RetainedTurns
<1>7. /\ Tended(b, w) /\ WellFormed(b) /\ Requeues(a, b)
      /\ QueuedIds(b.q) = QueuedIds(a.q) \cup TurnsOf(us)
    BY <1>2, <1>4, <1>5, <1>6, RestageSteersTended
<1> HIDE DEF b
<1>8. InvalidateStart(b) \in Controllers
    BY <1>7, InvalidateStartKeeps DEF Keeps, WellFormed
<1>9. /\ s.q = b.q /\ s.recovery = b.recovery /\ s.lookup = b.lookup
      /\ s.hydrated = b.hydrated /\ s.receipts = b.receipts /\ s.retained = b.retained
      /\ s.steerReq = b.steerReq /\ s.steerUnknown = b.steerUnknown /\ s.composer = b.composer
    BY <1>3, <1>7, <1>8 DEF InvalidateStart, WellFormed, Controllers
<1>10. s \in Controllers
    BY SuspendTransportKeeps DEF Keeps, WellFormed
<1> HIDE DEF s
<1>11. /\ d.q = s.q /\ d.recovery = s.recovery /\ d.lookup \in {s.lookup, NoTurn}
       /\ d.hydrated = s.hydrated /\ d.receipts = s.receipts /\ d.retained = s.retained
       /\ d.steerReq = s.steerReq /\ d.steerUnknown = s.steerUnknown
       /\ d.composer = s.composer /\ d.link = link
    BY <1>10 DEF s, Controllers
<1>12. /\ d.recovery = c.recovery /\ d.lookup \in {c.lookup, NoTurn} /\ d.hydrated = c.hydrated
       /\ d.receipts = c.receipts /\ d.retained = {} /\ d.steerReq = NoTurn
       /\ ~d.steerUnknown /\ d.composer = c.composer
       /\ QueuedIds(d.q) = QueuedIds(c.q) \cup TurnsOf(us)
    BY <1>2, <1>7, <1>9, <1>11 DEF Requeues
<1>13. Sound(d, w)
    BY <1>12 DEF Sound, Tended, Recovering, Received
<1>14. Tended(d, w)
    BY <1>11, <1>12, <1>13 DEF Tended, Vouched, SteerOwners
<1>15. ASSUME NEW e \in c.retained PROVE e.owner \in Turns /\ (~e.sent => e.turn = c.steerReq)
    BY DEF WellFormed, Controllers, Steers, Tended, Sound
<1> QED BY <1>5, <1>12, <1>14, <1>15 DEF Spares

\* The record's runtime changes the link.
LEMMA RelinkTended ==
    ASSUME NEW c, WellFormed(c), NEW l, NEW w, Tended(c, w), NEW d, d = [c EXCEPT !.link = l],
           c.retained # {} => l \in {"ready", "recovering", "draining", "deaf"},
           l # "draining", l = "ready" => c.link = "draining",
           l # "ready" /\ Recovering(c) => SteerOwners(c) \subseteq w.old,
           NEW T, NEW O, NEW M
    PROVE  Tended(d, w) /\ Spares(c, d, T, O, M)
<1>1. /\ d.q = c.q /\ d.link = l /\ d.attempted = c.attempted
      /\ d.local = c.local /\ d.recovery = c.recovery /\ d.lookup = c.lookup
      /\ d.hydrated = c.hydrated /\ d.receipts = c.receipts /\ d.retained = c.retained
      /\ d.steerReq = c.steerReq /\ d.steerOwner = c.steerOwner
      /\ d.steerUnknown = c.steerUnknown /\ d.composer = c.composer
    BY DEF WellFormed, Controllers
<1>2. Active(d) = Active(c) /\ SteerOwners(d) = SteerOwners(c) /\ Recovering(d) = Recovering(c)
      /\ \A x : Received(d, x) = Received(c, x)
    BY <1>1 DEF Active, SteerOwners, Recovering, Received
<1>3. Sound(d, w)
    BY <1>1, <1>2 DEF Sound, Tended
<1>4. \A x \in SteerOwners(d) : Tends(d, x, w)
    BY <1>1, <1>2 DEF Tended, Tends
<1>5. Vouched(d, w)
    BY <1>1, <1>2 DEF Vouched, Tended
<1> QED BY <1>1, <1>2, <1>3, <1>4, <1>5 DEF Tended, Spares

\* What v says is at least what w says.
Extends(v, w) ==
    /\ w.known \subseteq v.known /\ w.done \subseteq v.done /\ w.quiet \subseteq v.quiet
    /\ w.old \subseteq v.old /\ w.unowed \subseteq v.unowed /\ w.before \subseteq v.before
    /\ w.done \cup w.dead \subseteq v.done \cup v.dead

LEMMA ExtendsTended ==
    ASSUME NEW c, NEW w, NEW v, Tended(c, w), Extends(v, w)
    PROVE  Tended(c, v)
<1>1. Sound(c, v)
    BY DEF Tended, Sound, Extends
<1>2. \A x : Tends(c, x, w) => Tends(c, x, v)
    BY DEF Tends, Extends
<1>3. Vouched(c, v)
    BY DEF Tended, Vouched, Extends
<1> QED BY <1>1, <1>2, <1>3 DEF Tended
-----------------------------------------------------------------------------
(* The order of the queue: N may get ahead of what waits, T may leave it *)

\* Starting a turn, and giving an interrupted prompt back, leave the line alone.
LEMMA StartTurnLine ==
    ASSUME NEW c, WellFormed(c), NEW t
    PROVE  /\ StartTurn(c, t).q = c.q /\ WellFormed(StartTurn(c, t))
           /\ GiveBackInterrupted(c, t).q.active = c.q.active
           /\ GiveBackInterrupted(c, t).q.pending = c.q.pending
<1>1. TakeInterruptPrompt(c.q, t).active = c.q.active
      /\ TakeInterruptPrompt(c.q, t).pending = c.q.pending
    BY StashIds DEF WellFormed, Controllers
<1>2. GiveBackInterrupted(c, t).q = TakeInterruptPrompt(c.q, t)
    BY DEF GiveBackInterrupted, WellFormed, Controllers
<1>3. WellFormed(StartTurn(c, t))
    BY StartTurnKeeps DEF Keeps
<1> QED BY <1>1, <1>2, <1>3 DEF StartTurn, WellFormed, Controllers

\* An adopted foreground goes to the head; what it displaces stays first.
LEMMA AdoptForegroundShifts ==
    ASSUME NEW c, WellFormed(c), NEW t \in Turns, NEW N, t \in N, NEW T
    PROVE  Shifts(c.q, AdoptForeground(c, t).q, N, T)
<1>1. ObservedTurn(t) \in Entries /\ ObservedTurn(t).id = t
    BY DEF ObservedTurn, Entries
<1>2. AdoptForeground(c, t).q = RestoreActive(c.q, ObservedTurn(t), TRUE) /\ c.q \in Queues
    BY DEF AdoptForeground, WellFormed, Controllers
<1> QED BY <1>1, <1>2, RestoreActiveShifts

\* The turn released leaves the queue; only hydrate's foreground gets ahead.
LEMMA ReleaseShifts ==
    ASSUME NEW c, WellFormed(c), NEW t \in Turns, NEW N, c.hydrated.turn \in N \cup {NoTurn, t},
           NEW T, t \in T
    PROVE  Shifts(c.q, ReleaseQueueTurn(c, t).q, N, T)
<1> DEFINE h == c.hydrated.turn
           inv == InvalidateStart(c)
           quiet == [inv EXCEPT !.interruptReq = NoTurn, !.q = Settle(@, t)]
<1>1. inv.q = c.q /\ WellFormed(inv)
    BY InvalidateStartKeeps DEF InvalidateStart, WellFormed, Controllers, Keeps
<1>2. c.q \in Queues /\ Settle(c.q, t) \in Queues /\ h \in OptTurn
    BY SettleType DEF WellFormed, Controllers, HydratedTurns
<1> HIDE DEF inv
<1>3. quiet \in Controllers /\ quiet.q = Settle(c.q, t)
    BY <1>1, <1>2, NullTypes DEF WellFormed, Controllers
<1>4. WellFormed(quiet)
    BY <1>1, <1>3 DEF WellFormed, Controllers
<1>5. Shifts(c.q, quiet.q, N, T)
    BY <1>2, <1>3, SettleShifts
<1>6. CASE Active(c) # t
  <2>1. ReleaseQueueTurn(c, t) = c
    BY <1>6 DEF ReleaseQueueTurn
  <2> QED BY <2>1, SameLineShifts
<1> HIDE DEF quiet
<1>7. CASE Active(c) = t /\ h # NoTurn /\ h # t
  <2> DEFINE a == AdoptForeground(quiet, h)
             i == IF c.hydrated.state = "interrupting" THEN h ELSE NoTurn
             d == [a EXCEPT !.interrupting = i]
  <2>1. h \in Turns /\ h \in N
    BY <1>2, <1>7 DEF OptTurn
  <2>2. Shifts(quiet.q, a.q, N, T) /\ WellFormed(a)
    BY <1>4, <2>1, AdoptForegroundShifts, AdoptForegroundKeeps DEF Keeps
  <2>3. i \in OptTurn
    BY <1>2, NullTypes
  <2> HIDE DEF a, i
  <2>4. d \in Controllers /\ d.q = a.q
    BY <2>2, <2>3 DEF WellFormed, Controllers
  <2>5. WellFormed(d)
    BY <2>2, <2>4 DEF WellFormed, Controllers
  <2>6. ReleaseQueueTurn(c, t) = GiveBackInterrupted(d, t)
    BY <1>7, Zenon DEF ReleaseQueueTurn, quiet, inv, a, i, d
  <2> HIDE DEF d
  <2>7. Shifts(d.q, GiveBackInterrupted(d, t).q, N, T)
    BY <2>5, StartTurnLine, SameLineShifts
  <2> QED BY <1>5, <2>2, <2>4, <2>6, <2>7, ShiftsTransitive
<1>8. CASE Active(c) = t /\ (h = NoTurn \/ h = t)
  <2> DEFINE e == [quiet EXCEPT !.interrupting = Without(@, t)]
             d == GiveBackInterrupted(e, t)
  <2>1. Without(quiet.interrupting, t) \in OptTurn
    BY <1>3, WithoutType DEF WellFormed, Controllers
  <2>2. e \in Controllers /\ e.q = quiet.q
    BY <1>3, <2>1 DEF Controllers
  <2>3. WellFormed(e)
    BY <1>4, <2>2 DEF WellFormed, Controllers
  <2>4. ReleaseQueueTurn(c, t) = StartTurn(d, Active(d))
    BY <1>8, Zenon DEF ReleaseQueueTurn, quiet, inv
  <2> HIDE DEF e
  <2>5. Shifts(e.q, d.q, N, T) /\ WellFormed(d)
    BY <2>3, StartTurnLine, SameLineShifts, GiveBackInterruptedKeeps DEF Keeps
  <2> HIDE DEF d
  <2>6. StartTurn(d, Active(d)).q = d.q
    BY <2>5, StartTurnLine
  <2> QED BY <1>5, <2>2, <2>4, <2>5, <2>6, ShiftsTransitive
<1> QED BY <1>6, <1>7, <1>8

\* The settled turn leaves the queue.
LEMMA SettleTurnShifts ==
    ASSUME NEW c, WellFormed(c), NEW t \in Turns, NEW N, c.hydrated.turn \in N \cup {NoTurn, t},
           NEW T, t \in T
    PROVE  Shifts(c.q, SettleTurn(c, t).q, N, T)
<1>1. PICK d : Settling(c, d, t)
    BY SettlePrefix
<1> DEFINE r == RetireLocalDispatch(d, t)
<1>2. WellFormed(r) /\ r.q = c.q /\ r.hydrated = d.hydrated
    BY <1>1, RetireLocalDispatchRests DEF Settling
<1>3. r.hydrated.turn \in N \cup {NoTurn, t}
    BY <1>1, <1>2 DEF Settling, NoHydrated
<1> HIDE DEF r
<1>4. Shifts(r.q, ReleaseQueueTurn(r, t).q, N, T)
    BY <1>2, <1>3, ReleaseShifts
<1> QED BY <1>1, <1>2, <1>4 DEF Settling, r

\* A refused start leaves the queue; what hydrate put aside for it is known to Core.
LEMMA StartRefusedShifts ==
    ASSUME NEW c, WellFormed(c), NEW t \in Turns, NEW N, c.hydrated.turn \in N \cup {NoTurn, t},
           NEW T, t \in T
    PROVE  /\ Shifts(c.q, StartRefused(c, t).q, N, T)
           /\ Shifts(c.q, SettleTurn(RetireLocalDispatch(c, t), t).q, N, T)
<1> DEFINE b == RetireLocalDispatch(c, t)
           e == [b EXCEPT !.composer = @ \cup {t}]
<1>1. WellFormed(b) /\ b.q = c.q /\ b.hydrated = c.hydrated
    BY RetireLocalDispatchRests
<1> HIDE DEF b
<1>2. e \in Controllers /\ e.q = b.q /\ e.hydrated = b.hydrated
    BY <1>1 DEF WellFormed, Controllers
<1>3. WellFormed(e)
    BY <1>1, <1>2 DEF WellFormed, Controllers
<1>4. StartRefused(c, t) \in {SettleTurn(b, t), SettleTurn(e, t)}
    BY Zenon DEF StartRefused, b, e
<1> HIDE DEF e
<1>5. Shifts(c.q, SettleTurn(b, t).q, N, T) /\ Shifts(c.q, SettleTurn(e, t).q, N, T)
    BY <1>1, <1>2, <1>3, SettleTurnShifts
<1> QED BY <1>4, <1>5 DEF b

\* A review that could not be sent leaves the queue; a prompt stays where it is.
LEMMA PreflightNotReadyShifts ==
    ASSUME NEW c, WellFormed(c), NEW t \in Turns, NEW N, c.hydrated.turn \in N \cup {NoTurn, t},
           NEW T, t \in Reviews => t \in T
    PROVE  Shifts(c.q, PreflightNotReady(c, t).q, N, T)
<1>1. CASE t \in Reviews
    BY <1>1, StartRefusedShifts DEF PreflightNotReady
<1>2. CASE t \notin Reviews
  <2> DEFINE a == [c EXCEPT !.attempted = @ \ {t}, !.preflight = NoTurn]
  <2>1. a \in Controllers /\ a.q = c.q
    BY NullTypes DEF WellFormed, Controllers
  <2>2. PreflightNotReady(c, t) = InvalidateStart(RetireLocalDispatch(a, t))
    BY <1>2, Zenon DEF PreflightNotReady, a
  <2> HIDE DEF a
  <2>3. PreflightNotReady(c, t).q = c.q
    BY <2>1, <2>2 DEF InvalidateStart, RetireLocalDispatch, Controllers
  <2> QED BY <2>3, SameLineShifts
<1> QED BY <1>1, <1>2

\* A collision puts Core's foreground turn first and takes the refused one out.
LEMMA StartCollidedShifts ==
    ASSUME NEW c, WellFormed(c), NEW t \in Turns, NEW f \in Turns, NEW N, f \in N, NEW T, t \in T
    PROVE  Shifts(c.q, StartCollided(c, t, f).q, N, T)
<1> DEFINE b == InvalidateStart(RetireLocalDispatch(c, t))
           d == [b EXCEPT !.q = Settle(@, t), !.composer = @ \cup {t}]
<1>1. WellFormed(b) /\ b.q = c.q
  <2>1. WellFormed(RetireLocalDispatch(c, t)) /\ RetireLocalDispatch(c, t).q = c.q
    BY RetireLocalDispatchRests
  <2> QED BY <2>1, InvalidateStartKeeps DEF Keeps, InvalidateStart, WellFormed, Controllers
<1> HIDE DEF b
<1>2. Settle(b.q, t) \in Queues /\ Shifts(c.q, Settle(b.q, t), N, T)
    BY <1>1, SettleType, SettleShifts DEF WellFormed, Controllers
<1>3. d \in Controllers /\ d.q = Settle(b.q, t)
    BY <1>1, <1>2 DEF WellFormed, Controllers
<1>4. WellFormed(d)
    BY <1>1, <1>3 DEF WellFormed, Controllers
<1>5. StartCollided(c, t, f) \in {StartTurn(d, Active(d)), AdoptForeground(d, f)}
    BY Zenon DEF StartCollided, b, d
<1> HIDE DEF d
<1>6. Shifts(d.q, StartTurn(d, Active(d)).q, N, T) /\ Shifts(d.q, AdoptForeground(d, f).q, N, T)
    BY <1>4, StartTurnLine, SameLineShifts, AdoptForegroundShifts
<1> QED BY <1>2, <1>3, <1>5, <1>6, ShiftsTransitive

\* The admitted prompt goes behind everything that waits.
LEMMA EnqueueTurnShifts ==
    ASSUME NEW c, WellFormed(c), Packed(c.q), NEW t \in Turns
    PROVE  LET r == EnqueueTurn(c, t).q
           IN  /\ \A x, y \in Turns : Ahead(r, y, x) => Ahead(c.q, y, x) \/ x = t
               /\ QueuedIds(c.q) \cup {t} \subseteq QueuedIds(r) /\ Packed(r)
<1> DEFINE e == [id |-> t, text |-> TRUE]
           d == [c EXCEPT !.q = Enqueue(@, e)]
<1>1. e \in Entries /\ e.id = t /\ c.q \in Queues
    BY DEF Entries, WellFormed, Controllers
<1> HIDE DEF e
<1>2. Enqueue(c.q, e) \in Queues
    BY <1>1, EnqueueType
<1>3. d \in Controllers /\ d.q = Enqueue(c.q, e)
    BY <1>2 DEF WellFormed, Controllers
<1>4. WellFormed(d)
    BY <1>3 DEF WellFormed, Controllers
<1>5. EnqueueTurn(c, t) \in {d, StartTurn(d, t)}
    BY Zenon DEF EnqueueTurn, d, e
<1> HIDE DEF d
<1>6. EnqueueTurn(c, t).q = Enqueue(c.q, e)
    BY <1>3, <1>4, <1>5, StartTurnLine
<1> QED BY <1>1, <1>6, EnqueueShifts

\* A cancelled prompt leaves the queue.
LEMMA CancelQueuedPromptShifts ==
    ASSUME NEW c, WellFormed(c), Orderly(c), NEW t, NEW N, NEW T, t \in T
    PROVE  Shifts(c.q, CancelQueuedPrompt(c, t).q, N, T)
<1>1. CancelQueuedPrompt(c, t).q = RemovePending(c.q, t) /\ c.q \in Queues /\ OneEach(c.q)
    BY DEF CancelQueuedPrompt, WellFormed, Controllers, Orderly, Fifo
<1> QED BY <1>1, RemovePendingShifts

\* Returned text goes ahead of every later prompt, and behind a turn that is under way.
LEMMA RestageSteersShifts ==
    ASSUME NEW c, WellFormed(c), NEW turns \in Seq(Turns), NoRepeat(turns),
           NEW N, TurnsOf(turns) \subseteq N,
           turns # <<>> /\ Active(c) \in c.attempted => Active(c) \in N, NEW T
    PROVE  Shifts(c.q, RestageSteers(c, turns).q, N, T)
<1> DEFINE es == SteerEntries(turns)
<1>1. es \in Seq(Entries) /\ Ids(es) = TurnsOf(turns) /\ (turns # <<>> => es # <<>>)
    BY SteerEntriesIds
<1> HIDE DEF es
<1>2. c.q \in Queues /\ (Active(c) \in c.attempted => Active(c) # NoTurn)
    BY TurnsAssumption DEF WellFormed, Controllers, Turns
<1>3. CASE turns = <<>>
  <2>1. RestageSteers(c, turns) = c
    BY <1>3 DEF RestageSteers
  <2> QED BY <2>1, SameLineShifts
<1>4. CASE turns # <<>> /\ Active(c) \notin c.attempted
  <2> DEFINE q == RestoreActive(c.q, es[1], TRUE)
  <2>1. /\ es[1] \in Entries /\ Tail(es) \in Seq(Entries) /\ es[1].id \in Ids(es)
        /\ Ids(Tail(es)) \subseteq Ids(es)
    <3>1. es[1] = Head(es) /\ es # <<>>
        BY <1>1, <1>4
    <3> QED BY <1>1, <3>1, IdsTail
  <2>2. Shifts(c.q, q, N, T) /\ q \in Queues
    BY <1>1, <1>2, <2>1, RestoreActiveShifts, RestoreActiveType
  <2>3. q.active.id = es[1].id /\ es[1].id # NoTurn
    <3>1. es[1].id # NoTurn
        BY <2>1, TurnsAssumption DEF Entries, Turns
    <3>2. c.q.active.id = es[1].id => q = c.q
        BY <3>1 DEF RestoreActive
    <3>3. c.q.active.id # es[1].id => q.active = es[1]
        BY <1>2 DEF RestoreActive, Queues
    <3> QED BY <3>1, <3>2, <3>3
  <2>4. RestageSteers(c, turns).q = PrependPending(q, Tail(es))
    <3>1. RestageSteers(c, turns)
          = [c EXCEPT !.q = PrependPending(RestoreActive(@, es[1], TRUE), Tail(es))]
        BY <1>4, Zenon DEF RestageSteers, es
    <3> QED BY <3>1 DEF WellFormed, Controllers
  <2> HIDE DEF q
  <2>5. Ids(Tail(es)) \cup {q.active.id} \subseteq N
    BY <1>1, <2>1, <2>3
  <2>6. Shifts(q, PrependPending(q, Tail(es)), N, T)
    BY <2>1, <2>2, <2>3, <2>5, PrependPendingShifts
  <2> QED BY <2>2, <2>4, <2>6, ShiftsTransitive
<1>5. CASE turns # <<>> /\ Active(c) \in c.attempted
  <2>1. RestageSteers(c, turns).q = PrependPending(c.q, es)
    <3>1. RestageSteers(c, turns) = [c EXCEPT !.q = PrependPending(@, es)]
        BY <1>5, Zenon DEF RestageSteers, es
    <3> QED BY <3>1 DEF WellFormed, Controllers
  <2>2. Ids(es) \cup {c.q.active.id} \subseteq N /\ c.q.active.id # NoTurn
    BY <1>1, <1>2, <1>5 DEF Active
  <2> QED BY <1>1, <1>2, <2>1, <2>2, PrependPendingShifts
<1> QED BY <1>3, <1>4, <1>5

\* The end of a steering request does not touch the queue.
LEMMA FinishSteerLine ==
    ASSUME NEW c, WellFormed(c)
    PROVE  FinishSteer(c).q = c.q /\ RetrySteerDelivery(c).q = c.q
<1> DEFINE k == IF ~c.steerUnknown /\ Received(c, c.steerOwner)
                THEN DropSteersOf(c.retained, c.steerOwner) ELSE c.retained
           d == [c EXCEPT !.steerReq = NoTurn, !.steerOwner = NoTurn, !.retained = k]
           e == [c EXCEPT !.steerUnknown = FALSE, !.steerReq = NoTurn, !.steerOwner = NoTurn]
<1>1. k \in SUBSET Steers
    BY DEF WellFormed, Controllers, DropSteersOf
<1> HIDE DEF k
<1>2. d \in Controllers /\ d.q = c.q /\ e \in Controllers /\ e.q = c.q
    BY <1>1, NullTypes DEF WellFormed, Controllers
<1>3. WellFormed(d) /\ WellFormed(e)
    BY <1>2 DEF WellFormed, Controllers
<1>4. FinishSteer(c) = StartTurn(d, Active(d)) /\ RetrySteerDelivery(c) = StartTurn(e, Active(e))
    BY Zenon DEF FinishSteer, RetrySteerDelivery, d, e, k
<1> HIDE DEF d, e
<1> QED BY <1>2, <1>3, <1>4, StartTurnLine

\* A refused steer becomes a prompt ahead of the later ones.
LEMMA SteerEndsShift ==
    ASSUME NEW c, WellFormed(c), c.steerReq # NoTurn,
           NEW N, c.steerReq \in N, Active(c) \in c.attempted => Active(c) \in N, NEW T
    PROVE  /\ Shifts(c.q, SteerNotAdmitted(c).q, N, T)
           /\ SteerAccepted(c).q = c.q /\ SteerUnconfirmed(c).q = c.q
<1> DEFINE t == c.steerReq
           f == ForgetSteer(c, t)
           n == RestageSteers(f, <<t>>)
           a == UpdateSteer(c, t, "accepted")
           u == [c EXCEPT !.steerUnknown = TRUE]
<1>1. t \in Turns
    BY DEF WellFormed, Controllers, OptLocal, Turns
<1>2. WellFormed(f) /\ f.q = c.q /\ f.attempted = c.attempted
  <2>1. WellFormed(f)
    BY ForgetSteerKeeps DEF Keeps
  <2> QED BY <2>1 DEF ForgetSteer, WellFormed, Controllers
<1>3. WellFormed(a) /\ a.q = c.q
  <2>1. WellFormed(a)
    BY UpdateSteerKeeps DEF Keeps
  <2> QED BY <2>1 DEF UpdateSteer, WellFormed, Controllers
<1>4. WellFormed(u) /\ u.q = c.q
    BY DEF WellFormed, Controllers
<1>5. SteerAccepted(c) = FinishSteer(a)
    BY DEF SteerAccepted
<1>6. SteerUnconfirmed(c) \in {FinishSteer(u), FinishSteer(c)}
    BY Zenon DEF SteerUnconfirmed
<1>7. SteerNotAdmitted(c) \in {FinishSteer(n), FinishSteer(c)}
    BY Zenon DEF SteerNotAdmitted
<1> HIDE DEF f, a, u
<1>8. WellFormed(n) /\ Shifts(c.q, n.q, N, T)
  <2>1. <<t>> \in Seq(Turns) /\ NoRepeat(<<t>>) /\ TurnsOf(<<t>>) = {t}
    BY <1>1 DEF NoRepeat, TurnsOf
  <2>2. Active(f) = Active(c)
    BY <1>2 DEF Active
  <2> QED BY <1>2, <2>1, <2>2, RestageSteersShifts, RestageSteersKeeps DEF Keeps
<1> HIDE DEF n
<1>9. FinishSteer(n).q = n.q /\ FinishSteer(c).q = c.q /\ FinishSteer(a).q = a.q
      /\ FinishSteer(u).q = u.q
    BY <1>3, <1>4, <1>8, FinishSteerLine
<1>10. Shifts(c.q, c.q, N, T)
    BY SameLineShifts
<1> QED BY <1>3, <1>4, <1>5, <1>6, <1>7, <1>8, <1>9, <1>10

\* The turn that Core started with the text takes the place of the turn it was sent to.
LEMMA SteerFellBackShifts ==
    ASSUME NEW c, WellFormed(c), NEW f \in Turns, NEW N, f \in N,
           NEW T, Active(c) = c.steerOwner => c.steerOwner \in T
    PROVE  Shifts(c.q, SteerFellBack(c, f).q, N, T)
<1> DEFINE g == ForgetSteer(c, c.steerReq)
           d == [g EXCEPT !.attempted = @ \cup {f}]
           q == IF Active(c) = c.steerOwner THEN Settle(c.q, c.steerOwner) ELSE c.q
           e == [id |-> f, text |-> TRUE]
           r == RestoreActive(q, e, TRUE)
           o == [turn |-> f, state |-> "running"]
           u == [d EXCEPT !.steerUnknown = TRUE]
           w == [d EXCEPT !.q = r, !.owner = o]
<1>1. WellFormed(g) /\ g.q = c.q
  <2>1. WellFormed(g)
    BY ForgetSteerKeeps DEF Keeps
  <2> QED BY <2>1 DEF ForgetSteer, WellFormed, Controllers
<1>2. r \in Queues /\ Shifts(c.q, r, N, T)
  <2>1. q \in Queues /\ Shifts(c.q, q, N, T)
    BY SettleType, SettleShifts, SameLineShifts DEF WellFormed, Controllers
  <2>2. e \in Entries /\ e.id = f
    BY DEF Entries
  <2> HIDE DEF q, e
  <2>3. Shifts(q, r, N, T)
    BY <2>1, <2>2, RestoreActiveShifts
  <2> QED BY <2>1, <2>2, <2>3, RestoreActiveType, ShiftsTransitive
<1>3. o \in Owners
    BY NullTypes DEF Owners
<1> HIDE DEF g, r, o
<1>4. d \in Controllers /\ d.q = c.q
    BY <1>1 DEF WellFormed, Controllers
<1>5. WellFormed(d)
    BY <1>1, <1>4 DEF WellFormed, Controllers
<1> HIDE DEF d
<1>6. u \in Controllers /\ w \in Controllers /\ u.q = c.q /\ w.q = r
    BY <1>2, <1>3, <1>4 DEF Controllers
<1>7. WellFormed(u) /\ WellFormed(w)
    BY <1>4, <1>5, <1>6 DEF WellFormed, Controllers
<1>8. SteerFellBack(c, f) \in {FinishSteer(c), FinishSteer(d), FinishSteer(u), FinishSteer(w)}
    BY Zenon DEF SteerFellBack, d, g, q, r, o, e
<1> HIDE DEF u, w
<1>9. SteerFellBack(c, f).q \in {c.q, r}
    BY <1>4, <1>5, <1>6, <1>7, <1>8, FinishSteerLine
<1> QED BY <1>2, <1>9, SameLineShifts

\* A start that another client's turn proved, and the notifications.
LEMMA ConfirmTurnAcceptedLine ==
    ASSUME NEW c, WellFormed(c), NEW t, NEW state \in {"running", "ended"}
    PROVE  LET d == AcceptLocalDispatch(c, t, state)
           IN  /\ d.q = c.q /\ d.attempted = c.attempted /\ d.hydrated = c.hydrated
               /\ d.retained = c.retained /\ d.link = c.link /\ WellFormed(d)
<1>1. WellFormed(AcceptLocalDispatch(c, t, state))
    BY AcceptLocalDispatchKeeps DEF Keeps
<1> QED BY <1>1 DEF AcceptLocalDispatch, ClearRecoveryOf, ClearRecovery, WellFormed, Controllers

\* The turn of an event is put first, or leaves.
LEMMA ObservesShift ==
    ASSUME NEW c, WellFormed(c), NEW t \in Turns, NEW N, t \in N,
           c.hydrated.turn \in N \cup {NoTurn, t}, NEW T, t \in T
    PROVE  /\ Shifts(c.q, ObserveTurnStarted(c, t).q, N, T)
           /\ Shifts(c.q, ObserveTerminal(c, t).q, N, T)
<1> DEFINE d == ConfirmTurnAccepted(c, t)
<1>1. d.q = c.q /\ d.hydrated = c.hydrated /\ WellFormed(d)
    BY ConfirmTurnAcceptedLine DEF ConfirmTurnAccepted
<1> HIDE DEF d
<1>2. ObserveTurnStarted(c, t) \in {d, AdoptForeground(d, t)}
    BY DEF ObserveTurnStarted, AdoptObservedTurn, d
<1>3. ObserveTerminal(c, t) = SettleTurn(d, t)
    BY DEF ObserveTerminal, d
<1>4. Shifts(d.q, AdoptForeground(d, t).q, N, T) /\ Shifts(d.q, SettleTurn(d, t).q, N, T)
    BY <1>1, AdoptForegroundShifts, SettleTurnShifts
<1> QED BY <1>1, <1>2, <1>3, <1>4, SameLineShifts

\* Returned text is put ahead of what was never sent.
LEMMA ObserveSteerDroppedShifts ==
    ASSUME NEW c, WellFormed(c), NEW t \in Turns, NEW given \in Seq(Turns), NoRepeat(given),
           NEW N, RetainedTurns(c) \subseteq N, NEW T,
           t \in SteerOwners(c) /\ Active(c) \in c.attempted => Active(c) \in N
    PROVE  Shifts(c.q, ObserveSteerDropped(c, t, given).q, N, T)
<1> DEFINE d == ConfirmTurnAccepted(c, t)
           mine == {e \in d.retained : /\ e.owner = t /\ e.sent
                                       /\ \E i \in DOMAIN given : given[i] = e.turn}
           texts == {e.turn : e \in mine}
           returned == Keep(given, texts)
           left == d.retained \ mine
           u == d.steerUnknown /\ mine = {}
           f == [d EXCEPT !.retained = left, !.steerUnknown = u]
<1>1. d.q = c.q /\ d.attempted = c.attempted /\ d.retained = c.retained /\ WellFormed(d)
    BY ConfirmTurnAcceptedLine DEF ConfirmTurnAccepted
<1>2. ObserveSteerDropped(c, t, given) = RestageSteers(f, returned)
    BY Zenon DEF ObserveSteerDropped, f, left, u, returned, texts, mine, d
<1> HIDE DEF d, mine, texts
<1>3. /\ returned \in Seq(Turns) /\ NoRepeat(returned)
      /\ \A i \in DOMAIN returned : returned[i] \in texts
  <2>1. \A i, j \in DOMAIN given : given[i] = given[j] => i = j
    BY DEF NoRepeat
  <2>2. Keep(given, texts) \in Seq(Turns)
    BY KeepType
  <2>3. /\ \A i, j \in DOMAIN Keep(given, texts) : Keep(given, texts)[i] = Keep(given, texts)[j] => i = j
        /\ \A i \in DOMAIN Keep(given, texts) : Keep(given, texts)[i] \in texts
    BY <2>1, KeepDistinct
  <2> QED BY <2>2, <2>3 DEF NoRepeat
<1> HIDE DEF returned
<1>4. left \in SUBSET Steers /\ u \in BOOLEAN
    BY <1>1 DEF WellFormed, Controllers
<1>5. texts \subseteq RetainedTurns(c) /\ (mine # {} => t \in SteerOwners(c))
    BY <1>1 DEF RetainedTurns, SteerOwners, mine, texts
<1>6. mine = {} => texts = {}
    BY DEF texts
<1> HIDE DEF left, u
<1>7. f \in Controllers /\ f.q = c.q /\ f.attempted = c.attempted
    BY <1>1, <1>4 DEF WellFormed, Controllers
<1>8. WellFormed(f)
    BY <1>1, <1>7 DEF WellFormed, Controllers
<1> HIDE DEF f
<1>9. TurnsOf(returned) \subseteq N
    BY <1>3, <1>5 DEF TurnsOf
<1>10. returned # <<>> => t \in SteerOwners(c)
  <2>1. returned # <<>> => 1 \in DOMAIN returned
    BY <1>3
  <2> QED BY <1>3, <1>5, <1>6, <2>1
<1>11. Active(f) = Active(c)
    BY <1>7 DEF Active
<1>12. Shifts(f.q, RestageSteers(f, returned).q, N, T)
    BY <1>3, <1>7, <1>8, <1>9, <1>10, <1>11, RestageSteersShifts
<1> QED BY <1>2, <1>7, <1>12

\* turn/state/get settles the turn it was asked about.
LEMMA LookupReturnedShifts ==
    ASSUME NEW c, WellFormed(c), NEW t \in Turns, NEW result,
           NEW N, c.hydrated.turn \in N \cup {NoTurn, t},
           NEW T, result \in {"unknown", "error"} \/ t \in T
    PROVE  Shifts(c.q, LookupReturned(c, t, result).q, N, T)
<1> DEFINE d == [c EXCEPT !.lookup = NoTurn]
           r == [turn |-> t, phase |-> result]
           e == [d EXCEPT !.recovery = r]
           live == result \in {"active", "interrupting"}
           a == InvalidateStart(ClearRecovery(d))
           s == IF live THEN "running" ELSE "ended"
           b == AcceptLocalDispatch(a, t, s)
           i == IF result = "interrupting" THEN t ELSE NoTurn
           f == [b EXCEPT !.interruptReq = NoTurn, !.interrupting = i]
<1>1. WellFormed(d) /\ d.q = c.q /\ e.q = c.q /\ d.hydrated = c.hydrated
  <2>1. d \in Controllers
    BY NullTypes DEF WellFormed, Controllers
  <2> QED BY <2>1 DEF WellFormed, Controllers
<1> HIDE DEF d, e
<1>2. WellFormed(a) /\ a.q = c.q /\ a.hydrated = c.hydrated
  <2>1. WellFormed(ClearRecovery(d))
    BY <1>1, ClearRecoveryKeeps DEF Keeps
  <2>2. WellFormed(a)
    BY <2>1, InvalidateStartKeeps DEF Keeps
  <2> QED BY <1>1, <2>2 DEF InvalidateStart, ClearRecovery, WellFormed, Controllers
<1> HIDE DEF a
<1>3. WellFormed(b) /\ b.q = c.q /\ b.hydrated = c.hydrated
  <2>1. s \in {"running", "ended"}
    OBVIOUS
  <2> HIDE DEF s
  <2> QED BY <1>2, <2>1, ConfirmTurnAcceptedLine
<1> HIDE DEF b
<1>4. i \in OptTurn
    BY NullTypes
<1> HIDE DEF i
<1>5. f \in Controllers /\ f.q = c.q /\ f.hydrated = c.hydrated
    BY <1>3, <1>4, NullTypes DEF WellFormed, Controllers
<1>6. WellFormed(f)
    BY <1>3, <1>5 DEF WellFormed, Controllers
<1> HIDE DEF f
<1>7. t \in T => Shifts(c.q, SettleTurn(f, t).q, N, T)
    BY <1>5, <1>6, SettleTurnShifts
<1>8. ApplyRecoveredState(d, t, result) \in {f, SettleTurn(f, t)}
    BY Zenon DEF ApplyRecoveredState, f, b, a, i
<1>9. \/ LookupReturned(c, t, result) \in {d, e}
      \/ /\ result \notin {"unknown", "error"}
         /\ LookupReturned(c, t, result) = ApplyRecoveredState(d, t, result)
    BY Zenon DEF LookupReturned, d, e, r
<1> QED BY <1>1, <1>5, <1>7, <1>8, <1>9, SameLineShifts

\* Going on without the active turn takes it out of the queue.
LEMMA ContinueWithoutTurnShifts ==
    ASSUME NEW c, WellFormed(c), Orderly(c), Active(c) # NoTurn,
           NEW N, c.hydrated.turn \in N \cup {NoTurn, Active(c)}, NEW T, Active(c) \in T
    PROVE  Shifts(c.q, ContinueWithoutTurn(c).q, N, T)
<1> DEFINE d == Continuing(c)
           t == Active(c)
<1>1. t \in Turns
    BY ActiveType DEF WellFormed
<1>2. WellFormed(d) /\ d.q.active = c.q.active /\ d.q.pending = c.q.pending
      /\ d.hydrated = c.hydrated
    BY ContinuingOrders
<1>3. ContinueWithoutTurn(c) = ReleaseQueueTurn(d, t)
    BY Zenon DEF ContinueWithoutTurn, Continuing
<1> HIDE DEF d, t
<1>4. Shifts(d.q, ReleaseQueueTurn(d, t).q, N, T)
    BY <1>1, <1>2, ReleaseShifts DEF t
<1>5. Shifts(c.q, d.q, N, T)
    BY <1>2, SameLineShifts
<1> QED BY <1>3, <1>4, <1>5, ShiftsTransitive

\* Hydrate puts Core's foreground turn first, and an ended turn out of the queue.
LEMMA ReconcileFromHydrateShifts ==
    ASSUME NEW c, WellFormed(c), Orderly(c), Linked(c), NEW snap, NEW preserve,
           preserve \/ c.local = NoTurn,
           \A t \in ServerForeground(snap) : Sure(c, t),
           NEW N, ServerForeground(snap) \subseteq N,
           NEW T, Active(c) # NoTurn /\ Active(c) \in c.attempted /\ snap[Active(c)] = "done" => Active(c) \in T
    PROVE  Shifts(c.q, ReconcileFromHydrate(c, snap, preserve).q, N, T)
<1> DEFINE fg == HydratedForeground(snap)
           d == Reconciling(c, snap, preserve)
           t == Active(c)
           i == InvalidateStart(d)
           a == AcceptLocalDispatch(i, t, "running")
           z == ReconcileEnded(d, t)
<1>1. /\ WellFormed(d) /\ Orderly(d) /\ Linked(d) /\ Active(d) = t /\ d.hydrated = fg
      /\ fg.turn = NoTurn \/ fg.turn \in ServerForeground(snap)
    BY ReconcilingOrders DEF Orders
<1>2. d.q = c.q
  <2>1. \E v : d = [ReconcileLeases(c, preserve) EXCEPT !.hydrated = fg, !.interruptReq = NoTurn,
                                                        !.interrupting = v]
    BY DEF Reconciling
  <2>2. ReconcileLeases(c, preserve).q = c.q
    BY DEF ReconcileLeases, ClearRecovery, RetireLocalDispatch, WellFormed, Controllers
  <2>3. WellFormed(ReconcileLeases(c, preserve))
    BY ReconcileLeasesKeeps DEF Keeps
  <2> HIDE DEF d
  <2> QED BY <2>1, <2>2, <2>3 DEF WellFormed, Controllers
<1>3. ReconcileFromHydrate(c, snap, preserve) =
         IF fg.turn \notin {NoTurn, t} /\ t \notin c.attempted
         THEN AdoptForeground(i, fg.turn)
         ELSE IF t = NoTurn \/ t \notin c.attempted THEN d
         ELSE IF snap[t] # "absent" THEN ReconcileActive(d, t, snap[t])
         ELSE RetryTurnRecovery(d)
    BY Zenon DEF ReconcileFromHydrate, Reconciling
<1> HIDE DEF d
<1>4. WellFormed(i) /\ i.q = c.q
    BY <1>1, <1>2, InvalidateStartKeeps DEF Keeps, InvalidateStart, WellFormed, Controllers
<1> HIDE DEF i
<1>5. a.q = c.q
    BY <1>4, ConfirmTurnAcceptedLine
<1> HIDE DEF a
<1>6. fg.turn # NoTurn => fg.turn \in Turns /\ fg.turn \in N
    BY <1>1 DEF ServerForeground
<1> HIDE DEF fg
<1>7. fg.turn # NoTurn => Shifts(c.q, AdoptForeground(i, fg.turn).q, N, T)
    BY <1>4, <1>6, AdoptForegroundShifts
<1>8. ASSUME t # NoTurn, t \in c.attempted
      PROVE  Shifts(c.q, ReconcileActive(d, t, snap[t]).q, N, T)
  <2>1. t \in Turns
    BY <1>8, ActiveType DEF WellFormed
  <2>2. WellFormed(z) /\ z.q = Settle(c.q, t) /\ z.hydrated = fg
    BY <1>1, <1>2, <2>1, ReconcileEndedOrders
  <2>3. ReconcileActive(d, t, snap[t]) =
            IF snap[t] # "done" THEN a
            ELSE IF fg.turn \notin {NoTurn, t} THEN AdoptForeground(z, fg.turn) ELSE z
    <3>1. CASE snap[t] = "done"
        BY <1>1, <3>1, Zenon DEF ReconcileActive, ReconcileEnded, z
    <3>2. CASE snap[t] # "done"
        BY <3>2, Zenon DEF ReconcileActive, a, i
    <3> QED BY <3>1, <3>2
  <2> HIDE DEF z
  <2>4. CASE snap[t] = "done"
    <3>1. Shifts(c.q, z.q, N, T)
        BY <1>8, <2>2, <2>4, SettleShifts DEF WellFormed, Controllers
    <3>2. fg.turn # NoTurn => Shifts(z.q, AdoptForeground(z, fg.turn).q, N, T)
        BY <1>6, <2>2, AdoptForegroundShifts
    <3> QED BY <2>3, <2>4, <3>1, <3>2, ShiftsTransitive
  <2>5. CASE snap[t] # "done"
    BY <1>5, <2>3, <2>5, SameLineShifts
  <2> QED BY <2>4, <2>5
<1>9. RetryTurnRecovery(d).q = c.q
    BY <1>1, <1>2 DEF RetryTurnRecovery, WellFormed, Controllers
<1> QED BY <1>2, <1>3, <1>7, <1>8, <1>9, SameLineShifts

\* A suspended record makes an unsent steer the first prompt again.
LEMMA SuspendTransportShifts ==
    ASSUME NEW c, WellFormed(c), Orderly(c), NEW N, TurnsOf(UnsentSteers(c)) \subseteq N,
           UnsentSteers(c) # <<>> /\ Active(c) \in c.attempted => Active(c) \in N, NEW T
    PROVE  Shifts(c.q, SuspendTransport(c).q, N, T)
<1> DEFINE a == [c EXCEPT !.retained = {}, !.steerReq = NoTurn,
                          !.steerOwner = NoTurn, !.steerUnknown = FALSE]
           us == UnsentSteers(c)
           b == RestageSteers(a, us)
           e == InvalidateStart(b)
<1>1. a \in Controllers
    BY NullTypes DEF WellFormed, Controllers
<1>2. a.q = c.q /\ a.attempted = c.attempted /\ WellFormed(a) /\ Active(a) = Active(c)
    BY <1>1 DEF WellFormed, Controllers, Active
<1> HIDE DEF a
<1>3. us \in Seq(Turns) /\ NoRepeat(us)
  <2>1. CASE us = <<>>
    BY <2>1 DEF NoRepeat
  <2>2. CASE us # <<>>
    <3>1. us = <<c.steerReq>> /\ \E e1 \in c.retained : e1.turn = c.steerReq
        BY <2>2 DEF UnsentSteers
    <3>2. c.steerReq \in Turns
        BY <3>1 DEF Orderly, Fifo, RetainedTurns, Turns
    <3> HIDE DEF us
    <3> QED BY <3>1, <3>2 DEF NoRepeat
  <2> QED BY <2>1, <2>2
<1>4. Shifts(a.q, b.q, N, T) /\ WellFormed(b)
    BY <1>2, <1>3, RestageSteersShifts, RestageSteersKeeps DEF Keeps
<1> HIDE DEF b
<1>5. e \in Controllers /\ e.q = b.q
    BY <1>4, InvalidateStartKeeps DEF Keeps, InvalidateStart, WellFormed, Controllers
<1>6. SuspendTransport(c) = [e EXCEPT !.attempted = @ \ {c.preflight}, !.preflight = NoTurn,
                     !.interruptReq = NoTurn, !.local = NoTurn, !.owner = NoOwner,
                     !.dispatching = NoTurn, !.interrupting = NoTurn]
    BY Zenon DEF SuspendTransport, a, us, b, e
<1> HIDE DEF e
<1>7. SuspendTransport(c).q = e.q
    BY <1>5, <1>6 DEF Controllers
<1> QED BY <1>2, <1>4, <1>5, <1>7

\* Handlers that leave the line alone.
LEMMA QuietHandlersLine ==
    ASSUME NEW c, WellFormed(c), NEW t, NEW b \in BOOLEAN, NEW N, NEW T
    PROVE  /\ Shifts(c.q, MarkSent(c, t).q, N, T) /\ Shifts(c.q, Interrupt(c, b).q, N, T)
           /\ Shifts(c.q, InterruptReturned(c, t, b).q, N, T)
           /\ Shifts(c.q, SetAcceptedOwnerInteraction(c, b).q, N, T)
           /\ Shifts(c.q, StartUnconfirmed(c, t).q, N, T)
           /\ Shifts(c.q, [c EXCEPT !.steering = ~@].q, N, T)
           /\ Shifts(c.q, StartAcked(c, t).q, N, T)
           /\ Shifts(c.q, RetryTurnRecovery(c).q, N, T)
           /\ Shifts(c.q, UpdateSteer(c, t, "sent").q, N, T)
           /\ Shifts(c.q, InvalidateStart(c).q, N, T)
<1>1. \A d : Rests(c, d) => Shifts(c.q, d.q, N, T)
    BY SameLineShifts DEF Rests
<1>2. StartAcked(c, t).q = c.q
  <2> DEFINE a == AcceptLocalDispatch(c, t, "running")
  <2>1. a.q = c.q /\ WellFormed(a)
    BY ConfirmTurnAcceptedLine
  <2> HIDE DEF a
  <2>2. InvalidateStart(a).q = c.q /\ InvalidateStart(c).q = c.q
    BY <2>1 DEF InvalidateStart, WellFormed, Controllers
  <2>3. StartAcked(c, t) \in {InvalidateStart(a), InvalidateStart(c)}
    BY Zenon DEF StartAcked, a
  <2> QED BY <2>2, <2>3
<1>3. /\ RetryTurnRecovery(c).q = c.q /\ UpdateSteer(c, t, "sent").q = c.q
      /\ InvalidateStart(c).q = c.q
    BY DEF RetryTurnRecovery, UpdateSteer, InvalidateStart, WellFormed, Controllers
<1> QED BY <1>1, <1>2, <1>3, QuietHandlersRest, SameLineShifts

\* A prompt dropped after a collision is not started again.
LEMMA StartCollidedPassed ==
    ASSUME NEW c, WellFormed(c), Orderly(c), NEW t \in Turns, Active(c) = t, c.local = t,
           NEW f, Sure(c, f), f # t
    PROVE  t \notin Unsent(StartCollided(c, t, f))
<1> DEFINE d == StartCollided(c, t, f)
           e == InvalidateStart(RetireLocalDispatch(c, t))
           s == [e EXCEPT !.q = Settle(@, t), !.composer = @ \cup {t}]
<1>1. Orderly(d)
    BY StartCollidedOrders DEF Orders
<1>2. WellFormed(e) /\ e.q = c.q /\ e.attempted = c.attempted
  <2>1. WellFormed(RetireLocalDispatch(c, t)) /\ RetireLocalDispatch(c, t).q = c.q
        /\ RetireLocalDispatch(c, t).attempted = c.attempted
    BY RetireLocalDispatchRests
  <2> QED BY <2>1, InvalidateStartKeeps DEF Keeps, InvalidateStart, WellFormed, Controllers
<1> HIDE DEF e
<1>3. t \in c.attempted /\ c.q \in Queues /\ OneEach(c.q) /\ c.q.active.id = t /\ t # NoTurn
    BY TurnsAssumption DEF Orderly, Leased, Fifo, WellFormed, Controllers, Active, Turns
<1>4. Settle(c.q, t).active.id # t
  <2>1. Settle(c.q, t).active.id # NoTurn => Settle(c.q, t).active.id \in Ids(c.q.pending)
    BY <1>3, SettleIds
  <2>2. Ids(c.q.pending) \cap c.attempted = {}
    BY DEF Orderly, Fifo
  <2> QED BY <1>3, <2>1, <2>2
<1>5. s \in Controllers /\ s.attempted = c.attempted /\ Active(s) # t
  <2>1. Settle(c.q, t) \in Queues
    BY <1>3, SettleType
  <2> QED BY <1>2, <1>4, <2>1 DEF WellFormed, Controllers, Active
<1>6. d \in {StartTurn(s, Active(s)), AdoptForeground(s, f)}
    BY Zenon DEF StartCollided, e, s
<1> HIDE DEF s, d
<1>7. t \in StartTurn(s, Active(s)).attempted /\ Active(StartTurn(s, Active(s))) # t
    BY <1>3, <1>5 DEF StartTurn, Controllers, Active
<1>8. t \in AdoptForeground(s, f).attempted /\ Active(AdoptForeground(s, f)) # t
  <2>1. RestoreActive(s.q, ObservedTurn(f), TRUE).active.id = f
    BY <1>5 DEF RestoreActive, ObservedTurn, Controllers, Queues
  <2>2. AdoptForeground(s, f).attempted = s.attempted \cup {f}
        /\ AdoptForeground(s, f).q = RestoreActive(s.q, ObservedTurn(f), TRUE)
    BY <1>5 DEF AdoptForeground, Controllers
  <2> QED BY <1>3, <1>5, <2>1, <2>2 DEF Active
<1>9. t \in d.attempted /\ Active(d) # t
    BY <1>6, <1>7, <1>8
<1> QED BY <1>1, <1>9, PassedIsSent DEF d

\* Without a lease the active turn has been sent, if it was attempted at all.
LEMMA UnleasedIsSent ==
    ASSUME NEW c, WellFormed(c), Orderly(c), c.local = NoTurn, Active(c) \in c.attempted
    PROVE  Sure(c, Active(c))
<1>1. Active(c) \in Turns /\ Active(c) # NoTurn
    BY TurnsAssumption DEF WellFormed, Controllers, Turns
<1>2. c.preflight = NoTurn /\ (c.stage = "preflight" => c.startReq = NoTurn)
    BY DEF Orderly, Leased
<1> QED BY <1>1, <1>2 DEF Sure, Unsent
-----------------------------------------------------------------------------
(* The foreground turn that hydrate reported, and what may start beside it.  *)
(* G are the turns the user let go, K those that Core knows, and D prompts   *)
(* that Core does not know and will not hear of.                             *)

\* The active turn may have reached Core.
Held(c) == Active(c) # NoTurn /\ Active(c) \notin Unsent(c)

\* Hydrate's foreground turn is live for the client, and the user did not let it go.
Open(c, G) == c.hydrated.turn \notin G \cup {NoTurn}

\* As long as it is, the head of the queue cannot be started: it was sent already, or
\* its outcome is being recovered.  A start in progress is the head's, or was sent.
Barred(c, G, D, K) ==
    /\ c.startReq # NoTurn => c.startReq \in c.attempted /\ c.startReq \in {Active(c)} \cup K
    /\ Open(c, G) => /\ Held(c) \/ (Recovering(c) /\ c.recovery.turn \in {Active(c)} \cup D)
                     /\ c.startReq \in {NoTurn, c.recovery.turn} \cup K

\* A start begins only when hydrate's foreground turn is gone.
StartsClear(c, d, G) == d.startReq \in {c.startReq, NoTurn} \/ ~Open(d, G)

\* What a handler may do, hydrate aside.
Bars(c, d, G, D, K) ==
    /\ Barred(d, G, D, K)
    /\ StartsClear(c, d, G)
    /\ Open(d, G) => Open(c, G)

\* D and K are what the controller may take them for.
Told(c, D, K) ==
    /\ D \cap K = {}
    /\ \A t \in K : Sure(c, t)
    /\ Unsent(c) \cap Locals \subseteq D

LEMMA BarsTransitive ==
    ASSUME NEW c, NEW d, NEW e, NEW G, NEW D, NEW K, Bars(c, d, G, D, K), Bars(d, e, G, D, K)
    PROVE  Bars(c, e, G, D, K)
BY DEF Bars, StartsClear

LEMMA ToldStays ==
    ASSUME NEW c, NEW d, NEW D, NEW K, Told(c, D, K), Unsent(d) \subseteq Unsent(c)
    PROVE  Told(d, D, K)
BY DEF Told, Sure

\* The handlers that leave the head of the queue and its recovery alone.
LEMMA SameBars ==
    ASSUME NEW c, NEW d, NEW G, NEW D, NEW K, Barred(c, G, D, K),
           Active(d) = Active(c), d.recovery.turn = c.recovery.turn,
           d.hydrated.turn \in {c.hydrated.turn, NoTurn}, d.startReq \in {c.startReq, NoTurn},
           d.startReq # NoTurn => d.startReq \in d.attempted, Unsent(d) \subseteq Unsent(c)
    PROVE  Bars(c, d, G, D, K)
<1>1. StartsClear(c, d, G) /\ (Open(d, G) => Open(c, G))
    BY DEF StartsClear, Open
<1>2. Held(c) => Held(d)
    BY DEF Held
<1>3. Recovering(c) => Recovering(d)
    BY DEF Recovering
<1> QED BY <1>1, <1>2, <1>3 DEF Bars, Barred

\* The head of the queue was sent.
LEMMA HeldBars ==
    ASSUME NEW c, NEW d, NEW G, NEW D, NEW K, Held(d), d.startReq \in {c.startReq, NoTurn},
           d.startReq \in {NoTurn} \cup K, d.startReq # NoTurn => d.startReq \in d.attempted,
           d.hydrated.turn \in {c.hydrated.turn, NoTurn}
    PROVE  Bars(c, d, G, D, K)
BY DEF Bars, Barred, StartsClear, Open

\* No live foreground of hydrate and no start in progress: nothing to hold.
LEMMA ClearBars ==
    ASSUME NEW c, NEW d, NEW G, NEW D, NEW K, ~Open(d, G), d.startReq = NoTurn
    PROVE  Bars(c, d, G, D, K)
BY DEF Bars, Barred, StartsClear

\* A turn that Core knows, once at the head, holds it.
LEMMA KnownHolds ==
    ASSUME NEW c, WellFormed(c), Orderly(c), NEW t, Sure(c, t), Active(c) = t
    PROVE  Held(c)
<1>1. t \in Turns /\ t # NoTurn
    BY TurnsAssumption DEF Sure, Turns
<1>2. t \in Locals => t \notin Unsent(c)
    BY DEF Sure
<1>3. t \notin Locals => t \notin Unsent(c)
  <2> SUFFICES ASSUME t \notin Locals PROVE t \notin Unsent(c)
    OBVIOUS
  <2>1. t \in c.attempted
    BY <1>1 DEF Orderly, Fifo
  <2>2. t # c.preflight
    BY <1>1 DEF Orderly, Fifo, OptLocal
  <2>3. c.stage = "preflight" => t # c.startReq
    BY <2>2 DEF Orderly, Leased
  <2> QED BY <2>1, <2>2, <2>3 DEF Unsent
<1> QED BY <1>1, <1>2, <1>3 DEF Held

\* startTurn refuses to start over a recovery; otherwise a head that may start was not
\* sent, and hydrate's foreground turn is gone.
LEMMA StartBars ==
    ASSUME NEW c, WellFormed(c), NEW t, NEW G, NEW D, NEW K, Barred(c, G, D, K)
    PROVE  Bars(c, StartTurn(c, t), G, D, K)
<1> DEFINE d == StartTurn(c, t)
<1>1. CASE ~MayStart(c, t)
  <2>1. d = c
    BY <1>1 DEF StartTurn
  <2> QED BY <2>1 DEF Bars, StartsClear
<1>2. CASE MayStart(c, t)
  <2>1. t \in Turns /\ Active(c) = t /\ t \notin c.attempted /\ ~Recovering(c)
    BY <1>2 DEF MayStart, WellFormed, Controllers, Queues, Entries, NoEntry, Active
  <2>2. ~Open(c, G)
    BY <2>1 DEF Barred, Held, Unsent
  <2>3. /\ d.hydrated = c.hydrated /\ d.startReq = t /\ t \in d.attempted /\ Active(d) = t
    BY <1>2, <2>1 DEF StartTurn, WellFormed, Controllers, Active
  <2>4. ~Open(d, G)
    BY <2>2, <2>3 DEF Open
  <2> QED BY <2>3, <2>4 DEF Bars, Barred, StartsClear
<1> QED BY <1>1, <1>2

LEMMA BarsThenStart ==
    ASSUME NEW c, NEW d, WellFormed(d), NEW t, NEW G, NEW D, NEW K, Bars(c, d, G, D, K)
    PROVE  Bars(c, StartTurn(d, t), G, D, K)
<1>1. Barred(d, G, D, K)
    BY DEF Bars
<1>2. Bars(d, StartTurn(d, t), G, D, K)
    BY <1>1, StartBars
<1> QED BY <1>2, BarsTransitive

\* A foreground turn is installed over a head that was never attempted, or none.
LEMMA AdoptBars ==
    ASSUME NEW c, WellFormed(c), Orderly(c), NEW t, Sure(c, t), Active(c) \notin c.attempted,
           NEW G, NEW D, NEW K, Barred(c, G, D, K)
    PROVE  Bars(c, AdoptForeground(c, t), G, D, K)
<1> DEFINE d == AdoptForeground(c, t)
<1>1. t \in Turns
    BY DEF Sure
<1>2. Orderly(d) /\ Active(d) = t
    BY AdoptForegroundOrders DEF Orders
<1>3. WellFormed(d) /\ Unsent(d) \subseteq Unsent(c)
    BY <1>1, AdoptForegroundKeeps DEF Keeps
<1>4. Sure(d, t)
    BY <1>3 DEF Sure
<1>5. Held(d)
    BY <1>2, <1>3, <1>4, KnownHolds
<1>6. d.startReq = c.startReq /\ d.hydrated = c.hydrated /\ c.attempted \subseteq d.attempted
    BY DEF AdoptForeground, WellFormed, Controllers
<1>7. c.startReq \in {NoTurn} \cup K /\ (c.startReq # NoTurn => c.startReq \in c.attempted)
    BY DEF Barred
<1> QED BY <1>5, <1>6, <1>7, HeldBars

\* So does a handler that ends the recovery of a turn that Core knows.
LEMMA KnownBars ==
    ASSUME NEW c, WellFormed(c), Orderly(c), NEW d, NEW G, NEW D, NEW K, Barred(c, G, D, K),
           Told(c, D, K), NEW t \in K, d.recovery.turn = c.recovery.turn \/ c.recovery.turn = t,
           Active(d) = Active(c),
           d.hydrated.turn \in {c.hydrated.turn, NoTurn}, d.startReq \in {c.startReq, NoTurn},
           d.startReq # NoTurn => d.startReq \in d.attempted, Unsent(d) \subseteq Unsent(c)
    PROVE  Bars(c, d, G, D, K)
<1>1. CASE d.recovery.turn = c.recovery.turn
    BY <1>1, SameBars
<1>2. CASE d.recovery.turn # c.recovery.turn
  <2>1. c.recovery.turn = t /\ t \notin D /\ Sure(c, t)
    BY <1>2 DEF Told
  <2>2. StartsClear(c, d, G) /\ (Open(d, G) => Open(c, G))
    BY DEF StartsClear, Open
  <2>3. Held(c) => Held(d)
    BY DEF Held
  <2>4. Open(c, G) => Held(c)
    BY <2>1, KnownHolds DEF Barred
  <2>5. Open(c, G) => c.startReq \in {NoTurn} \cup K
    BY <2>1 DEF Barred
  <2>6. d.startReq # NoTurn => d.startReq \in {Active(d)} \cup K
    BY DEF Barred
  <2> QED BY <2>2, <2>3, <2>4, <2>5, <2>6 DEF Bars, Barred
<1> QED BY <1>1, <1>2

\* The acceptance of a turn that Core knows.
LEMMA AcceptBars ==
    ASSUME NEW c, WellFormed(c), Orderly(c), NEW G, NEW D, NEW K, Barred(c, G, D, K),
           Told(c, D, K), NEW t \in K, NEW state \in {"running", "ended"}
    PROVE  LET d == AcceptLocalDispatch(c, t, state)
           IN  /\ Bars(c, d, G, D, K) /\ WellFormed(d) /\ Told(d, D, K)
               /\ Active(d) = Active(c) /\ d.startReq = c.startReq /\ d.attempted = c.attempted
               /\ d.hydrated = c.hydrated
<1> DEFINE d == AcceptLocalDispatch(c, t, state)
           b == ClearRecoveryOf(c, t)
<1>1. WellFormed(d) /\ Unsent(d) \subseteq Unsent(c)
    BY AcceptLocalDispatchKeeps DEF Keeps
<1>2. /\ b.q = c.q /\ b.startReq = c.startReq /\ b.attempted = c.attempted
      /\ b.hydrated = c.hydrated /\ (b.recovery = c.recovery \/ c.recovery.turn = t)
      /\ WellFormed(b)
  <2>1. WellFormed(b)
    BY ClearRecoveryKeeps DEF Keeps
  <2> QED BY <2>1 DEF ClearRecoveryOf, ClearRecovery, WellFormed, Controllers
<1>3. \/ d = c
      \/ d = [b EXCEPT !.timedOut = Without(@, t), !.owner = [turn |-> t, state |-> state],
                       !.preflight = Without(@, t), !.local = NoTurn,
                       !.dispatching = Without(@, t)]
    BY Zenon DEF AcceptLocalDispatch, b
<1> HIDE DEF b
<1>4. /\ d.q = c.q /\ d.startReq = c.startReq /\ d.attempted = c.attempted
      /\ d.hydrated = c.hydrated /\ (d.recovery = c.recovery \/ c.recovery.turn = t)
    BY <1>2, <1>3 DEF WellFormed, Controllers
<1>5. Active(d) = Active(c)
    BY <1>4 DEF Active
<1>6. d.startReq # NoTurn => d.startReq \in d.attempted
    BY <1>4 DEF Barred
<1>7. d.recovery.turn = c.recovery.turn \/ c.recovery.turn = t
    BY <1>4
<1>8. d.hydrated.turn \in {c.hydrated.turn, NoTurn} /\ d.startReq \in {c.startReq, NoTurn}
    BY <1>4
<1>9. Bars(c, d, G, D, K)
    BY <1>1, <1>5, <1>6, <1>7, <1>8, KnownBars
<1> QED BY <1>1, <1>4, <1>5, <1>9, ToldStays

\* The FIFO advances.  The foreground turn of hydrate, if it is another, is put first.
LEMMA ReleaseBars ==
    ASSUME NEW c, WellFormed(c), NEW t \in Turns, Active(c) = t, c.preflight = NoTurn,
           NEW G, NEW D, NEW K, c.hydrated.turn = t => t \in G
    PROVE  LET r == ReleaseQueueTurn(c, t)
           IN  /\ Barred(r, G, D, K) /\ (r.startReq = NoTurn \/ ~Open(r, G))
               /\ Open(r, G) => Open(c, G)
<1> DEFINE h == c.hydrated.turn
           inv == InvalidateStart(c)
           quiet == [inv EXCEPT !.interruptReq = NoTurn, !.q = Settle(@, t)]
           rel == ReleaseQueueTurn(c, t)
<1>1. /\ inv.q = c.q /\ WellFormed(inv) /\ inv.startReq = NoTurn /\ inv.stage = "none"
      /\ inv.preflight = NoTurn /\ inv.hydrated = c.hydrated
    BY InvalidateStartKeeps DEF InvalidateStart, WellFormed, Controllers, Keeps
<1>2. c.q \in Queues /\ Settle(c.q, t) \in Queues /\ h \in OptTurn
    BY SettleType DEF WellFormed, Controllers, HydratedTurns
<1> HIDE DEF inv
<1>3. /\ quiet \in Controllers /\ quiet.q = Settle(c.q, t) /\ quiet.startReq = NoTurn
      /\ quiet.stage = "none" /\ quiet.preflight = NoTurn /\ quiet.hydrated = c.hydrated
    BY <1>1, <1>2, NullTypes DEF WellFormed, Controllers
<1>4. WellFormed(quiet)
    BY <1>1, <1>3 DEF WellFormed, Controllers
<1> HIDE DEF quiet
<1>5. CASE h # NoTurn /\ h # t
  <2> DEFINE q == RestoreActive(quiet.q, ObservedTurn(h), TRUE)
             a == AdoptForeground(quiet, h)
             i == IF c.hydrated.state = "interrupting" THEN h ELSE NoTurn
             d == [a EXCEPT !.interrupting = i]
  <2>1. h \in Turns
    BY <1>2, <1>5 DEF OptTurn
  <2>2. q.active.id = h
    BY <1>3 DEF RestoreActive, ObservedTurn, Controllers, Queues
  <2>3. a = [quiet EXCEPT !.attempted = @ \cup {h}, !.q = q]
    BY DEF AdoptForeground
  <2> HIDE DEF q
  <2>4. /\ a.q = q /\ a.startReq = NoTurn /\ a.stage = "none" /\ a.preflight = NoTurn
        /\ a.hydrated = c.hydrated /\ h \in a.attempted
    BY <1>3, <2>3 DEF Controllers
  <2>5. WellFormed(a)
    BY <1>4, <2>1, AdoptForegroundKeeps DEF Keeps
  <2> HIDE DEF a, i
  <2>6. /\ d.q = a.q /\ d.startReq = NoTurn /\ d.stage = "none" /\ d.preflight = NoTurn
        /\ d.hydrated = c.hydrated /\ h \in d.attempted /\ d.composer = a.composer
    BY <2>4, <2>5 DEF WellFormed, Controllers
  <2>7. DOMAIN d = DOMAIN a
    OBVIOUS
  <2>8. rel = GiveBackInterrupted(d, t)
    BY <1>5, Zenon DEF ReleaseQueueTurn, quiet, inv, a, i, d, rel
  <2>9. TakeInterruptPrompt(d.q, t).active = d.q.active
    BY StashIds, <2>5, <2>6 DEF WellFormed, Controllers
  <2>10. {"q", "composer", "startReq", "stage", "preflight", "hydrated", "attempted"} \subseteq DOMAIN d
    BY <2>5, <2>7 DEF WellFormed, Controllers
  <2> HIDE DEF d
  <2>11. /\ rel.q.active = d.q.active /\ rel.startReq = NoTurn /\ rel.stage = "none"
         /\ rel.preflight = NoTurn /\ rel.hydrated = c.hydrated /\ h \in rel.attempted
    BY <2>6, <2>8, <2>9, <2>10 DEF GiveBackInterrupted
  <2>12. Active(rel) = h /\ h # NoTurn
    BY <1>5, <2>2, <2>4, <2>6, <2>11 DEF Active
  <2>13. Held(rel)
    BY <2>11, <2>12 DEF Held, Unsent
  <2> QED BY <2>11, <2>13 DEF Barred, Open
<1>6. CASE h = NoTurn \/ h = t
  <2> DEFINE e == [quiet EXCEPT !.interrupting = Without(@, t)]
             d == GiveBackInterrupted(e, t)
  <2>1. Without(quiet.interrupting, t) \in OptTurn
    BY <1>3, WithoutType DEF WellFormed, Controllers
  <2>2. e \in Controllers /\ e.startReq = NoTurn /\ e.hydrated = c.hydrated
    BY <1>3, <2>1 DEF Controllers
  <2>3. WellFormed(e)
    BY <1>4, <2>2 DEF WellFormed, Controllers
  <2>4. rel = StartTurn(d, Active(d))
    BY <1>6, Zenon DEF ReleaseQueueTurn, quiet, inv
  <2> HIDE DEF e
  <2>5. WellFormed(d)
    BY <2>3, GiveBackInterruptedKeeps DEF Keeps
  <2>6. d.startReq = NoTurn /\ d.hydrated = c.hydrated
    BY <2>2 DEF GiveBackInterrupted, Controllers
  <2> HIDE DEF d
  <2>7. ~Open(d, G) /\ ~Open(c, G)
    BY <1>6, <2>6 DEF Open
  <2>8. Bars(d, d, G, D, K)
    BY <2>6, <2>7, ClearBars
  <2>9. Bars(d, rel, G, D, K)
    BY <2>4, <2>5, <2>8, BarsThenStart
  <2> QED BY <2>7, <2>9 DEF Bars
<1> QED BY <1>5, <1>6

\* The active turn ends.
LEMMA SettleActiveBars ==
    ASSUME NEW c, WellFormed(c), NEW t \in Turns, Active(c) = t,
           c.preflight # NoTurn => c.preflight = t /\ c.local = t,
           NEW b, NEW G, NEW D, NEW K, Open(c, G) => Open(b, G)
    PROVE  Bars(b, SettleTurn(c, t), G, D, K)
<1>1. PICK d : Settling(c, d, t)
    BY SettlePrefix
<1> DEFINE r == RetireLocalDispatch(d, t)
<1>2. WellFormed(r) /\ r.q = c.q /\ r.hydrated = d.hydrated
    BY <1>1, RetireLocalDispatchRests DEF Settling
<1>3. r.preflight = NoTurn
    BY <1>1 DEF Settling, RetireLocalDispatch, Without, WellFormed, Controllers
<1>4. r.hydrated.turn \in {c.hydrated.turn, NoTurn} /\ r.hydrated.turn # t
    BY <1>1, <1>2, TurnsAssumption DEF Settling, NoHydrated, Turns
<1>5. SettleTurn(c, t) = ReleaseQueueTurn(r, t)
    BY <1>1 DEF Settling
<1> HIDE DEF r
<1>6. Active(r) = t
    BY <1>2 DEF Active
<1> DEFINE s == ReleaseQueueTurn(r, t)
<1>7. /\ Barred(s, G, D, K) /\ (s.startReq = NoTurn \/ ~Open(s, G))
      /\ Open(s, G) => Open(r, G)
    BY <1>2, <1>3, <1>4, <1>6, ReleaseBars
<1>8. Open(r, G) => Open(c, G)
    BY <1>4 DEF Open
<1> QED BY <1>5, <1>7, <1>8 DEF Bars, StartsClear

\* A turn that Core knows ends.
LEMMA SettleBars ==
    ASSUME NEW c, WellFormed(c), Orderly(c), NEW G, NEW D, NEW K, Barred(c, G, D, K),
           Told(c, D, K), NEW t \in Turns, Active(c) = t \/ t \in K
    PROVE  Bars(c, SettleTurn(c, t), G, D, K)
<1>1. CASE Active(c) = t
  <2>1. c.preflight # NoTurn => c.preflight = t /\ c.local = t
    BY <1>1 DEF Orderly, Leased
  <2> QED BY <1>1, <2>1, SettleActiveBars
<1>2. CASE Active(c) # t
  <2>1. PICK d : Settling(c, d, t)
    BY SettlePrefix
  <2> DEFINE r == RetireLocalDispatch(d, t)
  <2>2. /\ WellFormed(r) /\ r.q = c.q /\ r.hydrated = d.hydrated /\ r.recovery = d.recovery
        /\ r.attempted = d.attempted
    BY <2>1, RetireLocalDispatchRests DEF Settling
  <2>3. r.startReq = c.startReq
    BY <2>1 DEF Settling, RetireLocalDispatch, WellFormed, Controllers
  <2>4. SettleTurn(c, t) = ReleaseQueueTurn(r, t)
    BY <2>1 DEF Settling
  <2>5. r.hydrated.turn \in {c.hydrated.turn, NoTurn}
    BY <2>1, <2>2 DEF Settling
  <2>6. r.recovery.turn = c.recovery.turn \/ c.recovery.turn = t
    BY <2>1, <2>2 DEF Settling
  <2>7. r.startReq # NoTurn => r.startReq \in r.attempted
    BY <2>1, <2>2, <2>3 DEF Settling, Barred
  <2> HIDE DEF r
  <2>8. Active(r) = Active(c)
    BY <2>2 DEF Active
  <2>9. SettleTurn(c, t) = r
    BY <1>2, <2>4, <2>8 DEF ReleaseQueueTurn
  <2>10. Unsent(SettleTurn(c, t)) \subseteq Unsent(c)
    BY SettleTurnKeeps DEF Keeps
  <2> QED BY <1>2, <2>3, <2>5, <2>6, <2>7, <2>8, <2>9, <2>10, KnownBars
<1> QED BY <1>1, <1>2

-----------------------------------------------------------------------------
(* The handlers, one by one *)

LEMMA RestsBars ==
    ASSUME NEW c, NEW d, Rests(c, d), Unsent(d) \subseteq Unsent(c),
           d.startReq \in {c.startReq, NoTurn}, NEW G, NEW D, NEW K, Barred(c, G, D, K)
    PROVE  Bars(c, d, G, D, K)
<1>1. Active(d) = Active(c) /\ d.recovery = c.recovery /\ d.hydrated = c.hydrated
      /\ d.attempted = c.attempted
    BY DEF Rests, Active
<1>2. d.startReq # NoTurn => d.startReq \in d.attempted
    BY <1>1 DEF Barred
<1> QED BY <1>1, <1>2, SameBars

\* The handlers that leave the head of the queue and every proof about it alone.
LEMMA QuietBars ==
    ASSUME NEW c, WellFormed(c), NEW t \in Turns, NEW b \in BOOLEAN,
           NEW G, NEW D, NEW K, Barred(c, G, D, K)
    PROVE  /\ c.startReq = t /\ c.stage = "preflight" => Bars(c, MarkSent(c, t), G, D, K)
           /\ Bars(c, Interrupt(c, b), G, D, K) /\ Bars(c, InterruptReturned(c, t, b), G, D, K)
           /\ Bars(c, SetAcceptedOwnerInteraction(c, b), G, D, K)
           /\ Bars(c, StartUnconfirmed(c, t), G, D, K)
           /\ Bars(c, [c EXCEPT !.steering = ~@], G, D, K)
           /\ Bars(c, InvalidateStart(c), G, D, K)
<1>1. /\ MarkSent(c, t).startReq = c.startReq /\ Interrupt(c, b).startReq = c.startReq
      /\ InterruptReturned(c, t, b).startReq = c.startReq
      /\ SetAcceptedOwnerInteraction(c, b).startReq = c.startReq
      /\ [c EXCEPT !.steering = ~@].startReq = c.startReq
    BY DEF MarkSent, Interrupt, InterruptReturned, SetAcceptedOwnerInteraction, WellFormed, Controllers
<1>2. StartUnconfirmed(c, t).startReq = NoTurn
  <2>1. \A d : "startReq" \in DOMAIN d => InvalidateStart(d).startReq = NoTurn
    BY DEF InvalidateStart
  <2>2. "startReq" \in DOMAIN c /\ "startReq" \in DOMAIN [c EXCEPT !.timedOut = t]
    BY DEF WellFormed, Controllers
  <2> QED BY <2>1, <2>2 DEF StartUnconfirmed
<1>3. Unsent([c EXCEPT !.steering = ~@]) = Unsent(c)
    BY DEF Unsent, WellFormed, Controllers
<1>4. ASSUME c.startReq = t, c.stage = "preflight" PROVE Bars(c, MarkSent(c, t), G, D, K)
  <2>1. Unsent(MarkSent(c, t)) \subseteq Unsent(c)
    BY <1>4, MarkSentKeeps DEF Keeps
  <2> QED BY <1>1, <2>1, QuietHandlersRest, RestsBars
<1>5. /\ Unsent(Interrupt(c, b)) \subseteq Unsent(c)
      /\ Unsent(InterruptReturned(c, t, b)) \subseteq Unsent(c)
    BY InterruptKeeps DEF Keeps
<1>6. /\ Unsent(SetAcceptedOwnerInteraction(c, b)) \subseteq Unsent(c)
      /\ Unsent(StartUnconfirmed(c, t)) \subseteq Unsent(c)
    BY SetAcceptedOwnerInteractionKeeps, StartUnconfirmedKeeps DEF Keeps
<1>7. /\ Bars(c, Interrupt(c, b), G, D, K) /\ Bars(c, InterruptReturned(c, t, b), G, D, K)
      /\ Bars(c, SetAcceptedOwnerInteraction(c, b), G, D, K)
      /\ Bars(c, StartUnconfirmed(c, t), G, D, K)
      /\ Bars(c, [c EXCEPT !.steering = ~@], G, D, K)
    BY <1>1, <1>2, <1>3, <1>5, <1>6, QuietHandlersRest, RestsBars
<1>8. Bars(c, InvalidateStart(c), G, D, K)
  <2>1. Rests(c, InvalidateStart(c)) /\ InvalidateStart(c).startReq = NoTurn
    BY DEF Rests, InvalidateStart, WellFormed, Controllers
  <2>2. Unsent(InvalidateStart(c)) \subseteq Unsent(c)
    BY InvalidateStartKeeps DEF Keeps
  <2> QED BY <2>1, <2>2, RestsBars
<1> QED BY <1>4, <1>7, <1>8

\* A start whose preflight ended, or which was refused, was the head of the queue.
LEMMA StartRefusedBars ==
    ASSUME NEW c, WellFormed(c), Orderly(c), NEW t \in Turns, Active(c) = t,
           NEW G, NEW D, NEW K, Barred(c, G, D, K)
    PROVE  /\ Bars(c, StartRefused(c, t), G, D, K)
           /\ Bars(c, SettleTurn(RetireLocalDispatch(c, t), t), G, D, K)
<1> DEFINE b == RetireLocalDispatch(c, t)
           e == [b EXCEPT !.composer = @ \cup {t}]
<1>1. WellFormed(b) /\ b.q = c.q /\ b.hydrated = c.hydrated
    BY RetireLocalDispatchRests
<1>2. b.preflight = NoTurn
    BY DEF RetireLocalDispatch, Without, WellFormed, Controllers, Orderly, Leased
<1> HIDE DEF b
<1>3. e \in Controllers /\ e.q = b.q /\ e.hydrated = b.hydrated /\ e.preflight = b.preflight
    BY <1>1 DEF WellFormed, Controllers
<1>4. WellFormed(e)
    BY <1>1, <1>3 DEF WellFormed, Controllers
<1>5. StartRefused(c, t) \in {SettleTurn(b, t), SettleTurn(e, t)}
    BY Zenon DEF StartRefused, b, e
<1> HIDE DEF e
<1>6. /\ Active(b) = t /\ Active(e) = t
      /\ Open(b, G) => Open(c, G)
      /\ Open(e, G) => Open(c, G)
    BY <1>1, <1>3 DEF Active, Open
<1>7. Bars(c, SettleTurn(b, t), G, D, K)
    BY <1>1, <1>2, <1>6, SettleActiveBars
<1>8. Bars(c, SettleTurn(e, t), G, D, K)
    BY <1>2, <1>3, <1>4, <1>6, SettleActiveBars
<1> QED BY <1>5, <1>7, <1>8 DEF b

LEMMA StartRejectedBars ==
    ASSUME NEW c, WellFormed(c), Orderly(c), NEW t \in Turns,
           NEW G, NEW D, NEW K, Barred(c, G, D, K)
    PROVE  Bars(c, StartRejected(c, t), G, D, K)
<1>1. CASE StartCurrent(c, t)
    BY <1>1, StartRefusedBars DEF StartRejected, StartCurrent
<1>2. CASE ~StartCurrent(c, t)
    BY <1>2, QuietBars DEF StartRejected
<1> QED BY <1>1, <1>2

\* A prompt that goes back to "never attempted" was not sent before either.
LEMMA PreflightNotReadyBars ==
    ASSUME NEW c, WellFormed(c), Orderly(c), NEW t \in Turns, Active(c) = t,
           c.startReq = t, c.stage = "preflight", NEW G, NEW D, NEW K, Barred(c, G, D, K)
    PROVE  Bars(c, PreflightNotReady(c, t), G, D, K)
<1>1. CASE t \in Reviews
    BY <1>1, StartRefusedBars DEF PreflightNotReady
<1>2. CASE t \notin Reviews
  <2> DEFINE a == [c EXCEPT !.attempted = @ \ {t}, !.preflight = NoTurn]
             d == PreflightNotReady(c, t)
  <2>1. a \in Controllers /\ a.q = c.q /\ a.recovery = c.recovery /\ a.hydrated = c.hydrated
    BY NullTypes DEF WellFormed, Controllers
  <2>2. d = InvalidateStart(RetireLocalDispatch(a, t))
    BY <1>2, Zenon DEF PreflightNotReady, a
  <2> HIDE DEF a
  <2>3. d.q = c.q /\ d.recovery = c.recovery /\ d.hydrated = c.hydrated /\ d.startReq = NoTurn
    BY <2>1, <2>2 DEF InvalidateStart, RetireLocalDispatch, Controllers
  <2>4. Unsent(d) \subseteq Unsent(c)
    BY PreflightNotReadyKeeps DEF Keeps
  <2> HIDE DEF d
  <2>5. Active(d) = Active(c)
    BY <2>3 DEF Active
  <2>6. Bars(c, d, G, D, K)
    BY <2>3, <2>4, <2>5, SameBars
  <2> QED BY <2>6 DEF d
<1> QED BY <1>1, <1>2

\* The acknowledgement of a start that Core knows.
LEMMA StartAckedBars ==
    ASSUME NEW c, WellFormed(c), Orderly(c), NEW G, NEW D, NEW K, Barred(c, G, D, K),
           Told(c, D, K), NEW t \in K
    PROVE  Bars(c, StartAcked(c, t), G, D, K)
<1> DEFINE a == AcceptLocalDispatch(c, t, "running")
<1>1. t \in Turns
    BY DEF Told, Sure
<1>2. Bars(c, a, G, D, K) /\ WellFormed(a)
    BY AcceptBars
<1> HIDE DEF a
<1>3. Barred(a, G, D, K)
    BY <1>2 DEF Bars
<1>4. Bars(a, InvalidateStart(a), G, D, K) /\ Bars(c, InvalidateStart(c), G, D, K)
    BY <1>1, <1>2, <1>3, QuietBars
<1>5. Bars(c, InvalidateStart(a), G, D, K)
    BY <1>2, <1>4, BarsTransitive
<1>6. StartAcked(c, t) \in {InvalidateStart(a), InvalidateStart(c)}
    BY Zenon DEF StartAcked, a
<1> QED BY <1>4, <1>5, <1>6

\* A foreground turn is installed while nothing is leased.
LEMMA AdoptHeld ==
    ASSUME NEW c, WellFormed(c), NEW t \in Turns, c.preflight = NoTurn, c.stage = "none"
    PROVE  LET d == AdoptForeground(c, t)
           IN  /\ Held(d) /\ d.startReq = c.startReq /\ d.hydrated = c.hydrated
               /\ c.attempted \subseteq d.attempted
<1> DEFINE q == RestoreActive(c.q, ObservedTurn(t), TRUE)
           d == AdoptForeground(c, t)
<1>1. t # NoTurn
    BY TurnsAssumption DEF Turns
<1>2. q.active.id = t
    BY DEF RestoreActive, ObservedTurn, WellFormed, Controllers, Queues
<1>3. d = [c EXCEPT !.attempted = @ \cup {t}, !.q = q]
    BY DEF AdoptForeground
<1> HIDE DEF q, d
<1>4. /\ d.q = q /\ d.attempted = c.attempted \cup {t} /\ d.preflight = NoTurn
      /\ d.stage = "none" /\ d.startReq = c.startReq /\ d.hydrated = c.hydrated
    BY <1>3 DEF WellFormed, Controllers
<1>5. Held(d)
    BY <1>1, <1>2, <1>4 DEF Held, Unsent, Active
<1> QED BY <1>4, <1>5 DEF d

\* A start refused for another turn: if hydrate's foreground turn is live, the refused
\* prompt is what is being recovered, so that nothing starts in its place.
LEMMA StartCollidedBars ==
    ASSUME NEW c, WellFormed(c), Orderly(c), NEW t \in Turns, Active(c) = t, c.startReq = t,
           NEW G, NEW D, NEW K, Barred(c, G, D, K), t \in D, t \notin K, NEW f \in Turns
    PROVE  Bars(c, StartCollided(c, t, f), G, D, K)
<1> DEFINE b == InvalidateStart(RetireLocalDispatch(c, t))
           d == [b EXCEPT !.q = Settle(@, t), !.composer = @ \cup {t}]
<1>1. /\ WellFormed(b) /\ b.q = c.q /\ b.recovery = c.recovery /\ b.hydrated = c.hydrated
      /\ b.startReq = NoTurn /\ b.stage = "none" /\ b.preflight = NoTurn
  <2> DEFINE r == RetireLocalDispatch(c, t)
  <2>1. WellFormed(r) /\ r.q = c.q /\ r.recovery = c.recovery /\ r.hydrated = c.hydrated
    BY RetireLocalDispatchRests
  <2>2. r.preflight = NoTurn
    BY DEF RetireLocalDispatch, Without, WellFormed, Controllers, Orderly, Leased
  <2> HIDE DEF r
  <2>3. WellFormed(InvalidateStart(r))
    BY <2>1, InvalidateStartKeeps DEF Keeps
  <2>4. /\ InvalidateStart(r).q = r.q /\ InvalidateStart(r).recovery = r.recovery
        /\ InvalidateStart(r).hydrated = r.hydrated /\ InvalidateStart(r).startReq = NoTurn
        /\ InvalidateStart(r).stage = "none" /\ InvalidateStart(r).preflight = r.preflight
    BY <2>1 DEF InvalidateStart, WellFormed, Controllers
  <2> QED BY <2>1, <2>2, <2>3, <2>4 DEF r
<1> HIDE DEF b
<1>2. Settle(b.q, t) \in Queues
    BY <1>1, SettleType DEF WellFormed, Controllers
<1>3. /\ d \in Controllers /\ d.recovery = c.recovery /\ d.hydrated = c.hydrated
      /\ d.startReq = NoTurn /\ d.stage = "none" /\ d.preflight = NoTurn
    BY <1>1, <1>2 DEF WellFormed, Controllers
<1>4. WellFormed(d)
    BY <1>1, <1>3 DEF WellFormed, Controllers
<1>5. StartCollided(c, t, f) \in {StartTurn(d, Active(d)), AdoptForeground(d, f)}
    BY Zenon DEF StartCollided, b, d
<1> HIDE DEF d
<1>6. t # NoTurn
    BY TurnsAssumption DEF Turns
<1>7. Open(c, G) => c.recovery.turn = t
    BY <1>6 DEF Barred
<1>8. Open(d, G) => Recovering(d) /\ d.recovery.turn \in D
    BY <1>3, <1>6, <1>7 DEF Open, Recovering
<1>9. Open(d, G) => Open(c, G)
    BY <1>3 DEF Open
<1>10. Bars(c, d, G, D, K)
    BY <1>3, <1>8, <1>9 DEF Bars, Barred, StartsClear
<1>11. Bars(c, StartTurn(d, Active(d)), G, D, K)
    BY <1>4, <1>10, BarsThenStart
<1>12. Bars(c, AdoptForeground(d, f), G, D, K)
  <2> DEFINE a == AdoptForeground(d, f)
  <2>1. Held(a) /\ a.startReq = NoTurn /\ a.hydrated = c.hydrated
    BY <1>3, <1>4, AdoptHeld
  <2> HIDE DEF a
  <2>2. Bars(c, a, G, D, K)
    BY <2>1, HeldBars
  <2> QED BY <2>2 DEF a
<1> QED BY <1>5, <1>11, <1>12

\* A prompt is admitted only when nothing is being recovered: it may become the head
\* of the queue only if hydrate's foreground turn is gone.
LEMMA EnqueueTurnBars ==
    ASSUME NEW c, WellFormed(c), NEW t \in Turns, ~Recovering(c),
           NEW G, NEW D, NEW K, Barred(c, G, D, K)
    PROVE  Bars(c, EnqueueTurn(c, t), G, D, K)
<1> DEFINE e == [id |-> t, text |-> TRUE]
           d == [c EXCEPT !.q = Enqueue(@, e)]
<1>1. e \in Entries /\ e.id = t /\ c.q \in Queues
    BY DEF Entries, WellFormed, Controllers
<1> HIDE DEF e
<1>2. Enqueue(c.q, e) \in Queues
    BY <1>1, EnqueueType
<1>3. /\ d \in Controllers /\ d.q = Enqueue(c.q, e) /\ d.recovery = c.recovery
      /\ d.hydrated = c.hydrated /\ d.startReq = c.startReq /\ d.attempted = c.attempted
      /\ d.preflight = c.preflight /\ d.stage = c.stage
    BY <1>2 DEF WellFormed, Controllers
<1>4. WellFormed(d) /\ Unsent(d) = Unsent(c)
    BY <1>3 DEF WellFormed, Controllers, Unsent
<1>5. EnqueueTurn(c, t) \in {d, StartTurn(d, t)}
    BY Zenon DEF EnqueueTurn, d, e
<1> HIDE DEF d
<1>6. Bars(c, d, G, D, K)
  <2>1. CASE Active(c) = NoTurn
    <3>1. ~Open(c, G) /\ ~Open(d, G)
        BY <1>3, <2>1 DEF Barred, Held, Open
    <3>2. c.startReq # NoTurn => c.startReq \in c.attempted /\ c.startReq \in K
        BY <2>1 DEF Barred
    <3> QED BY <1>3, <3>1, <3>2 DEF Bars, Barred, StartsClear
  <2>2. CASE Active(c) # NoTurn
    <3>1. Active(d) = Active(c)
        BY <1>3, <2>2 DEF Active, Enqueue, WellFormed, Controllers, Queues
    <3>2. d.startReq # NoTurn => d.startReq \in d.attempted
        BY <1>3 DEF Barred
    <3> QED BY <1>3, <1>4, <3>1, <3>2, SameBars
  <2> QED BY <2>1, <2>2
<1>7. Bars(c, StartTurn(d, t), G, D, K)
    BY <1>4, <1>6, BarsThenStart
<1> QED BY <1>5, <1>6, <1>7

LEMMA CancelSubmitBars ==
    ASSUME NEW c, WellFormed(c), NEW t \in Locals, NEW G, NEW D, NEW K, Barred(c, G, D, K)
    PROVE  /\ Bars(c, CancelQueuedPrompt(c, t), G, D, K)
           /\ Active(c) \in Turns => Bars(c, SubmitSteer(c, t), G, D, K)
<1>1. Bars(c, CancelQueuedPrompt(c, t), G, D, K)
  <2> DEFINE d == CancelQueuedPrompt(c, t)
  <2>1. RemovePending(c.q, t).active = c.q.active
    BY DEF RemovePending, WellFormed, Controllers, Queues
  <2>2. d = [c EXCEPT !.q = RemovePending(c.q, t)]
    BY DEF CancelQueuedPrompt
  <2>3. Unsent(d) \subseteq Unsent(c)
    BY CancelQueuedPromptKeeps DEF Keeps
  <2> HIDE DEF d
  <2>4. /\ d.q = RemovePending(c.q, t) /\ d.recovery = c.recovery /\ d.hydrated = c.hydrated
        /\ d.startReq = c.startReq /\ d.attempted = c.attempted
    BY <2>2 DEF WellFormed, Controllers
  <2>5. Active(d) = Active(c)
    BY <2>1, <2>4 DEF Active
  <2>6. d.startReq # NoTurn => d.startReq \in d.attempted
    BY <2>4 DEF Barred
  <2>7. Bars(c, d, G, D, K)
    BY <2>3, <2>4, <2>5, <2>6, SameBars
  <2> QED BY <2>7 DEF d
<1>2. ASSUME Active(c) \in Turns PROVE Bars(c, SubmitSteer(c, t), G, D, K)
  <2> DEFINE d == SubmitSteer(c, t)
  <2>1. Unsent(d) \subseteq Unsent(c)
    BY <1>2, SubmitSteerKeeps
  <2>2. /\ d.q = c.q /\ d.recovery = c.recovery /\ d.hydrated = c.hydrated
        /\ d.startReq = c.startReq /\ d.attempted = c.attempted
    BY DEF SubmitSteer, WellFormed, Controllers
  <2> HIDE DEF d
  <2>3. Active(d) = Active(c)
    BY <2>2 DEF Active
  <2>4. d.startReq # NoTurn => d.startReq \in d.attempted
    BY <2>2 DEF Barred
  <2>5. Bars(c, d, G, D, K)
    BY <2>1, <2>2, <2>3, <2>4, SameBars
  <2> QED BY <2>5 DEF d
<1> QED BY <1>1, <1>2

-----------------------------------------------------------------------------
(* Steering *)

LEMMA HeadIsTold ==
    ASSUME NEW c, WellFormed(c), Orderly(c), NEW D, NEW K, Told(c, D, K)
    PROVE  Active(c) \in c.attempted \cup D \cup {NoTurn}
<1>1. Active(c) \in c.attempted \cup Locals \cup {NoTurn}
    BY DEF Orderly, Fifo
<1>2. Active(c) \in Locals \ c.attempted => Active(c) \in Unsent(c)
    BY DEF Unsent, Turns
<1> QED BY <1>1, <1>2 DEF Told

\* Returned text takes the head of the queue only from a prompt that was never tried:
\* if hydrate's foreground turn is live, a recovery holds the queue, before and after.
LEMMA RestageSteersBars ==
    ASSUME NEW c, WellFormed(c), NEW turns \in Seq(Turns), NEW G, NEW D, NEW K,
           Barred(c, G, D, K), Active(c) \in c.attempted \cup D \cup {NoTurn}
    PROVE  Bars(c, RestageSteers(c, turns), G, D, K)
<1> DEFINE es == SteerEntries(turns)
           p == PrependPending(c.q, es)
           r == PrependPending(RestoreActive(c.q, es[1], TRUE), Tail(es))
           d == RestageSteers(c, turns)
<1>1. CASE turns = <<>>
  <2>1. d = c
    BY <1>1 DEF RestageSteers
  <2> QED BY <2>1 DEF Bars, StartsClear
<1>2. CASE turns # <<>> /\ Active(c) \in c.attempted
  <2>1. d = [c EXCEPT !.q = p]
    BY <1>2, Zenon DEF RestageSteers
  <2>2. p.active = c.q.active
    BY DEF PrependPending, WellFormed, Controllers, Queues
  <2> HIDE DEF p, d
  <2>3. /\ d.q = p /\ d.recovery = c.recovery /\ d.hydrated = c.hydrated
        /\ d.startReq = c.startReq /\ d.attempted = c.attempted
        /\ d.preflight = c.preflight /\ d.stage = c.stage
    BY <2>1 DEF WellFormed, Controllers
  <2>4. Active(d) = Active(c) /\ Unsent(d) = Unsent(c)
    BY <2>2, <2>3 DEF Active, Unsent
  <2>5. d.startReq # NoTurn => d.startReq \in d.attempted
    BY <2>3 DEF Barred
  <2>6. Bars(c, d, G, D, K)
    BY <2>3, <2>4, <2>5, SameBars
  <2> QED BY <2>6 DEF d
<1>3. CASE turns # <<>> /\ Active(c) \notin c.attempted
  <2>1. d = [c EXCEPT !.q = r]
    BY <1>3, Zenon DEF RestageSteers
  <2> HIDE DEF r, d
  <2>2. /\ d.recovery = c.recovery /\ d.hydrated = c.hydrated
        /\ d.startReq = c.startReq /\ d.attempted = c.attempted
    BY <2>1 DEF WellFormed, Controllers
  <2>3. c.startReq \in {NoTurn} \cup K /\ (c.startReq # NoTurn => c.startReq \in c.attempted)
    BY <1>3 DEF Barred
  <2>4. ~Held(c)
    BY <1>3, ActiveType DEF Held, Unsent, WellFormed, OptTurn
  <2>5. Open(c, G) => Recovering(c) /\ c.recovery.turn \in D
    BY <1>3, <2>4 DEF Barred, Recovering
  <2>6. Bars(c, d, G, D, K)
    BY <2>2, <2>3, <2>5 DEF Bars, Barred, StartsClear, Open, Recovering
  <2> QED BY <2>6 DEF d
<1> QED BY <1>1, <1>2, <1>3

\* What becomes of steering leaves the head of the queue alone.
LEMMA FinishSteerBars ==
    ASSUME NEW c, WellFormed(c), NEW b, NEW G, NEW D, NEW K, Bars(b, c, G, D, K)
    PROVE  Bars(b, FinishSteer(c), G, D, K) /\ Bars(b, RetrySteerDelivery(c), G, D, K)
<1> DEFINE k == IF ~c.steerUnknown /\ Received(c, c.steerOwner)
                THEN DropSteersOf(c.retained, c.steerOwner) ELSE c.retained
           d == [c EXCEPT !.steerReq = NoTurn, !.steerOwner = NoTurn, !.retained = k]
           e == [c EXCEPT !.steerUnknown = FALSE, !.steerReq = NoTurn, !.steerOwner = NoTurn]
<1>1. k \in SUBSET Steers
    BY DEF WellFormed, Controllers, DropSteersOf
<1> HIDE DEF k
<1>2. d \in Controllers /\ e \in Controllers
    BY <1>1, NullTypes DEF WellFormed, Controllers
<1>3. /\ d.q = c.q /\ d.recovery = c.recovery /\ d.hydrated = c.hydrated
      /\ d.startReq = c.startReq /\ d.attempted = c.attempted
      /\ d.preflight = c.preflight /\ d.stage = c.stage
    BY DEF WellFormed, Controllers
<1>4. /\ e.q = c.q /\ e.recovery = c.recovery /\ e.hydrated = c.hydrated
      /\ e.startReq = c.startReq /\ e.attempted = c.attempted
      /\ e.preflight = c.preflight /\ e.stage = c.stage
    BY DEF WellFormed, Controllers
<1>5. WellFormed(d) /\ WellFormed(e)
    BY <1>2, <1>3, <1>4 DEF WellFormed, Controllers
<1>6. FinishSteer(c) = StartTurn(d, Active(d)) /\ RetrySteerDelivery(c) = StartTurn(e, Active(e))
    BY Zenon DEF FinishSteer, RetrySteerDelivery, d, e, k
<1> HIDE DEF d, e
<1>7. Bars(b, d, G, D, K) /\ Bars(b, e, G, D, K)
    BY <1>3, <1>4 DEF Bars, Barred, StartsClear, Held, Open, Unsent, Recovering, Active
<1> QED BY <1>5, <1>6, <1>7, BarsThenStart

\* A steer that was not admitted is queued again; the text of the others stays away.
LEMMA SteerEndsBars ==
    ASSUME NEW c, WellFormed(c), Orderly(c), c.steerReq # NoTurn,
           NEW G, NEW D, NEW K, Barred(c, G, D, K), Told(c, D, K)
    PROVE  /\ Bars(c, SteerNotAdmitted(c), G, D, K)
           /\ Bars(c, SteerAccepted(c), G, D, K) /\ Bars(c, SteerUnconfirmed(c), G, D, K)
           /\ Bars(c, UpdateSteer(c, c.steerReq, "sent"), G, D, K)
           /\ Bars(c, RetrySteerDelivery(c), G, D, K)
<1> DEFINE t == c.steerReq
           f == ForgetSteer(c, t)
           n == RestageSteers(f, <<t>>)
           a == UpdateSteer(c, t, "accepted")
           s == UpdateSteer(c, t, "sent")
           u == [c EXCEPT !.steerUnknown = TRUE]
           Same(d) == /\ d.q = c.q /\ d.recovery = c.recovery /\ d.hydrated = c.hydrated
                      /\ d.startReq = c.startReq /\ d.attempted = c.attempted
                      /\ d.preflight = c.preflight /\ d.stage = c.stage
<1>1. t \in Turns
    BY DEF WellFormed, Controllers, OptLocal, Turns
<1>2. WellFormed(f) /\ Same(f)
  <2>1. WellFormed(f)
    BY ForgetSteerKeeps DEF Keeps
  <2> QED BY <2>1 DEF ForgetSteer, WellFormed, Controllers
<1>3. WellFormed(a) /\ Same(a) /\ WellFormed(s) /\ Same(s)
  <2>1. WellFormed(a) /\ WellFormed(s)
    BY UpdateSteerKeeps DEF Keeps
  <2> QED BY <2>1 DEF UpdateSteer, WellFormed, Controllers
<1>4. WellFormed(u) /\ Same(u)
    BY DEF WellFormed, Controllers
<1>5. ASSUME NEW d, Same(d) PROVE Bars(c, d, G, D, K) /\ Active(d) = Active(c)
    BY <1>5 DEF Bars, Barred, StartsClear, Held, Open, Unsent, Recovering, Active
<1>6. SteerAccepted(c) = FinishSteer(a)
    BY DEF SteerAccepted
<1>7. SteerUnconfirmed(c) \in {FinishSteer(u), FinishSteer(c)}
    BY Zenon DEF SteerUnconfirmed
<1>8. SteerNotAdmitted(c) \in {FinishSteer(n), FinishSteer(c)}
    BY Zenon DEF SteerNotAdmitted
<1>9. Same(c)
    OBVIOUS
<1> HIDE DEF f, a, u, s
<1>10. Bars(c, n, G, D, K) /\ WellFormed(n)
  <2>1. <<t>> \in Seq(Turns)
    BY <1>1
  <2>2. Bars(c, f, G, D, K) /\ Active(f) = Active(c) /\ f.attempted = c.attempted
    BY <1>2, <1>5
  <2>3. Active(f) \in f.attempted \cup D \cup {NoTurn}
    BY <2>2, HeadIsTold
  <2>4. Barred(f, G, D, K)
    BY <2>2 DEF Bars
  <2>5. Bars(f, n, G, D, K) /\ WellFormed(n)
    BY <1>2, <2>1, <2>3, <2>4, RestageSteersBars, RestageSteersKeeps DEF Keeps
  <2> QED BY <2>2, <2>5, BarsTransitive
<1> HIDE DEF n
<1>11. Bars(c, c, G, D, K) /\ Bars(c, a, G, D, K) /\ Bars(c, u, G, D, K) /\ Bars(c, s, G, D, K)
    BY <1>3, <1>4, <1>5, <1>9
<1>12. /\ Bars(c, FinishSteer(n), G, D, K) /\ Bars(c, FinishSteer(c), G, D, K)
       /\ Bars(c, FinishSteer(a), G, D, K) /\ Bars(c, FinishSteer(u), G, D, K)
       /\ Bars(c, RetrySteerDelivery(c), G, D, K)
    BY <1>3, <1>4, <1>10, <1>11, FinishSteerBars
<1> QED BY <1>6, <1>7, <1>8, <1>11, <1>12 DEF s

\* The turn that Core started with the text takes the head of the queue, and Core knows it.
LEMMA SteerFellBackBars ==
    ASSUME NEW c, WellFormed(c), Orderly(c), NEW G, NEW D, NEW K, Barred(c, G, D, K),
           NEW f \in Foreign, f \in K, c.steerOwner \in K
    PROVE  Bars(c, SteerFellBack(c, f), G, D, K)
<1> DEFINE g == ForgetSteer(c, c.steerReq)
           d == [g EXCEPT !.attempted = @ \cup {f}]
           superseded == Active(c) \notin {NoTurn, c.steerOwner, f} /\ Active(c) \in c.attempted
           q == IF Active(c) = c.steerOwner THEN Settle(c.q, c.steerOwner) ELSE c.q
           e == [id |-> f, text |-> TRUE]
           r == RestoreActive(q, e, TRUE)
           o == [turn |-> f, state |-> "running"]
           u == [d EXCEPT !.steerUnknown = TRUE]
           w == [d EXCEPT !.q = r, !.owner = o]
           Same(x) == /\ x.recovery = c.recovery /\ x.hydrated = c.hydrated
                      /\ x.startReq = c.startReq /\ x.preflight = c.preflight
                      /\ x.stage = c.stage
<1>1. f \in Turns /\ f # NoTurn /\ f \notin Locals
    BY TurnsAssumption DEF Turns
<1>2. WellFormed(g) /\ g.q = c.q /\ Same(g) /\ g.attempted = c.attempted
  <2>1. WellFormed(g)
    BY ForgetSteerKeeps DEF Keeps
  <2> QED BY <2>1 DEF ForgetSteer, WellFormed, Controllers
<1>3. r \in Queues /\ r.active.id = f
  <2>1. q \in Queues
    BY SettleType DEF WellFormed, Controllers
  <2>2. e \in Entries /\ e.id = f
    BY <1>1 DEF Entries
  <2> HIDE DEF q, e
  <2>3. r.active.id = f
    BY <2>1, <2>2 DEF RestoreActive, Queues
  <2> QED BY <2>1, <2>2, <2>3, RestoreActiveType
<1>4. o \in Owners
    BY <1>1, NullTypes DEF Owners
<1> HIDE DEF g, r, o
<1>5. d \in Controllers /\ d.q = c.q /\ Same(d) /\ d.attempted = c.attempted \cup {f}
    BY <1>1, <1>2 DEF WellFormed, Controllers
<1>6. WellFormed(d)
    BY <1>2, <1>5 DEF WellFormed, Controllers
<1> HIDE DEF d
<1>7. /\ u \in Controllers /\ u.q = c.q /\ Same(u) /\ u.attempted = d.attempted
      /\ w \in Controllers /\ w.q = r /\ Same(w) /\ w.attempted = d.attempted
    BY <1>3, <1>4, <1>5 DEF Controllers
<1>8. WellFormed(u) /\ WellFormed(w)
    BY <1>5, <1>6, <1>7 DEF WellFormed, Controllers
<1>9. \/ SteerFellBack(c, f) \in {FinishSteer(c), FinishSteer(d), FinishSteer(u)}
      \/ ~superseded /\ SteerFellBack(c, f) = FinishSteer(w)
    BY Zenon DEF SteerFellBack, d, g, q, r, o, e
<1> HIDE DEF u, w
<1>10. ASSUME NEW x, x.q = c.q, Same(x), c.attempted \subseteq x.attempted
       PROVE  Bars(c, x, G, D, K)
  <2>1. Unsent(x) \subseteq Unsent(c) /\ Active(x) = Active(c)
    BY <1>10 DEF Unsent, Active
  <2>2. x.startReq # NoTurn => x.startReq \in x.attempted
    BY <1>10 DEF Barred
  <2> QED BY <1>10, <2>1, <2>2, SameBars
<1>11. Bars(c, c, G, D, K) /\ Bars(c, d, G, D, K) /\ Bars(c, u, G, D, K)
    BY <1>5, <1>7, <1>10
<1>12. ~superseded => Bars(c, w, G, D, K)
  <2> SUFFICES ASSUME ~superseded PROVE Bars(c, w, G, D, K)
    OBVIOUS
  <2>1. w.preflight # f /\ (w.stage = "preflight" => w.startReq # f)
    BY <1>1, <1>7 DEF Orderly, Leased, Fifo, OptLocal
  <2>2. Held(w)
    BY <1>1, <1>3, <1>5, <1>7, <2>1 DEF Held, Active, Unsent
  <2>3. c.startReq # NoTurn => c.startReq \in K /\ c.startReq \in w.attempted
    BY <1>5, <1>7 DEF Barred
  <2> QED BY <1>7, <2>2, <2>3, HeldBars
<1>13. /\ Bars(c, FinishSteer(c), G, D, K) /\ Bars(c, FinishSteer(d), G, D, K)
       /\ Bars(c, FinishSteer(u), G, D, K)
       /\ ~superseded => Bars(c, FinishSteer(w), G, D, K)
    BY <1>6, <1>8, <1>11, <1>12, FinishSteerBars
<1> QED BY <1>9, <1>13
-----------------------------------------------------------------------------
(* Notifications *)

\* A turn that is adopted when nothing is active, and a turn that ends.
LEMMA ObservesBars ==
    ASSUME NEW c, WellFormed(c), Orderly(c), NEW G, NEW D, NEW K, Barred(c, G, D, K),
           Told(c, D, K), NEW t \in K
    PROVE  Bars(c, ObserveTurnStarted(c, t), G, D, K) /\ Bars(c, ObserveTerminal(c, t), G, D, K)
<1> DEFINE d == ConfirmTurnAccepted(c, t)
<1>1. Sure(c, t) /\ t \in Turns
    BY DEF Told, Sure
<1>2. Bars(c, d, G, D, K) /\ WellFormed(d) /\ Told(d, D, K) /\ Active(d) = Active(c)
    BY AcceptBars DEF ConfirmTurnAccepted
<1>3. Orderly(d)
    BY <1>1, ConfirmTurnAcceptedOrders DEF Orders
<1>4. ObserveTerminal(c, t) = SettleTurn(d, t)
    BY DEF ObserveTerminal, d
<1>5. \/ ObserveTurnStarted(c, t) = d
      \/ Active(d) = NoTurn /\ ObserveTurnStarted(c, t) = AdoptForeground(d, t)
    BY DEF ObserveTurnStarted, AdoptObservedTurn, d
<1> HIDE DEF d
<1>6. Barred(d, G, D, K) /\ Sure(d, t)
    BY <1>2 DEF Bars, Told
<1>7. Bars(d, SettleTurn(d, t), G, D, K)
    BY <1>1, <1>2, <1>3, <1>6, SettleBars
<1>8. Active(d) = NoTurn => Bars(d, AdoptForeground(d, t), G, D, K)
  <2> SUFFICES ASSUME Active(d) = NoTurn PROVE Bars(d, AdoptForeground(d, t), G, D, K)
    OBVIOUS
  <2>1. Active(d) \notin d.attempted
    BY <1>2, TurnsAssumption DEF WellFormed, Controllers, Turns
  <2> QED BY <1>2, <1>3, <1>6, <2>1, AdoptBars
<1> QED BY <1>2, <1>4, <1>5, <1>7, <1>8, BarsTransitive

\* Text that Core returns goes ahead of what was never tried.
LEMMA ObserveSteerDroppedBars ==
    ASSUME NEW c, WellFormed(c), Orderly(c), NEW G, NEW D, NEW K, Barred(c, G, D, K),
           Told(c, D, K), NEW t \in K, NEW given \in Seq(Turns)
    PROVE  Bars(c, ObserveSteerDropped(c, t, given), G, D, K)
<1> DEFINE d == ConfirmTurnAccepted(c, t)
           mine == {e \in d.retained : /\ e.owner = t /\ e.sent
                                       /\ \E i \in DOMAIN given : given[i] = e.turn}
           texts == {e.turn : e \in mine}
           returned == Keep(given, texts)
           left == d.retained \ mine
           u == d.steerUnknown /\ mine = {}
           f == [d EXCEPT !.retained = left, !.steerUnknown = u]
<1>1. /\ Bars(c, d, G, D, K) /\ WellFormed(d) /\ Active(d) = Active(c)
      /\ d.attempted = c.attempted
    BY AcceptBars DEF ConfirmTurnAccepted
<1>2. ObserveSteerDropped(c, t, given) = RestageSteers(f, returned)
    BY Zenon DEF ObserveSteerDropped, f, left, u, returned, texts, mine, d
<1> HIDE DEF d, texts
<1>3. returned \in Seq(Turns)
    BY KeepType
<1> HIDE DEF returned
<1>4. left \in SUBSET Steers /\ u \in BOOLEAN
    BY <1>1 DEF WellFormed, Controllers
<1> HIDE DEF left, u
<1>5. /\ f \in Controllers /\ f.q = d.q /\ f.recovery = d.recovery /\ f.hydrated = d.hydrated
      /\ f.startReq = d.startReq /\ f.attempted = d.attempted
      /\ f.preflight = d.preflight /\ f.stage = d.stage
    BY <1>1, <1>4 DEF WellFormed, Controllers
<1>6. WellFormed(f)
    BY <1>1, <1>5 DEF WellFormed, Controllers
<1> HIDE DEF f
<1>7. Bars(c, f, G, D, K) /\ Active(f) = Active(c) /\ f.attempted = c.attempted
    BY <1>1, <1>5 DEF Bars, Barred, StartsClear, Held, Open, Unsent, Recovering, Active
<1>8. Active(f) \in f.attempted \cup D \cup {NoTurn} /\ Barred(f, G, D, K)
    BY <1>7, HeadIsTold DEF Bars
<1>9. Bars(f, RestageSteers(f, returned), G, D, K)
    BY <1>3, <1>6, <1>8, RestageSteersBars
<1> QED BY <1>2, <1>7, <1>9, BarsTransitive
-----------------------------------------------------------------------------
(* Lifecycle recovery *)

\* The recovery of the active turn holds the queue.
LEMMA RecoveryBars ==
    ASSUME NEW c, NEW d, NEW G, NEW D, NEW K, Barred(c, G, D, K), d.q = c.q,
           d.hydrated = c.hydrated, d.startReq = c.startReq, d.attempted = c.attempted,
           Active(c) # NoTurn, d.recovery.turn = Active(c)
    PROVE  Bars(c, d, G, D, K)
BY DEF Bars, Barred, StartsClear, Open, Recovering, Active

LEMMA RetryTurnRecoveryBars ==
    ASSUME NEW c, WellFormed(c), NEW G, NEW D, NEW K, Barred(c, G, D, K)
    PROVE  Bars(c, RetryTurnRecovery(c), G, D, K)
<1> DEFINE d == RetryTurnRecovery(c)
<1>1. CASE ~Linked(c) \/ Active(c) = NoTurn \/ c.recovery.phase = "checking"
  <2>1. d = c
    BY <1>1 DEF RetryTurnRecovery
  <2> QED BY <2>1 DEF Bars, StartsClear
<1>2. CASE ~(~Linked(c) \/ Active(c) = NoTurn \/ c.recovery.phase = "checking")
  <2>1. /\ d.q = c.q /\ d.hydrated = c.hydrated /\ d.startReq = c.startReq
        /\ d.attempted = c.attempted /\ d.recovery.turn = Active(c)
    BY <1>2 DEF RetryTurnRecovery, WellFormed, Controllers
  <2> HIDE DEF d
  <2>2. Bars(c, d, G, D, K)
    BY <1>2, <2>1, RecoveryBars
  <2> QED BY <2>2 DEF d
<1> QED BY <1>1, <1>2

\* An answer proves that Core knows the turn, which then holds the queue, or settles it.
LEMMA LookupReturnedBars ==
    ASSUME NEW c, WellFormed(c), Orderly(c), NEW G, NEW D, NEW K, Barred(c, G, D, K),
           Told(c, D, K), NEW t \in Turns, NEW result,
           Active(c) = t => result \in {"unknown", "error"} \/ t \in K
    PROVE  Bars(c, LookupReturned(c, t, result), G, D, K)
<1> DEFINE d == [c EXCEPT !.lookup = NoTurn]
           p == [turn |-> t, phase |-> result]
           e == [d EXCEPT !.recovery = p]
           live == result \in {"active", "interrupting"}
           a == InvalidateStart(ClearRecovery(d))
           s == IF live THEN "running" ELSE "ended"
           b == AcceptLocalDispatch(a, t, s)
           i == IF result = "interrupting" THEN t ELSE NoTurn
           f == [b EXCEPT !.interruptReq = NoTurn, !.interrupting = i]
<1>1. /\ WellFormed(d) /\ d.q = c.q /\ d.recovery = c.recovery /\ d.hydrated = c.hydrated
      /\ d.startReq = c.startReq /\ d.attempted = c.attempted /\ d.local = c.local
      /\ d.preflight = c.preflight /\ d.stage = c.stage
  <2>1. d \in Controllers
    BY NullTypes DEF WellFormed, Controllers
  <2> QED BY <2>1 DEF WellFormed, Controllers
<1>2. /\ e.q = c.q /\ e.recovery.turn = t /\ e.hydrated = c.hydrated
      /\ e.startReq = c.startReq /\ e.attempted = c.attempted
    BY DEF WellFormed, Controllers
<1> HIDE DEF d, e
<1>3. Bars(c, d, G, D, K)
    BY <1>1 DEF Bars, Barred, StartsClear, Held, Open, Unsent, Recovering, Active
<1>4. t # NoTurn
    BY TurnsAssumption DEF Turns
<1>5. Active(c) = t => Bars(c, e, G, D, K)
    BY <1>2, <1>4, RecoveryBars
<1>6. /\ WellFormed(a) /\ a.q = c.q /\ a.hydrated = c.hydrated /\ a.startReq = NoTurn
      /\ a.attempted = c.attempted /\ a.local = c.local /\ a.preflight = c.preflight
      /\ a.stage = "none" /\ Unsent(a) \subseteq Unsent(c)
  <2>1. WellFormed(ClearRecovery(d)) /\ Unsent(ClearRecovery(d)) \subseteq Unsent(d)
    BY <1>1, ClearRecoveryKeeps DEF Keeps
  <2>2. WellFormed(a) /\ Unsent(a) \subseteq Unsent(d)
    BY <2>1, InvalidateStartKeeps DEF Keeps
  <2>3. Unsent(d) = Unsent(c)
    BY <1>1 DEF Unsent
  <2> QED BY <1>1, <2>2, <2>3 DEF InvalidateStart, ClearRecovery, WellFormed, Controllers
<1> HIDE DEF a
<1>7. s \in {"running", "ended"}
    OBVIOUS
<1> HIDE DEF s
<1>8. /\ WellFormed(b) /\ b.q = c.q /\ b.hydrated = c.hydrated /\ b.startReq = NoTurn
      /\ b.attempted = c.attempted /\ b.stage = "none" /\ Unsent(b) \subseteq Unsent(c)
      /\ b = a \/ b.preflight = Without(a.preflight, t)
  <2>1. WellFormed(b) /\ Unsent(b) \subseteq Unsent(a)
    BY <1>6, <1>7, AcceptLocalDispatchKeeps DEF Keeps
  <2> QED BY <1>6, <2>1 DEF AcceptLocalDispatch, ClearRecoveryOf, ClearRecovery, WellFormed, Controllers
<1> HIDE DEF b
<1>9. i \in OptTurn
    BY NullTypes
<1> HIDE DEF i
<1>10. /\ f \in Controllers /\ f.q = c.q /\ f.hydrated = c.hydrated /\ f.startReq = NoTurn
       /\ f.attempted = c.attempted /\ f.stage = b.stage /\ f.preflight = b.preflight
       /\ f.local = b.local
    BY <1>8, <1>9, NullTypes DEF WellFormed, Controllers
<1>11. WellFormed(f) /\ Unsent(f) \subseteq Unsent(c)
    BY <1>8, <1>10 DEF WellFormed, Controllers, Unsent
<1> HIDE DEF f
<1>12. ApplyRecoveredState(d, t, result) \in {f, SettleTurn(f, t)}
    BY Zenon DEF ApplyRecoveredState, f, b, a, i, s
<1>13. \/ LookupReturned(c, t, result) = d
       \/ Active(c) = t /\ LookupReturned(c, t, result) = e
       \/ /\ Active(c) = t /\ result \notin {"unknown", "error"}
          /\ LookupReturned(c, t, result) = ApplyRecoveredState(d, t, result)
    BY Zenon DEF LookupReturned, d, e, p
<1>14. ASSUME Active(c) = t, t \in K
       PROVE  Bars(c, f, G, D, K) /\ Bars(c, SettleTurn(f, t), G, D, K)
  <2>1. Held(c)
    BY <1>14, KnownHolds DEF Told
  <2>2. Held(f) /\ Active(f) = t
    BY <1>10, <1>11, <1>14, <2>1 DEF Held, Active
  <2>3. Bars(c, f, G, D, K)
    BY <1>10, <2>2, HeldBars
  <2>4. c.preflight # NoTurn => c.preflight = t /\ c.local = t
    BY <1>14 DEF Orderly, Leased
  <2>5. f.preflight # NoTurn => f.preflight = t /\ f.local = t
    BY <1>6, <1>8, <1>10, <2>4 DEF Without
  <2>6. Open(c, G) => Open(c, G)
    OBVIOUS
  <2>7. Open(f, G) => Open(c, G)
    BY <1>10 DEF Open
  <2>8. Bars(c, SettleTurn(f, t), G, D, K)
    BY <1>11, <2>2, <2>5, <2>7, SettleActiveBars
  <2> QED BY <2>3, <2>8
<1> QED BY <1>3, <1>5, <1>12, <1>13, <1>14

\* Going on without a turn lets it go.
LEMMA ContinueWithoutTurnBars ==
    ASSUME NEW c, WellFormed(c), Orderly(c), Active(c) # NoTurn,
           NEW G, NEW D, NEW K, Active(c) \in G
    PROVE  Bars(c, ContinueWithoutTurn(c), G, D, K)
<1> DEFINE d == Continuing(c)
           t == Active(c)
           r == ReleaseQueueTurn(d, t)
<1>1. t \in Turns
    BY ActiveType DEF WellFormed
<1>2. /\ WellFormed(d) /\ Active(d) = Active(c) /\ d.hydrated = c.hydrated /\ d.local = NoTurn
      /\ Orderly(InvalidateStart(d))
    BY ContinuingOrders DEF Orders
<1>3. ContinueWithoutTurn(c) = r
    BY Zenon DEF ContinueWithoutTurn, Continuing
<1> HIDE DEF d
<1>4. d.preflight = NoTurn
  <2>1. /\ InvalidateStart(d).preflight = d.preflight
        /\ InvalidateStart(d).local = d.local
    BY <1>2 DEF InvalidateStart, WellFormed, Controllers
  <2> QED BY <1>2, <2>1 DEF Orderly, Leased
<1>5. /\ Barred(r, G, D, K) /\ (r.startReq = NoTurn \/ ~Open(r, G))
      /\ Open(r, G) => Open(d, G)
    BY <1>1, <1>2, <1>4, ReleaseBars
<1> HIDE DEF r
<1>6. Bars(c, r, G, D, K)
    BY <1>2, <1>5 DEF Bars, StartsClear, Open
<1> QED BY <1>3, <1>6

LEMMA ReconcilingStart ==
    ASSUME NEW c, WellFormed(c), NEW snap, NEW preserve
    PROVE  Reconciling(c, snap, preserve).startReq = c.startReq
<1> DEFINE fg == HydratedForeground(snap)
           i == IF fg.state = "interrupting" THEN fg.turn ELSE NoTurn
           a == [c EXCEPT !.steerUnknown = FALSE]
           b == ClearRecovery(a)
           r == RetireLocalDispatch(b, b.local)
           e == [r EXCEPT !.owner = NoOwner]
           l == ReconcileLeases(c, preserve)
<1>1. a \in Controllers /\ a.startReq = c.startReq
    BY DEF WellFormed, Controllers
<1> HIDE DEF a
<1>2. b \in Controllers /\ b.startReq = c.startReq
    BY <1>1, NullTypes DEF ClearRecovery, Controllers
<1> HIDE DEF b
<1>3. r \in Controllers /\ r.startReq = c.startReq
    BY <1>2, NullTypes, WithoutType DEF RetireLocalDispatch, Controllers
<1> HIDE DEF r
<1>4. e \in Controllers /\ e.startReq = c.startReq
    BY <1>3, NullTypes DEF Controllers
<1>5. l \in {b, e}
    BY Zenon DEF ReconcileLeases, a, b, r
<1> HIDE DEF e, l
<1>6. Reconciling(c, snap, preserve) =
        [l EXCEPT !.hydrated = fg, !.interruptReq = NoTurn, !.interrupting = i]
    BY Zenon DEF Reconciling, l
<1> HIDE DEF fg, i
<1> QED BY <1>2, <1>4, <1>5, <1>6 DEF Controllers

\* What hydrate installs is known to Core.
LEMMA AdoptionHolds ==
    ASSUME NEW c, WellFormed(c), NEW t \in Turns, c.preflight = NoTurn, c.stage = "none",
           c.startReq = NoTurn, NEW G, NEW D, NEW K
    PROVE  Barred(AdoptForeground(c, t), G, D, K) /\ AdoptForeground(c, t).startReq = NoTurn
<1>1. Held(AdoptForeground(c, t)) /\ AdoptForeground(c, t).startReq = NoTurn
    BY AdoptHeld
<1> QED BY <1>1 DEF Barred

\* Hydrate says which turn is live: it holds the queue, or the turn at its head is Core's
\* too, or that turn is looked up.
LEMMA ReconcileFromHydrateBars ==
    ASSUME NEW c, WellFormed(c), Orderly(c), Linked(c), NEW snap, NEW preserve,
           preserve \/ c.local = NoTurn, \A x \in ServerForeground(snap) : Sure(c, x),
           NEW G, NEW D, NEW K, Barred(c, G, D, K)
    PROVE  LET d == ReconcileFromHydrate(c, snap, preserve)
           IN  Barred(d, G, D, K) /\ StartsClear(c, d, G)
<1> DEFINE fg == HydratedForeground(snap)
           d == Reconciling(c, snap, preserve)
           t == Active(c)
           i == InvalidateStart(d)
           a == AcceptLocalDispatch(i, t, "running")
           z == ReconcileEnded(d, t)
           u == AcceptLocalDispatch(i, t, "ended")
           Fine(x) == Barred(x, G, D, K) /\ x.startReq \in {c.startReq, NoTurn}
<1>1. /\ WellFormed(d) /\ Orderly(d) /\ Linked(d) /\ Active(d) = t /\ d.hydrated = fg
      /\ fg.turn = NoTurn \/ fg.turn \in ServerForeground(snap)
      /\ d.attempted = c.attempted /\ Unsent(d) \subseteq Unsent(c)
    BY ReconcilingOrders DEF Orders
<1>2. d.startReq = c.startReq /\ d.recovery = NoRecovery /\ d.local \in {c.local, NoTurn}
    BY ReconcilingStart, ReconcilingFields
<1>3. c.startReq # NoTurn => c.startReq \in c.attempted /\ c.startReq \in {t} \cup K
    BY DEF Barred
<1>4. fg.turn # NoTurn => fg.turn \in Turns /\ Sure(c, fg.turn) /\ snap[fg.turn] # "done"
    BY <1>1 DEF ServerForeground
<1>5. ReconcileFromHydrate(c, snap, preserve) =
         IF fg.turn \notin {NoTurn, t} /\ t \notin c.attempted
         THEN AdoptForeground(i, fg.turn)
         ELSE IF t = NoTurn \/ t \notin c.attempted THEN d
         ELSE IF snap[t] # "absent" THEN ReconcileActive(d, t, snap[t])
         ELSE RetryTurnRecovery(d)
    BY Zenon DEF ReconcileFromHydrate, Reconciling
<1> HIDE DEF d, fg
<1>6. /\ WellFormed(i) /\ i.q = d.q /\ i.startReq = NoTurn /\ i.stage = "none"
      /\ i.hydrated = fg /\ i.attempted = c.attempted /\ i.local = d.local
      /\ i.preflight = d.preflight
    BY <1>1, InvalidateStartKeeps DEF Keeps, InvalidateStart, WellFormed, Controllers
<1>7. /\ d.preflight # NoTurn => d.preflight = d.local
      /\ d.local # NoTurn => d.local = t /\ t \in c.attempted
    BY <1>1 DEF Orderly, Leased
<1> HIDE DEF i
<1>8. CASE fg.turn \notin {NoTurn, t} /\ t \notin c.attempted
  <2>1. i.preflight = NoTurn
    BY <1>6, <1>7, <1>8
  <2>2. Fine(AdoptForeground(i, fg.turn))
    BY <1>4, <1>6, <1>8, <2>1, AdoptionHolds
  <2> QED BY <1>5, <1>8, <2>2 DEF StartsClear
<1>9. CASE ~(fg.turn \notin {NoTurn, t} /\ t \notin c.attempted) /\ (t = NoTurn \/ t \notin c.attempted)
  <2>1. t \in Turns /\ t \notin c.attempted => t \in Locals /\ t \in Unsent(c)
    BY TurnsAssumption DEF Orderly, Fifo, Unsent, Turns
  <2>2. NoTurn \notin c.attempted
    BY TurnsAssumption DEF WellFormed, Controllers, Turns
  <2>3. fg.turn = NoTurn
    BY <1>4, <1>9, <2>1, <2>2 DEF Sure
  <2>4. Fine(d)
    BY <1>1, <1>2, <1>3, <2>3 DEF Barred, Open
  <2> QED BY <1>5, <1>9, <2>4 DEF StartsClear
<1>10. CASE t # NoTurn /\ t \in c.attempted /\ snap[t] # "absent"
  <2>1. t \in Turns
    BY <1>10, ActiveType DEF WellFormed
  <2>2. ReconcileActive(d, t, snap[t]) =
            IF snap[t] # "done" THEN a
            ELSE IF fg.turn \notin {NoTurn, t} THEN AdoptForeground(z, fg.turn) ELSE z
    <3>1. CASE snap[t] = "done"
        BY <1>1, <3>1, Zenon DEF ReconcileActive, ReconcileEnded, z
    <3>2. CASE snap[t] # "done"
        BY <3>2, Zenon DEF ReconcileActive, a, i
    <3> QED BY <3>1, <3>2
  <2>3. ASSUME NEW s \in {"running", "ended"}
        PROVE  LET x == AcceptLocalDispatch(i, t, s)
               IN  /\ WellFormed(x) /\ x.q = d.q /\ x.startReq = NoTurn /\ x.stage = "none"
                   /\ x.hydrated = fg /\ x.attempted = c.attempted /\ x.preflight = NoTurn
    <3> DEFINE x == AcceptLocalDispatch(i, t, s)
    <3>1. WellFormed(x)
        BY <1>6, AcceptLocalDispatchKeeps DEF Keeps
    <3>2. Linked(i)
        BY <1>1 DEF Linked, InvalidateStart, WellFormed, Controllers, i
    <3>3. i.local # t => i.preflight = NoTurn
        BY <1>6, <1>7
    <3>4. i.preflight \in {NoTurn, t}
        BY <1>6, <1>7
    <3>5. (x = i /\ i.local # t) \/ x.preflight = NoTurn
        BY <1>6, <3>2, <3>4 DEF AcceptLocalDispatch, ClearRecoveryOf, ClearRecovery, Without, WellFormed,
                                Controllers
    <3>6. /\ x.q = i.q /\ x.startReq = i.startReq /\ x.stage = i.stage
          /\ x.hydrated = i.hydrated /\ x.attempted = i.attempted
        BY <1>6 DEF AcceptLocalDispatch, ClearRecoveryOf, ClearRecovery, WellFormed, Controllers
    <3> HIDE DEF x
    <3>7. WellFormed(x) /\ x.q = d.q /\ x.startReq = NoTurn /\ x.stage = "none"
          /\ x.hydrated = fg /\ x.attempted = c.attempted /\ x.preflight = NoTurn
        BY <1>6, <3>1, <3>3, <3>5, <3>6
    <3> QED BY <3>7 DEF x
  <2>4. /\ a.q = d.q /\ a.startReq = NoTurn /\ a.stage = "none"
        /\ a.attempted = c.attempted /\ a.preflight = NoTurn
    BY <2>3
  <2>5. /\ WellFormed(u) /\ u.startReq = NoTurn /\ u.stage = "none" /\ u.preflight = NoTurn
    BY <2>3
  <2> HIDE DEF a
  <2>6. Fine(a)
    <3>1. Held(a)
        BY <1>1, <1>10, <2>4 DEF Held, Unsent, Active
    <3> QED BY <2>4, <3>1 DEF Barred
  <2>7. WellFormed(z) /\ z.hydrated = fg
    BY <1>1, <2>1, ReconcileEndedOrders
  <2>8. z.startReq = NoTurn /\ z.stage = "none" /\ z.preflight = NoTurn
    <3> DEFINE o == IF u.owner.turn = t THEN [u.owner EXCEPT !.state = "ended"] ELSE u.owner
               q == Settle(u.q, t)
    <3>1. z = [u EXCEPT !.owner = o, !.q = q]
        BY DEF ReconcileEnded, i
    <3> HIDE DEF u, z, o, q
    <3> QED BY <2>5, <3>1 DEF WellFormed, Controllers
  <2> HIDE DEF z
  <2>9. fg.turn \notin {NoTurn, t} => Fine(AdoptForeground(z, fg.turn))
    BY <1>4, <2>7, <2>8, AdoptionHolds
  <2>10. snap[t] = "done" /\ fg.turn \in {NoTurn, t} => Fine(z)
    BY <1>4, <2>7, <2>8 DEF Barred, Open
  <2>11. Fine(ReconcileActive(d, t, snap[t]))
    BY <2>2, <2>6, <2>9, <2>10
  <2> QED BY <1>5, <1>10, <2>11 DEF StartsClear
<1>11. CASE t # NoTurn /\ t \in c.attempted /\ snap[t] = "absent"
  <2> DEFINE r == RetryTurnRecovery(d)
  <2>1. /\ r.q = d.q /\ r.startReq = c.startReq /\ r.attempted = c.attempted
        /\ r.recovery.turn = t
    BY <1>1, <1>2, <1>11 DEF RetryTurnRecovery, NoRecovery, WellFormed, Controllers
  <2> HIDE DEF r
  <2>2. Fine(r)
    BY <1>1, <1>3, <1>11, <2>1 DEF Barred, Recovering, Active
  <2> QED BY <1>5, <1>11, <2>2 DEF StartsClear, r
<1> QED BY <1>8, <1>9, <1>10, <1>11
-----------------------------------------------------------------------------
(* The transport *)

\* A prompt whose frame was not written goes back to "never attempted", and an unsent
\* steer becomes the first prompt again.
LEMMA SuspendTransportBars ==
    ASSUME NEW c, WellFormed(c), Orderly(c), NEW G, NEW D, NEW K, Barred(c, G, D, K),
           Told(c, D, K)
    PROVE  Bars(c, SuspendTransport(c), G, D, K) /\ WellFormed(SuspendTransport(c))
<1> DEFINE a == [c EXCEPT !.retained = {}, !.steerReq = NoTurn,
                          !.steerOwner = NoTurn, !.steerUnknown = FALSE]
           us == UnsentSteers(c)
           b == RestageSteers(a, us)
           e == InvalidateStart(b)
           d == SuspendTransport(c)
<1>1. /\ a \in Controllers /\ a.q = c.q /\ a.recovery = c.recovery /\ a.hydrated = c.hydrated
      /\ a.startReq = c.startReq /\ a.attempted = c.attempted
      /\ a.preflight = c.preflight /\ a.stage = c.stage
    BY NullTypes DEF WellFormed, Controllers
<1>2. WellFormed(a) /\ Bars(c, a, G, D, K) /\ Active(a) = Active(c)
    BY <1>1 DEF WellFormed, Controllers, Bars, Barred, StartsClear, Held, Open, Unsent,
                Recovering, Active
<1> HIDE DEF a
<1>3. us \in Seq(Turns)
  <2>1. CASE us = <<>>
    BY <2>1
  <2>2. CASE us # <<>>
    <3>1. us = <<c.steerReq>> /\ \E e1 \in c.retained : e1.turn = c.steerReq
        BY <2>2 DEF UnsentSteers
    <3>2. c.steerReq \in Turns
        BY <3>1 DEF Orderly, Fifo, RetainedTurns, Turns
    <3> HIDE DEF us
    <3> QED BY <3>1, <3>2
  <2> QED BY <2>1, <2>2
<1> HIDE DEF us
<1>4. WellFormed(b) /\ Bars(c, b, G, D, K) /\ b.attempted = c.attempted /\ b.preflight = c.preflight
  <2>1. WellFormed(b)
    BY <1>2, <1>3, RestageSteersKeeps DEF Keeps
  <2>2. b.attempted = a.attempted /\ b.preflight = a.preflight
    <3>1. \E q : b = a \/ b = [a EXCEPT !.q = q]
        BY DEF RestageSteers
    <3> HIDE DEF b
    <3> QED BY <1>2, <3>1 DEF WellFormed, Controllers
  <2>3. Active(a) \in a.attempted \cup D \cup {NoTurn} /\ Barred(a, G, D, K)
    BY <1>1, <1>2, HeadIsTold DEF Bars
  <2>4. Bars(a, b, G, D, K)
    BY <1>2, <1>3, <2>3, RestageSteersBars
  <2> QED BY <1>1, <1>2, <2>1, <2>2, <2>4, BarsTransitive
<1> HIDE DEF b
<1>5. /\ e \in Controllers /\ e.q = b.q /\ e.recovery = b.recovery /\ e.hydrated = b.hydrated
      /\ e.startReq = NoTurn /\ e.attempted = b.attempted /\ e.stage = "none"
    BY <1>4, NullTypes DEF InvalidateStart, WellFormed, Controllers
<1>6. d = [e EXCEPT !.attempted = @ \ {c.preflight}, !.preflight = NoTurn,
                    !.interruptReq = NoTurn, !.local = NoTurn, !.owner = NoOwner,
                    !.dispatching = NoTurn, !.interrupting = NoTurn]
    BY Zenon DEF SuspendTransport, a, us, b, e
<1> HIDE DEF e, d
<1>7. /\ d.q = b.q /\ d.recovery = b.recovery /\ d.hydrated = b.hydrated
      /\ d.startReq = NoTurn /\ d.attempted = b.attempted \ {b.preflight}
      /\ d.preflight = NoTurn
    BY <1>4, <1>5, <1>6 DEF Controllers
<1>8. Active(d) = Active(b) /\ Unsent(d) \subseteq Unsent(b)
    BY <1>7, TurnsAssumption DEF Active, Unsent, Turns
<1>9. Barred(b, G, D, K)
    BY <1>4 DEF Bars
<1>10. Bars(b, d, G, D, K)
    BY <1>7, <1>8, <1>9, SameBars
<1>11. WellFormed(d)
    BY SuspendTransportKeeps DEF Keeps, d
<1>12. Bars(c, d, G, D, K)
    BY <1>4, <1>10, BarsTransitive
<1> QED BY <1>11, <1>12 DEF d

\* The record's runtime changes the link, and drops a lookup.
LEMMA RelinkBars ==
    ASSUME NEW c, WellFormed(c), NEW l, NEW o, NEW G, NEW D, NEW K, Barred(c, G, D, K)
    PROVE  /\ Bars(c, [c EXCEPT !.link = l], G, D, K)
           /\ Bars(c, [c EXCEPT !.link = l, !.lookup = o], G, D, K)
<1> DEFINE d == [c EXCEPT !.link = l]
           e == [c EXCEPT !.link = l, !.lookup = o]
           Same(x) == /\ x.q = c.q /\ x.recovery = c.recovery /\ x.hydrated = c.hydrated
                      /\ x.startReq = c.startReq /\ x.attempted = c.attempted
                      /\ x.preflight = c.preflight /\ x.stage = c.stage
<1>1. Same(d) /\ Same(e)
    BY DEF WellFormed, Controllers
<1> HIDE DEF d, e
<1>2. Bars(c, d, G, D, K) /\ Bars(c, e, G, D, K)
    BY <1>1 DEF Bars, Barred, StartsClear, Held, Open, Unsent, Recovering, Active
<1> QED BY <1>2 DEF d, e

-----------------------------------------------------------------------------
(* Client and Core agree.  L are the turns that run in Core or whose terminal *)
(* the client has yet to observe; v (a briefing) has the turns of which Core  *)
(* and the stream say nothing (silent), the prompts that Core will not hear   *)
(* of (never), and the starts refused for another turn (busy).                *)

\* A turn of this client at the head of the queue runs in Core, or its start is still
\* leased, or its outcome is being recovered.
HeadAgrees(c, L, v) ==
    Active(c) \in c.attempted \cap Locals =>
        \/ Active(c) \in L
        \/ c.local = Active(c)
        \/ Recovering(c) /\ c.recovery.turn \in {Active(c)} \cup v.never

\* The turn that refused the start in progress runs, or the client knows that it ended.
RefusalAgrees(c, L, v) ==
    \A x \in Turns : c.startReq # NoTurn /\ <<c.startReq, x>> \in v.busy =>
        x \in L \/ Received(c, x) \/ c.recovery.turn = c.startReq

Agrees(c, L, v) ==
    /\ HeadAgrees(c, L, v)
    /\ c.hydrated.turn \in L \cup {NoTurn}
    /\ c.local \in L \cup v.silent \cup {NoTurn}
    /\ RefusalAgrees(c, L, v)
    /\ NoRepeat(c.receipts)

\* Nobody spoke of a prompt that was never attempted.
Unheard(t, v) == t \in v.silent /\ \A x \in Turns : <<t, x>> \notin v.busy

\* The briefing is about this controller.
Briefed(c, v) ==
    /\ \A t \in Locals \ c.attempted : Unheard(t, v)
    /\ \A t, x : <<t, x>> \in v.busy => t \in v.never
    /\ c.startReq # NoTurn /\ (\E x \in Turns : <<c.startReq, x>> \in v.busy)
       => c.startReq = Active(c)

\* Core or the stream speaks of t: it was started, and unless it runs it ended before.
Proven(t, L, v) == t \in Turns /\ t \notin v.never /\ (t \in v.silent => t \in L)

\* The head of the queue, if it was never attempted, is one that nobody spoke of.
HeadUnheard(c, v) == Active(c) \notin c.attempted \cup {NoTurn} => Unheard(Active(c), v)

\* d differs from c in nothing that agreement reads, but that its head may be a turn
\* that was not attempted, or of another client.
Alike(c, d) ==
    /\ Active(d) = Active(c) \/ Active(d) \notin d.attempted \cap Locals
    /\ Active(d) \in d.attempted \cap Locals => Active(d) \in c.attempted
    /\ d.recovery.turn = c.recovery.turn
    /\ d.local = c.local
    /\ d.hydrated.turn \in {c.hydrated.turn, NoTurn}
    /\ d.startReq \in {c.startReq, NoTurn}
    /\ d.receipts = c.receipts

LEMMA AlikeAgrees ==
    ASSUME NEW c, NEW d, NEW L, NEW v, Agrees(c, L, v), Alike(c, d)
    PROVE  Agrees(d, L, v)
<1>1. HeadAgrees(d, L, v)
    BY DEF Agrees, HeadAgrees, Alike, Recovering
<1>2. RefusalAgrees(d, L, v)
    BY DEF Agrees, RefusalAgrees, Alike, Received
<1> QED BY <1>1, <1>2 DEF Agrees, Alike

\* More turns run, and the briefing says the same or more of them.
LEMMA AgreesGrows ==
    ASSUME NEW c, NEW L, NEW v, NEW M, NEW w, Agrees(c, L, v), L \subseteq M,
           v.silent \subseteq w.silent \cup M,
           v.never \subseteq w.never \/ c.local = Active(c),
           \A t, x : <<t, x>> \in w.busy => <<t, x>> \in v.busy \/ x \in M
    PROVE  Agrees(c, M, w)
<1>1. HeadAgrees(c, M, w)
    BY DEF Agrees, HeadAgrees
<1>2. RefusalAgrees(c, M, w)
    BY DEF Agrees, RefusalAgrees
<1> QED BY <1>1, <1>2 DEF Agrees

LEMMA UnheardHead ==
    ASSUME NEW c, NEW v, Briefed(c, v), NEW d, c.attempted \subseteq d.attempted,
           Active(d) \in d.attempted \cup Locals \cup {NoTurn}
    PROVE  HeadUnheard(d, v)
BY DEF Briefed, HeadUnheard

\* startTurn leases a prompt that nobody spoke of.
LEMMA StartAgrees ==
    ASSUME NEW c, WellFormed(c), NEW L, NEW v, Agrees(c, L, v), HeadUnheard(c, v), NEW t
    PROVE  Agrees(StartTurn(c, t), L, v)
<1> DEFINE d == StartTurn(c, t)
<1>1. CASE ~MayStart(c, t)
  <2>1. d = c
    BY <1>1 DEF StartTurn
  <2> QED BY <2>1
<1>2. CASE MayStart(c, t)
  <2>1. Active(c) = t /\ t \notin c.attempted /\ t # NoTurn
    BY <1>2 DEF MayStart
  <2>2. Unheard(t, v)
    BY <2>1 DEF HeadUnheard
  <2>3. /\ d.q = c.q /\ d.local = t /\ d.startReq = t /\ d.hydrated = c.hydrated
        /\ d.receipts = c.receipts
    BY <1>2 DEF StartTurn, WellFormed, Controllers
  <2> HIDE DEF d
  <2>4. HeadAgrees(d, L, v)
    BY <2>1, <2>3 DEF HeadAgrees, Active
  <2>5. RefusalAgrees(d, L, v)
    BY <2>2, <2>3 DEF RefusalAgrees, Unheard
  <2>6. Agrees(d, L, v)
    BY <2>2, <2>3, <2>4, <2>5 DEF Agrees, Unheard
  <2> QED BY <2>6 DEF d
<1> QED BY <1>1, <1>2

LEMMA AlikeThenStart ==
    ASSUME NEW c, NEW L, NEW v, Agrees(c, L, v), NEW d, WellFormed(d), Alike(c, d),
           HeadUnheard(d, v), NEW t
    PROVE  Agrees(StartTurn(d, t), L, v)
BY AlikeAgrees, StartAgrees

\* Nothing is started, and the head of the queue runs, was not attempted, or is not ours.
LEMMA RunningAgrees ==
    ASSUME NEW c, NEW L, NEW v, NEW d, NoRepeat(d.receipts),
           Active(d) \in L \/ Active(d) \notin d.attempted \cap Locals,
           d.hydrated.turn \in L \cup {NoTurn}, d.local \in L \cup v.silent \cup {NoTurn},
           d.startReq = NoTurn
    PROVE  Agrees(d, L, v)
BY DEF Agrees, HeadAgrees, RefusalAgrees

\* The acceptance of a turn that Core spoke of: the leased turn runs.
LEMMA AcceptAgrees ==
    ASSUME NEW c, WellFormed(c), Orderly(c), NEW L, NEW v, Agrees(c, L, v), Briefed(c, v),
           NEW t, Proven(t, L, v), NEW state \in {"running", "ended"}
    PROVE  LET d == AcceptLocalDispatch(c, t, state)
           IN  /\ Agrees(d, L, v) /\ Briefed(d, v) /\ WellFormed(d)
               /\ d.q = c.q /\ d.attempted = c.attempted
<1> DEFINE d == AcceptLocalDispatch(c, t, state)
           b == ClearRecoveryOf(c, t)
<1>0. t \in Turns /\ t # NoTurn
    BY TurnsAssumption DEF Proven, Turns
<1>1. WellFormed(d)
    BY <1>0, AcceptLocalDispatchKeeps DEF Keeps
<1>2. CASE c.local # t \/ ~Linked(c)
  <2>1. d = c
    BY <1>2 DEF AcceptLocalDispatch
  <2> QED BY <2>1
<1>3. CASE c.local = t /\ Linked(c)
  <2>1. /\ b.q = c.q /\ b.startReq = c.startReq /\ b.attempted = c.attempted
        /\ b.hydrated = c.hydrated /\ b.receipts = c.receipts
        /\ b.recovery = c.recovery \/ c.recovery.turn = t
        /\ WellFormed(b)
    <3>1. WellFormed(b)
        BY ClearRecoveryKeeps DEF Keeps
    <3> QED BY <3>1 DEF ClearRecoveryOf, ClearRecovery, WellFormed, Controllers
  <2>2. d = [b EXCEPT !.timedOut = Without(@, t), !.owner = [turn |-> t, state |-> state],
                      !.preflight = Without(@, t), !.local = NoTurn,
                      !.dispatching = Without(@, t)]
    BY <1>3, Zenon DEF AcceptLocalDispatch, b
  <2> HIDE DEF b
  <2>3. /\ d.q = c.q /\ d.startReq = c.startReq /\ d.attempted = c.attempted
        /\ d.hydrated = c.hydrated /\ d.receipts = c.receipts
        /\ d.recovery = c.recovery \/ c.recovery.turn = t
        /\ d.local = NoTurn
    BY <2>1, <2>2 DEF WellFormed, Controllers
  <2> HIDE DEF d
  <2>4. Active(d) = t /\ Active(c) = t
    BY <1>0, <1>3, <2>3 DEF Orderly, Leased, Active
  <2>5. t \in L
    BY <1>0, <1>3 DEF Agrees, Proven
  <2>6. HeadAgrees(d, L, v)
    BY <2>4, <2>5 DEF HeadAgrees
  <2>7. \A x \in Turns : <<c.startReq, x>> \in v.busy => c.startReq # t
    BY DEF Briefed, Proven
  <2>8. RefusalAgrees(d, L, v)
    BY <2>3, <2>7 DEF Agrees, RefusalAgrees, Received
  <2>9. Briefed(d, v)
    BY <2>3, <2>4 DEF Briefed
  <2>10. Agrees(d, L, v)
    BY <2>3, <2>6, <2>8 DEF Agrees
  <2> QED BY <1>1, <2>3, <2>9, <2>10 DEF d
<1> QED BY <1>2, <1>3

\* The FIFO advances to a turn that runs in Core, or to a prompt that nobody spoke of.
LEMMA ReleaseAgrees ==
    ASSUME NEW c, WellFormed(c), NEW t \in Turns, Active(c) = t, c.local = NoTurn,
           OneEach(c.q), Ids(c.q.pending) \subseteq Locals \ c.attempted,
           NEW L, NEW v, c.hydrated.turn \in L \cup {NoTurn}, NoRepeat(c.receipts),
           \A p \in Locals \ c.attempted : Unheard(p, v)
    PROVE  Agrees(ReleaseQueueTurn(c, t), L, v)
<1> DEFINE h == c.hydrated.turn
           inv == InvalidateStart(c)
           quiet == [inv EXCEPT !.interruptReq = NoTurn, !.q = Settle(@, t)]
           rel == ReleaseQueueTurn(c, t)
<1>1. /\ inv.q = c.q /\ WellFormed(inv) /\ inv.startReq = NoTurn /\ inv.stage = "none"
      /\ inv.local = NoTurn /\ inv.hydrated = c.hydrated /\ inv.attempted = c.attempted
      /\ inv.receipts = c.receipts
    BY InvalidateStartKeeps DEF InvalidateStart, WellFormed, Controllers, Keeps
<1>2. c.q \in Queues /\ Settle(c.q, t) \in Queues /\ h \in OptTurn
    BY SettleType DEF WellFormed, Controllers, HydratedTurns
<1> HIDE DEF inv
<1>3. /\ quiet \in Controllers /\ quiet.q = Settle(c.q, t) /\ quiet.startReq = NoTurn
      /\ quiet.stage = "none" /\ quiet.local = NoTurn /\ quiet.hydrated = c.hydrated
      /\ quiet.attempted = c.attempted /\ quiet.receipts = c.receipts
    BY <1>1, <1>2, NullTypes DEF WellFormed, Controllers
<1>4. WellFormed(quiet)
    BY <1>1, <1>3 DEF WellFormed, Controllers
<1>5. Active(quiet) # NoTurn => Active(quiet) \in Locals \ c.attempted
    BY <1>2, <1>3, SettleIds DEF Active
<1> HIDE DEF quiet
<1>6. CASE h # NoTurn /\ h # t
  <2> DEFINE q == RestoreActive(quiet.q, ObservedTurn(h), TRUE)
             a == AdoptForeground(quiet, h)
             i == IF c.hydrated.state = "interrupting" THEN h ELSE NoTurn
             d == [a EXCEPT !.interrupting = i]
  <2>1. h \in Turns /\ h \in L
    BY <1>2, <1>6 DEF OptTurn
  <2>2. q.active.id = h
    BY <1>3 DEF RestoreActive, ObservedTurn, Controllers, Queues
  <2>3. a = [quiet EXCEPT !.attempted = @ \cup {h}, !.q = q]
    BY DEF AdoptForeground
  <2> HIDE DEF q
  <2>4. /\ a.q = q /\ a.startReq = NoTurn /\ a.local = NoTurn
        /\ a.hydrated = c.hydrated /\ a.receipts = c.receipts
    BY <1>3, <2>3 DEF Controllers
  <2>5. WellFormed(a)
    BY <1>4, <2>1, AdoptForegroundKeeps DEF Keeps
  <2> HIDE DEF a, i
  <2>6. /\ d.q = a.q /\ d.startReq = NoTurn /\ d.local = NoTurn
        /\ d.hydrated = c.hydrated /\ d.receipts = c.receipts /\ d.composer = a.composer
    BY <2>4, <2>5 DEF WellFormed, Controllers
  <2>7. DOMAIN d = DOMAIN a
    OBVIOUS
  <2>8. rel = GiveBackInterrupted(d, t)
    BY <1>6, Zenon DEF ReleaseQueueTurn, quiet, inv, a, i, d, rel
  <2>9. TakeInterruptPrompt(d.q, t).active = d.q.active
    BY StashIds, <2>5, <2>6 DEF WellFormed, Controllers
  <2>10. {"q", "composer", "startReq", "local", "hydrated", "receipts"} \subseteq DOMAIN d
    BY <2>5, <2>7 DEF WellFormed, Controllers
  <2> HIDE DEF d
  <2>11. /\ rel.q.active = d.q.active /\ rel.startReq = NoTurn /\ rel.local = NoTurn
         /\ rel.hydrated = c.hydrated /\ rel.receipts = c.receipts
    BY <2>6, <2>8, <2>9, <2>10 DEF GiveBackInterrupted
  <2>12. Active(rel) = h
    BY <2>2, <2>4, <2>6, <2>11 DEF Active
  <2> HIDE DEF rel
  <2>13. Agrees(rel, L, v)
    BY <2>1, <2>11, <2>12, RunningAgrees
  <2> QED BY <2>13 DEF rel
<1>7. CASE h = NoTurn \/ h = t
  <2> DEFINE e == [quiet EXCEPT !.interrupting = Without(@, t)]
             d == GiveBackInterrupted(e, t)
  <2>1. Without(quiet.interrupting, t) \in OptTurn
    BY <1>3, WithoutType DEF WellFormed, Controllers
  <2>2. /\ e \in Controllers /\ e.startReq = NoTurn /\ e.hydrated = c.hydrated /\ e.local = NoTurn
        /\ e.receipts = c.receipts /\ e.q = quiet.q /\ e.attempted = c.attempted
    BY <1>3, <2>1 DEF Controllers
  <2>3. WellFormed(e)
    BY <1>4, <2>2 DEF WellFormed, Controllers
  <2>4. rel = StartTurn(d, Active(d))
    BY <1>7, Zenon DEF ReleaseQueueTurn, quiet, inv
  <2> HIDE DEF e
  <2>5. WellFormed(d)
    BY <2>3, GiveBackInterruptedKeeps DEF Keeps
  <2>6. /\ d.startReq = NoTurn /\ d.hydrated = c.hydrated /\ d.local = NoTurn
        /\ d.receipts = c.receipts /\ d.attempted = c.attempted
    BY <2>2 DEF GiveBackInterrupted, Controllers
  <2>7. Active(d) = Active(quiet)
    BY <2>2, <2>3, GiveBackRests DEF Rests, Active
  <2> HIDE DEF d
  <2>8. NoTurn \notin c.attempted
    BY TurnsAssumption DEF WellFormed, Controllers, Turns
  <2>9. Agrees(d, L, v)
    BY <1>5, <2>6, <2>7, <2>8, RunningAgrees
  <2>10. HeadUnheard(d, v)
    BY <1>5, <2>6, <2>7 DEF HeadUnheard
  <2> QED BY <2>4, <2>5, <2>9, <2>10, StartAgrees
<1> QED BY <1>6, <1>7

-----------------------------------------------------------------------------
(* Receipts and terminals *)

\* terminalReceipts never has to forget a turn to remember another.
EveryReceiptKept == IsFiniteSet(Turns) /\ Cardinality(Turns) <= ReceiptLimit

LEMMA AddReceiptKeepsAll ==
    ASSUME EveryReceiptKept, NEW s \in Seq(Turns), NoRepeat(s), NEW t \in Turns
    PROVE  /\ NoRepeat(AddReceipt(s, t))
           /\ \A i \in DOMAIN s : \E j \in DOMAIN AddReceipt(s, t) : AddReceipt(s, t)[j] = s[i]
           /\ \E j \in DOMAIN AddReceipt(s, t) : AddReceipt(s, t)[j] = t
<1>1. CASE \E i \in DOMAIN s : s[i] = t
    BY <1>1 DEF AddReceipt
<1>2. CASE ~(\E i \in DOMAIN s : s[i] = t)
  <2> DEFINE n == Len(s)
  <2>1. n \in Nat /\ DOMAIN s = 1..n
    OBVIOUS
  <2>2. n < ReceiptLimit
    <3> SUFFICES ASSUME ~(n < ReceiptLimit) PROVE FALSE
        OBVIOUS
    <3>1. IsFiniteSet(1..n) /\ Cardinality(1..n) = n
        BY <2>1, FS_Interval
    <3>2. /\ IsFiniteSet(Turns \ {t}) /\ Cardinality(Turns \ {t}) = Cardinality(Turns) - 1
          /\ Cardinality(Turns) \in Nat
        BY FS_RemoveElement, FS_CardinalityType DEF EveryReceiptKept
    <3>3. Cardinality(Turns \ {t}) < Cardinality(1..n)
        BY <2>1, <3>1, <3>2, ControllerAssumption DEF EveryReceiptKept
    <3>4. s \in [1..n -> Turns \ {t}]
        BY <1>2, <2>1
    <3> QED BY <2>1, <3>1, <3>2, <3>3, <3>4, FS_PigeonHole DEF NoRepeat
  <2>3. AddReceipt(s, t) = Append(s, t)
    BY <1>2, <2>2, ControllerAssumption DEF AddReceipt
  <2>4. /\ DOMAIN Append(s, t) = 1..(n + 1) /\ Append(s, t)[n + 1] = t
        /\ \A i \in 1..n : Append(s, t)[i] = s[i]
    OBVIOUS
  <2> HIDE DEF n
  <2>5. NoRepeat(Append(s, t))
    BY <1>2, <2>1, <2>4 DEF NoRepeat
  <2>6. \A i \in 1..n : i \in 1..(n + 1)
    BY <2>1
  <2> QED BY <2>1, <2>3, <2>4, <2>5, <2>6
<1> QED BY <1>1, <1>2

\* The terminal of the active turn: the FIFO advances.
LEMMA SettleActiveAgrees ==
    ASSUME EveryReceiptKept, NEW c, WellFormed(c), NEW t \in Turns, Active(c) = t,
           c.local \in {t, NoTurn}, OneEach(c.q), Ids(c.q.pending) \subseteq Locals \ c.attempted,
           NEW L, NEW v, c.hydrated.turn \in L \cup {NoTurn}, NoRepeat(c.receipts),
           \A p \in Locals \ c.attempted : Unheard(p, v)
    PROVE  Agrees(SettleTurn(c, t), L \ {t}, v)
<1>1. PICK d : Settling(c, d, t)
    BY SettlePrefix
<1> DEFINE r == RetireLocalDispatch(d, t)
<1>2. WellFormed(d) /\ d.local = c.local /\ d.q = c.q /\ d.attempted = c.attempted
    BY <1>1 DEF Settling
<1>3. /\ WellFormed(r) /\ r.q = c.q /\ r.hydrated = d.hydrated /\ r.receipts = d.receipts
      /\ r.attempted = c.attempted
    BY <1>2, RetireLocalDispatchRests
<1>4. r.local = NoTurn
    BY <1>2 DEF RetireLocalDispatch, WellFormed, Controllers
<1>5. c.receipts \in Seq(Turns) /\ d.receipts = AddReceipt(c.receipts, t)
    BY <1>1 DEF Settling, WellFormed, Controllers
<1>6. NoRepeat(r.receipts)
    BY <1>3, <1>5, AddReceiptKeepsAll
<1>7. r.hydrated.turn \in (L \ {t}) \cup {NoTurn}
    BY <1>1, <1>3, TurnsAssumption DEF Settling, NoHydrated, Turns
<1>8. SettleTurn(c, t) = ReleaseQueueTurn(r, t)
    BY <1>1 DEF Settling
<1> HIDE DEF r
<1>9. Active(r) = t
    BY <1>3 DEF Active
<1>10. Agrees(ReleaseQueueTurn(r, t), L \ {t}, v)
    BY <1>3, <1>4, <1>6, <1>7, <1>9, ReleaseAgrees
<1> QED BY <1>8, <1>10

\* The terminal of another turn: it is not ahead, and the client now knows its end.
LEMMA SettleOtherAgrees ==
    ASSUME EveryReceiptKept, NEW c, WellFormed(c), Orderly(c), NEW t \in Turns, Active(c) # t,
           NEW L, NEW v, Agrees(c, L, v), Briefed(c, v), Proven(t, L, v)
    PROVE  Agrees(SettleTurn(c, t), L \ {t}, v)
<1>0. t # NoTurn
    BY TurnsAssumption DEF Turns
<1>1. PICK d : Settling(c, d, t)
    BY SettlePrefix
<1>2. c.local # t
    BY <1>0 DEF Orderly, Leased
<1>3. /\ d.q = c.q /\ d.local = c.local /\ d.startReq = c.startReq /\ d.attempted = c.attempted
      /\ d.recovery = c.recovery \/ c.recovery.turn = t
      /\ d.receipts = AddReceipt(c.receipts, t)
      /\ (d.hydrated.turn = c.hydrated.turn /\ c.hydrated.turn # t) \/ d.hydrated.turn = NoTurn
    BY <1>1 DEF Settling, NoHydrated
<1>4. SettleTurn(c, t) = d
    BY <1>0, <1>1, <1>2, <1>3 DEF RetireLocalDispatch, ReleaseQueueTurn, Settling, Active
<1>5. c.receipts \in Seq(Turns) /\ NoRepeat(c.receipts)
    BY DEF WellFormed, Controllers, Agrees
<1>6. /\ NoRepeat(d.receipts) /\ Received(d, t)
      /\ \A x : Received(c, x) => Received(d, x)
    BY <1>3, <1>5, AddReceiptKeepsAll DEF Received
<1>7. HeadAgrees(d, L \ {t}, v)
    BY <1>0, <1>3 DEF Agrees, HeadAgrees, Active, Recovering, Proven
<1>8. RefusalAgrees(d, L \ {t}, v)
    <2> SUFFICES ASSUME NEW x \in Turns, d.startReq # NoTurn, <<d.startReq, x>> \in v.busy
                 PROVE  x \in L \ {t} \/ Received(d, x) \/ d.recovery.turn = d.startReq
        BY DEF RefusalAgrees
    <2>1. x \in L \/ Received(c, x) \/ c.recovery.turn = c.startReq
        BY <1>3 DEF Agrees, RefusalAgrees
    <2>2. c.startReq # t
        BY <1>3 DEF Briefed, Proven
    <2> QED BY <1>3, <1>6, <2>1, <2>2
<1>9. d.local \in (L \ {t}) \cup v.silent \cup {NoTurn}
    BY <1>2, <1>3 DEF Agrees
<1>10. d.hydrated.turn \in (L \ {t}) \cup {NoTurn}
    BY <1>3 DEF Agrees
<1> QED BY <1>4, <1>6, <1>7, <1>8, <1>9, <1>10 DEF Agrees

-----------------------------------------------------------------------------
(* The handlers, one by one *)

\* Only the head of the queue is new.
LEMMA HeadThenAgrees ==
    ASSUME NEW c, NEW L, NEW v, Agrees(c, L, v), NEW d, HeadAgrees(d, L, v),
           d.recovery.turn = c.recovery.turn, d.local = c.local,
           d.hydrated.turn \in {c.hydrated.turn, NoTurn},
           d.startReq \in {c.startReq, NoTurn}, d.receipts = c.receipts
    PROVE  Agrees(d, L, v)
<1>1. RefusalAgrees(d, L, v)
    BY DEF Agrees, RefusalAgrees, Received
<1> QED BY <1>1 DEF Agrees

LEMMA RestsAlike ==
    ASSUME NEW c, NEW d, Rests(c, d), d.startReq \in {c.startReq, NoTurn}
    PROVE  Alike(c, d) /\ Active(d) = Active(c) /\ d.attempted = c.attempted
BY DEF Rests, Alike, Active

\* Where every turn may run there is nothing to agree upon.
LEMMA AgreesBlindly ==
    ASSUME NEW c, WellFormed(c), NoRepeat(c.receipts), NEW v
    PROVE  Agrees(c, Turns, v)
<1>1. /\ c.hydrated.turn \in Turns \cup {NoTurn} /\ c.local \in Turns \cup {NoTurn}
      /\ c.attempted \subseteq Turns
    BY DEF WellFormed, Controllers, HydratedTurns, OptTurn
<1> QED BY <1>1 DEF Agrees, HeadAgrees, RefusalAgrees

\* Nor does the record's link matter.
LEMMA RelinkAgrees ==
    ASSUME NEW c, WellFormed(c), NEW l, NEW o, NEW L, NEW v, Agrees(c, L, v)
    PROVE  /\ Agrees([c EXCEPT !.link = l], L, v) /\ Alike(c, [c EXCEPT !.link = l])
           /\ Agrees([c EXCEPT !.link = l, !.lookup = o], L, v)
<1>1. Alike(c, [c EXCEPT !.link = l]) /\ Alike(c, [c EXCEPT !.link = l, !.lookup = o])
    BY DEF Alike, Active, WellFormed, Controllers
<1> QED BY <1>1, AlikeAgrees

LEMMA QuietAgrees ==
    ASSUME NEW c, WellFormed(c), NEW t \in Turns, NEW b \in BOOLEAN,
           NEW L, NEW v, Agrees(c, L, v)
    PROVE  /\ Agrees(MarkSent(c, t), L, v)
           /\ Agrees(Interrupt(c, b), L, v) /\ Agrees(InterruptReturned(c, t, b), L, v)
           /\ Agrees(SetAcceptedOwnerInteraction(c, b), L, v)
           /\ Agrees(StartUnconfirmed(c, t), L, v)
           /\ Agrees([c EXCEPT !.steering = ~@], L, v)
           /\ Agrees(InvalidateStart(c), L, v)
<1>1. /\ MarkSent(c, t).startReq = c.startReq /\ Interrupt(c, b).startReq = c.startReq
      /\ InterruptReturned(c, t, b).startReq = c.startReq
      /\ SetAcceptedOwnerInteraction(c, b).startReq = c.startReq
      /\ [c EXCEPT !.steering = ~@].startReq = c.startReq
    BY DEF MarkSent, Interrupt, InterruptReturned, SetAcceptedOwnerInteraction, WellFormed, Controllers
<1>2. StartUnconfirmed(c, t).startReq = NoTurn
  <2>1. \A d : "startReq" \in DOMAIN d => InvalidateStart(d).startReq = NoTurn
    BY DEF InvalidateStart
  <2>2. "startReq" \in DOMAIN c /\ "startReq" \in DOMAIN [c EXCEPT !.timedOut = t]
    BY DEF WellFormed, Controllers
  <2> QED BY <2>1, <2>2 DEF StartUnconfirmed
<1>3. Rests(c, InvalidateStart(c)) /\ InvalidateStart(c).startReq = NoTurn
    BY DEF Rests, InvalidateStart, WellFormed, Controllers
<1>4. /\ Alike(c, MarkSent(c, t)) /\ Alike(c, Interrupt(c, b))
      /\ Alike(c, InterruptReturned(c, t, b)) /\ Alike(c, SetAcceptedOwnerInteraction(c, b))
      /\ Alike(c, StartUnconfirmed(c, t)) /\ Alike(c, [c EXCEPT !.steering = ~@])
      /\ Alike(c, InvalidateStart(c))
    BY <1>1, <1>2, <1>3, QuietHandlersRest, RestsAlike
<1> QED BY <1>4, AlikeAgrees

\* A start that was refused settles: it was the head of the queue.
LEMMA StartRefusedAgrees ==
    ASSUME EveryReceiptKept, NEW c, WellFormed(c), Orderly(c), NEW t \in Turns, Active(c) = t,
           NEW L, NEW v, Agrees(c, L, v), Briefed(c, v)
    PROVE  /\ Agrees(StartRefused(c, t), L, v)
           /\ Agrees(SettleTurn(RetireLocalDispatch(c, t), t), L, v)
<1> DEFINE b == RetireLocalDispatch(c, t)
           e == [b EXCEPT !.composer = @ \cup {t}]
<1>1. /\ WellFormed(b) /\ b.q = c.q /\ b.hydrated = c.hydrated /\ b.receipts = c.receipts
      /\ b.attempted = c.attempted
    BY RetireLocalDispatchRests
<1>2. b.local = NoTurn
    BY DEF RetireLocalDispatch, WellFormed, Controllers, Orderly, Leased
<1> HIDE DEF b
<1>3. /\ e \in Controllers /\ e.q = b.q /\ e.hydrated = b.hydrated /\ e.receipts = b.receipts
      /\ e.attempted = b.attempted /\ e.local = b.local
    BY <1>1 DEF WellFormed, Controllers
<1>4. WellFormed(e)
    BY <1>1, <1>3 DEF WellFormed, Controllers
<1>5. StartRefused(c, t) \in {SettleTurn(b, t), SettleTurn(e, t)}
    BY Zenon DEF StartRefused, b, e
<1> HIDE DEF e
<1>6. Active(b) = t /\ Active(e) = t
    BY <1>1, <1>3 DEF Active
<1>7. /\ c.hydrated.turn \in L \cup {NoTurn} /\ NoRepeat(c.receipts) /\ OneEach(c.q)
      /\ Ids(c.q.pending) \subseteq Locals \ c.attempted
      /\ \A p \in Locals \ c.attempted : Unheard(p, v)
    BY DEF Agrees, Orderly, Fifo, Briefed
<1>8. Agrees(SettleTurn(b, t), L \ {t}, v)
    BY <1>1, <1>2, <1>6, <1>7, SettleActiveAgrees
<1>9. Agrees(SettleTurn(e, t), L \ {t}, v)
    BY <1>1, <1>2, <1>3, <1>4, <1>6, <1>7, SettleActiveAgrees
<1>10. Agrees(SettleTurn(b, t), L, v) /\ Agrees(SettleTurn(e, t), L, v)
    BY <1>8, <1>9, AgreesGrows
<1> QED BY <1>5, <1>10 DEF b

LEMMA StartRejectedAgrees ==
    ASSUME EveryReceiptKept, NEW c, WellFormed(c), Orderly(c), NEW t \in Turns,
           NEW L, NEW v, Agrees(c, L, v), Briefed(c, v)
    PROVE  Agrees(StartRejected(c, t), L, v)
<1>1. CASE StartCurrent(c, t)
    BY <1>1, StartRefusedAgrees DEF StartRejected, StartCurrent
<1>2. CASE ~StartCurrent(c, t)
  <2>1. TRUE \in BOOLEAN
    OBVIOUS
  <2>2. Agrees(InvalidateStart(c), L, v)
    BY <2>1, QuietAgrees
  <2> QED BY <1>2, <2>2 DEF StartRejected
<1> QED BY <1>1, <1>2

LEMMA PreflightNotReadyAgrees ==
    ASSUME EveryReceiptKept, NEW c, WellFormed(c), Orderly(c), NEW t \in Turns, Active(c) = t,
           NEW L, NEW v, Agrees(c, L, v), Briefed(c, v)
    PROVE  Agrees(PreflightNotReady(c, t), L, v)
<1>1. CASE t \in Reviews
    BY <1>1, StartRefusedAgrees DEF PreflightNotReady
<1>2. CASE t \notin Reviews
  <2> DEFINE a == [c EXCEPT !.attempted = @ \ {t}, !.preflight = NoTurn]
             d == PreflightNotReady(c, t)
  <2>1. /\ a \in Controllers /\ a.q = c.q /\ a.receipts = c.receipts /\ a.hydrated = c.hydrated
        /\ a.local = c.local /\ a.attempted = c.attempted \ {t}
    BY NullTypes DEF WellFormed, Controllers
  <2>2. d = InvalidateStart(RetireLocalDispatch(a, t))
    BY <1>2, Zenon DEF PreflightNotReady, a
  <2> HIDE DEF a
  <2>3. a.local \in {t, NoTurn}
    BY <2>1 DEF Orderly, Leased
  <2>4. /\ d.q = c.q /\ d.receipts = c.receipts /\ d.hydrated = c.hydrated /\ d.startReq = NoTurn
        /\ d.local = NoTurn /\ d.attempted = c.attempted \ {t}
    BY <2>1, <2>2, <2>3 DEF InvalidateStart, RetireLocalDispatch, Controllers
  <2> HIDE DEF d
  <2>5. Active(d) \notin d.attempted
    BY <2>4 DEF Active
  <2>6. NoRepeat(d.receipts) /\ d.hydrated.turn \in L \cup {NoTurn}
    BY <2>4 DEF Agrees
  <2>7. Agrees(d, L, v)
    BY <2>4, <2>5, <2>6, RunningAgrees
  <2> QED BY <2>7 DEF d
<1> QED BY <1>1, <1>2

LEMMA StartAckedAgrees ==
    ASSUME NEW c, WellFormed(c), Orderly(c), NEW t, NEW L, NEW v, Agrees(c, L, v), Briefed(c, v),
           Proven(t, L, v)
    PROVE  Agrees(StartAcked(c, t), L, v)
<1> DEFINE a == AcceptLocalDispatch(c, t, "running")
<1>1. t \in Turns /\ TRUE \in BOOLEAN
    BY DEF Proven
<1>2. Agrees(a, L, v) /\ WellFormed(a)
    BY AcceptAgrees
<1> HIDE DEF a
<1>3. Agrees(InvalidateStart(a), L, v) /\ Agrees(InvalidateStart(c), L, v)
    BY <1>1, <1>2, QuietAgrees
<1>4. StartAcked(c, t) \in {InvalidateStart(a), InvalidateStart(c)}
    BY Zenon DEF StartAcked, a
<1> QED BY <1>3, <1>4

\* A start refused for another turn, which takes its place unless its end is known.
LEMMA StartCollidedAgrees ==
    ASSUME NEW c, WellFormed(c), Orderly(c), NEW t \in Turns, Active(c) = t, c.startReq = t,
           NEW L, NEW v, Agrees(c, L, v), Briefed(c, v), NEW f \in Turns, <<t, f>> \in v.busy
    PROVE  Agrees(StartCollided(c, t, f), L, v)
<1> DEFINE b == InvalidateStart(RetireLocalDispatch(c, t))
           d == [b EXCEPT !.q = Settle(@, t), !.composer = @ \cup {t}]
<1>1. /\ WellFormed(b) /\ b.q = c.q /\ b.recovery = c.recovery /\ b.hydrated = c.hydrated
      /\ b.startReq = NoTurn /\ b.stage = "none" /\ b.local = NoTurn
      /\ b.receipts = c.receipts /\ b.attempted = c.attempted
  <2> DEFINE r == RetireLocalDispatch(c, t)
  <2>1. /\ WellFormed(r) /\ r.q = c.q /\ r.recovery = c.recovery /\ r.hydrated = c.hydrated
        /\ r.receipts = c.receipts /\ r.attempted = c.attempted
    BY RetireLocalDispatchRests
  <2>2. r.local = NoTurn
    BY DEF RetireLocalDispatch, WellFormed, Controllers, Orderly, Leased
  <2> HIDE DEF r
  <2>3. WellFormed(InvalidateStart(r))
    BY <2>1, InvalidateStartKeeps DEF Keeps
  <2>4. /\ InvalidateStart(r).q = r.q /\ InvalidateStart(r).recovery = r.recovery
        /\ InvalidateStart(r).hydrated = r.hydrated /\ InvalidateStart(r).startReq = NoTurn
        /\ InvalidateStart(r).stage = "none" /\ InvalidateStart(r).local = r.local
        /\ InvalidateStart(r).receipts = r.receipts /\ InvalidateStart(r).attempted = r.attempted
    BY <2>1 DEF InvalidateStart, WellFormed, Controllers
  <2> QED BY <2>1, <2>2, <2>3, <2>4 DEF r
<1> HIDE DEF b
<1>2. b.q \in Queues /\ Settle(b.q, t) \in Queues
    BY <1>1, SettleType DEF WellFormed, Controllers
<1>3. /\ d \in Controllers /\ d.recovery = c.recovery /\ d.hydrated = c.hydrated
      /\ d.startReq = NoTurn /\ d.stage = "none" /\ d.local = NoTurn
      /\ d.receipts = c.receipts /\ d.attempted = c.attempted /\ d.q = Settle(c.q, t)
    BY <1>1, <1>2 DEF WellFormed, Controllers
<1>4. WellFormed(d)
    BY <1>1, <1>3 DEF WellFormed, Controllers
<1>5. StartCollided(c, t, f) = IF Received(c, f) THEN StartTurn(d, Active(d)) ELSE AdoptForeground(d, f)
    BY Zenon DEF StartCollided, b, d
<1> HIDE DEF d
<1>6. t # NoTurn /\ f # NoTurn
    BY TurnsAssumption DEF Turns
<1>7. Active(d) # NoTurn => Active(d) \in Locals \ c.attempted
    BY <1>1, <1>2, <1>3, SettleIds DEF Active, Orderly, Fifo
<1>8. NoRepeat(d.receipts) /\ d.hydrated.turn \in L \cup {NoTurn}
    BY <1>3 DEF Agrees
<1>9. CASE Received(c, f)
  <2>1. NoTurn \notin c.attempted
    BY TurnsAssumption DEF WellFormed, Controllers, Turns
  <2>2. Active(d) \notin d.attempted
    BY <1>3, <1>7, <2>1
  <2>3. Agrees(d, L, v)
    BY <1>3, <1>8, <2>2, RunningAgrees
  <2>4. HeadUnheard(d, v)
    BY <1>3, <1>7 DEF HeadUnheard, Briefed
  <2> QED BY <1>4, <1>5, <1>9, <2>3, <2>4, StartAgrees
<1>10. CASE ~Received(c, f)
  <2> DEFINE a == AdoptForeground(d, f)
             q == RestoreActive(d.q, ObservedTurn(f), TRUE)
  <2>1. q.active.id = f
    BY <1>4 DEF RestoreActive, ObservedTurn, WellFormed, Controllers, Queues
  <2>2. a = [d EXCEPT !.attempted = @ \cup {f}, !.q = q]
    BY DEF AdoptForeground
  <2> HIDE DEF q
  <2>3. /\ a.q = q /\ a.recovery = c.recovery /\ a.hydrated = d.hydrated /\ a.startReq = NoTurn
        /\ a.local = NoTurn /\ a.receipts = d.receipts
    BY <1>3, <2>2 DEF Controllers
  <2>4. f \in L \/ (c.recovery.turn = t /\ t \in v.never)
    BY <1>6, <1>10 DEF Agrees, RefusalAgrees, Briefed
  <2> HIDE DEF a
  <2>5. HeadAgrees(a, L, v)
    BY <1>6, <2>1, <2>3, <2>4 DEF HeadAgrees, Recovering, Active
  <2>6. RefusalAgrees(a, L, v)
    BY <2>3 DEF RefusalAgrees
  <2>7. Agrees(a, L, v)
    BY <1>8, <2>3, <2>5, <2>6 DEF Agrees
  <2> QED BY <1>5, <1>10, <2>7 DEF a
<1> QED BY <1>9, <1>10

LEMMA EnqueueTurnAgrees ==
    ASSUME NEW c, WellFormed(c), Orderly(c), NEW t \in Locals, t \notin c.attempted,
           NEW L, NEW v, Agrees(c, L, v), Briefed(c, v)
    PROVE  Agrees(EnqueueTurn(c, t), L, v)
<1> DEFINE e == [id |-> t, text |-> TRUE]
           d == [c EXCEPT !.q = Enqueue(@, e)]
<1>1. e \in Entries /\ e.id = t /\ c.q \in Queues
    BY DEF Entries, Turns, WellFormed, Controllers
<1> HIDE DEF e
<1>2. Enqueue(c.q, e) \in Queues
    BY <1>1, EnqueueType
<1>3. /\ d \in Controllers /\ d.q = Enqueue(c.q, e) /\ d.recovery = c.recovery
      /\ d.hydrated = c.hydrated /\ d.startReq = c.startReq /\ d.attempted = c.attempted
      /\ d.local = c.local /\ d.receipts = c.receipts /\ d.stage = c.stage
      /\ d.steerReq = c.steerReq /\ d.steerOwner = c.steerOwner
    BY <1>2 DEF WellFormed, Controllers
<1>4. WellFormed(d)
    BY <1>3 DEF WellFormed
<1>5. EnqueueTurn(c, t) \in {d, StartTurn(d, t)}
    BY Zenon DEF EnqueueTurn, d, e
<1> HIDE DEF d
<1>6. Active(d) \in {Active(c), t}
    BY <1>1, <1>3 DEF Active, Enqueue, Queues
<1>7. Alike(c, d)
    BY <1>3, <1>6 DEF Alike
<1>8. Active(c) \in c.attempted \cup Locals \cup {NoTurn}
    BY DEF Orderly, Fifo
<1>9. HeadUnheard(d, v)
    BY <1>3, <1>6, <1>8, UnheardHead
<1>10. Agrees(d, L, v) /\ Agrees(StartTurn(d, t), L, v)
    BY <1>4, <1>7, <1>9, AlikeAgrees, AlikeThenStart
<1> QED BY <1>5, <1>10

LEMMA CancelSubmitAgrees ==
    ASSUME NEW c, WellFormed(c), NEW t \in Locals, NEW L, NEW v, Agrees(c, L, v)
    PROVE  Agrees(CancelQueuedPrompt(c, t), L, v) /\ Agrees(SubmitSteer(c, t), L, v)
<1>1. Agrees(CancelQueuedPrompt(c, t), L, v)
  <2> DEFINE d == CancelQueuedPrompt(c, t)
  <2>1. RemovePending(c.q, t).active = c.q.active
    BY DEF RemovePending, WellFormed, Controllers, Queues
  <2>2. d = [c EXCEPT !.q = RemovePending(c.q, t)]
    BY DEF CancelQueuedPrompt
  <2> HIDE DEF d
  <2>3. Alike(c, d)
    BY <2>1, <2>2 DEF Alike, Active, WellFormed, Controllers
  <2> QED BY <2>3, AlikeAgrees DEF d
<1>2. Alike(c, SubmitSteer(c, t))
    BY DEF Alike, Active, SubmitSteer, WellFormed, Controllers
<1> QED BY <1>1, <1>2, AlikeAgrees

\* Returned text takes the head of the queue only from a prompt that was never tried.
LEMMA RestageSteersAgrees ==
    ASSUME NEW c, WellFormed(c), NEW turns \in Seq(Turns), TurnsOf(turns) \subseteq Locals,
           TurnsOf(turns) \cap c.attempted = {},
           Active(c) \in c.attempted \cup Locals \cup {NoTurn}
    PROVE  LET d == RestageSteers(c, turns)
           IN  /\ WellFormed(d) /\ Alike(c, d) /\ d.attempted = c.attempted
               /\ Active(d) \in d.attempted \cup Locals \cup {NoTurn}
<1> DEFINE es == SteerEntries(turns)
           p == PrependPending(c.q, es)
           r == PrependPending(RestoreActive(c.q, es[1], TRUE), Tail(es))
           d == RestageSteers(c, turns)
           Goal(x) == /\ WellFormed(x) /\ Alike(c, x) /\ x.attempted = c.attempted
                      /\ Active(x) \in x.attempted \cup Locals \cup {NoTurn}
<1>1. WellFormed(d)
    BY RestageSteersKeeps DEF Keeps
<1>2. CASE turns = <<>>
  <2>1. d = c
    BY <1>2 DEF RestageSteers
  <2> QED BY <2>1 DEF Alike
<1>3. CASE turns # <<>> /\ Active(c) \in c.attempted
  <2>1. d = [c EXCEPT !.q = p]
    BY <1>3, Zenon DEF RestageSteers
  <2>2. p.active = c.q.active
    BY DEF PrependPending, WellFormed, Controllers, Queues
  <2> HIDE DEF p, d
  <2>3. Goal(d)
    BY <1>1, <2>1, <2>2 DEF Alike, Active, WellFormed, Controllers
  <2> QED BY <2>3 DEF d
<1>4. CASE turns # <<>> /\ Active(c) \notin c.attempted
  <2>1. d = [c EXCEPT !.q = r]
    BY <1>4, Zenon DEF RestageSteers
  <2>2. es[1].id = turns[1] /\ turns[1] \in TurnsOf(turns)
    BY <1>4 DEF SteerEntries, TurnsOf
  <2> HIDE DEF es
  <2>3. r.active.id = turns[1]
    BY <2>2 DEF PrependPending, RestoreActive, WellFormed, Controllers, Queues
  <2> HIDE DEF r, d
  <2>4. /\ d.q = r /\ d.recovery = c.recovery /\ d.hydrated = c.hydrated /\ d.local = c.local
        /\ d.startReq = c.startReq /\ d.attempted = c.attempted /\ d.receipts = c.receipts
    BY <2>1 DEF WellFormed, Controllers
  <2>5. Active(d) = turns[1] /\ turns[1] \in Locals /\ turns[1] \notin c.attempted
    BY <2>2, <2>3, <2>4 DEF Active
  <2>6. Goal(d)
    BY <1>1, <2>4, <2>5 DEF Alike
  <2> QED BY <2>6 DEF d
<1> QED BY <1>2, <1>3, <1>4

\* What becomes of steering leaves the head of the queue alone.
LEMMA FinishSteerAgrees ==
    ASSUME NEW c, WellFormed(c), NEW L, NEW v, Agrees(c, L, v), HeadUnheard(c, v)
    PROVE  Agrees(FinishSteer(c), L, v) /\ Agrees(RetrySteerDelivery(c), L, v)
<1> DEFINE k == IF ~c.steerUnknown /\ Received(c, c.steerOwner)
                THEN DropSteersOf(c.retained, c.steerOwner) ELSE c.retained
           d == [c EXCEPT !.steerReq = NoTurn, !.steerOwner = NoTurn, !.retained = k]
           e == [c EXCEPT !.steerUnknown = FALSE, !.steerReq = NoTurn, !.steerOwner = NoTurn]
           Same(x) == /\ x.q = c.q /\ x.recovery = c.recovery /\ x.hydrated = c.hydrated
                      /\ x.startReq = c.startReq /\ x.attempted = c.attempted
                      /\ x.local = c.local /\ x.receipts = c.receipts /\ x.stage = c.stage
                      /\ x.steerReq = NoTurn
<1>1. k \in SUBSET Steers
    BY DEF WellFormed, Controllers, DropSteersOf
<1> HIDE DEF k
<1>2. d \in Controllers /\ e \in Controllers
    BY <1>1, NullTypes DEF WellFormed, Controllers
<1>3. Same(d) /\ Same(e)
    BY DEF WellFormed, Controllers
<1>4. WellFormed(d) /\ WellFormed(e)
    BY <1>2, <1>3 DEF WellFormed
<1>5. FinishSteer(c) = StartTurn(d, Active(d)) /\ RetrySteerDelivery(c) = StartTurn(e, Active(e))
    BY Zenon DEF FinishSteer, RetrySteerDelivery, d, e, k
<1> HIDE DEF d, e
<1>6. Alike(c, d) /\ HeadUnheard(d, v) /\ Alike(c, e) /\ HeadUnheard(e, v)
    BY <1>3 DEF Alike, HeadUnheard, Active
<1> QED BY <1>4, <1>5, <1>6, AlikeThenStart

\* A steer that was not admitted is queued again; the text of the others stays away.
LEMMA SteerEndsAgrees ==
    ASSUME NEW c, WellFormed(c), Orderly(c), c.steerReq # NoTurn,
           NEW L, NEW v, Agrees(c, L, v), Briefed(c, v)
    PROVE  /\ Agrees(SteerNotAdmitted(c), L, v)
           /\ Agrees(SteerAccepted(c), L, v) /\ Agrees(SteerUnconfirmed(c), L, v)
           /\ Agrees(UpdateSteer(c, c.steerReq, "sent"), L, v)
           /\ Agrees(RetrySteerDelivery(c), L, v)
<1> DEFINE t == c.steerReq
           f == ForgetSteer(c, t)
           n == RestageSteers(f, <<t>>)
           a == UpdateSteer(c, t, "accepted")
           s == UpdateSteer(c, t, "sent")
           u == [c EXCEPT !.steerUnknown = TRUE]
           Same(d) == /\ d.q = c.q /\ d.recovery = c.recovery /\ d.hydrated = c.hydrated
                      /\ d.startReq = c.startReq /\ d.attempted = c.attempted
                      /\ d.local = c.local /\ d.receipts = c.receipts
<1>0. Active(c) \in c.attempted \cup Locals \cup {NoTurn}
    BY DEF Orderly, Fifo
<1>1. t \in Turns
    BY DEF WellFormed, Controllers, OptLocal, Turns
<1>2. WellFormed(f) /\ Same(f)
  <2>1. WellFormed(f)
    BY ForgetSteerKeeps DEF Keeps
  <2> QED BY <2>1 DEF ForgetSteer, WellFormed, Controllers
<1>3. WellFormed(a) /\ Same(a) /\ WellFormed(s) /\ Same(s)
  <2>1. WellFormed(a) /\ WellFormed(s)
    BY UpdateSteerKeeps DEF Keeps
  <2> QED BY <2>1 DEF UpdateSteer, WellFormed, Controllers
<1>4. WellFormed(u) /\ Same(u)
    BY DEF WellFormed, Controllers
<1>5. ASSUME NEW d, Same(d)
      PROVE  Agrees(d, L, v) /\ HeadUnheard(d, v) /\ Active(d) = Active(c) /\ Alike(c, d)
  <2>1. Alike(c, d) /\ Active(d) = Active(c)
    BY <1>5 DEF Alike, Active
  <2>2. HeadUnheard(d, v)
    BY <1>0, <1>5, <2>1, UnheardHead
  <2> QED BY <2>1, <2>2, AlikeAgrees
<1>6. SteerAccepted(c) = FinishSteer(a)
    BY DEF SteerAccepted
<1>7. SteerUnconfirmed(c) \in {FinishSteer(u), FinishSteer(c)}
    BY Zenon DEF SteerUnconfirmed
<1>8. SteerNotAdmitted(c) = FinishSteer(IF t \in RetainedTurns(c) THEN n ELSE c)
    BY Zenon DEF SteerNotAdmitted
<1>9. Same(c)
    OBVIOUS
<1> HIDE DEF f, a, u, s
<1>10. ASSUME t \in RetainedTurns(c) PROVE Agrees(FinishSteer(n), L, v)
  <2>1. <<t>> \in Seq(Turns) /\ TurnsOf(<<t>>) = {t}
    BY <1>1 DEF TurnsOf
  <2>2. t \in Locals /\ t \notin c.attempted
    BY <1>10 DEF Orderly, Fifo
  <2>3. Agrees(f, L, v) /\ Active(f) = Active(c) /\ f.attempted = c.attempted
    BY <1>2, <1>5
  <2>4. /\ WellFormed(n) /\ Alike(f, n) /\ n.attempted = f.attempted
        /\ Active(n) \in n.attempted \cup Locals \cup {NoTurn}
    BY <1>0, <1>2, <2>1, <2>2, <2>3, RestageSteersAgrees
  <2> HIDE DEF n
  <2>5. Agrees(n, L, v) /\ HeadUnheard(n, v)
    BY <2>3, <2>4, AlikeAgrees, UnheardHead
  <2> QED BY <2>4, <2>5, FinishSteerAgrees
<1> HIDE DEF n
<1>11. /\ Agrees(FinishSteer(c), L, v) /\ Agrees(FinishSteer(a), L, v)
       /\ Agrees(FinishSteer(u), L, v) /\ Agrees(s, L, v) /\ Agrees(RetrySteerDelivery(c), L, v)
    BY <1>3, <1>4, <1>5, <1>9, FinishSteerAgrees
<1> QED BY <1>6, <1>7, <1>8, <1>10, <1>11 DEF s

\* The turn that Core started with the text takes the head of the queue: it is not ours.
LEMMA SteerFellBackAgrees ==
    ASSUME NEW c, WellFormed(c), Orderly(c), NEW f \in Foreign,
           NEW L, NEW v, Agrees(c, L, v), Briefed(c, v)
    PROVE  Agrees(SteerFellBack(c, f), L, v)
<1> DEFINE g == ForgetSteer(c, c.steerReq)
           d == [g EXCEPT !.attempted = @ \cup {f}]
           superseded == Active(c) \notin {NoTurn, c.steerOwner, f} /\ Active(c) \in c.attempted
           q == IF Active(c) = c.steerOwner THEN Settle(c.q, c.steerOwner) ELSE c.q
           e == [id |-> f, text |-> TRUE]
           r == RestoreActive(q, e, TRUE)
           o == [turn |-> f, state |-> "running"]
           u == [d EXCEPT !.steerUnknown = TRUE]
           w == [d EXCEPT !.q = r, !.owner = o]
           Same(x) == /\ x.recovery = c.recovery /\ x.hydrated = c.hydrated
                      /\ x.startReq = c.startReq /\ x.local = c.local
                      /\ x.receipts = c.receipts /\ x.stage = c.stage
                      /\ x.steerReq = c.steerReq /\ x.steerOwner = c.steerOwner
<1>0. Active(c) \in c.attempted \cup Locals \cup {NoTurn}
    BY DEF Orderly, Fifo
<1>1. f \in Turns /\ f # NoTurn /\ f \notin Locals
    BY TurnsAssumption DEF Turns
<1>2. WellFormed(g) /\ g.q = c.q /\ Same(g) /\ g.attempted = c.attempted
  <2>1. WellFormed(g)
    BY ForgetSteerKeeps DEF Keeps
  <2> QED BY <2>1 DEF ForgetSteer, WellFormed, Controllers
<1>3. r \in Queues /\ r.active.id = f
  <2>1. q \in Queues
    BY SettleType DEF WellFormed, Controllers
  <2>2. e \in Entries /\ e.id = f
    BY <1>1 DEF Entries
  <2> HIDE DEF q, e
  <2>3. r.active.id = f
    BY <2>1, <2>2 DEF RestoreActive, Queues
  <2> QED BY <2>1, <2>2, <2>3, RestoreActiveType
<1>4. o \in Owners
    BY <1>1, NullTypes DEF Owners
<1> HIDE DEF g, r, o
<1>5. d \in Controllers /\ d.q = c.q /\ Same(d) /\ d.attempted = c.attempted \cup {f}
    BY <1>1, <1>2 DEF WellFormed, Controllers
<1>6. WellFormed(d)
    BY <1>2, <1>5 DEF WellFormed, Controllers
<1> HIDE DEF d
<1>7. /\ u \in Controllers /\ u.q = c.q /\ Same(u) /\ u.attempted = d.attempted
      /\ w \in Controllers /\ w.q = r /\ Same(w) /\ w.attempted = d.attempted
    BY <1>3, <1>4, <1>5 DEF Controllers
<1>8. WellFormed(u) /\ WellFormed(w)
    BY <1>5, <1>6, <1>7 DEF WellFormed, Controllers
<1>9. SteerFellBack(c, f) \in {FinishSteer(c), FinishSteer(d), FinishSteer(u), FinishSteer(w)}
    BY Zenon DEF SteerFellBack, d, g, q, r, o, e
<1> HIDE DEF u, w
<1>10. ASSUME NEW x, Same(x), x.attempted \in {c.attempted, c.attempted \cup {f}},
              x.q = c.q \/ (Active(x) = f /\ f \in x.attempted)
       PROVE  Agrees(x, L, v) /\ HeadUnheard(x, v)
  <2>1. Active(x) = Active(c) \/ (Active(x) = f /\ f \in x.attempted)
    BY <1>10 DEF Active
  <2>2. Alike(c, x)
    BY <1>1, <1>10, <2>1 DEF Alike
  <2>3. c.attempted \subseteq x.attempted /\ Active(x) \in x.attempted \cup Locals \cup {NoTurn}
    BY <1>0, <1>10, <2>1
  <2> QED BY <2>2, <2>3, AlikeAgrees, UnheardHead
<1>11. /\ Agrees(c, L, v) /\ HeadUnheard(c, v) /\ Agrees(d, L, v) /\ HeadUnheard(d, v)
       /\ Agrees(u, L, v) /\ HeadUnheard(u, v)
  <2>1. Agrees(c, L, v) /\ HeadUnheard(c, v)
    BY <1>0, UnheardHead
  <2>2. Same(d) /\ d.attempted = c.attempted \cup {f} /\ d.q = c.q
    BY <1>5
  <2>3. Same(u) /\ u.attempted = c.attempted \cup {f} /\ u.q = c.q
    BY <1>5, <1>7
  <2> HIDE DEF Same
  <2>4. Agrees(d, L, v) /\ HeadUnheard(d, v)
    BY <1>10, <2>2
  <2>5. Agrees(u, L, v) /\ HeadUnheard(u, v)
    BY <1>10, <2>3
  <2> QED BY <2>1, <2>4, <2>5
<1>12. Agrees(w, L, v) /\ HeadUnheard(w, v)
  <2>1. Active(w) = f
    BY <1>3, <1>7 DEF Active
  <2> QED BY <1>5, <1>7, <1>10, <2>1
<1>13. /\ Agrees(FinishSteer(c), L, v) /\ Agrees(FinishSteer(d), L, v)
       /\ Agrees(FinishSteer(u), L, v) /\ Agrees(FinishSteer(w), L, v)
    BY <1>6, <1>8, <1>11, <1>12, FinishSteerAgrees
<1> QED BY <1>9, <1>13

\* A turn that Core reports is installed when nothing is active: it runs, or is not ours.
LEMMA ObserveTurnStartedAgrees ==
    ASSUME NEW c, WellFormed(c), Orderly(c), NEW t, NEW L, NEW v, Agrees(c, L, v),
           Briefed(c, v), Proven(t, L, v)
    PROVE  Agrees(ObserveTurnStarted(c, t), L, v)
<1> DEFINE d == ConfirmTurnAccepted(c, t)
           a == AdoptForeground(d, t)
           q == RestoreActive(d.q, ObservedTurn(t), TRUE)
<1>1. /\ Agrees(d, L, v) /\ Briefed(d, v) /\ WellFormed(d)
      /\ d.q = c.q /\ d.attempted = c.attempted
    BY AcceptAgrees DEF ConfirmTurnAccepted
<1>2. \/ ObserveTurnStarted(c, t) = d
      \/ t \notin d.attempted /\ ObserveTurnStarted(c, t) = a
    BY Zenon DEF ObserveTurnStarted, AdoptObservedTurn, d, a
<1>3. t \in Turns
    BY DEF Proven
<1> HIDE DEF d
<1>4. ASSUME t \notin d.attempted PROVE Agrees(a, L, v)
  <2>1. q.active.id = t
    BY <1>1 DEF RestoreActive, ObservedTurn, WellFormed, Controllers, Queues
  <2>2. a = [d EXCEPT !.attempted = @ \cup {t}, !.q = q]
    BY DEF AdoptForeground
  <2> HIDE DEF q
  <2>3. /\ a.q = q /\ a.recovery = d.recovery /\ a.hydrated = d.hydrated
        /\ a.startReq = d.startReq /\ a.local = d.local /\ a.receipts = d.receipts
    BY <1>1, <2>2 DEF WellFormed, Controllers
  <2> HIDE DEF a
  <2>4. t \in L \/ t \notin Locals
    BY <1>1, <1>4 DEF Briefed, Unheard, Proven
  <2>5. HeadAgrees(a, L, v)
    BY <2>1, <2>3, <2>4 DEF HeadAgrees, Active
  <2> QED BY <1>1, <2>3, <2>5, HeadThenAgrees
<1> QED BY <1>1, <1>2, <1>4

\* The terminal of a turn, which no longer counts as running.
LEMMA ObserveTerminalAgrees ==
    ASSUME EveryReceiptKept, NEW c, WellFormed(c), Orderly(c), NEW t, Sure(c, t),
           NEW L, NEW v, Agrees(c, L, v), Briefed(c, v), Proven(t, L, v)
    PROVE  Agrees(ObserveTerminal(c, t), L \ {t}, v)
<1> DEFINE d == ConfirmTurnAccepted(c, t)
<1>1. Agrees(d, L, v) /\ Briefed(d, v) /\ WellFormed(d)
    BY AcceptAgrees DEF ConfirmTurnAccepted
<1>2. Orderly(d)
    BY ConfirmTurnAcceptedOrders DEF Orders
<1>3. ObserveTerminal(c, t) = SettleTurn(d, t) /\ t \in Turns
    BY DEF ObserveTerminal, Proven
<1> HIDE DEF d
<1>4. CASE Active(d) = t
  <2>1. d.local \in {t, NoTurn} /\ OneEach(d.q) /\ Ids(d.q.pending) \subseteq Locals \ d.attempted
    BY <1>2, <1>4 DEF Orderly, Leased, Fifo
  <2>2. d.hydrated.turn \in L \cup {NoTurn} /\ NoRepeat(d.receipts)
    BY <1>1 DEF Agrees
  <2>3. \A p \in Locals \ d.attempted : Unheard(p, v)
    BY <1>1 DEF Briefed
  <2> QED BY <1>1, <1>3, <1>4, <2>1, <2>2, <2>3, SettleActiveAgrees
<1>5. CASE Active(d) # t
    BY <1>1, <1>2, <1>3, <1>5, SettleOtherAgrees
<1> QED BY <1>4, <1>5

\* Text that Core returns goes ahead of what was never tried.
LEMMA ObserveSteerDroppedAgrees ==
    ASSUME NEW c, WellFormed(c), Orderly(c), NEW t, Sure(c, t), NEW given \in Seq(Turns),
           NoRepeat(given), NEW L, NEW v, Agrees(c, L, v), Briefed(c, v), Proven(t, L, v)
    PROVE  Agrees(ObserveSteerDropped(c, t, given), L, v)
<1> DEFINE d == ConfirmTurnAccepted(c, t)
           mine == {e \in d.retained : /\ e.owner = t /\ e.sent
                                       /\ \E i \in DOMAIN given : given[i] = e.turn}
           texts == {e.turn : e \in mine}
           returned == Keep(given, texts)
           left == d.retained \ mine
           u == d.steerUnknown /\ mine = {}
           f == [d EXCEPT !.retained = left, !.steerUnknown = u]
<1>1. /\ Agrees(d, L, v) /\ WellFormed(d) /\ d.q = c.q /\ d.attempted = c.attempted
    BY AcceptAgrees DEF ConfirmTurnAccepted
<1>2. ObserveSteerDropped(c, t, given) = RestageSteers(f, returned)
    BY Zenon DEF ObserveSteerDropped, f, left, u, returned, texts, mine, d
<1>3. d.retained = c.retained /\ Orderly(d)
    BY ConfirmTurnAcceptedOrders DEF Orders
<1>4. texts \subseteq Locals \ d.attempted
    BY <1>3 DEF Orderly, Fifo, RetainedTurns
<1> HIDE DEF d, texts
<1>5. returned \in Seq(Turns) /\ TurnsOf(returned) \subseteq texts
    BY KeepType, KeepDistinct DEF NoRepeat, TurnsOf
<1> HIDE DEF returned
<1>6. left \in SUBSET Steers /\ u \in BOOLEAN
    BY <1>1 DEF WellFormed, Controllers
<1> HIDE DEF left, u
<1>7. /\ f \in Controllers /\ f.q = d.q /\ f.recovery = d.recovery /\ f.hydrated = d.hydrated
      /\ f.startReq = d.startReq /\ f.attempted = d.attempted /\ f.receipts = d.receipts
      /\ f.local = d.local /\ f.stage = d.stage
      /\ f.steerReq = d.steerReq /\ f.steerOwner = d.steerOwner
    BY <1>1, <1>6 DEF WellFormed, Controllers
<1>8. WellFormed(f)
    BY <1>1, <1>7 DEF WellFormed, Controllers
<1> HIDE DEF f
<1>9. Alike(d, f) /\ Active(f) = Active(d)
    BY <1>7 DEF Alike, Active
<1>10. Active(f) \in f.attempted \cup Locals \cup {NoTurn}
    BY <1>3, <1>7, <1>9 DEF Orderly, Fifo
<1>11. Alike(f, RestageSteers(f, returned))
    BY <1>4, <1>5, <1>7, <1>8, <1>10, RestageSteersAgrees
<1> QED BY <1>1, <1>2, <1>9, <1>11, AlikeAgrees

\* The head of the queue is being recovered.
LEMMA RecoveryAgrees ==
    ASSUME NEW c, NEW d, NEW L, NEW v, Agrees(c, L, v), Briefed(c, v),
           d.q = c.q, d.hydrated = c.hydrated, d.startReq = c.startReq, d.local = c.local,
           d.receipts = c.receipts, Active(c) # NoTurn, d.recovery.turn = Active(c)
    PROVE  Agrees(d, L, v)
<1>1. HeadAgrees(d, L, v)
    BY DEF HeadAgrees, Recovering, Active
<1>2. RefusalAgrees(d, L, v)
    BY DEF RefusalAgrees, Briefed
<1> QED BY <1>1, <1>2 DEF Agrees

LEMMA RetryTurnRecoveryAgrees ==
    ASSUME NEW c, WellFormed(c), NEW L, NEW v, Agrees(c, L, v), Briefed(c, v)
    PROVE  Agrees(RetryTurnRecovery(c), L, v)
<1> DEFINE d == RetryTurnRecovery(c)
<1>1. CASE ~Linked(c) \/ Active(c) = NoTurn \/ c.recovery.phase = "checking"
  <2>1. d = c
    BY <1>1 DEF RetryTurnRecovery
  <2> QED BY <2>1
<1>2. CASE ~(~Linked(c) \/ Active(c) = NoTurn \/ c.recovery.phase = "checking")
  <2>1. /\ d.q = c.q /\ d.hydrated = c.hydrated /\ d.startReq = c.startReq
        /\ d.local = c.local /\ d.receipts = c.receipts /\ d.recovery.turn = Active(c)
    BY <1>2 DEF RetryTurnRecovery, WellFormed, Controllers
  <2> HIDE DEF d
  <2>2. Agrees(d, L, v)
    BY <1>2, <2>1, RecoveryAgrees
  <2> QED BY <2>2 DEF d
<1> QED BY <1>1, <1>2

\* An answer says that the turn runs, or settles it, or leaves it in recovery.
LEMMA LookupReturnedAgrees ==
    ASSUME EveryReceiptKept, NEW c, WellFormed(c), Orderly(c), NEW t \in Turns, NEW result,
           NEW L, NEW v, Agrees(c, L, v), Briefed(c, v),
           Active(c) = t /\ result \in {"active", "interrupting"} => t \in L
    PROVE  Agrees(LookupReturned(c, t, result), L, v)
<1> DEFINE d == [c EXCEPT !.lookup = NoTurn]
           p == [turn |-> t, phase |-> result]
           e == [d EXCEPT !.recovery = p]
           live == result \in {"active", "interrupting"}
           a == InvalidateStart(ClearRecovery(d))
           s == IF live THEN "running" ELSE "ended"
           b == AcceptLocalDispatch(a, t, s)
           i == IF result = "interrupting" THEN t ELSE NoTurn
           f == [b EXCEPT !.interruptReq = NoTurn, !.interrupting = i]
<1>1. /\ WellFormed(d) /\ d.q = c.q /\ d.recovery = c.recovery /\ d.hydrated = c.hydrated
      /\ d.startReq = c.startReq /\ d.attempted = c.attempted /\ d.local = c.local
      /\ d.receipts = c.receipts
  <2>1. d \in Controllers
    BY NullTypes DEF WellFormed, Controllers
  <2> QED BY <2>1 DEF WellFormed, Controllers
<1>2. /\ e.q = c.q /\ e.recovery.turn = t /\ e.hydrated = c.hydrated
      /\ e.startReq = c.startReq /\ e.local = c.local /\ e.receipts = c.receipts
    BY DEF WellFormed, Controllers
<1> HIDE DEF d, e
<1>3. Agrees(d, L, v)
  <2>1. Alike(c, d)
    BY <1>1 DEF Alike, Active
  <2> QED BY <2>1, AlikeAgrees
<1>4. t # NoTurn
    BY TurnsAssumption DEF Turns
<1>5. Active(c) = t => Agrees(e, L, v)
    BY <1>2, <1>4, RecoveryAgrees
<1>6. /\ WellFormed(a) /\ a.q = c.q /\ a.hydrated = c.hydrated /\ a.startReq = NoTurn
      /\ a.attempted = c.attempted /\ a.local = c.local /\ a.receipts = c.receipts
  <2>1. WellFormed(ClearRecovery(d))
    BY <1>1, ClearRecoveryKeeps DEF Keeps
  <2>2. WellFormed(a)
    BY <2>1, InvalidateStartKeeps DEF Keeps
  <2> QED BY <1>1, <2>2 DEF InvalidateStart, ClearRecovery, WellFormed, Controllers
<1> HIDE DEF a
<1>7. s \in {"running", "ended"}
    OBVIOUS
<1> HIDE DEF s
<1>8. /\ WellFormed(b) /\ b.q = c.q /\ b.hydrated = c.hydrated /\ b.startReq = NoTurn
      /\ b.attempted = c.attempted /\ b.local \in {c.local, NoTurn} /\ b.receipts = c.receipts
  <2>1. WellFormed(b)
    BY <1>6, <1>7, AcceptLocalDispatchKeeps DEF Keeps
  <2> QED BY <1>6, <2>1 DEF AcceptLocalDispatch, ClearRecoveryOf, ClearRecovery, WellFormed, Controllers
<1> HIDE DEF b
<1>9. i \in OptTurn
    BY NullTypes
<1> HIDE DEF i
<1>10. /\ f \in Controllers /\ f.q = c.q /\ f.hydrated = c.hydrated /\ f.startReq = NoTurn
       /\ f.attempted = c.attempted /\ f.stage = b.stage /\ f.receipts = c.receipts
       /\ f.local = b.local /\ f.steerReq = b.steerReq /\ f.steerOwner = b.steerOwner
    BY <1>8, <1>9, NullTypes DEF WellFormed, Controllers
<1>11. WellFormed(f)
    BY <1>8, <1>10 DEF WellFormed, Controllers
<1> HIDE DEF f
<1>12. ApplyRecoveredState(d, t, result) = IF live THEN f ELSE SettleTurn(f, t)
    BY Zenon DEF ApplyRecoveredState, f, b, a, i, s
<1>13. \/ LookupReturned(c, t, result) = d
       \/ Active(c) = t /\ LookupReturned(c, t, result) = e
       \/ Active(c) = t /\ LookupReturned(c, t, result) = ApplyRecoveredState(d, t, result)
    BY Zenon DEF LookupReturned, d, e, p
<1>14. /\ c.hydrated.turn \in L \cup {NoTurn} /\ NoRepeat(c.receipts)
       /\ c.local \in L \cup v.silent \cup {NoTurn}
    BY DEF Agrees
<1>15. ASSUME Active(c) = t, live PROVE Agrees(f, L, v)
  <2>1. Active(f) \in L
    BY <1>10, <1>15 DEF Active
  <2> QED BY <1>8, <1>10, <1>14, <2>1, RunningAgrees
<1>16. ASSUME Active(c) = t PROVE Agrees(SettleTurn(f, t), L, v)
  <2>1. Active(f) = t /\ f.local \in {t, NoTurn}
    BY <1>8, <1>10, <1>16 DEF Orderly, Leased, Active
  <2>2. OneEach(f.q) /\ Ids(f.q.pending) \subseteq Locals \ f.attempted
    BY <1>10 DEF Orderly, Fifo
  <2>3. \A x \in Locals \ f.attempted : Unheard(x, v)
    BY <1>10 DEF Briefed
  <2>4. f.hydrated.turn \in L \cup {NoTurn} /\ NoRepeat(f.receipts)
    BY <1>10, <1>14
  <2>5. Agrees(SettleTurn(f, t), L \ {t}, v)
    BY <1>11, <2>1, <2>2, <2>3, <2>4, SettleActiveAgrees
  <2> QED BY <2>5, AgreesGrows
<1> QED BY <1>3, <1>5, <1>12, <1>13, <1>15, <1>16

\* Going on without a turn lets it go.
LEMMA ContinueWithoutTurnAgrees ==
    ASSUME NEW c, WellFormed(c), Orderly(c), Active(c) # NoTurn,
           NEW L, NEW v, Agrees(c, L, v), Briefed(c, v)
    PROVE  Agrees(ContinueWithoutTurn(c), L, v)
<1> DEFINE d == Continuing(c)
           t == Active(c)
<1>1. t \in Turns
    BY ActiveType DEF WellFormed
<1>2. /\ WellFormed(d) /\ Active(d) = t /\ d.hydrated = c.hydrated /\ d.local = NoTurn
      /\ d.q.active = c.q.active /\ d.q.pending = c.q.pending
      /\ d.attempted = c.attempted /\ d.receipts = c.receipts
    BY ContinuingOrders
<1>3. ContinueWithoutTurn(c) = ReleaseQueueTurn(d, t)
    BY Zenon DEF ContinueWithoutTurn, Continuing
<1> HIDE DEF d
<1>4. OneEach(d.q) /\ Ids(d.q.pending) \subseteq Locals \ d.attempted
    BY <1>2 DEF Orderly, Fifo, OneEach
<1>5. /\ d.hydrated.turn \in L \cup {NoTurn} /\ NoRepeat(d.receipts)
      /\ \A p \in Locals \ d.attempted : Unheard(p, v)
    BY <1>2 DEF Agrees, Briefed
<1> HIDE DEF t
<1>6. Agrees(ReleaseQueueTurn(d, t), L, v)
    BY <1>1, <1>2, <1>4, <1>5, ReleaseAgrees
<1> QED BY <1>3, <1>6

\* Hydrate says which turn is live: it holds the queue, or the turn at its head runs too,
\* or that turn is looked up.
LEMMA ReconcileFromHydrateAgrees ==
    ASSUME NEW c, WellFormed(c), Orderly(c), Linked(c), NEW snap, NEW preserve,
           preserve \/ c.local = NoTurn, \A x \in ServerForeground(snap) : Sure(c, x),
           NoRepeat(c.receipts), c.startReq # NoTurn => c.startReq \in c.attempted,
           NEW L, NEW v, Briefed(c, v),
           \A x \in Turns : /\ snap[x] \in {"active", "interrupting"} => x \in L
                            /\ snap[x] = "absent" => x \in L \cup v.silent
                            /\ snap[x] \in {"active", "interrupting", "absent", "done"}
    PROVE  Agrees(ReconcileFromHydrate(c, snap, preserve), L, v)
<1> DEFINE fg == HydratedForeground(snap)
           d == Reconciling(c, snap, preserve)
           t == Active(c)
           i == InvalidateStart(d)
           a == AcceptLocalDispatch(i, t, "running")
           z == ReconcileEnded(d, t)
           u == AcceptLocalDispatch(i, t, "ended")
<1>1. /\ WellFormed(d) /\ Orderly(d) /\ Linked(d) /\ Active(d) = t /\ d.hydrated = fg
      /\ fg.turn = NoTurn \/ fg.turn \in ServerForeground(snap)
      /\ d.attempted = c.attempted
    BY ReconcilingOrders DEF Orders
<1>2. /\ d.startReq = c.startReq /\ d.recovery = NoRecovery /\ d.local \in {c.local, NoTurn}
      /\ d.receipts = c.receipts
    BY ReconcilingStart, ReconcilingFields
<1>3. fg.turn \in L \cup {NoTurn}
    BY <1>1 DEF ServerForeground
<1>4. fg.turn # NoTurn => fg.turn \in Turns
    BY <1>1 DEF ServerForeground
<1>5. ReconcileFromHydrate(c, snap, preserve) =
         IF fg.turn \notin {NoTurn, t} /\ t \notin c.attempted
         THEN AdoptForeground(i, fg.turn)
         ELSE IF t = NoTurn \/ t \notin c.attempted THEN d
         ELSE IF snap[t] # "absent" THEN ReconcileActive(d, t, snap[t])
         ELSE RetryTurnRecovery(d)
    BY Zenon DEF ReconcileFromHydrate, Reconciling
<1> HIDE DEF d, fg
<1>6. /\ WellFormed(i) /\ i.q = d.q /\ i.startReq = NoTurn
      /\ i.hydrated = fg /\ i.attempted = c.attempted /\ i.local = d.local
      /\ i.receipts = c.receipts
    BY <1>1, <1>2, InvalidateStartKeeps DEF Keeps, InvalidateStart, WellFormed, Controllers
<1>7. d.local # NoTurn => d.local = t /\ t \in c.attempted
    BY <1>1 DEF Orderly, Leased
<1>8. ASSUME NEW x, WellFormed(x), x.local = NoTurn, x.startReq = NoTurn, x.hydrated = fg,
             x.receipts = c.receipts, fg.turn # NoTurn
      PROVE  Agrees(AdoptForeground(x, fg.turn), L, v)
  <2> DEFINE y == AdoptForeground(x, fg.turn)
             q == RestoreActive(x.q, ObservedTurn(fg.turn), TRUE)
  <2>1. q.active.id = fg.turn
    BY <1>8 DEF RestoreActive, ObservedTurn, WellFormed, Controllers, Queues
  <2>2. y = [x EXCEPT !.attempted = @ \cup {fg.turn}, !.q = q]
    BY DEF AdoptForeground
  <2> HIDE DEF q
  <2>3. /\ y.q = q /\ y.hydrated = fg /\ y.startReq = NoTurn /\ y.local = NoTurn
        /\ y.receipts = c.receipts
    BY <1>8, <2>2 DEF WellFormed, Controllers
  <2> HIDE DEF y
  <2>4. Active(y) \in L
    BY <1>3, <1>8, <2>1, <2>3 DEF Active
  <2>5. Agrees(y, L, v)
    BY <1>3, <2>3, <2>4, RunningAgrees
  <2> QED BY <2>5 DEF y
<1> HIDE DEF i
<1>9. CASE fg.turn \notin {NoTurn, t} /\ t \notin c.attempted
  <2>1. i.local = NoTurn
    BY <1>6, <1>7, <1>9
  <2> QED BY <1>5, <1>6, <1>8, <1>9, <2>1
<1>10. CASE ~(fg.turn \notin {NoTurn, t} /\ t \notin c.attempted) /\ (t = NoTurn \/ t \notin c.attempted)
  <2>1. NoTurn \notin c.attempted
    BY TurnsAssumption DEF WellFormed, Controllers, Turns
  <2>2. t \notin c.attempted /\ d.local = NoTurn
    BY <1>7, <1>10, <2>1
  <2>3. HeadAgrees(d, L, v)
    BY <1>1, <2>2 DEF HeadAgrees
  <2>4. RefusalAgrees(d, L, v)
    BY <1>2, <2>2 DEF RefusalAgrees, Briefed
  <2>5. Agrees(d, L, v)
    BY <1>1, <1>2, <1>3, <2>2, <2>3, <2>4 DEF Agrees
  <2> QED BY <1>5, <1>10, <2>5
<1>11. CASE t # NoTurn /\ t \in c.attempted /\ snap[t] # "absent"
  <2>1. t \in Turns
    BY <1>11, ActiveType DEF WellFormed
  <2>2. ReconcileActive(d, t, snap[t]) =
            IF snap[t] # "done" THEN a
            ELSE IF fg.turn \notin {NoTurn, t} THEN AdoptForeground(z, fg.turn) ELSE z
    <3>1. CASE snap[t] = "done"
        BY <1>1, <3>1, Zenon DEF ReconcileActive, ReconcileEnded, z
    <3>2. CASE snap[t] # "done"
        BY <3>2, Zenon DEF ReconcileActive, a, i
    <3> QED BY <3>1, <3>2
  <2>3. ASSUME NEW s \in {"running", "ended"}
        PROVE  LET x == AcceptLocalDispatch(i, t, s)
               IN  /\ WellFormed(x) /\ x.q = d.q /\ x.startReq = NoTurn /\ x.local = NoTurn
                   /\ x.hydrated = fg /\ x.receipts = c.receipts
    <3> DEFINE x == AcceptLocalDispatch(i, t, s)
    <3>1. WellFormed(x)
        BY <1>6, AcceptLocalDispatchKeeps DEF Keeps
    <3>2. Linked(i)
        BY <1>1 DEF Linked, InvalidateStart, WellFormed, Controllers, i
    <3>3. i.local # t => i.local = NoTurn
        BY <1>6, <1>7
    <3>4. x.local = NoTurn
        BY <1>6, <3>2, <3>3 DEF AcceptLocalDispatch, ClearRecoveryOf, ClearRecovery, WellFormed, Controllers
    <3>5. /\ x.q = i.q /\ x.startReq = i.startReq /\ x.hydrated = i.hydrated
          /\ x.receipts = i.receipts
        BY <1>6 DEF AcceptLocalDispatch, ClearRecoveryOf, ClearRecovery, WellFormed, Controllers
    <3> HIDE DEF x
    <3>6. /\ WellFormed(x) /\ x.q = d.q /\ x.startReq = NoTurn /\ x.local = NoTurn
          /\ x.hydrated = fg /\ x.receipts = c.receipts
        BY <1>6, <3>1, <3>4, <3>5
    <3> QED BY <3>6 DEF x
  <2>4. /\ a.q = d.q /\ a.startReq = NoTurn /\ a.local = NoTurn /\ a.hydrated = fg
        /\ a.receipts = c.receipts
    BY <2>3
  <2>5. /\ WellFormed(u) /\ u.startReq = NoTurn /\ u.local = NoTurn
        /\ u.receipts = c.receipts
    BY <2>3
  <2> HIDE DEF a
  <2>6. snap[t] # "done" => Agrees(a, L, v)
    <3>1. Active(a) = t /\ (snap[t] # "done" => t \in L)
        BY <1>1, <1>11, <2>1, <2>4 DEF Active
    <3> QED BY <1>3, <2>4, <3>1, RunningAgrees
  <2>7. WellFormed(z) /\ z.hydrated = fg /\ Active(z) \notin z.attempted
    BY <1>1, <2>1, ReconcileEndedOrders
  <2>8. z.startReq = NoTurn /\ z.local = NoTurn /\ z.receipts = c.receipts
    <3> DEFINE o == IF u.owner.turn = t THEN [u.owner EXCEPT !.state = "ended"] ELSE u.owner
               q == Settle(u.q, t)
    <3>1. z = [u EXCEPT !.owner = o, !.q = q]
        BY DEF ReconcileEnded, i
    <3> HIDE DEF u, z, o, q
    <3> QED BY <2>5, <3>1 DEF WellFormed, Controllers
  <2> HIDE DEF z
  <2>9. fg.turn \notin {NoTurn, t} => Agrees(AdoptForeground(z, fg.turn), L, v)
    BY <1>8, <2>7, <2>8
  <2>10. Agrees(z, L, v)
    BY <1>3, <2>7, <2>8, RunningAgrees
  <2>11. Agrees(ReconcileActive(d, t, snap[t]), L, v)
    BY <2>2, <2>6, <2>9, <2>10
  <2> QED BY <1>5, <1>11, <2>11
<1>12. CASE t # NoTurn /\ t \in c.attempted /\ snap[t] = "absent"
  <2> DEFINE r == RetryTurnRecovery(d)
  <2>1. t \in Turns
    BY <1>12, ActiveType DEF WellFormed
  <2>2. /\ r.q = d.q /\ r.startReq = c.startReq /\ r.local = d.local /\ r.hydrated = fg
        /\ r.receipts = c.receipts /\ r.recovery.turn = t
    BY <1>1, <1>2, <1>12 DEF RetryTurnRecovery, NoRecovery, WellFormed, Controllers
  <2> HIDE DEF r
  <2>3. Active(r) = t
    BY <1>1, <2>2 DEF Active
  <2>4. HeadAgrees(r, L, v)
    BY <1>12, <2>2, <2>3 DEF HeadAgrees, Recovering
  <2>5. RefusalAgrees(r, L, v)
    BY <2>2 DEF RefusalAgrees, Briefed
  <2>6. r.local \in L \cup v.silent \cup {NoTurn}
    BY <1>7, <1>12, <2>1, <2>2
  <2>7. Agrees(r, L, v)
    BY <1>3, <2>2, <2>4, <2>5, <2>6 DEF Agrees
  <2> QED BY <1>5, <1>12, <2>7 DEF r
<1> QED BY <1>9, <1>10, <1>11, <1>12

\* Without a transport every turn may run.
LEMMA SuspendTransportAgrees ==
    ASSUME NEW c, WellFormed(c), NEW L, NEW v, Agrees(c, L, v), Orderly(c)
    PROVE  Agrees(SuspendTransport(c), Turns, v)
<1> DEFINE a == [c EXCEPT !.retained = {}, !.steerReq = NoTurn,
                          !.steerOwner = NoTurn, !.steerUnknown = FALSE]
           b == RestageSteers(a, UnsentSteers(c))
           e == InvalidateStart(b)
           d == SuspendTransport(c)
<1>1. a \in Controllers /\ a.receipts = c.receipts
    BY NullTypes DEF WellFormed, Controllers
<1>2. d = [e EXCEPT !.attempted = @ \ {c.preflight}, !.preflight = NoTurn,
                    !.interruptReq = NoTurn, !.local = NoTurn, !.owner = NoOwner,
                    !.dispatching = NoTurn, !.interrupting = NoTurn]
    BY Zenon DEF SuspendTransport, a, b, e
<1> HIDE DEF a
<1>3. b.receipts = c.receipts /\ DOMAIN b = DOMAIN a
  <2>1. \E q : b = a \/ b = [a EXCEPT !.q = q]
    BY DEF RestageSteers
  <2> HIDE DEF b
  <2> QED BY <1>1, <2>1 DEF Controllers
<1> HIDE DEF b
<1>4. e.receipts = c.receipts /\ DOMAIN e = DOMAIN b
    BY <1>3 DEF InvalidateStart
<1> HIDE DEF e, d
<1>5. d.receipts = c.receipts
    BY <1>2, <1>4
<1>6. WellFormed(d)
    BY SuspendTransportKeeps DEF Keeps, d
<1>7. NoRepeat(d.receipts)
    BY <1>5 DEF Agrees
<1> QED BY <1>6, <1>7, AgreesBlindly DEF d

=============================================================================
