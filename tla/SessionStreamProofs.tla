------------------------ MODULE SessionStreamProofs ------------------------
(***************************************************************************)
(* Proofs about the durable stream, for any number of threads, events and  *)
(* faults and any size of the buffers.  The drain of a recovery buffer is  *)
(* recursive; what it does is shown by induction over the buffer, written  *)
(* with the least counterexample (LeastNumber, UpTo) because that needs no *)
(* theorem with an operator parameter.                                     *)
(***************************************************************************)
EXTENDS SessionStream, FiniteSetTheorems, SequenceTheorems, WellFoundedInduction, TLAPS

\* The runtime in the middle of a synchronous stretch.
Buffers == Seq(Entries)
Cursors == 0..MaxEvents
Numbers == [Threads -> 0..MaxEvents]
Timelines == SUBSET Positions
Outs == {"settled", "recovering", "terminal"}
Runtimes ==
    [generation : Nat, authority : Nat, suspended : BOOLEAN, binding : BOOLEAN,
     phase : Phases, recovering : BOOLEAN, buffer : Buffers,
     operation : Nat, cursor : Cursors, checkpoint : Cursors,
     thread : Numbers, timeline : Timelines, twice : Timelines, asked : Nat, out : Outs]
-----------------------------------------------------------------------------
(* Induction *)

\* A set of numbers that is not empty has a least one.
LEMMA LeastNumber ==
    ASSUME NEW T \in SUBSET Nat, T # {}
    PROVE  \E m \in T : \A k \in T : m <= k
<1> DEFINE R == OpToRel(<, Nat)
<1>1. IsWellFoundedOn(R, Nat)
  BY NatLessThanWellFounded
<1>2. \A x, y \in Nat : x < y => <<x, y>> \in R
  BY DEF OpToRel
<1> HIDE DEF R
<1>3. PICK m \in T : \A y \in T : ~(<<y, m>> \in R)
  BY <1>1, WFMin
<1>4. ASSUME NEW k \in T PROVE m <= k
  <2>1. ~(k < m)
    BY <1>2, <1>3, Zenon
  <2> QED
    BY <2>1
<1> QED
  BY <1>4

\* Induction up to a bound, for a property given as a set.
LEMMA UpTo ==
    ASSUME NEW N \in Nat, NEW S, 0 \in S, \A n \in 1..N : n - 1 \in S => n \in S
    PROVE  \A n \in 0..N : n \in S
<1> DEFINE T == {n \in 0..N : n \notin S}
<1> SUFFICES ASSUME T # {} PROVE FALSE
  OBVIOUS
<1>1. T \in SUBSET Nat
  OBVIOUS
<1>2. PICK m \in T : \A k \in T : m <= k
  <2> HIDE DEF T
  <2> QED
    BY <1>1, LeastNumber
<1>3. m # 0 /\ m \in 0..N /\ m \notin S
  OBVIOUS
<1>4. m - 1 \in 0..N /\ m \in 1..N /\ ~(m <= m - 1)
  BY <1>3
<1>5. m - 1 \notin T
  <2> HIDE DEF T
  <2> QED
    BY <1>2, <1>4
<1>6. m - 1 \in S
  BY <1>4, <1>5
<1> QED
  BY <1>3, <1>4, <1>6
-----------------------------------------------------------------------------
(* Sequence numbers *)

\* A sequence number is a count of events up to a position.
LEMMA SeqAtType ==
    ASSUME NEW t, NEW n \in Nat
    PROVE  SeqAt(t, n) \in Nat /\ SeqAt(t, n) <= n /\ IsFiniteSet({p \in 1..n : log[p] = t})
<1>1. IsFiniteSet(1..n) /\ Cardinality(1..n) = n
  BY FS_Interval
<1>2. {p \in 1..n : log[p] = t} \subseteq 1..n
  OBVIOUS
<1>3. /\ IsFiniteSet({p \in 1..n : log[p] = t})
      /\ Cardinality({p \in 1..n : log[p] = t}) <= n
  BY <1>1, <1>2, FS_Subset
<1> QED
  BY <1>3, FS_CardinalityType DEF SeqAt

\* A thread's sequence number is a number, and never above the log position.
LEMMA SeqAtNat ==
    ASSUME NEW t
    PROVE  \A n \in Nat : SeqAt(t, n) \in Nat /\ SeqAt(t, n) <= n
  BY SeqAtType

\* One more position counts for its own thread only.
LEMMA SeqAtNext ==
    ASSUME NEW t, NEW n \in Nat \ {0}
    PROVE  SeqAt(t, n) = IF log[n] = t THEN SeqAt(t, n - 1) + 1 ELSE SeqAt(t, n - 1)
<1> DEFINE before == {p \in 1..(n - 1) : log[p] = t}
           upto == {p \in 1..n : log[p] = t}
<1>1. n - 1 \in Nat /\ n \notin before
  OBVIOUS
<1>2. IsFiniteSet(before)
  BY <1>1, SeqAtType
<1>3. CASE log[n] = t
  <2>1. upto = before \cup {n}
    BY <1>3
  <2>2. Cardinality(before \cup {n}) = Cardinality(before) + 1
    <3> HIDE DEF before
    <3> QED
      BY <1>1, <1>2, FS_AddElement
  <2> QED
    BY <1>3, <2>1, <2>2 DEF SeqAt
<1>4. CASE log[n] # t
  <2>1. upto = before
    BY <1>4
  <2> QED
    BY <1>4, <2>1 DEF SeqAt
<1> QED
  BY <1>3, <1>4

\* Sequence numbers do not decrease, and the number of an event exceeds every count
\* taken before it.
LEMMA SeqAtMonotone ==
    ASSUME NEW t, NEW n \in Nat, NEW m \in 0..n
    PROVE  SeqAt(t, m) <= SeqAt(t, n) /\ (m < n /\ log[n] = t => SeqAt(t, m) < SeqAt(t, n))
<1>1. ASSUME NEW k \in Nat, NEW j \in 0..k
      PROVE  SeqAt(t, j) <= SeqAt(t, k)
  <2>1. {p \in 1..j : log[p] = t} \subseteq {p \in 1..k : log[p] = t}
    OBVIOUS
  <2>2. IsFiniteSet({p \in 1..k : log[p] = t})
    BY SeqAtType
  <2> QED
    BY <2>1, <2>2, FS_Subset DEF SeqAt
<1>2. ASSUME m < n, log[n] = t
      PROVE  SeqAt(t, m) < SeqAt(t, n)
  <2>1. n \in Nat \ {0} /\ n - 1 \in Nat /\ m \in 0..(n - 1)
    BY <1>2
  <2>2. SeqAt(t, m) <= SeqAt(t, n - 1)
    BY <1>1, <2>1
  <2>3. SeqAt(t, n) = SeqAt(t, n - 1) + 1
    BY <1>2, <2>1, SeqAtNext
  <2>4. SeqAt(t, m) \in Nat /\ SeqAt(t, n - 1) \in Nat
    BY <2>1, SeqAtNat
  <2> QED
    BY <2>2, <2>3, <2>4
<1> QED
  BY <1>1, <1>2

\* Every number up to the count of a thread belongs to one of its events.
LEMMA SeqAtOnto ==
    ASSUME NEW t, NEW n \in Nat, NEW k \in 1..SeqAt(t, n)
    PROVE  \E p \in 1..n : log[p] = t /\ SeqAt(t, p) = k
<1> DEFINE T == {m \in 0..n : SeqAt(t, m) >= k}
<1>1. SeqAt(t, n) \in Nat /\ \A m \in 0..n : SeqAt(t, m) \in Nat
  BY SeqAtNat
<1>2. T \in SUBSET Nat /\ n \in T
  BY <1>1
<1>3. PICK m \in T : \A j \in T : m <= j
  <2> HIDE DEF T
  <2> QED
    BY <1>2, LeastNumber
<1>4. SeqAt(t, 0) = 0
  <2>1. SeqAt(t, 0) <= 0 /\ SeqAt(t, 0) \in Nat
    BY SeqAtNat
  <2> QED
    BY <2>1
<1>5. m \in 1..n /\ SeqAt(t, m) >= k
  BY <1>1, <1>4
<1>6. m - 1 \in 0..n /\ ~(m <= m - 1)
  BY <1>5
<1>7. m - 1 \notin T
  <2> HIDE DEF T
  <2> QED
    BY <1>3, <1>6
<1>8. SeqAt(t, m - 1) < k
  BY <1>1, <1>6, <1>7
<1>9. SeqAt(t, m) = IF log[m] = t THEN SeqAt(t, m - 1) + 1 ELSE SeqAt(t, m - 1)
  BY <1>5, SeqAtNext
<1>10. SeqAt(t, m) \in Nat /\ SeqAt(t, m - 1) \in Nat
  BY <1>1, <1>5, <1>6
<1> QED
  BY <1>5, <1>8, <1>9, <1>10

\* A longer log keeps the numbers it had.
LEMMA SeqAtKept ==
    ASSUME log \in Seq(Threads), log' \in Seq(Threads), NEW n \in 0..Len(log),
           \A p \in 1..Len(log) : log'[p] = log[p]
    PROVE  \A t : SeqAt(t, n)' = SeqAt(t, n)
<1>1. \A t : {p \in 1..n : log'[p] = t} = {p \in 1..n : log[p] = t}
  OBVIOUS
<1> QED
  BY <1>1 DEF SeqAt
-----------------------------------------------------------------------------
(* The drain *)

\* The drain handles the entries one after the other.
LEMMA DrainRun ==
    ASSUME NEW r \in Runtimes, NEW entries \in Seq(Entries), NEW snapshot
    PROVE  \E run :
             /\ run[0] = [r EXCEPT !.out = "settled"]
             /\ \A i \in 1..Len(entries) : run[i] = DrainNext(run[i - 1], entries[i], snapshot)
             /\ DrainNotifications(r, entries, snapshot) = run[Len(entries)]
<1> DEFINE N == Len(entries)
           start == [r EXCEPT !.out = "settled"]
           Runs(g, n) == g = [i \in 0..n |-> IF i = 0 THEN start
                                ELSE DrainNext(g[i - 1], entries[i], snapshot)]
           S == {n \in 0..N : \E g : Runs(g, n)}
<1>1. N \in Nat
  OBVIOUS
<1> HIDE DEF N, start
<1>2. 0 \in S
  <2>1. [i \in 0..0 |-> start] = [i \in 0..0 |-> IF i = 0 THEN start
                                     ELSE DrainNext([j \in 0..0 |-> start][i - 1],
                                                    entries[i], snapshot)]
    OBVIOUS
  <2>2. \E g : Runs(g, 0)
    BY <2>1, Zenon
  <2> HIDE DEF Runs
  <2> QED
    BY <2>2, <1>1
<1>3. ASSUME NEW n \in 1..N, n - 1 \in S
      PROVE  n \in S
  <2>1. PICK g : Runs(g, n - 1)
    BY <1>3
  <2> DEFINE h == [i \in 0..n |-> IF i = n THEN DrainNext(g[n - 1], entries[n], snapshot)
                                  ELSE g[i]]
  <2>2. n \in Nat /\ n # 0 /\ n - 1 \in 0..n /\ n - 1 # n
    BY <1>1
  <2>3. ASSUME NEW i \in 0..n
        PROVE  h[i] = IF i = 0 THEN start ELSE DrainNext(h[i - 1], entries[i], snapshot)
    <3>1. CASE i = n
      <4>1. h[i] = DrainNext(g[n - 1], entries[n], snapshot)
        BY <3>1
      <4>2. h[n - 1] = g[n - 1]
        BY <2>2
      <4> QED
        BY <3>1, <4>1, <4>2, <2>2
    <3>2. CASE i # n
      <4>1. i \in 0..(n - 1) /\ h[i] = g[i]
        BY <3>2, <2>2
      <4>2. g[i] = IF i = 0 THEN start ELSE DrainNext(g[i - 1], entries[i], snapshot)
        BY <2>1, <4>1
      <4>3. i # 0 => h[i - 1] = g[i - 1]
        BY <4>1, <2>2
      <4> QED
        BY <4>1, <4>2, <4>3
    <3> QED
      BY <3>1, <3>2
  <2>4. Runs(h, n)
    <3>1. h = [i \in 0..n |-> h[i]]
      OBVIOUS
    <3> HIDE DEF h
    <3> QED
      BY <3>1, <2>3
  <2> HIDE DEF h, Runs
  <2> QED
    BY <2>4, <1>1
<1>4. \A n \in 0..N : n \in S
  <2> HIDE DEF S
  <2> QED
    BY <1>1, <1>2, <1>3, UpTo
<1>5. PICK g : Runs(g, N)
  <2> HIDE DEF Runs
  <2> QED
    BY <1>1, <1>4
<1> DEFINE run == CHOOSE g_1 : Runs(g_1, N)
<1>6. Runs(run, N)
  <2> HIDE DEF Runs
  <2> QED
    BY <1>5
<1>7. DrainNotifications(r, entries, snapshot) = run[N]
  BY DEF DrainNotifications, N, start
<1> HIDE DEF run
<1>8. run[0] = start /\ \A i \in 1..N : run[i] = DrainNext(run[i - 1], entries[i], snapshot)
  BY <1>1, <1>6
<1> QED
  BY <1>7, <1>8 DEF N, start
-----------------------------------------------------------------------------
(* One notification *)

\* The log holds the threads of at most MaxEvents events.
LogType == log \in Seq(Threads) /\ Len(log) <= MaxEvents

\* A notification, and a buffered one, speaks of an event of the log.
Heard(notice) == notice \in Notices /\ notice.pos <= Len(log)
HeardAll(entries) ==
    entries \in Seq(Entries) /\ \A i \in 1..Len(entries) : entries[i].notice.pos <= Len(log)

\* What the runtime keeps comes from the log: nothing after the cursor is known of a
\* thread, and the buffer is within its limit.
Sound(r) ==
    /\ r \in Runtimes
    /\ Len(r.buffer) <= Limit
    /\ r.checkpoint <= r.cursor /\ r.cursor <= Len(log)
    /\ r.timeline \subseteq 1..Len(log)
    /\ HeardAll(r.buffer)
    /\ \A t \in Threads : r.thread[t] <= SeqAt(t, r.cursor)

\* The sequence numbers the timeline shows of a thread.
Shown(r, t) == {SeqNo(p) : p \in {q \in r.timeline : log[q] = t}}

Contiguous(r) ==
    \A t \in Threads : r.thread[t] # 0 =>
        /\ r.thread[t] \in Shown(r, t)
        /\ \A n \in Shown(r, t) :
             n <= r.thread[t] /\ \A k \in n..r.thread[t] : k \in Shown(r, t)

\* With canonical snapshots a thread's number is past everything shown of it.
Threaded(r) ==
    /\ r.twice = {}
    /\ \A p \in r.timeline : SeqNo(p) <= r.thread[log[p]]
    /\ Contiguous(r)

\* The history the timeline shows is complete up to a cursor.
Shows(r) == \A p \in 1..r.cursor : p \in r.timeline \/ p \in silent

\* The notices of seq after the first k bring, in order, every event after the
\* position from that was not lost.
Brings(seq, k, from) ==
    /\ \A i, j \in (k + 1)..Len(seq) :
         i < j /\ seq[j].pos > from => seq[i].pos < seq[j].pos
    /\ \A p \in (from + 1)..Len(log) :
         p \in silent \/ \E i \in (k + 1)..Len(seq) : seq[i].pos = p

\* What a step of the stream leaves alone.
SameControl(r, q) ==
    /\ q.generation = r.generation /\ q.authority = r.authority
    /\ q.suspended = r.suspended /\ q.binding = r.binding /\ q.phase = r.phase
    /\ q.recovering = r.recovering /\ q.buffer = r.buffer /\ q.operation = r.operation
    /\ q.checkpoint = r.checkpoint /\ q.asked = r.asked

SameContent(r, q) ==
    /\ q.generation = r.generation /\ q.authority = r.authority
    /\ q.suspended = r.suspended /\ q.cursor = r.cursor /\ q.checkpoint = r.checkpoint
    /\ q.thread = r.thread /\ q.timeline = r.timeline /\ q.twice = r.twice

\* A recorded event has a thread and a sequence number from 1 on.
LEMMA SeqNoType ==
    ASSUME LogType, NEW p \in 1..Len(log)
    PROVE  /\ p \in Positions /\ log[p] \in Threads
           /\ SeqNo(p) \in 1..MaxEvents /\ SeqNo(p) = SeqAt(log[p], p)
<1>1. /\ p \in Nat \ {0} /\ p <= MaxEvents /\ log[p] \in Threads
      /\ Len(log) \in Nat /\ MaxEvents \in Nat
  BY StreamAssumption DEF LogType
<1>2. SeqAt(log[p], p) \in Nat /\ SeqAt(log[p], p) <= p /\ SeqAt(log[p], p - 1) \in Nat
  BY <1>1, SeqAtNat
<1>3. SeqAt(log[p], p) = SeqAt(log[p], p - 1) + 1
  BY <1>1, SeqAtNext
<1> QED
  BY <1>1, <1>2, <1>3 DEF SeqNo, Positions

\* Folding an event keeps what the runtime knows sound.
LEMMA ApplySound ==
    ASSUME LogType, NEW r, Sound(r), NEW p \in 1..Len(log), NEW io \in BOOLEAN
    PROVE  /\ Sound(Apply(r, p, io)) /\ SameControl(r, Apply(r, p, io))
           /\ Apply(r, p, io).out = r.out
           /\ Apply(r, p, io).cursor = IF p > r.cursor THEN p ELSE r.cursor
           /\ Apply(r, p, io).timeline = IF io THEN r.timeline ELSE r.timeline \cup {p}
           /\ Apply(r, p, io).thread = [r.thread EXCEPT ![log[p]] = SeqNo(p)]
           /\ Apply(r, p, io).twice = IF ~io /\ p \in r.timeline THEN r.twice \cup {p}
                                      ELSE r.twice
<1> DEFINE q == Apply(r, p, io)
<1>1. /\ p \in Positions /\ log[p] \in Threads /\ SeqNo(p) \in 1..MaxEvents
      /\ SeqNo(p) = SeqAt(log[p], p) /\ MaxEvents \in Nat /\ Len(log) \in Nat
      /\ Len(log) <= MaxEvents
  BY SeqNoType, StreamAssumption DEF LogType
<1>2. r \in Runtimes
  BY DEF Sound
<1>3. /\ SameControl(r, q) /\ q.out = r.out
      /\ q.cursor = IF p > r.cursor THEN p ELSE r.cursor
      /\ q.timeline = IF io THEN r.timeline ELSE r.timeline \cup {p}
      /\ q.thread = [r.thread EXCEPT ![log[p]] = SeqNo(p)]
      /\ q.twice = IF ~io /\ p \in r.timeline THEN r.twice \cup {p} ELSE r.twice
  BY <1>2 DEF Apply, SameControl, Runtimes
<1>4. q \in Runtimes
  <2>1. /\ r.cursor \in Cursors /\ r.thread \in Numbers /\ r.timeline \in Timelines
        /\ r.twice \in Timelines
    BY <1>2 DEF Runtimes
  <2>2. (IF p > r.cursor THEN p ELSE r.cursor) \in Cursors
    BY <1>1, <2>1 DEF Cursors, Positions
  <2>3. [r.thread EXCEPT ![log[p]] = SeqNo(p)] \in Numbers
    BY <1>1, <2>1 DEF Numbers
  <2>4. /\ (IF io THEN r.timeline ELSE r.timeline \cup {p}) \in Timelines
        /\ (IF ~io /\ p \in r.timeline THEN r.twice \cup {p} ELSE r.twice) \in Timelines
    BY <1>1, <2>1 DEF Timelines
  <2> QED
    BY <1>2, <2>2, <2>3, <2>4 DEF Apply, Runtimes
<1>5. r.cursor \in 0..MaxEvents /\ r.thread \in [Threads -> 0..MaxEvents] /\ r.cursor <= Len(log)
  BY <1>2 DEF Sound, Runtimes, Cursors, Numbers
<1>6. q.cursor \in 0..Len(log) /\ r.cursor \in 0..q.cursor /\ p \in 0..q.cursor
  BY <1>1, <1>3, <1>5
<1>7. ASSUME NEW t \in Threads
      PROVE  q.thread[t] <= SeqAt(t, q.cursor)
  <2>1. q.cursor \in Nat
    BY <1>1, <1>6
  <2>2. CASE t = log[p]
    <3>1. q.thread[t] = SeqAt(t, p)
      BY <2>2, <1>1, <1>3, <1>5
    <3> QED
      BY <3>1, <2>1, <1>6, SeqAtMonotone
  <2>3. CASE t # log[p]
    <3>1. q.thread[t] = r.thread[t] /\ r.thread[t] <= SeqAt(t, r.cursor) /\ r.thread[t] \in Nat
      BY <2>3, <1>3, <1>5 DEF Sound
    <3>2. SeqAt(t, r.cursor) <= SeqAt(t, q.cursor)
      BY <2>1, <1>6, SeqAtMonotone
    <3>3. SeqAt(t, r.cursor) \in Nat /\ SeqAt(t, q.cursor) \in Nat
      BY <1>5, <2>1, SeqAtNat
    <3> QED
      BY <3>1, <3>2, <3>3
  <2> QED
    BY <2>2, <2>3
<1>8. Sound(q)
  <2>1. q.checkpoint <= q.cursor
    BY <1>1, <1>2, <1>3, <1>5, <1>6 DEF Sound, SameControl, Runtimes, Cursors
  <2>2. q.timeline \subseteq 1..Len(log)
    BY <1>3 DEF Sound
  <2> HIDE DEF q
  <2> QED
    BY <1>3, <1>4, <1>6, <1>7, <2>1, <2>2 DEF Sound, SameControl
<1> QED
  BY <1>3, <1>8

\* Quarantine keeps what the runtime knows, and drops what waits.
LEMMA FailCurrentSound ==
    ASSUME NEW r, Sound(r)
    PROVE  /\ Sound(FailCurrent(r)) /\ SameContent(r, FailCurrent(r))
           /\ FailCurrent(r).operation = r.operation + 1
           /\ FailCurrent(r).recovering = FALSE /\ FailCurrent(r).buffer = <<>>
           /\ FailCurrent(r).phase = "error" /\ FailCurrent(r).binding = FALSE
           /\ FailCurrent(r).asked = r.asked /\ FailCurrent(r).out = "terminal"
<1> DEFINE q == FailCurrent(r)
<1>1. r \in Runtimes
  BY DEF Sound
<1>2. /\ SameContent(r, q) /\ q.operation = r.operation + 1 /\ q.recovering = FALSE
      /\ q.buffer = <<>> /\ q.phase = "error" /\ q.binding = FALSE
      /\ q.asked = r.asked /\ q.out = "terminal"
  BY <1>1 DEF FailCurrent, SameContent, Runtimes
<1>3. q \in Runtimes
  <2>1. <<>> \in Buffers /\ "error" \in Phases /\ "terminal" \in Outs
    BY DEF Buffers, Phases, Outs
  <2>2. r.operation + 1 \in Nat
    BY <1>1 DEF Runtimes
  <2> DEFINE empty == <<>>
             later == r.operation + 1
  <2>3. empty \in Buffers /\ later \in Nat
    BY <2>1, <2>2
  <2>4. q = [r EXCEPT !.operation = later, !.recovering = FALSE, !.buffer = empty,
                      !.phase = "error", !.binding = FALSE, !.out = "terminal"]
    BY DEF FailCurrent
  <2> HIDE DEF empty, later, q
  <2> QED
    BY <1>1, <2>1, <2>3, <2>4 DEF Runtimes
<1>4. HeardAll(<<>>) /\ Len(<<>>) <= Limit
  BY StreamAssumption DEF HeardAll
<1> HIDE DEF q
<1>5. Sound(q)
  BY <1>2, <1>3, <1>4 DEF Sound, SameContent
<1> QED
  BY <1>2, <1>5 DEF q

\* A notification that waits, or the quarantine when too many do.
LEMMA EnqueueSound ==
    ASSUME NEW r, Sound(r), NEW e \in Entries, e.notice.pos <= Len(log)
    PROVE  /\ Sound(EnqueueRecovery(r, e))
           /\ \/ EnqueueRecovery(r, e) = FailCurrent(r)
              \/ /\ SameContent(r, EnqueueRecovery(r, e))
                 /\ EnqueueRecovery(r, e).binding = r.binding
                 /\ EnqueueRecovery(r, e).phase = r.phase
                 /\ EnqueueRecovery(r, e).recovering = r.recovering
                 /\ EnqueueRecovery(r, e).operation = r.operation
                 /\ EnqueueRecovery(r, e).asked = r.asked
                 /\ EnqueueRecovery(r, e).buffer = Append(r.buffer, e)
                 /\ EnqueueRecovery(r, e).out = "recovering"
<1>1. CASE Len(r.buffer) >= Limit
  BY <1>1, FailCurrentSound DEF EnqueueRecovery
<1>2. CASE ~(Len(r.buffer) >= Limit)
  <2> DEFINE q == [r EXCEPT !.buffer = Append(@, e), !.out = "recovering"]
  <2>1. EnqueueRecovery(r, e) = q
    BY <1>2 DEF EnqueueRecovery
  <2>2. r \in Runtimes
    BY DEF Sound
  <2>3. /\ SameContent(r, q) /\ q.binding = r.binding /\ q.phase = r.phase
        /\ q.recovering = r.recovering /\ q.operation = r.operation /\ q.asked = r.asked
        /\ q.buffer = Append(r.buffer, e) /\ q.out = "recovering"
    BY <2>2 DEF SameContent, Runtimes
  <2>4. r.buffer \in Seq(Entries) /\ HeardAll(r.buffer) /\ Limit \in Nat
    BY StreamAssumption DEF Sound, Runtimes, Buffers
  <2>5. q \in Runtimes
    <3>1. Append(r.buffer, e) \in Buffers /\ "recovering" \in Outs
      BY <2>4 DEF Buffers, Outs
    <3> QED
      BY <2>2, <3>1 DEF Runtimes
  <2>6. HeardAll(Append(r.buffer, e)) /\ Len(Append(r.buffer, e)) <= Limit
    BY <1>2, <2>4 DEF HeardAll
  <2> HIDE DEF q
  <2>7. Sound(q)
    BY <2>3, <2>5, <2>6 DEF Sound, SameContent
  <2> QED
    BY <2>1, <2>3, <2>7
<1> QED
  BY <1>1, <1>2

\* The start of a hydrate keeps what the runtime knows.
LEMMA BeginHydrateSound ==
    ASSUME NEW r, Sound(r)
    PROVE  /\ Sound(BeginHydrate(r)) /\ SameContent(r, BeginHydrate(r))
           /\ BeginHydrate(r).operation = r.operation + 1
           /\ BeginHydrate(r).asked = r.operation + 1
           /\ BeginHydrate(r).recovering = TRUE /\ BeginHydrate(r).phase = "recovering"
           /\ BeginHydrate(r).buffer = r.buffer /\ BeginHydrate(r).binding = r.binding
           /\ BeginHydrate(r).out = "recovering"
<1> DEFINE q == BeginHydrate(r)
           later == r.operation + 1
<1>1. r \in Runtimes
  BY DEF Sound
<1>2. /\ SameContent(r, q) /\ q.operation = later /\ q.asked = later /\ q.recovering = TRUE
      /\ q.phase = "recovering" /\ q.buffer = r.buffer /\ q.binding = r.binding
      /\ q.out = "recovering"
  BY <1>1 DEF BeginHydrate, SameContent, Runtimes
<1>3. later \in Nat /\ "recovering" \in Phases /\ "recovering" \in Outs
  BY <1>1 DEF Runtimes, Phases, Outs
<1>4. q = [r EXCEPT !.operation = later, !.recovering = TRUE, !.phase = "recovering",
                    !.asked = later, !.out = "recovering"]
  BY DEF BeginHydrate
<1> HIDE DEF q, later
<1>5. q \in Runtimes
  BY <1>1, <1>3, <1>4 DEF Runtimes
<1>6. Sound(q)
  BY <1>2, <1>5 DEF Sound, SameContent
<1> QED
  BY <1>2, <1>6 DEF q, later

\* A gap starts a recovery, unless one was tried for this notification already.
LEMMA BeginRecoverySound ==
    ASSUME NEW r, Sound(r), NEW e \in Entries, e.notice.pos <= Len(log)
    PROVE  /\ Sound(BeginRecovery(r, e))
           /\ \/ BeginRecovery(r, e) = FailCurrent(r)
              \/ /\ SameContent(r, BeginRecovery(r, e))
                 /\ BeginRecovery(r, e).operation = r.operation + 1
                 /\ BeginRecovery(r, e).asked = r.operation + 1
                 /\ BeginRecovery(r, e).recovering = TRUE
                 /\ BeginRecovery(r, e).phase = "recovering"
                 /\ BeginRecovery(r, e).binding = r.binding
                 /\ BeginRecovery(r, e).out = "recovering"
<1>1. CASE e.retried
  BY <1>1, FailCurrentSound DEF BeginRecovery
<1>2. CASE ~e.retried
  <2> DEFINE again == [e EXCEPT !.retried = TRUE]
             waits == IF e.notice.kind = "lossy" THEN <<>> ELSE <<again>>
             q == [r EXCEPT !.buffer = waits]
  <2>1. BeginRecovery(r, e) = BeginHydrate(q)
    BY <1>2 DEF BeginRecovery
  <2>2. again \in Entries /\ again.notice = e.notice
    BY DEF Entries
  <2>3. waits \in Seq(Entries) /\ HeardAll(waits) /\ Len(waits) <= Limit
    <3> HIDE DEF again
    <3> QED
      BY <2>2, StreamAssumption DEF HeardAll
  <2>4. r \in Runtimes /\ waits \in Buffers
    BY <2>3 DEF Sound, Buffers
  <2> HIDE DEF waits
  <2>5. q \in Runtimes /\ q.buffer = waits /\ SameContent(r, q)
    BY <2>4 DEF Runtimes, SameContent
  <2>6. q.operation = r.operation /\ q.binding = r.binding
    BY <2>4 DEF Runtimes
  <2> HIDE DEF q
  <2>7. Sound(q)
    BY <2>3, <2>5 DEF Sound, SameContent
  <2> DEFINE b == BeginHydrate(q)
  <2>8. /\ Sound(b) /\ SameContent(q, b) /\ b.operation = q.operation + 1
        /\ b.asked = q.operation + 1 /\ b.recovering = TRUE /\ b.phase = "recovering"
        /\ b.binding = q.binding /\ b.out = "recovering"
    BY <2>7, BeginHydrateSound
  <2> HIDE DEF b
  <2>9. SameContent(r, b)
    BY <2>5, <2>8 DEF SameContent
  <2>10. BeginRecovery(r, e) = b
    BY <2>1 DEF b
  <2> QED
    BY <2>6, <2>8, <2>9, <2>10
<1> QED
  BY <1>1, <1>2

\* What the projection decides about a notification.
LEMMA DecisionKinds ==
    ASSUME NEW r, NEW notice \in Notices, NEW fb \in BOOLEAN
    PROVE  /\ Decision(r, notice, fb) \in {"recover", "ignore", "apply"}
           /\ Decision(r, notice, fb) = "ignore" =>
                \/ Stale(r, notice.pos, fb)
                \/ SeqNo(notice.pos) <= r.thread[log[notice.pos]]
           /\ Decision(r, notice, fb) = "apply" =>
                /\ ~Stale(r, notice.pos, fb) /\ ~Gap(r, notice.pos)
                /\ ~(SeqNo(notice.pos) <= r.thread[log[notice.pos]])
  BY DEF Decision, Notices

\* Only events at or before the cursor are ignored.
LEMMA IgnoredIsBehind ==
    ASSUME LogType, NEW r, Sound(r), NEW notice, Heard(notice), NEW fb \in BOOLEAN,
           Decision(r, notice, fb) = "ignore"
    PROVE  notice.pos <= r.cursor
<1> DEFINE p == notice.pos
<1>1. notice \in Notices /\ p \in 1..Len(log) /\ Len(log) \in Nat
  BY DEF Heard, Notices, Positions, LogType
<1>2. r.cursor \in Nat /\ r.checkpoint \in Nat /\ r.checkpoint <= r.cursor
  BY StreamAssumption DEF Sound, Runtimes, Cursors
<1>3. CASE Stale(r, p, fb)
  BY <1>1, <1>2, <1>3 DEF Stale
<1>4. CASE SeqNo(p) <= r.thread[log[p]]
  <2> SUFFICES ASSUME r.cursor < p PROVE FALSE
    BY <1>1, <1>2
  <2>1. log[p] \in Threads /\ SeqNo(p) = SeqAt(log[p], p) /\ p \in Nat /\ r.cursor \in 0..p
    BY <1>1, <1>2, SeqNoType
  <2>2. SeqAt(log[p], r.cursor) < SeqAt(log[p], p)
    BY <2>1, SeqAtMonotone
  <2>3. r.thread[log[p]] <= SeqAt(log[p], r.cursor) /\ r.thread[log[p]] \in Nat
    BY <2>1 DEF Sound, Runtimes, Numbers
  <2>4. SeqAt(log[p], r.cursor) \in Nat /\ SeqAt(log[p], p) \in Nat
    BY <2>1, <1>2, SeqAtNat
  <2> QED
    BY <1>4, <2>1, <2>2, <2>3, <2>4
<1> QED
  BY <1>1, <1>3, <1>4, DecisionKinds

\* How a synchronous stretch that starts in r with no call made can stand: it goes
\* on, it waits for a hydrate (the one r waited for, or one asked for since), or the
\* record was quarantined.
Outcome(r, q) ==
    /\ q.generation = r.generation /\ q.authority = r.authority
    /\ q.suspended = r.suspended /\ r.cursor <= q.cursor
    /\ \/ /\ q.out = "settled" /\ ~q.recovering /\ ~r.recovering /\ q.binding = r.binding
          /\ q.phase = r.phase /\ q.buffer = <<>> /\ q.operation = r.operation /\ q.asked = 0
       \/ /\ q.out = "recovering" /\ q.recovering /\ q.phase = "recovering"
          /\ q.binding = r.binding
          /\ \/ r.recovering /\ q.asked = 0 /\ q.operation = r.operation
             \/ q.asked = q.operation /\ r.operation < q.operation
       \/ /\ q.out = "terminal" /\ ~q.recovering /\ q.phase = "error" /\ q.buffer = <<>>
          /\ ~q.binding /\ r.operation < q.operation
          /\ q.asked = 0 \/ (r.operation < q.asked /\ q.asked < q.operation)

\* A runtime between two steps.
Resting(r) ==
    /\ r.asked = 0 /\ r.out = "settled"
    /\ r.recovering => r.phase = "recovering"
    /\ ~r.recovering => r.buffer = <<>>

\* The cases of #acceptNotification.
LEMMA AcceptCases ==
    ASSUME LogType, NEW r, Sound(r), NEW e \in Entries, e.notice.pos <= Len(log),
           NEW io \in BOOLEAN, NEW fb \in BOOLEAN,
           r.asked = 0, r.recovering => r.phase = "recovering",
           ~r.recovering => r.buffer = <<>>
    PROVE  LET q == AcceptNotification(r, e, io, fb)
           IN  /\ Sound(q) /\ Outcome(r, q)
               /\ \/ SameContent(r, q)
                     /\ (q.out = "settled" => Decision(r, e.notice, fb) = "ignore")
                  \/ /\ Decision(r, e.notice, fb) = "apply" /\ q.out = "settled"
                     /\ q.cursor = Apply(r, e.notice.pos, io).cursor
                     /\ q.thread = Apply(r, e.notice.pos, io).thread
                     /\ q.timeline = Apply(r, e.notice.pos, io).timeline
                     /\ q.twice = Apply(r, e.notice.pos, io).twice
<1> DEFINE q == AcceptNotification(r, e, io, fb)
           d == Decision(r, e.notice, fb)
           p == e.notice.pos
<1>1. /\ e.notice \in Notices /\ p \in 1..Len(log) /\ Len(log) \in Nat /\ r \in Runtimes
      /\ r.operation \in Nat /\ r.cursor \in Int
  BY StreamAssumption DEF Entries, Notices, Positions, LogType, Sound, Runtimes, Cursors
<1>2. d \in {"recover", "ignore", "apply"}
  BY <1>1, DecisionKinds
<1> SUFFICES /\ Sound(q) /\ Outcome(r, q)
             /\ \/ SameContent(r, q) /\ (q.out = "settled" => d = "ignore")
                \/ /\ d = "apply" /\ q.out = "settled"
                   /\ q.cursor = Apply(r, p, io).cursor
                   /\ q.thread = Apply(r, p, io).thread
                   /\ q.timeline = Apply(r, p, io).timeline
                   /\ q.twice = Apply(r, p, io).twice
  OBVIOUS
<1> HIDE DEF d
<1>3. ASSUME q = FailCurrent(r)
      PROVE  Sound(q) /\ Outcome(r, q) /\ SameContent(r, q) /\ q.out # "settled"
  <2> HIDE DEF q
  <2>1. /\ Sound(q) /\ SameContent(r, q) /\ q.operation = r.operation + 1
        /\ q.recovering = FALSE /\ q.buffer = <<>> /\ q.phase = "error"
        /\ q.binding = FALSE /\ q.asked = r.asked /\ q.out = "terminal"
    BY <1>3, FailCurrentSound
  <2> QED
    BY <1>1, <2>1 DEF Outcome, SameContent
<1>4. CASE r.recovering
  <2>1. q = EnqueueRecovery(r, e)
    BY <1>4 DEF AcceptNotification
  <2>2. CASE q = FailCurrent(r)
    BY <2>2, <1>3
  <2>3. CASE q # FailCurrent(r)
    <3> HIDE DEF q
    <3>1. /\ Sound(q) /\ SameContent(r, q) /\ q.binding = r.binding /\ q.phase = r.phase
          /\ q.recovering = r.recovering /\ q.operation = r.operation
          /\ q.asked = r.asked /\ q.out = "recovering"
      BY <2>1, <2>3, EnqueueSound
    <3> QED
      BY <1>1, <1>4, <3>1 DEF Outcome, SameContent
  <2> QED
    BY <2>2, <2>3
<1>5. CASE ~r.recovering /\ d = "recover"
  <2>1. q = BeginRecovery(r, e)
    BY <1>5 DEF AcceptNotification, d
  <2>2. CASE q = FailCurrent(r)
    BY <2>2, <1>3
  <2>3. CASE q # FailCurrent(r)
    <3> HIDE DEF q
    <3>1. /\ Sound(q) /\ SameContent(r, q) /\ q.operation = r.operation + 1
          /\ q.asked = r.operation + 1 /\ q.recovering = TRUE /\ q.phase = "recovering"
          /\ q.binding = r.binding /\ q.out = "recovering"
      BY <2>1, <2>3, BeginRecoverySound
    <3> QED
      BY <1>1, <1>5, <3>1 DEF Outcome, SameContent
  <2> QED
    BY <2>2, <2>3
<1>6. CASE ~r.recovering /\ d = "ignore"
  <2>1. q = [r EXCEPT !.out = "settled"]
    BY <1>6 DEF AcceptNotification, d
  <2>2. q \in Runtimes /\ SameContent(r, q) /\ SameControl(r, q) /\ q.out = "settled"
    BY <2>1, <1>1 DEF Runtimes, Outs, SameContent, SameControl
  <2> HIDE DEF q
  <2>3. Sound(q)
    BY <2>2 DEF Sound, SameContent, SameControl
  <2> QED
    BY <1>1, <1>6, <2>2, <2>3 DEF Outcome, SameContent, SameControl
<1>7. CASE ~r.recovering /\ d = "apply"
  <2> DEFINE a == Apply(r, p, io)
  <2>1. q = [a EXCEPT !.out = "settled"]
    BY <1>7 DEF AcceptNotification, d
  <2>2. /\ Sound(a) /\ SameControl(r, a)
        /\ a.cursor = IF p > r.cursor THEN p ELSE r.cursor
    <3> HIDE DEF p, q, d
    <3>1. p \in 1..Len(log)
      BY <1>1
    <3>2. /\ Sound(Apply(r, p, io)) /\ SameControl(r, Apply(r, p, io))
          /\ Apply(r, p, io).cursor = IF p > r.cursor THEN p ELSE r.cursor
      BY <3>1, ApplySound, ZenonT(60)
    <3> QED
      BY <3>2
  <2>3. a \in Runtimes
    BY <2>2 DEF Sound
  <2> HIDE DEF a, q
  <2>4. /\ q \in Runtimes /\ SameContent(a, q) /\ SameControl(a, q) /\ q.out = "settled"
    BY <2>1, <2>3 DEF Runtimes, Outs, SameContent, SameControl
  <2>5. Sound(q)
    BY <2>2, <2>4 DEF Sound, SameContent, SameControl
  <2>6. r.cursor <= q.cursor
    BY <1>1, <2>2, <2>4 DEF SameContent
  <2>7. SameControl(r, q)
    BY <2>2, <2>4 DEF SameControl
  <2>8. Outcome(r, q)
    BY <1>7, <2>4, <2>6, <2>7 DEF Outcome, SameControl
  <2>9. /\ q.cursor = a.cursor /\ q.thread = a.thread /\ q.timeline = a.timeline
        /\ q.twice = a.twice
    BY <2>4 DEF SameContent
  <2> QED
    BY <1>7, <2>4, <2>5, <2>8, <2>9 DEF a
<1> QED
  BY <1>2, <1>4, <1>5, <1>6, <1>7

\* The numbers kept and shown after the next event of a thread was folded.
LEMMA FoldThreaded ==
    ASSUME LogType, NEW r, Sound(r), Threaded(r), NEW p \in 1..Len(log),
           ~Gap(r, p), ~(SeqNo(p) <= r.thread[log[p]]), NEW q,
           q.thread = [r.thread EXCEPT ![log[p]] = SeqNo(p)],
           q.timeline = r.timeline \cup {p},
           q.twice = IF p \in r.timeline THEN r.twice \cup {p} ELSE r.twice
    PROVE  Threaded(q)
<1> DEFINE t == log[p]
           n == SeqNo(p)
<1>1. t \in Threads /\ n \in 1..MaxEvents /\ MaxEvents \in Nat
  BY SeqNoType, StreamAssumption
<1>2. /\ r.thread \in [Threads -> 0..MaxEvents] /\ r.timeline \subseteq 1..Len(log)
      /\ r.thread[t] \in Nat
  BY <1>1 DEF Sound, Runtimes, Numbers
<1>3. /\ \A x \in r.timeline : log[x] \in Threads /\ SeqNo(x) \in 1..MaxEvents
      /\ \A x \in r.timeline : SeqNo(x) <= r.thread[log[x]]
  BY <1>2, SeqNoType DEF Threaded
<1>4. p \notin r.timeline /\ q.twice = {}
  BY <1>3 DEF Threaded
<1>5. q.thread[t] = n /\ \A u \in Threads \ {t} : q.thread[u] = r.thread[u]
  BY <1>1, <1>2
<1>6. r.thread[t] < n /\ (r.thread[t] # 0 => n = r.thread[t] + 1)
  BY <1>1, <1>2 DEF Gap
<1>7. ASSUME NEW x \in q.timeline
      PROVE  SeqNo(x) <= q.thread[log[x]]
  <2>1. CASE x = p
    BY <2>1, <1>1, <1>5
  <2>2. CASE x # p /\ log[x] = t
    BY <2>2, <1>1, <1>2, <1>3, <1>5, <1>6
  <2>3. CASE x # p /\ log[x] # t
    BY <2>3, <1>3, <1>5
  <2> QED
    BY <2>1, <2>2, <2>3
<1>8. Shown(q, t) = Shown(r, t) \cup {n}
  BY DEF Shown
<1>9. \A u \in Threads \ {t} : Shown(q, u) = Shown(r, u)
  BY DEF Shown
<1>10. \A k \in Shown(r, t) : k \in 1..MaxEvents /\ k <= r.thread[t]
  BY <1>3 DEF Shown
<1>11. ASSUME NEW u \in Threads, q.thread[u] # 0
       PROVE  /\ q.thread[u] \in Shown(q, u)
              /\ \A m \in Shown(q, u) :
                   m <= q.thread[u] /\ \A k \in m..q.thread[u] : k \in Shown(q, u)
  <2> HIDE DEF n, t
  <2>1. CASE u # t
    BY <2>1, <1>5, <1>9, <1>11 DEF Threaded, Contiguous
  <2>2. CASE u = t /\ r.thread[t] = 0
    <3>1. Shown(q, t) = {n}
      BY <2>2, <1>8, <1>10
    <3> QED
      BY <2>2, <3>1, <1>1, <1>5
  <2>3. CASE u = t /\ r.thread[t] # 0
    <3>1. /\ r.thread[t] \in Shown(r, t)
          /\ \A m \in Shown(r, t) :
               m <= r.thread[t] /\ \A k \in m..r.thread[t] : k \in Shown(r, t)
      BY <2>3, <1>1 DEF Threaded, Contiguous
    <3>2. n \in Shown(q, t) /\ q.thread[u] = n /\ n = r.thread[t] + 1
      BY <2>3, <1>5, <1>6, <1>8
    <3>3. ASSUME NEW m \in Shown(q, t), NEW k \in m..n
          PROVE  m <= n /\ k \in Shown(q, t)
      <4>1. CASE m = n
        BY <4>1, <3>2, <1>1
      <4>2. CASE m \in Shown(r, t)
        <5>1. m \in Nat /\ m <= r.thread[t]
          BY <4>2, <1>10
        <5>2. k = n \/ k \in m..r.thread[t]
          BY <5>1, <3>2, <1>1, <1>2
        <5> QED
          BY <5>1, <5>2, <4>2, <3>1, <3>2, <1>1, <1>2, <1>8
      <4> QED
        BY <4>1, <4>2, <1>8
    <3>4. \A m \in Shown(q, t) : m <= n
      BY <1>1, <1>2, <1>6, <1>8, <1>10
    <3> QED
      BY <2>3, <3>2, <3>3, <3>4
  <2> QED
    BY <2>1, <2>2, <2>3
<1>12. Contiguous(q)
  BY <1>11 DEF Contiguous
<1> QED
  BY <1>4, <1>7, <1>12 DEF Threaded

\* Threads without holes stay so while the content stays the same.
LEMMA SameContentThreaded ==
    ASSUME NEW r, NEW q, SameContent(r, q), Threaded(r)
    PROVE  Threaded(q)
<1>1. \A t \in Threads : Shown(q, t) = Shown(r, t)
  BY DEF SameContent, Shown
<1>2. Contiguous(q)
  BY <1>1 DEF SameContent, Threaded, Contiguous
<1> QED
  BY <1>2 DEF SameContent, Threaded

\* A notification leaves the threads without holes, when the events it folds into
\* them are also shown.
LEMMA AcceptThreaded ==
    ASSUME LogType, NEW r, Sound(r), Threaded(r), NEW e \in Entries, e.notice.pos <= Len(log),
           NEW io \in BOOLEAN, NEW fb \in BOOLEAN, r.asked = 0,
           r.recovering => r.phase = "recovering", ~r.recovering => r.buffer = <<>>,
           io => Decision(r, e.notice, fb) # "apply"
    PROVE  Threaded(AcceptNotification(r, e, io, fb))
<1> DEFINE q == AcceptNotification(r, e, io, fb)
           p == e.notice.pos
<1>1. e.notice \in Notices /\ p \in 1..Len(log)
  BY DEF Entries, Notices, Positions, LogType
<1>2. CASE SameContent(r, q)
  BY <1>2, SameContentThreaded
<1>3. CASE /\ Decision(r, e.notice, fb) = "apply"
           /\ q.thread = Apply(r, p, io).thread /\ q.timeline = Apply(r, p, io).timeline
           /\ q.twice = Apply(r, p, io).twice
  <2>1. ~Gap(r, p) /\ ~(SeqNo(p) <= r.thread[log[p]]) /\ io = FALSE
    BY <1>1, <1>3, DecisionKinds
  <2> HIDE DEF p, q
  <2>2. /\ Apply(r, p, io).timeline = IF io THEN r.timeline ELSE r.timeline \cup {p}
        /\ Apply(r, p, io).thread = [r.thread EXCEPT ![log[p]] = SeqNo(p)]
        /\ Apply(r, p, io).twice = IF ~io /\ p \in r.timeline THEN r.twice \cup {p}
                                   ELSE r.twice
    <3>1. r \in Runtimes
      BY DEF Sound
    <3> QED
      BY <3>1 DEF Apply, Runtimes
  <2>3. /\ q.thread = [r.thread EXCEPT ![log[p]] = SeqNo(p)]
        /\ q.timeline = r.timeline \cup {p}
        /\ q.twice = IF p \in r.timeline THEN r.twice \cup {p} ELSE r.twice
    BY <1>3, <2>1, <2>2
  <2> QED
    BY <1>1, <2>1, <2>3, FoldThreaded DEF q
<1> QED
  BY <1>2, <1>3, AcceptCases

\* A notification folded in order leaves no event out.
LEMMA AcceptShows ==
    ASSUME LogType, NEW r, Sound(r), Shows(r), NEW e \in Entries,
           NEW io \in BOOLEAN, NEW fb \in BOOLEAN, r.asked = 0,
           r.recovering => r.phase = "recovering", ~r.recovering => r.buffer = <<>>,
           io => Decision(r, e.notice, fb) # "apply",
           NEW seq \in Seq(Notices), \A i \in 1..Len(seq) : seq[i].pos <= Len(log),
           NEW k \in 0..Len(seq), k < Len(seq), e.notice = seq[k + 1],
           Brings(seq, k, r.cursor),
           AcceptNotification(r, e, io, fb).out = "settled"
    PROVE  /\ Shows(AcceptNotification(r, e, io, fb))
           /\ Brings(seq, k + 1, AcceptNotification(r, e, io, fb).cursor)
<1> DEFINE q == AcceptNotification(r, e, io, fb)
           p == seq[k + 1].pos
<1>1. /\ k + 1 \in 1..Len(seq) /\ Len(seq) \in Nat /\ Len(log) \in Nat
      /\ \A i \in 1..Len(seq) : seq[i] \in Notices /\ seq[i].pos \in 1..Len(log)
  <2>1. k + 1 \in 1..Len(seq) /\ Len(seq) \in Nat /\ Len(log) \in Nat
    BY DEF LogType
  <2>2. ASSUME NEW i \in 1..Len(seq)
        PROVE  seq[i] \in Notices /\ seq[i].pos \in 1..Len(log)
    <3>1. seq[i] \in Notices /\ seq[i].pos <= Len(log)
      OBVIOUS
    <3> QED
      BY <3>1, <2>1, StreamAssumption DEF Notices, Positions
  <2> QED
    BY <2>1, <2>2
<1>2. p \in 1..Len(log) /\ e.notice.pos = p /\ Heard(e.notice)
  BY <1>1 DEF Heard
<1>3. r.cursor \in Nat
  BY StreamAssumption DEF Sound, Runtimes, Cursors
<1> HIDE DEF p, q
<1>4. ASSUME NEW c \in Nat, r.cursor <= c, p <= c,
             \A x \in (r.cursor + 1)..c : x \in silent \/ x = p
      PROVE  Brings(seq, k + 1, c)
  <2>1. ASSUME NEW i \in (k + 2)..Len(seq), NEW j \in (k + 2)..Len(seq), i < j,
               seq[j].pos > c
        PROVE  seq[i].pos < seq[j].pos
    <3>1. i \in (k + 1)..Len(seq) /\ j \in (k + 1)..Len(seq) /\ j \in 1..Len(seq)
      BY <2>1
    <3>2. seq[j].pos > r.cursor
      BY <3>1, <2>1, <1>1, <1>3, <1>4
    <3> QED
      BY <3>1, <3>2, <2>1 DEF Brings
  <2>2. ASSUME NEW x \in (c + 1)..Len(log), x \notin silent
        PROVE  \E i \in (k + 2)..Len(seq) : seq[i].pos = x
    <3>1. x \in (r.cursor + 1)..Len(log) /\ x # p
      BY <1>1, <1>2, <1>3, <1>4
    <3>2. PICK i \in (k + 1)..Len(seq) : seq[i].pos = x
      BY <3>1, <2>2 DEF Brings
    <3>3. i # k + 1
      BY <3>1, <3>2 DEF p
    <3> QED
      BY <3>2, <3>3
  <2>3. (k + 1) + 1 = k + 2
    OBVIOUS
  <2> QED
    BY <2>1, <2>2, <2>3 DEF Brings
<1>5. CASE SameContent(r, q) /\ Decision(r, e.notice, fb) = "ignore"
  <2>1. p <= r.cursor
    BY <1>2, <1>5, IgnoredIsBehind
  <2>2. q.cursor = r.cursor /\ q.timeline = r.timeline
    BY <1>5 DEF SameContent
  <2>3. Brings(seq, k + 1, r.cursor)
    BY <2>1, <1>3, <1>4
  <2> QED
    BY <2>2, <2>3 DEF Shows, q
<1>6. CASE /\ Decision(r, e.notice, fb) = "apply"
           /\ q.cursor = Apply(r, p, io).cursor /\ q.timeline = Apply(r, p, io).timeline
  <2>1. /\ Apply(r, p, io).cursor = IF p > r.cursor THEN p ELSE r.cursor
        /\ Apply(r, p, io).timeline = IF io THEN r.timeline ELSE r.timeline \cup {p}
    <3>1. r \in Runtimes
      BY DEF Sound
    <3> QED
      BY <3>1 DEF Apply, Runtimes
  <2>2. /\ q.cursor = IF p > r.cursor THEN p ELSE r.cursor
        /\ q.timeline = r.timeline \cup {p}
    BY <1>6, <2>1
  <2>3. ASSUME NEW x \in (r.cursor + 1)..q.cursor, x \notin silent
        PROVE  x = p
    <3>1. p > r.cursor /\ q.cursor = p /\ x <= p
      BY <2>2, <1>2, <1>3
    <3>2. x \in (r.cursor + 1)..Len(log)
      BY <3>1, <1>1, <1>2, <1>3
    <3>3. PICK i \in (k + 1)..Len(seq) : seq[i].pos = x
      BY <3>2, <2>3 DEF Brings
    <3>4. CASE i = k + 1
      BY <3>3, <3>4 DEF p
    <3>5. CASE i # k + 1
      <4>1. k + 1 < i /\ seq[i].pos > r.cursor /\ k + 1 \in (k + 1)..Len(seq)
        BY <3>2, <3>3, <3>5, <1>1, <1>3
      <4>2. seq[k + 1].pos < seq[i].pos
        BY <4>1 DEF Brings
      <4> QED
        BY <4>2, <3>1, <3>2, <3>3, <1>2, <1>3 DEF p
    <3> QED
      BY <3>4, <3>5
  <2>4. q.cursor \in Nat /\ r.cursor <= q.cursor /\ p <= q.cursor
    BY <2>2, <1>2, <1>3
  <2>5. Brings(seq, k + 1, q.cursor)
    BY <2>3, <2>4, <1>4
  <2>6. \A x \in 1..q.cursor : x \in 1..r.cursor \/ x \in (r.cursor + 1)..q.cursor
    BY <2>4, <1>3
  <2>7. Shows(q)
    BY <2>2, <2>3, <2>6 DEF Shows
  <2> QED
    BY <2>5, <2>7 DEF q
<1>7. e.notice.pos <= Len(log)
  BY <1>2, <1>1
<1>8. \/ SameContent(r, q) /\ (q.out = "settled" => Decision(r, e.notice, fb) = "ignore")
      \/ /\ Decision(r, e.notice, fb) = "apply"
         /\ q.cursor = Apply(r, e.notice.pos, io).cursor
         /\ q.timeline = Apply(r, e.notice.pos, io).timeline
  BY <1>7, AcceptCases DEF q
<1> QED
  BY <1>2, <1>5, <1>6, <1>8 DEF q
-----------------------------------------------------------------------------
(* The drain of the recovery buffer *)

\* A receipt that the hydrate covers is behind the cursor, so it is never applied.
LEMMA CoveredIsStale ==
    ASSUME NEW q, Sound(q), NEW notice \in Notices, NEW snapshot \in Nat,
           snapshot <= q.cursor, Covered(notice, snapshot)
    PROVE  Decision(q, notice, TRUE) # "apply"
<1>1. notice.pos \in Nat /\ notice.pos <= snapshot /\ q.cursor \in Nat
  BY StreamAssumption DEF Covered, Notices, Positions, Sound, Runtimes, Cursors
<1>2. Stale(q, notice.pos, TRUE)
  BY <1>1 DEF Stale
<1> QED
  BY <1>2, DecisionKinds

\* One entry of the drain, whatever became of the ones before it.
LEMMA DrainNextStep ==
    ASSUME LogType, NEW r, ~r.recovering, NEW q, Sound(q), Outcome(r, q),
           r.operation \in Nat, r.cursor \in Nat,
           NEW e \in Entries, e.notice.pos <= Len(log),
           NEW snapshot \in Nat, snapshot <= r.cursor
    PROVE  LET n == DrainNext(q, e, snapshot)
           IN  /\ Sound(n) /\ Outcome(r, n)
               /\ Threaded(q) => Threaded(n)
               /\ n.out = "settled" =>
                    /\ q.out = "settled" /\ q.asked = 0 /\ ~q.recovering /\ q.buffer = <<>>
                    /\ n = AcceptNotification(q, e, Covered(e.notice, snapshot), TRUE)
                    /\ Covered(e.notice, snapshot) => Decision(q, e.notice, TRUE) # "apply"
<1> DEFINE n == DrainNext(q, e, snapshot)
           io == Covered(e.notice, snapshot)
<1> SUFFICES /\ Sound(n) /\ Outcome(r, n)
             /\ Threaded(q) => Threaded(n)
             /\ n.out = "settled" =>
                  /\ q.out = "settled" /\ q.asked = 0 /\ ~q.recovering /\ q.buffer = <<>>
                  /\ n = AcceptNotification(q, e, io, TRUE)
                  /\ io => Decision(q, e.notice, TRUE) # "apply"
  OBVIOUS
<1>1. /\ e.notice \in Notices /\ io \in BOOLEAN /\ q.operation \in Nat /\ q.cursor \in Nat
      /\ q.asked \in Nat
  BY StreamAssumption DEF Entries, Covered, Sound, Runtimes, Cursors
<1>2. r.cursor <= q.cursor /\ snapshot <= q.cursor
  BY <1>1 DEF Outcome
<1>3. io => Decision(q, e.notice, TRUE) # "apply"
  BY <1>1, <1>2, CoveredIsStale
<1> HIDE DEF io
<1>4. CASE q.out = "terminal"
  <2>1. n = q
    BY <1>4 DEF DrainNext
  <2> HIDE DEF n
  <2> QED
    BY <1>4, <2>1
<1>5. CASE q.out = "recovering"
  <2>1. n = EnqueueRecovery(q, e)
    BY <1>5 DEF DrainNext
  <2>2. /\ q.recovering /\ q.phase = "recovering" /\ q.binding = r.binding
        /\ q.asked = q.operation /\ r.operation < q.operation
        /\ q.generation = r.generation /\ q.authority = r.authority
        /\ q.suspended = r.suspended
    BY <1>5 DEF Outcome
  <2> HIDE DEF n
  <2>3. CASE n = FailCurrent(q)
    <3>1. /\ Sound(n) /\ SameContent(q, n) /\ n.operation = q.operation + 1
          /\ n.recovering = FALSE /\ n.buffer = <<>> /\ n.phase = "error"
          /\ n.binding = FALSE /\ n.asked = q.asked /\ n.out = "terminal"
      BY <2>3, FailCurrentSound
    <3>2. Outcome(r, n)
      BY <1>1, <1>2, <2>2, <3>1 DEF Outcome, SameContent
    <3> QED
      BY <3>1, <3>2, SameContentThreaded
  <2>4. CASE n # FailCurrent(q)
    <3>1. /\ Sound(n) /\ SameContent(q, n) /\ n.binding = q.binding /\ n.phase = q.phase
          /\ n.recovering = q.recovering /\ n.operation = q.operation
          /\ n.asked = q.asked /\ n.out = "recovering"
      BY <2>1, <2>4, EnqueueSound
    <3>2. Outcome(r, n)
      BY <1>2, <2>2, <3>1 DEF Outcome, SameContent
    <3> QED
      BY <3>1, <3>2, SameContentThreaded
  <2> QED
    BY <2>3, <2>4
<1>6. CASE q.out = "settled"
  <2>1. n = AcceptNotification(q, e, io, TRUE)
    BY <1>6 DEF DrainNext, io
  <2>2. /\ ~q.recovering /\ q.asked = 0 /\ q.buffer = <<>> /\ q.operation = r.operation
        /\ q.phase = r.phase /\ q.binding = r.binding /\ q.generation = r.generation
        /\ q.authority = r.authority /\ q.suspended = r.suspended
    BY <1>6 DEF Outcome
  <2> HIDE DEF n
  <2>3. Sound(n) /\ Outcome(q, n)
    BY <1>1, <2>1, <2>2, AcceptCases
  <2>4. n.cursor \in Nat
    BY <2>3, StreamAssumption DEF Sound, Runtimes, Cursors
  <2>5. Outcome(r, n)
    BY <1>1, <1>2, <2>2, <2>3, <2>4 DEF Outcome
  <2>6. Threaded(q) => Threaded(n)
    BY <1>1, <1>3, <2>1, <2>2, AcceptThreaded
  <2> QED
    BY <1>3, <1>6, <2>1, <2>2, <2>3, <2>5, <2>6
<1> QED
  BY <1>4, <1>5, <1>6 DEF Outcome

\* The whole drain, for a record that was just committed.  When it settles and the
\* buffer and what follows it bring every event, the timeline has them.
LEMMA DrainSound ==
    ASSUME LogType, NEW r, Sound(r), ~r.recovering, r.buffer = <<>>, r.asked = 0,
           NEW entries, HeardAll(entries), NEW snapshot \in Nat, snapshot <= r.cursor,
           NEW seq \in Seq(Notices), \A i \in 1..Len(seq) : seq[i].pos <= Len(log),
           Len(entries) <= Len(seq),
           \A i \in 1..Len(entries) : entries[i].notice = seq[i]
    PROVE  LET q == DrainNotifications(r, entries, snapshot)
           IN  /\ Sound(q) /\ Outcome(r, q)
               /\ Threaded(r) => Threaded(q)
               /\ q.out = "settled" /\ Shows(r) /\ Brings(seq, 0, r.cursor)
                    => Shows(q) /\ Brings(seq, Len(entries), q.cursor)
<1>1. /\ r \in Runtimes /\ entries \in Seq(Entries) /\ r.operation \in Nat
      /\ r.cursor \in Nat /\ Len(entries) \in Nat /\ Len(seq) \in Nat
  BY StreamAssumption DEF Sound, HeardAll, Runtimes, Cursors
<1>2. PICK run :
        /\ run[0] = [r EXCEPT !.out = "settled"]
        /\ \A i \in 1..Len(entries) : run[i] = DrainNext(run[i - 1], entries[i], snapshot)
        /\ DrainNotifications(r, entries, snapshot) = run[Len(entries)]
  BY <1>1, DrainRun
<1> DEFINE Good(i) ==
             /\ Sound(run[i]) /\ Outcome(r, run[i])
             /\ Threaded(r) => Threaded(run[i])
             /\ run[i].out = "settled" /\ Shows(r) /\ Brings(seq, 0, r.cursor)
                  => Shows(run[i]) /\ Brings(seq, i, run[i].cursor)
           S == {i \in 0..Len(entries) : Good(i)}
<1>3. 0 \in S
  <2> DEFINE q == run[0]
  <2>1. q \in Runtimes /\ SameContent(r, q) /\ SameControl(r, q) /\ q.out = "settled"
    BY <1>1, <1>2 DEF Runtimes, Outs, SameContent, SameControl
  <2> HIDE DEF q
  <2>2. Sound(q)
    BY <2>1 DEF Sound, SameContent, SameControl
  <2>3. Outcome(r, q)
    BY <1>1, <2>1 DEF Outcome, SameContent, SameControl
  <2>4. Threaded(r) => Threaded(q)
    BY <2>1, SameContentThreaded
  <2>5. q.cursor = r.cursor /\ (Shows(r) => Shows(q))
    BY <2>1 DEF SameContent, Shows
  <2> QED
    BY <1>1, <2>2, <2>3, <2>4, <2>5 DEF q
<1>4. ASSUME NEW i \in 1..Len(entries), i - 1 \in S
      PROVE  i \in S
  <2> DEFINE q == run[i - 1]
             e == entries[i]
             n == DrainNext(q, e, snapshot)
             io == Covered(e.notice, snapshot)
  <2>1. Good(i - 1) /\ i - 1 \in Nat /\ i - 1 \in 0..Len(seq) /\ i - 1 < Len(seq)
    BY <1>1, <1>4
  <2>2. e \in Entries /\ e.notice.pos <= Len(log) /\ e.notice = seq[i] /\ run[i] = n
    BY <1>1, <1>2 DEF HeardAll
  <2>3. Sound(q) /\ Outcome(r, q)
    BY <2>1
  <2> HIDE DEF q, e, n
  <2>4. /\ Sound(n) /\ Outcome(r, n)
        /\ Threaded(q) => Threaded(n)
        /\ n.out = "settled" =>
             /\ q.out = "settled" /\ q.asked = 0 /\ ~q.recovering /\ q.buffer = <<>>
             /\ n = AcceptNotification(q, e, io, TRUE)
             /\ io => Decision(q, e.notice, TRUE) # "apply"
    BY <1>1, <2>2, <2>3, DrainNextStep DEF n
  <2>5. ASSUME n.out = "settled", Shows(r), Brings(seq, 0, r.cursor)
        PROVE  Shows(n) /\ Brings(seq, i, n.cursor)
    <3>1. Shows(q) /\ Brings(seq, i - 1, q.cursor)
      BY <2>1, <2>4, <2>5 DEF q
    <3>2. io \in BOOLEAN /\ e.notice = seq[(i - 1) + 1] /\ (i - 1) + 1 = i
      BY <2>2 DEF Covered
    <3> DEFINE k == i - 1
    <3>3. k \in 0..Len(seq) /\ k < Len(seq) /\ e.notice = seq[k + 1]
      BY <2>1, <3>2
    <3>4. Brings(seq, k, q.cursor) /\ AcceptNotification(q, e, io, TRUE).out = "settled"
      BY <2>4, <2>5, <3>1
    <3> HIDE DEF k, io
    <3>5. /\ Shows(AcceptNotification(q, e, io, TRUE))
          /\ Brings(seq, k + 1, AcceptNotification(q, e, io, TRUE).cursor)
      BY <2>2, <2>3, <2>4, <2>5, <3>1, <3>2, <3>3, <3>4, AcceptShows
    <3>6. k + 1 = i
      BY <3>2 DEF k
    <3> QED
      BY <2>4, <2>5, <3>5, <3>6
  <2>6. Threaded(r) => Threaded(n)
    BY <2>1, <2>4 DEF q
  <2>7. Good(i)
    BY <2>2, <2>4, <2>5, <2>6
  <2> HIDE DEF Good
  <2> QED
    BY <1>1, <2>7
<1>5. \A i \in 0..Len(entries) : i \in S
  <2> HIDE DEF S
  <2> QED
    BY <1>1, <1>3, <1>4, UpTo
<1>6. Good(Len(entries))
  <2> HIDE DEF Good
  <2> QED
    BY <1>1, <1>5
<1> QED
  BY <1>2, <1>6
-----------------------------------------------------------------------------
(* The commit of a snapshot, and the end of a synchronous stretch *)

\* A snapshot shows the whole log up to it; when it is canonical it also says where
\* every thread stands.
LEMMA CommitSound ==
    ASSUME LogType, NEW r, Sound(r), NEW snapshot \in 0..Len(log)
    PROVE  LET q == CommitHydrate(r, snapshot)
           IN  /\ Sound(q) /\ Shows(q) /\ q.cursor = snapshot
               /\ q.generation = r.generation /\ q.authority = r.authority
               /\ q.suspended = r.suspended /\ q.binding = r.binding /\ q.phase = r.phase
               /\ q.recovering = r.recovering /\ q.buffer = r.buffer
               /\ q.operation = r.operation /\ q.asked = r.asked /\ q.out = r.out
               /\ Canonical /\ r.twice = {} => Threaded(q)
<1> DEFINE q == CommitHydrate(r, snapshot)
           mark == IF Canonical THEN snapshot ELSE 0
           numbers == [t \in Threads |-> IF Canonical THEN SeqAt(t, snapshot) ELSE 0]
           shown == 1..snapshot
<1>1. /\ snapshot \in Nat /\ Len(log) \in Nat /\ Len(log) <= MaxEvents /\ MaxEvents \in Nat
      /\ Canonical \in BOOLEAN /\ r \in Runtimes
  BY StreamAssumption DEF LogType, Sound
<1>2. \A t \in Threads : SeqAt(t, snapshot) \in Nat /\ SeqAt(t, snapshot) <= snapshot
  BY <1>1, SeqAtNat
<1>3. snapshot \in Cursors /\ mark \in Cursors /\ shown \in Timelines
  BY <1>1 DEF Cursors, Timelines, Positions
<1>4. numbers \in Numbers
  BY <1>1, <1>2 DEF Numbers
<1>5. q = [r EXCEPT !.cursor = snapshot, !.checkpoint = mark, !.thread = numbers,
                    !.timeline = shown]
  BY DEF CommitHydrate
<1>6. mark <= snapshot /\ shown \subseteq 1..Len(log)
      /\ \A t \in Threads : numbers[t] <= SeqAt(t, snapshot)
  BY <1>1, <1>2
<1>7. Canonical => \A t \in Threads : numbers[t] = SeqAt(t, snapshot)
  OBVIOUS
<1> HIDE DEF mark, numbers, q
<1>8. q \in Runtimes
  <2> HIDE DEF shown
  <2> QED
    BY <1>1, <1>3, <1>4, <1>5 DEF Runtimes
<1>9. /\ q.cursor = snapshot /\ q.checkpoint = mark /\ q.thread = numbers /\ q.timeline = shown
      /\ q.generation = r.generation /\ q.authority = r.authority
      /\ q.suspended = r.suspended /\ q.binding = r.binding /\ q.phase = r.phase
      /\ q.recovering = r.recovering /\ q.buffer = r.buffer
      /\ q.operation = r.operation /\ q.asked = r.asked /\ q.out = r.out /\ q.twice = r.twice
  <2> HIDE DEF shown
  <2> QED
    BY <1>1, <1>5 DEF Runtimes
<1>10. Sound(q)
  BY <1>1, <1>6, <1>8, <1>9 DEF Sound
<1>11. Shows(q)
  BY <1>9 DEF Shows
<1>12. ASSUME Canonical, r.twice = {}
       PROVE  Threaded(q)
  <2>1. ASSUME NEW t \in Threads
        PROVE  Shown(q, t) = {SeqAt(t, p) : p \in {x \in 1..snapshot : log[x] = t}}
    BY <1>9 DEF Shown, SeqNo
  <2>2. ASSUME NEW p \in 1..snapshot
        PROVE  SeqNo(p) <= q.thread[log[p]]
    <3>1. p \in 1..Len(log) /\ p \in 0..snapshot
      BY <1>1
    <3>2. log[p] \in Threads /\ SeqNo(p) = SeqAt(log[p], p)
      BY <3>1, SeqNoType
    <3>3. SeqAt(log[p], p) <= SeqAt(log[p], snapshot)
      BY <1>1, <3>1, SeqAtMonotone
    <3> QED
      BY <1>7, <1>9, <1>12, <3>2, <3>3
  <2>3. ASSUME NEW t \in Threads, NEW k \in 1..q.thread[t]
        PROVE  k \in Shown(q, t)
    <3>1. q.thread[t] = SeqAt(t, snapshot)
      BY <1>7, <1>9, <1>12
    <3>2. PICK p \in 1..snapshot : log[p] = t /\ SeqAt(t, p) = k
      BY <1>1, <3>1, SeqAtOnto
    <3> QED
      BY <2>1, <3>2
  <2>4. ASSUME NEW t \in Threads, NEW n \in Shown(q, t)
        PROVE  n \in Nat \ {0} /\ n <= q.thread[t]
    <3>1. PICK p \in 1..snapshot : log[p] = t /\ n = SeqAt(t, p)
      BY <2>1, <2>4
    <3>2. p \in 1..Len(log)
      BY <1>1
    <3>3. SeqNo(p) \in 1..MaxEvents /\ SeqNo(p) = SeqAt(log[p], p)
      BY <3>2, SeqNoType
    <3>4. SeqNo(p) <= q.thread[log[p]]
      BY <2>2
    <3> QED
      BY <1>1, <3>1, <3>3, <3>4
  <2>5. \A t \in Threads : q.thread[t] \in Nat
    BY <1>2, <1>7, <1>9, <1>12
  <2>6. Contiguous(q)
    <3> SUFFICES ASSUME NEW t \in Threads, q.thread[t] # 0
                 PROVE  /\ q.thread[t] \in Shown(q, t)
                        /\ \A n \in Shown(q, t) :
                             /\ n <= q.thread[t]
                             /\ \A k \in n..q.thread[t] : k \in Shown(q, t)
      BY DEF Contiguous
    <3>1. q.thread[t] \in 1..q.thread[t]
      BY <2>5
    <3>2. q.thread[t] \in Shown(q, t)
      BY <3>1, <2>3
    <3>3. ASSUME NEW n \in Shown(q, t), NEW k \in n..q.thread[t]
          PROVE  k \in Shown(q, t)
      <4>1. n \in Nat \ {0}
        BY <2>4
      <4>2. k \in 1..q.thread[t]
        BY <4>1, <2>5
      <4> QED
        BY <4>2, <2>3
    <3> QED
      BY <3>2, <3>3, <2>4
  <2> QED
    BY <1>9, <1>12, <2>2, <2>6 DEF Threaded
<1> QED
  BY <1>9, <1>10, <1>11, <1>12 DEF q

\* How a synchronous stretch from r ends.
Ends(r, q) ==
    /\ q.generation = r.generation /\ q.authority = r.authority
    /\ q.suspended = r.suspended /\ r.operation <= q.operation
    /\ q.binding => r.binding
    /\ \/ q.asked = 0
       \/ r.operation < q.asked /\ q.asked <= q.operation
          /\ (q.asked = q.operation => q.recovering)
    /\ IF q.recovering
       THEN /\ q.phase = "recovering"
            /\ q.asked = q.operation
                 \/ (r.recovering /\ q.operation = r.operation /\ q.asked = 0)
       ELSE /\ q.buffer = <<>>
            /\ r.recovering => r.operation < q.operation

\* What one notification may do to the record is one way a stretch may end.
LEMMA OutcomeEnds ==
    ASSUME NEW r, NEW q, r \in Runtimes, q \in Runtimes, Outcome(r, q)
    PROVE  Ends(r, q)
<1>1. r.operation \in Nat /\ q.operation \in Nat /\ q.asked \in Nat
  BY DEF Runtimes
<1> QED
  BY <1>1 DEF Outcome, Ends

\* #finishRecovery makes the record ready, or gives up on a socket that is closed.
LEMMA FinishSound ==
    ASSUME NEW r, r \in Runtimes, NEW q, Sound(q), Outcome(r, q),
           connected \in BOOLEAN
    PROVE  LET f == FinishRecovery(q)
           IN  /\ Sound(f) /\ Ends(r, f) /\ SameContent(q, f)
               /\ ~q.recovering /\ connected => f.phase = "ready" /\ f.binding = q.binding
               /\ ~q.recovering /\ ~connected => f.phase = "error"
               /\ q.recovering => f = q
<1> DEFINE f == FinishRecovery(q)
<1>1. r.operation \in Nat /\ q.operation \in Nat /\ q.asked \in Nat /\ q \in Runtimes
  BY DEF Runtimes, Sound
<1>2. Ends(r, q)
  BY <1>1, OutcomeEnds
<1>3. CASE q.recovering
  <2>1. f = q
    BY <1>3 DEF FinishRecovery
  <2> HIDE DEF f
  <2>2. SameContent(q, q)
    BY DEF SameContent
  <2> QED
    BY <1>2, <1>3, <2>1, <2>2 DEF f
<1>4. CASE ~q.recovering /\ connected
  <2>1. f = [q EXCEPT !.phase = "ready"]
    BY <1>4 DEF FinishRecovery
  <2>2. "ready" \in Phases
    BY DEF Phases
  <2>3. /\ f \in Runtimes /\ SameContent(q, f) /\ f.phase = "ready" /\ f.binding = q.binding
        /\ f.recovering = q.recovering /\ f.buffer = q.buffer /\ f.operation = q.operation
        /\ f.asked = q.asked
    BY <1>1, <2>1, <2>2 DEF Runtimes, SameContent
  <2> HIDE DEF f
  <2>4. Sound(f)
    BY <2>3 DEF Sound, SameContent
  <2>5. Ends(r, f)
    BY <1>2, <1>4, <2>3 DEF Ends, SameContent
  <2> QED
    BY <1>4, <2>3, <2>4, <2>5 DEF f
<1>5. CASE ~q.recovering /\ ~connected
  <2>1. f = FailCurrent(q)
    BY <1>5 DEF FinishRecovery
  <2> HIDE DEF f
  <2>2. /\ Sound(f) /\ SameContent(q, f) /\ f.operation = q.operation + 1
        /\ f.recovering = FALSE /\ f.buffer = <<>> /\ f.phase = "error"
        /\ f.binding = FALSE /\ f.asked = q.asked
    BY <2>1, FailCurrentSound
  <2>3. Ends(r, f)
    BY <1>1, <1>2, <1>5, <2>2 DEF Ends, SameContent
  <2> QED
    BY <1>5, <2>2, <2>3 DEF f
<1> QED
  BY <1>3, <1>4, <1>5 DEF f
-----------------------------------------------------------------------------
(* The inductive invariant *)

Calls == [operation : Nat, generation : Nat, kind : {"recovery", "rehydrate"},
          answered : BOOLEAN, snapshot : 0..MaxEvents]
Candidates == [stage : {"none", "opening", "hydrating", "hydrated", "failed"},
               resume : BOOLEAN, notices : Seq(Notices), snapshot : 0..MaxEvents]

HeardSeq(seq) == seq \in Seq(Notices) /\ \A i \in 1..Len(seq) : seq[i].pos <= Len(log)

\* The types of the rest of the state; nobody speaks of an event not in the log.
Shape ==
    /\ LogType /\ silent \subseteq Positions
    /\ cand \in Candidates /\ Len(cand.notices) <= Limit /\ cand.snapshot <= Len(log)
    /\ HeardSeq(cand.notices) /\ HeardSeq(wire)
    /\ hydrates \subseteq Calls /\ \A h \in hydrates : h.snapshot <= Len(log)
    /\ lease \in Nat /\ recoveryError \in BOOLEAN
    /\ closed \in BOOLEAN /\ connected \in BOOLEAN /\ subscribed \in BOOLEAN

\* Who may listen, recover or be ready.
Link ==
    /\ subscribed => connected
    /\ ~subscribed => wire = <<>>
    /\ cand.stage # "none" => connected /\ ~closed
    /\ cand.stage \in {"hydrating", "hydrated"} => subscribed
    /\ cand.resume => rt.authority = 0
    /\ rt.authority # 0 => connected /\ ~closed
    /\ rt.authority <= rt.generation
    /\ rt.binding => rt.authority # 0
    /\ rt.recovering => rt.authority # 0 /\ subscribed
    /\ rt.phase = "ready" => rt.authority # 0 /\ subscribed /\ ~rt.recovering
    /\ lease # 0 => subscribed

CurrentCall(r, h) == r.authority # 0 /\ r.authority = h.generation /\ r.operation = h.operation

\* A hydrate call that is still current is the one the recovery waits for.
Operations ==
    /\ \A h \in hydrates : h.operation <= rt.operation /\ h.generation <= rt.generation
    /\ \A g, h \in hydrates : g.operation = h.operation => g = h
    /\ \A h \in hydrates : CurrentCall(rt, h) => rt.recovering

NoticesOf(entries) == [i \in 1..Len(entries) |-> entries[i].notice]

\* What is not shown is on its way: for a record that is ready, for one that waits
\* for a hydrate and for a candidate whose snapshot has been taken.
ReadyComplete ==
    rt.phase = "ready" /\ rt.binding => Shows(rt) /\ Brings(wire, 0, rt.cursor)
CallsComplete ==
    \A h \in hydrates :
        h.answered /\ CurrentCall(rt, h) /\ rt.binding
            => Brings(NoticesOf(rt.buffer) \o wire, 0, h.snapshot)
CandidateComplete ==
    cand.stage = "hydrated" => Brings(cand.notices \o wire, 0, cand.snapshot)

\* The threads of a record that has canonical snapshots.
Canon ==
    Canonical => /\ rt.twice = {} /\ Contiguous(rt)
                 /\ ~closed => Threaded(rt)

StreamInv ==
    /\ Sound(rt) /\ Resting(rt) /\ Shape /\ Link /\ Operations
    /\ ReadyComplete /\ CallsComplete /\ CandidateComplete /\ Canon

\* Soundness reads only the record and the log: no new event, no change.
LEMMA SoundPrimed ==
    ASSUME log' = log, Sound(rt')
    PROVE  Sound(rt)'
  BY DEF Sound, HeardAll, SeqAt

\* So do the absence of holes and contiguity.
LEMMA ThreadedPrimed ==
    ASSUME log' = log
    PROVE  /\ Threaded(rt') => Threaded(rt)'
           /\ Contiguous(rt') => Contiguous(rt)'
<1>1. \A t : Shown(rt, t)' = Shown(rt', t)
  BY DEF Shown, SeqNo, SeqAt
<1>2. Contiguous(rt') => Contiguous(rt)'
  BY <1>1 DEF Contiguous
<1> QED
  BY <1>2 DEF Threaded, SeqNo, SeqAt

\* The end of a synchronous stretch: the hydrate call it made, if any, is the only
\* one that can still be current, unless the record goes on waiting for an older one.
LEMMA SettleInv ==
    ASSUME StreamInv, log' = log, NEW kind \in {"recovery", "rehydrate"},
           NEW r, r \in Runtimes, r.authority <= r.generation,
           rt.generation <= r.generation,
           NEW q, Sound(q), Ends(r, q),
           NEW calls, calls \subseteq hydrates,
           \A g \in calls : g.operation <= r.operation /\ (CurrentCall(r, g) => r.recovering),
           Settle(q, calls, kind)
    PROVE  /\ Sound(rt)' /\ Resting(rt)' /\ Operations'
           /\ (hydrates \subseteq Calls)' /\ (\A h \in hydrates : h.snapshot <= Len(log))'
           /\ SameContent(q, rt') /\ rt'.binding = q.binding /\ rt'.phase = q.phase
           /\ rt'.recovering = q.recovering /\ rt'.buffer = q.buffer
           /\ rt'.operation = q.operation
           /\ \A h \in hydrates' : h.answered /\ CurrentCall(rt', h) =>
                /\ h \in calls /\ CurrentCall(r, h)
                /\ r.recovering /\ q.recovering /\ q.asked = 0
<1> DEFINE new == [operation |-> q.asked, generation |-> q.authority, kind |-> kind,
                   answered |-> FALSE, snapshot |-> 0]
<1>1. /\ q \in Runtimes /\ q.operation \in Nat /\ q.asked \in Nat /\ q.authority \in Nat
      /\ r.operation \in Nat /\ r.authority \in Nat /\ r.generation \in Nat
      /\ q.generation = r.generation /\ q.authority = r.authority
  BY DEF Sound, Runtimes, Ends
<1>2. /\ rt' = [q EXCEPT !.asked = 0, !.out = "settled"]
      /\ hydrates' = calls \cup (IF q.asked = 0 THEN {} ELSE {new})
  BY DEF Settle
<1>3. /\ rt' \in Runtimes /\ SameContent(q, rt') /\ rt'.binding = q.binding
      /\ rt'.phase = q.phase /\ rt'.recovering = q.recovering /\ rt'.buffer = q.buffer
      /\ rt'.operation = q.operation /\ rt'.asked = 0 /\ rt'.out = "settled"
  BY <1>1, <1>2 DEF Runtimes, Outs, SameContent
<1>4. Sound(rt')
  BY <1>3 DEF Sound, SameContent
<1>5. Sound(rt)'
  BY <1>4, SoundPrimed
<1>6. Resting(rt)'
  BY <1>3 DEF Resting, Ends
<1>7. /\ new \in Calls /\ new.operation = q.asked /\ new.generation = r.authority
      /\ new.answered = FALSE /\ new.snapshot = 0
  BY <1>1, StreamAssumption DEF Calls
<1>8. /\ hydrates \subseteq Calls /\ \A h \in hydrates : h.snapshot <= Len(log)
      /\ Len(log) \in Nat
  BY DEF StreamInv, Shape, LogType
<1> HIDE DEF new
<1>9. /\ (hydrates \subseteq Calls)' /\ (\A h \in hydrates : h.snapshot <= Len(log))'
  BY <1>2, <1>7, <1>8 DEF Calls
<1>10. /\ rt'.generation = r.generation /\ rt'.authority = r.authority
       /\ rt'.operation = q.operation
  BY <1>1, <1>3 DEF SameContent
<1>11. /\ \A g \in calls : /\ g.operation \in Nat /\ g.operation <= r.operation
                           /\ g.generation <= r.generation
       /\ \A g, h \in calls : g.operation = h.operation => g = h
  <2>1. \A g \in calls : g.operation \in Nat /\ g.generation \in Nat
    BY <1>8 DEF Calls
  <2>2. \A g \in calls : g.generation <= rt.generation
    BY DEF StreamInv, Operations
  <2>3. rt.generation \in Nat
    BY DEF StreamInv, Sound, Runtimes
  <2>4. \A g, h \in calls : g.operation = h.operation => g = h
    BY DEF StreamInv, Operations
  <2> QED
    BY <2>1, <2>2, <2>3, <2>4, <1>1
<1>12. Operations'
  <2>1. (\A h \in hydrates : h.operation <= rt.operation /\ h.generation <= rt.generation)'
    BY <1>1, <1>2, <1>7, <1>10, <1>11 DEF Ends
  <2>2. (\A g, h \in hydrates : g.operation = h.operation => g = h)'
    BY <1>1, <1>2, <1>7, <1>11 DEF Ends
  <2>3. ASSUME NEW h \in hydrates', CurrentCall(rt', h)
        PROVE  rt'.recovering
    <3>1. CASE h \in calls
      <4>1. h.operation = q.operation /\ h.operation <= r.operation /\ h.operation \in Nat
        BY <2>3, <3>1, <1>10, <1>11 DEF CurrentCall
      <4>2. q.operation = r.operation
        BY <4>1, <1>1 DEF Ends
      <4>3. CurrentCall(r, h)
        BY <4>2, <2>3, <1>10 DEF CurrentCall
      <4>4. r.recovering
        BY <3>1, <4>3
      <4>5. q.recovering
        BY <4>2, <4>4, <1>1 DEF Ends
      <4> QED
        BY <4>5, <1>3
    <3>2. CASE h \notin calls
      BY <2>3, <3>2, <1>1, <1>2, <1>3, <1>7, <1>10 DEF Ends, CurrentCall
    <3> QED
      BY <3>1, <3>2
  <2>4. (\A h \in hydrates : CurrentCall(rt, h) => rt.recovering)'
    BY <2>3 DEF CurrentCall
  <2> QED
    BY <2>1, <2>2, <2>4 DEF Operations
<1>13. ASSUME NEW h \in hydrates', h.answered, CurrentCall(rt', h)
       PROVE  /\ h \in calls /\ CurrentCall(r, h)
              /\ r.recovering /\ q.recovering /\ q.asked = 0
  <2>1. h \in calls
    BY <1>2, <1>7, <1>13
  <2>2. h.operation = q.operation /\ h.operation <= r.operation /\ h.operation \in Nat
    BY <2>1, <1>10, <1>11, <1>13 DEF CurrentCall
  <2>3. q.operation = r.operation
    BY <2>2, <1>1 DEF Ends
  <2>4. CurrentCall(r, h)
    BY <2>3, <1>10, <1>13 DEF CurrentCall
  <2>5. r.recovering
    BY <2>1, <2>4
  <2> QED
    BY <2>1, <2>3, <2>4, <2>5, <1>1 DEF Ends
<1> QED
  BY <1>3, <1>5, <1>6, <1>9, <1>12, <1>13
-----------------------------------------------------------------------------
(* Notices on their way *)

\* Moving the first notification from the socket to the end of the buffer keeps
\* what the two hold together.
LEMMA MoveHead ==
    ASSUME NEW a \in Seq(Notices), NEW w \in Seq(Notices), w # <<>>
    PROVE  /\ Append(a, Head(w)) \in Seq(Notices) /\ Tail(w) \in Seq(Notices)
           /\ Append(a, Head(w)) \o Tail(w) = a \o w
<1>1. Len(w) \in Nat \ {0} /\ Head(w) = w[1] /\ w[1] \in Notices /\ Len(a) \in Nat
  OBVIOUS
<1>2. /\ Append(a, Head(w)) \in Seq(Notices) /\ Tail(w) \in Seq(Notices)
      /\ Len(Tail(w)) = Len(w) - 1 /\ Len(Append(a, Head(w))) = Len(a) + 1
      /\ \A i \in 1..(Len(w) - 1) : Tail(w)[i] = w[i + 1]
      /\ \A i \in 1..Len(a) : Append(a, Head(w))[i] = a[i]
      /\ Append(a, Head(w))[Len(a) + 1] = w[1]
  BY <1>1
<1> DEFINE l == Append(a, Head(w)) \o Tail(w)
           b == a \o w
           x == Append(a, Head(w))
           y == Tail(w)
<1>3. /\ l \in Seq(Notices) /\ Len(l) = Len(x) + Len(y)
      /\ \A i \in 1..(Len(x) + Len(y)) : l[i] = IF i <= Len(x) THEN x[i] ELSE y[i - Len(x)]
  BY <1>2, ConcatProperties
<1>4. /\ b \in Seq(Notices) /\ Len(b) = Len(a) + Len(w)
      /\ \A i \in 1..(Len(a) + Len(w)) : b[i] = IF i <= Len(a) THEN a[i] ELSE w[i - Len(a)]
  BY ConcatProperties
<1> HIDE DEF l, b, x, y
<1>5. Len(x) + Len(y) = Len(a) + Len(w) /\ Len(x) = Len(a) + 1
  BY <1>1, <1>2 DEF x, y
<1>6. ASSUME NEW i \in 1..(Len(a) + Len(w))
      PROVE  (IF i <= Len(x) THEN x[i] ELSE y[i - Len(x)])
               = (IF i <= Len(a) THEN a[i] ELSE w[i - Len(a)])
  <2>1. CASE i <= Len(a)
    BY <2>1, <1>1, <1>2, <1>5 DEF x
  <2>2. CASE i = Len(a) + 1
    BY <2>2, <1>1, <1>2, <1>5 DEF x
  <2>3. CASE i > Len(a) + 1
    <3>1. i - Len(x) \in 1..(Len(w) - 1) /\ (i - Len(x)) + 1 = i - Len(a)
      BY <2>3, <1>1, <1>5
    <3>2. y[i - Len(x)] = w[(i - Len(x)) + 1]
      BY <3>1, <1>2 DEF y
    <3> QED
      BY <2>3, <3>1, <3>2, <1>1, <1>5
  <2> QED
    BY <2>1, <2>2, <2>3, <1>1
<1>7. l = b
  <2>1. Len(l) = Len(b)
    BY <1>3, <1>4, <1>5
  <2>2. ASSUME NEW i \in 1..Len(l) PROVE l[i] = b[i]
    <3>1. i \in 1..(Len(x) + Len(y)) /\ i \in 1..(Len(a) + Len(w))
      BY <1>3, <1>5, <2>2
    <3> QED
      BY <1>3, <1>4, <1>6, <3>1
  <2> QED
    BY <1>3, <1>4, <2>1, <2>2, SeqEqual
<1> QED
  BY <1>2, <1>7 DEF l, b

\* Two sequences of recorded notifications, one after the other.
LEMMA HeardConcat ==
    ASSUME NEW a, NEW b, HeardSeq(a), HeardSeq(b)
    PROVE  /\ HeardSeq(a \o b) /\ Len(a \o b) = Len(a) + Len(b)
           /\ \A i \in 1..Len(a) : (a \o b)[i] = a[i]
           /\ \A i \in 1..Len(b) : (a \o b)[Len(a) + i] = b[i]
<1>1. a \in Seq(Notices) /\ b \in Seq(Notices) /\ Len(a) \in Nat /\ Len(b) \in Nat
  BY DEF HeardSeq
<1>2. /\ a \o b \in Seq(Notices) /\ Len(a \o b) = Len(a) + Len(b)
      /\ \A i \in 1..(Len(a) + Len(b)) : (a \o b)[i] = IF i <= Len(a) THEN a[i]
                                                       ELSE b[i - Len(a)]
  BY <1>1
<1>3. ASSUME NEW i \in 1..Len(b)
      PROVE  (a \o b)[Len(a) + i] = b[i]
  <2>1. /\ Len(a) + i \in 1..(Len(a) + Len(b)) /\ ~(Len(a) + i <= Len(a))
        /\ (Len(a) + i) - Len(a) = i
    BY <1>1
  <2> QED
    BY <1>2, <2>1
<1>4. \A i \in 1..Len(a) : (a \o b)[i] = a[i]
  BY <1>1, <1>2
<1>5. ASSUME NEW i \in 1..Len(a \o b)
      PROVE  (a \o b)[i].pos <= Len(log)
  <2>1. CASE i <= Len(a)
    BY <2>1, <1>1, <1>2, <1>4 DEF HeardSeq
  <2>2. CASE ~(i <= Len(a))
    <3>1. i - Len(a) \in 1..Len(b) /\ (a \o b)[i] = b[i - Len(a)]
      BY <2>2, <1>1, <1>2
    <3> QED
      BY <3>1 DEF HeardSeq
  <2> QED
    BY <2>1, <2>2
<1> QED
  BY <1>2, <1>3, <1>4, <1>5 DEF HeardSeq

\* Once the first of two sequences is drained the second brings the rest.
LEMMA BringsRest ==
    ASSUME NEW a, NEW b, HeardSeq(a), HeardSeq(b), NEW c \in Nat, Brings(a \o b, Len(a), c)
    PROVE  Brings(b, 0, c)
<1> DEFINE s == a \o b
           n == Len(a)
<1>1. n \in Nat /\ Len(b) \in Nat
  BY DEF HeardSeq
<1>2. Len(s) = n + Len(b) /\ \A i \in 1..Len(b) : s[n + i] = b[i]
  BY HeardConcat
<1>3. Brings(s, n, c)
  OBVIOUS
<1> HIDE DEF s, n
<1>4. \A i \in 1..Len(b) : n + i \in (n + 1)..Len(s)
  BY <1>1, <1>2
<1>5. ASSUME NEW i \in 1..Len(b), NEW j \in 1..Len(b), i < j, b[j].pos > c
      PROVE  b[i].pos < b[j].pos
  <2>1. n + i < n + j
    BY <1>1, <1>5
  <2> QED
    BY <1>2, <1>3, <1>4, <1>5, <2>1 DEF Brings
<1>6. ASSUME NEW p \in (c + 1)..Len(log), p \notin silent
      PROVE  \E i \in 1..Len(b) : b[i].pos = p
  <2>1. PICK i \in (n + 1)..Len(s) : s[i].pos = p
    BY <1>3, <1>6 DEF Brings
  <2>2. i - n \in 1..Len(b) /\ n + (i - n) = i
    BY <1>1, <1>2
  <2> QED
    BY <2>1, <2>2, <1>2
<1> QED
  BY <1>5, <1>6 DEF Brings

\* Taking the first notification off the socket leaves what the rest brings.
LEMMA BringsTail ==
    ASSUME NEW w, HeardSeq(w), w # <<>>, NEW c \in Nat, Brings(w, 1, c)
    PROVE  Brings(Tail(w), 0, c) /\ HeardSeq(Tail(w))
<1> DEFINE b == Tail(w)
<1>1. w \in Seq(Notices) /\ Len(w) \in Nat \ {0}
  BY DEF HeardSeq
<1>2. b \in Seq(Notices) /\ Len(b) = Len(w) - 1 /\ \A i \in 1..Len(b) : w[i + 1] = b[i]
  BY <1>1
<1> HIDE DEF b
<1>3. \A i \in 1..Len(b) : i + 1 \in 2..Len(w) /\ i + 1 \in 1..Len(w)
  BY <1>1, <1>2
<1>4. HeardSeq(b)
  BY <1>2, <1>3 DEF HeardSeq
<1>5. ASSUME NEW i \in 1..Len(b), NEW j \in 1..Len(b), i < j, b[j].pos > c
      PROVE  b[i].pos < b[j].pos
  <2>1. i + 1 < j + 1
    BY <1>5
  <2> QED
    BY <1>2, <1>3, <1>5, <2>1 DEF Brings
<1>6. ASSUME NEW p \in (c + 1)..Len(log), p \notin silent
      PROVE  \E i \in 1..Len(b) : b[i].pos = p
  <2>1. PICK i \in 2..Len(w) : w[i].pos = p
    BY <1>6 DEF Brings
  <2>2. i - 1 \in 1..Len(b) /\ (i - 1) + 1 = i
    BY <1>1, <1>2
  <2> QED
    BY <2>1, <2>2, <1>2
<1> QED
  BY <1>4, <1>5, <1>6 DEF Brings, b

\* A snapshot just taken needs nothing.
LEMMA BringsNow ==
    ASSUME LogType, NEW s, HeardSeq(s)
    PROVE  Brings(s, 0, Len(log))
<1>1. Len(log) \in Nat /\ Len(s) \in Nat
  BY DEF LogType, HeardSeq
<1>2. \A i \in 1..Len(s) : s[i].pos \in Nat /\ s[i].pos <= Len(log)
  <2>1. \A i \in 1..Len(s) : s[i] \in Notices
    BY DEF HeardSeq
  <2> QED
    BY <2>1, StreamAssumption DEF HeardSeq, Notices, Positions
<1> QED
  BY <1>1, <1>2 DEF Brings

\* The notifications of a buffer, entry by entry.
LEMMA NoticesOfType ==
    ASSUME NEW b, HeardAll(b)
    PROVE  /\ HeardSeq(NoticesOf(b)) /\ Len(NoticesOf(b)) = Len(b)
           /\ \A i \in 1..Len(b) : NoticesOf(b)[i] = b[i].notice
<1>1. b \in Seq(Entries) /\ Len(b) \in Nat
  BY DEF HeardAll
<1>2. \A i \in 1..Len(b) : b[i].notice \in Notices /\ b[i].notice.pos <= Len(log)
  <2>1. \A i \in 1..Len(b) : b[i] \in Entries
    BY <1>1
  <2> QED
    BY <2>1 DEF HeardAll, Entries
<1>3. NoticesOf(b) \in Seq(Notices) /\ Len(NoticesOf(b)) = Len(b)
  BY <1>1, <1>2 DEF NoticesOf
<1> QED
  BY <1>1, <1>2, <1>3 DEF HeardSeq, NoticesOf

\* Buffering one more entry adds its notification at the end.
LEMMA NoticesOfAppend ==
    ASSUME NEW b, HeardAll(b), NEW e \in Entries
    PROVE  NoticesOf(Append(b, e)) = Append(NoticesOf(b), e.notice)
<1>1. b \in Seq(Entries) /\ Len(b) \in Nat
  BY DEF HeardAll
<1>2. /\ Len(Append(b, e)) = Len(b) + 1 /\ Append(b, e)[Len(b) + 1] = e
      /\ \A i \in 1..Len(b) : Append(b, e)[i] = b[i]
  BY <1>1
<1>3. /\ NoticesOf(b) \in Seq(Notices) /\ Len(NoticesOf(b)) = Len(b)
      /\ \A i \in 1..Len(b) : NoticesOf(b)[i] = b[i].notice
  BY NoticesOfType DEF HeardSeq
<1> DEFINE x == Append(b, e)
           y == Append(NoticesOf(b), e.notice)
<1>4. /\ y = [i \in 1..(Len(b) + 1) |-> y[i]] /\ y[Len(b) + 1] = e.notice
      /\ \A i \in 1..Len(b) : y[i] = b[i].notice
  BY <1>1, <1>3
<1> HIDE DEF y, x
<1>5. \A i \in 1..(Len(b) + 1) : y[i] = x[i].notice
  <2>1. \A i \in 1..(Len(b) + 1) : i = Len(b) + 1 \/ i \in 1..Len(b)
    BY <1>1
  <2> QED
    BY <1>2, <1>4, <2>1 DEF x
<1>6. NoticesOf(x) = [i \in 1..(Len(b) + 1) |-> x[i].notice]
  BY <1>2 DEF NoticesOf, x
<1> QED
  BY <1>4, <1>5, <1>6 DEF x, y
-----------------------------------------------------------------------------
(* Every step keeps the invariant *)

\* The pieces of the invariant that mention the log and what was lost.
LEMMA CompletePrimed ==
    ASSUME log' = log, silent' = silent
    PROVE  /\ Shows(rt') => Shows(rt)'
           /\ Brings(wire', 0, rt'.cursor) => Brings(wire, 0, rt.cursor)'
           /\ Brings(cand'.notices \o wire', 0, cand'.snapshot)
                => Brings(cand.notices \o wire, 0, cand.snapshot)'
<1>1. Shows(rt') => Shows(rt)'
  BY DEF Shows
<1>2. Brings(wire', 0, rt'.cursor) => Brings(wire, 0, rt.cursor)'
  BY DEF Brings
<1>3. Brings(cand'.notices \o wire', 0, cand'.snapshot)
        => Brings(cand.notices \o wire, 0, cand.snapshot)'
  BY DEF Brings
<1> QED
  BY <1>1, <1>2, <1>3

\* What the answered hydrate calls owe, stated of the state after a step.
LEMMA CallsPrimed ==
    ASSUME log' = log, silent' = silent,
           \A h \in hydrates' : h.answered /\ CurrentCall(rt', h) /\ rt'.binding
               => Brings(NoticesOf(rt'.buffer) \o wire', 0, h.snapshot)
    PROVE  CallsComplete'
<1> DEFINE s == NoticesOf(rt'.buffer) \o wire'
<1>1. (NoticesOf(rt.buffer) \o wire)' = s
  BY DEF NoticesOf
<1> HIDE DEF s
<1>2. \A h \in hydrates' : h.answered /\ CurrentCall(rt', h) /\ rt'.binding
          => Brings(s, 0, h.snapshot)
  BY DEF s
<1> SUFFICES ASSUME NEW h \in hydrates', h.answered, CurrentCall(rt, h)', rt'.binding
             PROVE  Brings(NoticesOf(rt.buffer) \o wire, 0, h.snapshot)'
  BY DEF CallsComplete
<1>3. Brings(s, 0, h.snapshot)
  BY <1>2 DEF CurrentCall
<1> QED
  BY <1>1, <1>3 DEF Brings

\* The staging listener moves a notice from the wire to the candidate.
LEMMA NotifyCandidate ==
    ASSUME StreamInv, wire # <<>>, wire' = Tail(wire), cand' = Staged(Head(wire)),
           log' = log, silent' = silent
    PROVE  /\ cand' \in Candidates /\ Len(cand'.notices) <= Limit
           /\ cand'.snapshot <= Len(log) /\ HeardSeq(cand'.notices) /\ HeardSeq(wire')
           /\ cand'.stage = cand.stage \/ (cand'.stage = "failed" /\ cand.stage # "none")
           /\ cand'.resume = cand.resume
           /\ CandidateComplete'
<1>1. /\ HeardSeq(wire) /\ HeardSeq(cand.notices) /\ cand \in Candidates
      /\ Len(cand.notices) <= Limit /\ cand.snapshot <= Len(log)
  BY DEF StreamInv, Shape
<1>2. /\ wire \in Seq(Notices) /\ Head(wire) = wire[1] /\ wire[1] \in Notices
      /\ wire[1].pos <= Len(log) /\ Tail(wire) \in Seq(Notices)
      /\ Len(Tail(wire)) = Len(wire) - 1 /\ Len(wire) \in Nat
      /\ \A i \in 1..(Len(wire) - 1) : Tail(wire)[i] = wire[i + 1]
  BY <1>1 DEF HeardSeq
<1>3. HeardSeq(wire')
  BY <1>1, <1>2 DEF HeardSeq
<1>4. cand.notices \in Seq(Notices) /\ Len(cand.notices) \in Nat /\ Limit \in Nat
  BY <1>1, StreamAssumption DEF Candidates
<1>5. CASE ~Staging
  <2>1. cand' = cand /\ cand.stage # "hydrated"
    BY <1>5 DEF Staged, Staging
  <2> QED
    BY <1>1, <1>3, <2>1 DEF CandidateComplete
<1>6. CASE Staging /\ Len(cand.notices) >= Limit
  <2>1. cand' = [cand EXCEPT !.stage = "failed"] /\ cand.stage # "none"
    BY <1>6 DEF Staged, Staging
  <2>2. /\ cand' \in Candidates /\ cand'.notices = cand.notices /\ cand'.stage = "failed"
        /\ cand'.snapshot = cand.snapshot /\ cand'.resume = cand.resume
    BY <1>1, <2>1 DEF Candidates
  <2> QED
    BY <1>1, <1>3, <2>1, <2>2 DEF CandidateComplete
<1>7. CASE Staging /\ ~(Len(cand.notices) >= Limit)
  <2> DEFINE a == Append(cand.notices, wire[1])
  <2>1. cand' = [cand EXCEPT !.notices = a]
    BY <1>2, <1>7 DEF Staged
  <2>2. a \in Seq(Notices) /\ Len(a) = Len(cand.notices) + 1 /\ HeardSeq(a)
    BY <1>1, <1>2, <1>4 DEF HeardSeq
  <2>3. a \o Tail(wire) = cand.notices \o wire
    BY <1>2, <1>4, MoveHead
  <2> HIDE DEF a
  <2>4. /\ cand' \in Candidates /\ cand'.notices = a /\ cand'.stage = cand.stage
        /\ cand'.snapshot = cand.snapshot /\ cand'.resume = cand.resume
    BY <1>1, <2>1, <2>2 DEF Candidates
  <2>5. cand.stage = "hydrated" => Brings(cand'.notices \o wire', 0, cand'.snapshot)
    BY <2>3, <2>4 DEF StreamInv, CandidateComplete
  <2>6. CandidateComplete'
    BY <2>4, <2>5, CompletePrimed DEF CandidateComplete
  <2> QED
    BY <1>1, <1>3, <1>4, <1>7, <2>2, <2>4, <2>6
<1> QED
  BY <1>5, <1>6, <1>7

\* A notification read from the socket: buffered, accepted, or given to the candidate.
LEMMA NotifyInv ==
    ASSUME StreamInv, Notify
    PROVE  StreamInv'
<1>1. /\ wire # <<>> /\ wire' = Tail(wire) /\ cand' = Staged(Head(wire))
      /\ log' = log /\ silent' = silent /\ closed' = closed /\ connected' = connected
      /\ subscribed' = subscribed /\ lease' = lease /\ recoveryError' = recoveryError
  BY DEF Notify, history
<1>2. /\ cand' \in Candidates /\ Len(cand'.notices) <= Limit
      /\ cand'.snapshot <= Len(log) /\ HeardSeq(cand'.notices) /\ HeardSeq(wire')
      /\ cand'.stage = cand.stage \/ (cand'.stage = "failed" /\ cand.stage # "none")
      /\ cand'.resume = cand.resume
      /\ CandidateComplete'
  BY <1>1, NotifyCandidate
<1>3. HeardSeq(wire) /\ LogType /\ Sound(rt) /\ Resting(rt) /\ Operations /\ Link
  BY DEF StreamInv, Shape
<1>4. /\ rt \in Runtimes /\ rt.cursor \in Nat
      /\ rt.authority <= rt.generation /\ rt.generation \in Nat
  BY <1>3, StreamAssumption DEF Sound, Runtimes, Cursors, Link
<1>5. subscribed
  BY <1>1 DEF StreamInv, Link
<1>6. wire \in Seq(Notices) /\ wire[1] \in Notices /\ wire[1].pos <= Len(log) /\ Head(wire) = wire[1]
  BY <1>1, <1>3 DEF HeardSeq
<1>7. HeardSeq(wire)' /\ HeardSeq(cand.notices)'
  BY <1>1, <1>2 DEF HeardSeq
<1>8. CASE ~rt.binding
  <2>1. rt' = rt /\ hydrates' = hydrates
    BY <1>8 DEF Notify
  <2>2. Sound(rt)' /\ Resting(rt)'
    BY <1>1, <1>3, <2>1, SoundPrimed DEF Resting
  <2>3. Shape'
    BY <1>1, <1>2, <1>7, <2>1 DEF StreamInv, Shape, LogType
  <2>4. Link'
    BY <1>1, <1>2, <1>5, <2>1 DEF StreamInv, Link
  <2>5. Operations'
    BY <2>1 DEF StreamInv, Operations, CurrentCall
  <2>6. ReadyComplete' /\ CallsComplete'
    BY <1>8, <2>1 DEF ReadyComplete, CallsComplete
  <2>7. Canon'
    BY <1>1, <2>1, ThreadedPrimed DEF StreamInv, Canon
  <2> QED
    BY <1>2, <2>2, <2>3, <2>4, <2>5, <2>6, <2>7 DEF StreamInv
<1>9. CASE rt.binding
  <2> DEFINE e == [notice |-> wire[1], retried |-> FALSE]
             no == FALSE
             q == AcceptNotification(rt, e, no, no)
  <2>1. Settle(q, hydrates, "recovery") /\ no \in BOOLEAN /\ ~no
    BY <1>6, <1>9 DEF Notify
  <2>2. e \in Entries /\ e.notice.pos <= Len(log) /\ e.notice = wire[1]
    BY <1>6 DEF Entries
  <2> HIDE DEF e, no
  <2>3. /\ rt.asked = 0
        /\ rt.recovering => rt.phase = "recovering"
        /\ ~rt.recovering => rt.buffer = <<>>
    BY <1>3 DEF Resting
  <2>4. Sound(q) /\ Outcome(rt, q)
    BY <1>3, <2>1, <2>2, <2>3, AcceptCases
  <2>5. q.out = "settled" /\ Shows(rt) /\ Brings(wire, 0, rt.cursor)
          => Shows(q) /\ Brings(wire, 1, q.cursor)
    <3>1. Len(wire) \in Nat /\ 0 < Len(wire) /\ 0 \in 0..Len(wire) /\ e.notice = wire[0 + 1]
      BY <1>1, <1>6, <2>2
    <3>2. \A i \in 1..Len(wire) : wire[i].pos <= Len(log)
      BY <1>3 DEF HeardSeq
    <3> DEFINE k == 0
    <3>3. k \in 0..Len(wire) /\ k < Len(wire) /\ e.notice = wire[k + 1] /\ k + 1 = 1
      BY <3>1
    <3> HIDE DEF k
    <3>4. q.out = "settled" /\ Shows(rt) /\ Brings(wire, k, rt.cursor)
            => Shows(q) /\ Brings(wire, k + 1, q.cursor)
      BY <1>3, <1>6, <2>1, <2>2, <2>3, <3>2, <3>3, AcceptShows
    <3> QED
      BY <3>3, <3>4 DEF k
  <2>6. Threaded(rt) => Threaded(q)
    BY <1>3, <2>1, <2>2, <2>3, AcceptThreaded
  <2>7. rt.recovering /\ q.recovering => q.buffer = Append(rt.buffer, e)
    <3>1. ASSUME rt.recovering PROVE q = EnqueueRecovery(rt, e)
      BY <3>1 DEF AcceptNotification
    <3>2. FailCurrent(rt).recovering = FALSE
      BY <1>3, FailCurrentSound
    <3> HIDE DEF q
    <3> QED
      BY <1>3, <2>2, <3>1, <3>2, EnqueueSound
  <2> HIDE DEF q
  <2>8. q \in Runtimes /\ Ends(rt, q) /\ q.cursor \in Nat
    BY <1>4, <2>4, OutcomeEnds, StreamAssumption DEF Sound, Runtimes, Cursors
  <2>9. \A g \in hydrates : g.operation <= rt.operation /\ (CurrentCall(rt, g) => rt.recovering)
    BY <1>3 DEF Operations
  <2>10. rt.generation <= rt.generation
    BY <1>4
  <2>11. /\ Sound(rt)' /\ Resting(rt)' /\ Operations'
         /\ (hydrates \subseteq Calls)' /\ (\A h \in hydrates : h.snapshot <= Len(log))'
         /\ SameContent(q, rt') /\ rt'.binding = q.binding /\ rt'.phase = q.phase
         /\ rt'.recovering = q.recovering /\ rt'.buffer = q.buffer
         /\ rt'.operation = q.operation
         /\ \A h \in hydrates' : h.answered /\ CurrentCall(rt', h) =>
              /\ h \in hydrates /\ CurrentCall(rt, h)
              /\ rt.recovering /\ q.recovering /\ q.asked = 0
    BY <1>1, <1>4, <2>1, <2>4, <2>8, <2>9, <2>10, SettleInv
  <2>12. Shape'
    BY <1>1, <1>2, <1>7, <2>11 DEF StreamInv, Shape, LogType
  <2>13. rt'.generation = rt.generation /\ rt'.authority = rt.authority
    BY <2>8, <2>11 DEF Ends, SameContent
  <2>14. rt.authority # 0
    BY <1>3, <1>9 DEF Link
  <2>15. q.phase = "ready" => ~q.recovering /\ q.out = "settled" /\ rt.phase = "ready"
    BY <2>4 DEF Outcome
  <2>16. Link'
    BY <1>1, <1>2, <1>5, <2>11, <2>13, <2>14, <2>15 DEF StreamInv, Link
  <2>17. ReadyComplete'
    <3>1. ASSUME rt'.phase = "ready", rt'.binding
          PROVE  Shows(rt') /\ Brings(wire', 0, rt'.cursor)
      <4>1. q.out = "settled" /\ Shows(rt) /\ Brings(wire, 0, rt.cursor)
        BY <1>9, <2>11, <2>15, <3>1 DEF StreamInv, ReadyComplete
      <4>2. Shows(q) /\ Brings(wire, 1, q.cursor)
        BY <2>5, <4>1
      <4>3. Brings(Tail(wire), 0, q.cursor)
        BY <1>1, <1>3, <2>8, <4>2, BringsTail
      <4> QED
        BY <1>1, <2>11, <4>2, <4>3 DEF SameContent, Shows
    <3> QED
      BY <1>1, <3>1, CompletePrimed DEF ReadyComplete
  <2>18. CallsComplete'
    <3>1. ASSUME NEW h \in hydrates', h.answered, CurrentCall(rt', h), rt'.binding
          PROVE  Brings(NoticesOf(rt'.buffer) \o wire', 0, h.snapshot)
      <4>1. h \in hydrates /\ CurrentCall(rt, h) /\ rt.recovering /\ q.recovering
        BY <2>11, <3>1
      <4>2. Brings(NoticesOf(rt.buffer) \o wire, 0, h.snapshot)
        BY <1>9, <3>1, <4>1 DEF StreamInv, CallsComplete
      <4>3. HeardAll(rt.buffer) /\ NoticesOf(rt.buffer) \in Seq(Notices)
        BY <1>3, NoticesOfType DEF Sound, HeardSeq
      <4>4. NoticesOf(rt'.buffer) = Append(NoticesOf(rt.buffer), wire[1])
        BY <2>2, <2>7, <2>11, <4>1, <4>3, NoticesOfAppend
      <4>5. Append(NoticesOf(rt.buffer), wire[1]) \o Tail(wire) = NoticesOf(rt.buffer) \o wire
        BY <1>1, <1>6, <4>3, MoveHead
      <4> QED
        BY <1>1, <4>2, <4>4, <4>5
    <3> QED
      BY <1>1, <3>1, CallsPrimed
  <2>19. Canon'
    <3>1. ~closed /\ (Canonical => Threaded(rt))
      BY <1>3, <2>14 DEF StreamInv, Canon, Link
    <3>2. Canonical => Threaded(rt')
      BY <2>6, <2>11, <3>1, SameContentThreaded
    <3>3. Canonical => Threaded(rt)' /\ Contiguous(rt)' /\ rt'.twice = {}
      BY <1>1, <3>2, ThreadedPrimed DEF Threaded
    <3> QED
      BY <3>3 DEF Canon
  <2> QED
    BY <1>2, <2>11, <2>12, <2>16, <2>17, <2>18, <2>19 DEF StreamInv
<1> QED
  BY <1>8, <1>9

\* A record, or a candidate, that a step does not touch.
LEMMA RecordKept ==
    ASSUME StreamInv, rt' = rt, log' = log, silent' = silent, wire' = wire, closed' = closed,
           hydrates' \subseteq hydrates
    PROVE  /\ Sound(rt)' /\ Resting(rt)' /\ Operations'
           /\ (hydrates \subseteq Calls)' /\ (\A h \in hydrates : h.snapshot <= Len(log))'
           /\ ReadyComplete' /\ CallsComplete' /\ Canon'
<1>1. Sound(rt)' /\ Resting(rt)'
  BY SoundPrimed DEF StreamInv, Resting
<1>2. Operations'
  BY DEF StreamInv, Operations, CurrentCall
<1>3. (hydrates \subseteq Calls)' /\ (\A h \in hydrates : h.snapshot <= Len(log))'
  BY DEF StreamInv, Shape
<1>4. ReadyComplete'
  BY CompletePrimed DEF StreamInv, ReadyComplete
<1>5. CallsComplete'
  <2>1. \A h \in hydrates' : h.answered /\ CurrentCall(rt', h) /\ rt'.binding
            => Brings(NoticesOf(rt'.buffer) \o wire', 0, h.snapshot)
    BY DEF StreamInv, CallsComplete
  <2> QED
    BY <2>1, CallsPrimed
<1>6. Canon'
  BY ThreadedPrimed DEF StreamInv, Canon
<1> QED
  BY <1>1, <1>2, <1>3, <1>4, <1>5, <1>6

\* A step that leaves the candidate alone, or drops it, keeps what it is owed.
LEMMA CandidateKept ==
    ASSUME StreamInv, log' = log, silent' = silent, wire' = wire,
           cand' = cand \/ cand' = NoCandidate
    PROVE  /\ CandidateComplete' /\ HeardSeq(wire)' /\ HeardSeq(cand.notices)'
           /\ (cand \in Candidates)' /\ (Len(cand.notices) <= Limit)'
           /\ (cand.snapshot <= Len(log))'
<1>1. HeardSeq(wire)'
  BY DEF StreamInv, Shape, HeardSeq
<1>2. CASE cand' = cand
  BY <1>1, <1>2, CompletePrimed DEF StreamInv, Shape, HeardSeq, CandidateComplete
<1>3. CASE cand' = NoCandidate
  <2>1. NoCandidate \in Candidates /\ NoCandidate.stage = "none"
        /\ NoCandidate.notices = <<>> /\ NoCandidate.snapshot = 0
    BY StreamAssumption DEF NoCandidate, Candidates
  <2>2. Len(log) \in Nat /\ Len(<<>>) <= Limit /\ <<>> \in Seq(Notices) /\ Len(<<>>) = 0
    BY StreamAssumption DEF StreamInv, Shape, LogType
  <2>3. HeardSeq(cand.notices)'
    BY <1>3, <2>1, <2>2 DEF HeardSeq
  <2> QED
    BY <1>1, <1>3, <2>1, <2>2, <2>3 DEF CandidateComplete
<1> QED
  BY <1>2, <1>3

\* A runtime that stops waiting.
LEMMA StopWaiting ==
    ASSUME NEW r, Sound(r)
    PROVE  LET q == [r EXCEPT !.recovering = FALSE, !.buffer = <<>>]
           IN  /\ Sound(q) /\ SameContent(r, q) /\ q.binding = r.binding
               /\ q.phase = r.phase /\ q.recovering = FALSE /\ q.buffer = <<>>
               /\ q.operation = r.operation /\ q.asked = r.asked
<1> DEFINE empty == <<>>
           q == [r EXCEPT !.recovering = FALSE, !.buffer = empty]
<1>1. r \in Runtimes /\ empty \in Buffers
  BY DEF Sound, Buffers
<1>2. HeardAll(empty) /\ Len(empty) <= Limit
  BY StreamAssumption DEF HeardAll
<1> HIDE DEF empty
<1>3. /\ q \in Runtimes /\ SameContent(r, q) /\ q.binding = r.binding
      /\ q.phase = r.phase /\ q.recovering = FALSE /\ q.buffer = empty
      /\ q.operation = r.operation /\ q.asked = r.asked
  BY <1>1 DEF Runtimes, SameContent
<1> HIDE DEF q
<1>4. Sound(q)
  BY <1>2, <1>3 DEF Sound, SameContent
<1> QED
  BY <1>3, <1>4 DEF q, empty

\* A hydrate answer: commit, drain of the buffer, finish.
LEMMA HydrateReturnedInv ==
    ASSUME StreamInv, NEW h \in hydrates, HydrateReturned(h)
    PROVE  StreamInv'
<1>1. /\ h.answered /\ cand' = cand /\ closed' = closed /\ recoveryError' = recoveryError
      /\ log' = log /\ wire' = wire /\ connected' = connected /\ subscribed' = subscribed
      /\ silent' = silent /\ lease' \in {0, lease}
  BY DEF HydrateReturned
<1>2. /\ LogType /\ Sound(rt) /\ Resting(rt) /\ Operations /\ Link /\ HeardSeq(wire)
      /\ connected \in BOOLEAN /\ lease \in Nat
  BY DEF StreamInv, Shape
<1>3. /\ CandidateComplete' /\ HeardSeq(wire)' /\ HeardSeq(cand.notices)'
      /\ (cand \in Candidates)' /\ (Len(cand.notices) <= Limit)'
      /\ (cand.snapshot <= Len(log))'
  BY <1>1, CandidateKept
<1>4. CASE ~IsRecoveryOperationCurrent(h)
  <2>1. rt' = rt /\ hydrates' \subseteq hydrates
    BY <1>4 DEF HydrateReturned
  <2>2. /\ Sound(rt)' /\ Resting(rt)' /\ Operations'
        /\ (hydrates \subseteq Calls)' /\ (\A g \in hydrates : g.snapshot <= Len(log))'
        /\ ReadyComplete' /\ CallsComplete' /\ Canon'
    BY <1>1, <2>1, RecordKept
  <2>3. Shape'
    BY <1>1, <1>3, <2>2 DEF StreamInv, Shape, LogType
  <2>4. Link'
    BY <1>1, <2>1 DEF StreamInv, Link
  <2> QED
    BY <1>3, <2>2, <2>3, <2>4 DEF StreamInv
<1>5. CASE IsRecoveryOperationCurrent(h)
  <2> DEFINE c == CommitHydrate(rt, h.snapshot)
             r == [c EXCEPT !.recovering = FALSE, !.buffer = <<>>]
             full == NoticesOf(rt.buffer) \o wire
             q == DrainNotifications(r, rt.buffer, h.snapshot)
             f == FinishHydrate(q)
  <2>1. Settle(f, hydrates \ {h}, "recovery")
    BY <1>5 DEF HydrateReturned
  <2>2. /\ CurrentCall(rt, h) /\ rt.recovering /\ rt.authority # 0 /\ subscribed /\ ~closed
        /\ connected /\ h.operation = rt.operation
    BY <1>2, <1>5 DEF IsRecoveryOperationCurrent, Current, CurrentCall, Operations, Link
  <2>3. /\ h \in Calls /\ h.snapshot <= Len(log) /\ h.snapshot \in 0..Len(log)
        /\ h.snapshot \in Nat
    <3>1. h \in Calls /\ h.snapshot <= Len(log) /\ Len(log) \in Nat
      BY DEF StreamInv, Shape, LogType
    <3> QED
      BY <3>1, StreamAssumption DEF Calls
  <2>4. /\ Sound(c) /\ Shows(c) /\ c.cursor = h.snapshot /\ c.generation = rt.generation
        /\ c.authority = rt.authority /\ c.binding = rt.binding
        /\ c.operation = rt.operation /\ c.asked = rt.asked
        /\ Canonical /\ rt.twice = {} => Threaded(c)
    BY <1>2, <2>3, CommitSound
  <2> HIDE DEF c
  <2>5. /\ Sound(r) /\ SameContent(c, r) /\ r.binding = c.binding
        /\ r.recovering = FALSE /\ r.buffer = <<>> /\ r.operation = c.operation
        /\ r.asked = c.asked
    BY <2>4, StopWaiting
  <2> HIDE DEF r
  <2>6. /\ r.cursor = h.snapshot /\ Shows(r) /\ r.generation = rt.generation
        /\ r.authority = rt.authority /\ r.operation = rt.operation
        /\ r.binding = rt.binding /\ r.asked = 0 /\ r \in Runtimes
    BY <1>2, <2>4, <2>5 DEF SameContent, Shows, Resting, Sound
  <2>7. Canonical => Threaded(r)
    <3>1. Canonical => rt.twice = {}
      BY DEF StreamInv, Canon
    <3> QED
      BY <2>4, <2>5, <3>1, SameContentThreaded
  <2>8. /\ HeardAll(rt.buffer) /\ HeardSeq(NoticesOf(rt.buffer))
        /\ Len(NoticesOf(rt.buffer)) = Len(rt.buffer)
        /\ \A i \in 1..Len(rt.buffer) : NoticesOf(rt.buffer)[i] = rt.buffer[i].notice
        /\ Len(rt.buffer) \in Nat /\ Len(wire) \in Nat
    BY <1>2, NoticesOfType DEF Sound, HeardAll, HeardSeq
  <2>9. /\ HeardSeq(full) /\ Len(full) = Len(rt.buffer) + Len(wire)
        /\ \A i \in 1..Len(rt.buffer) : full[i] = rt.buffer[i].notice
    BY <1>2, <2>8, HeardConcat
  <2> HIDE DEF full
  <2>10. /\ full \in Seq(Notices) /\ Len(rt.buffer) <= Len(full)
         /\ \A i \in 1..Len(full) : full[i].pos <= Len(log)
         /\ h.snapshot <= r.cursor
    BY <2>3, <2>6, <2>8, <2>9 DEF HeardSeq
  <2>11. /\ Sound(q) /\ Outcome(r, q)
         /\ Threaded(r) => Threaded(q)
         /\ q.out = "settled" /\ Shows(r) /\ Brings(full, 0, r.cursor)
              => Shows(q) /\ Brings(full, Len(rt.buffer), q.cursor)
    BY <1>2, <2>3, <2>5, <2>6, <2>8, <2>9, <2>10, DrainSound
  <2> HIDE DEF q
  <2>12. /\ Sound(f) /\ Ends(r, f) /\ SameContent(q, f)
         /\ f.phase = "ready" => q.out = "settled"
    <3>1. CASE q.out = "settled"
      <4>1. f = FinishRecovery(q)
        BY <3>1 DEF FinishHydrate
      <4> HIDE DEF f
      <4> QED
        BY <1>2, <2>6, <2>11, <3>1, <4>1, FinishSound
    <3>2. CASE q.out # "settled"
      <4>1. f = q
        BY <3>2 DEF FinishHydrate
      <4> HIDE DEF f
      <4>2. Ends(r, q) /\ SameContent(q, q)
        BY <2>6, <2>11, OutcomeEnds DEF Sound, SameContent
      <4>3. q.phase # "ready"
        BY <2>11, <3>2 DEF Outcome
      <4> QED
        BY <2>11, <3>2, <4>1, <4>2, <4>3
    <3> QED
      BY <3>1, <3>2
  <2> HIDE DEF f
  <2>13. /\ rt.generation \in Nat /\ rt.operation \in Nat /\ rt.authority <= rt.generation
    BY <1>2 DEF Sound, Runtimes, Link
  <2> DEFINE calls == hydrates \ {h}
  <2>14. \A g \in calls : g.operation <= r.operation /\ (CurrentCall(r, g) => r.recovering)
    <3>1. ASSUME NEW g \in calls
          PROVE  g.operation <= rt.operation /\ g.operation # rt.operation
      BY <1>2, <2>2 DEF Operations
    <3> QED
      BY <2>6, <3>1 DEF CurrentCall
  <2>15. /\ calls \subseteq hydrates /\ r.authority <= r.generation
         /\ rt.generation <= r.generation /\ Settle(f, calls, "recovery")
    BY <2>1, <2>6, <2>13
  <2> HIDE DEF calls
  <2>16. /\ Sound(rt)' /\ Resting(rt)' /\ Operations'
         /\ (hydrates \subseteq Calls)' /\ (\A g \in hydrates : g.snapshot <= Len(log))'
         /\ SameContent(f, rt') /\ rt'.binding = f.binding /\ rt'.phase = f.phase
         /\ rt'.recovering = f.recovering /\ rt'.buffer = f.buffer
         /\ rt'.operation = f.operation
         /\ \A g \in hydrates' : g.answered /\ CurrentCall(rt', g) => r.recovering
    BY <1>1, <2>6, <2>12, <2>14, <2>15, SettleInv
  <2>17. rt'.generation = rt.generation /\ rt'.authority = rt.authority
    BY <2>6, <2>12, <2>16 DEF Ends, SameContent
  <2>18. Shape'
    BY <1>1, <1>2, <1>3, <2>16 DEF StreamInv, Shape, LogType
  <2>19. f.phase = "ready" => ~f.recovering
    BY <2>12 DEF Ends
  <2>20. Link'
    BY <1>1, <1>2, <2>2, <2>16, <2>17, <2>19 DEF Link
  <2>21. ReadyComplete'
    <3>1. ASSUME rt'.phase = "ready", rt'.binding
          PROVE  Shows(rt') /\ Brings(wire', 0, rt'.cursor)
      <4>1. q.out = "settled" /\ rt.binding
        BY <2>6, <2>12, <2>16, <3>1 DEF Ends
      <4>2. Brings(full, 0, h.snapshot)
        BY <1>1, <2>2, <4>1 DEF StreamInv, CallsComplete, full
      <4>3. Shows(q) /\ Brings(full, Len(rt.buffer), q.cursor) /\ q.cursor \in Nat
        BY <2>6, <2>11, <4>1, <4>2, StreamAssumption DEF Sound, Runtimes, Cursors
      <4>4. Brings(wire, 0, q.cursor)
        BY <1>2, <2>8, <4>3, BringsRest DEF full
      <4>5. rt'.cursor = q.cursor /\ rt'.timeline = q.timeline
        BY <2>12, <2>16 DEF SameContent
      <4> QED
        BY <1>1, <4>3, <4>4, <4>5 DEF Shows
    <3> QED
      BY <1>1, <3>1, CompletePrimed DEF ReadyComplete
  <2>22. CallsComplete'
    <3>1. \A g \in hydrates' : g.answered /\ CurrentCall(rt', g) /\ rt'.binding
              => Brings(NoticesOf(rt'.buffer) \o wire', 0, g.snapshot)
      BY <2>5, <2>16
    <3> QED
      BY <1>1, <3>1, CallsPrimed
  <2>23. Canon'
    <3>1. Canonical => Threaded(f)
      BY <2>7, <2>11, <2>12, SameContentThreaded
    <3>2. Canonical => Threaded(rt')
      BY <2>16, <3>1, SameContentThreaded
    <3>3. Canonical => Threaded(rt)' /\ Contiguous(rt)' /\ rt'.twice = {}
      BY <1>1, <3>2, ThreadedPrimed DEF Threaded
    <3> QED
      BY <3>3 DEF Canon
  <2> QED
    BY <1>3, <2>16, <2>18, <2>20, <2>21, <2>22, <2>23 DEF StreamInv
<1> QED
  BY <1>4, <1>5

\* A stretch that changes who waits for what, and not what the record shows.
LEMMA StretchInv ==
    ASSUME StreamInv, cand' = cand, closed' = closed, lease' \in {0, lease},
           recoveryError' = recoveryError, log' = log, wire' = wire,
           connected' = connected, subscribed' = subscribed, silent' = silent,
           NEW kind \in {"recovery", "rehydrate"}, NEW calls, calls \subseteq hydrates,
           NEW q, Sound(q), Ends(rt, q), SameContent(rt, q),
           q.recovering => rt.authority # 0 /\ subscribed,
           q.phase = "ready" => rt.phase = "ready",
           q.recovering /\ q.asked = 0 => q.buffer = rt.buffer,
           Settle(q, calls, kind)
    PROVE  StreamInv'
<1>1. LogType /\ Sound(rt) /\ Resting(rt) /\ Operations /\ Link /\ lease \in Nat
  BY DEF StreamInv, Shape
<1>2. /\ CandidateComplete' /\ HeardSeq(wire)' /\ HeardSeq(cand.notices)'
      /\ (cand \in Candidates)' /\ (Len(cand.notices) <= Limit)'
      /\ (cand.snapshot <= Len(log))'
  BY CandidateKept
<1>3. /\ rt \in Runtimes /\ rt.generation \in Nat /\ rt.authority <= rt.generation
      /\ rt.generation <= rt.generation
  BY <1>1 DEF Sound, Runtimes, Link
<1>4. \A g \in calls : g.operation <= rt.operation /\ (CurrentCall(rt, g) => rt.recovering)
  BY <1>1 DEF Operations
<1>5. /\ Sound(rt)' /\ Resting(rt)' /\ Operations'
      /\ (hydrates \subseteq Calls)' /\ (\A g \in hydrates : g.snapshot <= Len(log))'
      /\ SameContent(q, rt') /\ rt'.binding = q.binding /\ rt'.phase = q.phase
      /\ rt'.recovering = q.recovering /\ rt'.buffer = q.buffer
      /\ rt'.operation = q.operation
      /\ \A g \in hydrates' : g.answered /\ CurrentCall(rt', g) =>
           g \in calls /\ CurrentCall(rt, g) /\ rt.recovering /\ q.recovering /\ q.asked = 0
  BY <1>3, <1>4, SettleInv
<1>6. SameContent(rt, rt')
  BY <1>5 DEF SameContent
<1>7. Shape'
  BY <1>1, <1>2, <1>5 DEF StreamInv, Shape, LogType
<1>8. q.phase = "ready" => ~q.recovering
  BY DEF Ends
<1>9. rt'.generation = rt.generation /\ rt'.authority = rt.authority
  BY <1>6 DEF SameContent
<1>10. rt'.binding => rt.binding
  BY <1>5 DEF Ends
<1>11. Link'
  BY <1>1, <1>5, <1>8, <1>9, <1>10 DEF Link
<1>12. ReadyComplete'
  <2>1. ASSUME rt'.phase = "ready", rt'.binding
        PROVE  Shows(rt') /\ Brings(wire', 0, rt'.cursor)
    BY <1>5, <1>6, <1>10, <2>1 DEF StreamInv, ReadyComplete, SameContent, Shows
  <2> QED
    BY <2>1, CompletePrimed DEF ReadyComplete
<1>13. CallsComplete'
  <2>1. ASSUME NEW g \in hydrates', g.answered, CurrentCall(rt', g), rt'.binding
        PROVE  Brings(NoticesOf(rt'.buffer) \o wire', 0, g.snapshot)
    <3>1. g \in hydrates /\ CurrentCall(rt, g) /\ rt'.buffer = rt.buffer /\ rt.binding
      BY <1>5, <1>10, <2>1
    <3> QED
      BY <2>1, <3>1 DEF StreamInv, CallsComplete
  <2> QED
    BY <2>1, CallsPrimed
<1>14. Canon'
  <2>1. Canonical /\ ~closed => Threaded(rt')
    BY <1>6, SameContentThreaded DEF StreamInv, Canon
  <2>2. Canonical => rt'.twice = {} /\ Contiguous(rt')
    <3>1. \A t \in Threads : Shown(rt', t) = Shown(rt, t)
      BY <1>6 DEF SameContent, Shown
    <3> QED
      BY <1>6, <3>1 DEF StreamInv, Canon, SameContent, Contiguous
  <2> QED
    BY <2>1, <2>2, ThreadedPrimed DEF Canon
<1> QED
  BY <1>2, <1>5, <1>7, <1>11, <1>12, <1>13, <1>14 DEF StreamInv

\* A hydrate call that failed.
LEMMA HydrateFailedInv ==
    ASSUME StreamInv, NEW h \in hydrates, HydrateFailed(h)
    PROVE  StreamInv'
<1> DEFINE q == IF ~IsRecoveryOperationCurrent(h) THEN rt
                ELSE IF h.kind = "rehydrate" THEN RehydrateFailed(rt) ELSE FailCurrent(rt)
           calls == hydrates \ {h}
<1>1. /\ cand' = cand /\ closed' = closed /\ lease' \in {0, lease}
      /\ recoveryError' = recoveryError /\ log' = log /\ wire' = wire
      /\ connected' = connected /\ subscribed' = subscribed /\ silent' = silent
      /\ calls \subseteq hydrates /\ Settle(q, calls, "recovery")
  BY DEF HydrateFailed, history
<1>2. /\ Sound(rt) /\ Resting(rt) /\ Link /\ rt \in Runtimes /\ rt.operation \in Nat
  BY DEF StreamInv, Sound, Runtimes
<1> HIDE DEF calls
<1>3. CASE q = rt
  <2> HIDE DEF q
  <2>1. Ends(rt, rt) /\ SameContent(rt, rt)
    BY <1>2 DEF Ends, Resting, SameContent
  <2>2. rt.recovering => rt.authority # 0 /\ subscribed
    BY <1>2 DEF Link
  <2> QED
    BY <1>1, <1>2, <1>3, <2>1, <2>2, StretchInv
<1>4. CASE q = FailCurrent(rt)
  <2> HIDE DEF q
  <2>1. /\ Sound(q) /\ SameContent(rt, q) /\ q.operation = rt.operation + 1
        /\ q.recovering = FALSE /\ q.buffer = <<>> /\ q.phase = "error"
        /\ q.binding = FALSE /\ q.asked = rt.asked
    BY <1>2, <1>4, FailCurrentSound
  <2>2. Ends(rt, q)
    BY <1>2, <2>1 DEF Ends, Resting, SameContent
  <2> QED
    BY <1>1, <2>1, <2>2, StretchInv
<1>5. CASE q = RehydrateFailed(rt)
  <2> DEFINE empty == <<>>
             later == rt.operation + 1
  <2>1. q = [rt EXCEPT !.operation = later, !.recovering = FALSE, !.buffer = empty,
                       !.phase = "error"]
    BY <1>5 DEF RehydrateFailed
  <2>2. later \in Nat /\ empty \in Buffers /\ "error" \in Phases
    BY <1>2 DEF Buffers, Phases
  <2>3. HeardAll(empty) /\ Len(empty) <= Limit
    BY StreamAssumption DEF HeardAll
  <2> HIDE DEF q, empty, later
  <2>4. /\ q \in Runtimes /\ SameContent(rt, q) /\ q.operation = later
        /\ q.recovering = FALSE /\ q.buffer = empty /\ q.phase = "error"
        /\ q.binding = rt.binding /\ q.asked = rt.asked
    BY <1>2, <2>1, <2>2 DEF Runtimes, SameContent
  <2>5. Sound(q)
    BY <1>2, <2>3, <2>4 DEF Sound, SameContent
  <2>6. Ends(rt, q)
    BY <1>2, <2>4 DEF Ends, Resting, SameContent, empty, later
  <2> QED
    BY <1>1, <2>4, <2>5, <2>6, StretchInv
<1> QED
  BY <1>3, <1>4, <1>5

\* A hydrate asked for by the application.
LEMMA RehydrateInv ==
    ASSUME StreamInv, RehydrateSession
    PROVE  StreamInv'
<1> DEFINE q == BeginHydrate(rt)
<1>1. /\ cand' = cand /\ closed' = closed /\ lease' \in {0, lease}
      /\ recoveryError' = recoveryError /\ log' = log /\ wire' = wire
      /\ connected' = connected /\ subscribed' = subscribed /\ silent' = silent
      /\ Settle(q, hydrates, "rehydrate") /\ lease # 0 /\ lease = rt.authority
  BY DEF RehydrateSession, history
<1>2. /\ Sound(rt) /\ Resting(rt) /\ Link /\ rt \in Runtimes /\ rt.operation \in Nat
  BY DEF StreamInv, Sound, Runtimes
<1>3. rt.authority # 0 /\ subscribed
  BY <1>1, <1>2 DEF Link
<1>4. /\ Sound(q) /\ SameContent(rt, q) /\ q.operation = rt.operation + 1
      /\ q.asked = rt.operation + 1 /\ q.recovering = TRUE /\ q.phase = "recovering"
      /\ q.buffer = rt.buffer /\ q.binding = rt.binding
  BY <1>2, BeginHydrateSound
<1> HIDE DEF q
<1>5. Ends(rt, q)
  BY <1>2, <1>4 DEF Ends, Resting, SameContent
<1> QED
  BY <1>1, <1>3, <1>4, <1>5, StretchInv

\* A staged candidate replaces the record, and its notifications are replayed.
LEMMA InstallInv ==
    ASSUME StreamInv, InstallCandidate
    PROVE  StreamInv'
<1> DEFINE entries == [i \in DOMAIN cand.notices |->
                          [notice |-> cand.notices[i], retried |-> FALSE]]
           c == CommitHydrate(rt, cand.snapshot)
           r == CommitCandidate
           full == cand.notices \o wire
           q == DrainNotifications(r, entries, cand.snapshot)
           f == FinishRecovery(q)
<1>1. /\ cand.stage = "hydrated" /\ connected /\ ~closed /\ cand' = NoCandidate
      /\ lease' = 0 /\ closed' = closed /\ log' = log /\ wire' = wire
      /\ connected' = connected /\ subscribed' = subscribed /\ silent' = silent
      /\ Settle(f, hydrates, "recovery")
  BY DEF InstallCandidate
<1>2. /\ LogType /\ Sound(rt) /\ Resting(rt) /\ Operations /\ Link /\ HeardSeq(wire)
      /\ connected \in BOOLEAN /\ cand \in Candidates /\ HeardSeq(cand.notices)
      /\ cand.snapshot <= Len(log) /\ recoveryError \in BOOLEAN
  BY DEF StreamInv, Shape
<1>3. /\ CandidateComplete' /\ HeardSeq(wire)' /\ HeardSeq(cand.notices)'
      /\ (cand \in Candidates)' /\ (Len(cand.notices) <= Limit)'
      /\ (cand.snapshot <= Len(log))'
  BY <1>1, CandidateKept
<1>4. recoveryError' \in BOOLEAN
  BY <1>2 DEF InstallCandidate
<1>5. subscribed
  BY <1>1, <1>2 DEF Link
<1>6. cand.snapshot \in Nat /\ cand.snapshot \in 0..Len(log)
  BY <1>2, StreamAssumption DEF Candidates, LogType
<1>7. /\ Sound(c) /\ Shows(c) /\ c.cursor = cand.snapshot /\ c.generation = rt.generation
      /\ c.operation = rt.operation /\ c.asked = rt.asked /\ c.suspended = rt.suspended
      /\ Canonical /\ rt.twice = {} => Threaded(c)
  BY <1>2, <1>6, CommitSound
<1>8. /\ rt.generation \in Nat /\ rt.operation \in Nat /\ rt.suspended \in BOOLEAN
      /\ c \in Runtimes /\ cand.resume \in BOOLEAN
  BY <1>2, <1>7 DEF Sound, Runtimes, Candidates
<1>9. /\ Sound(r) /\ Shows(r) /\ r.cursor = cand.snapshot /\ r \in Runtimes
      /\ r.generation = rt.generation + 1 /\ r.authority = rt.generation + 1
      /\ r.operation = rt.operation + 1 /\ r.binding = TRUE /\ r.recovering = FALSE
      /\ r.buffer = <<>> /\ r.asked = 0
      /\ Threaded(c) => Threaded(r)
  <2> DEFINE empty == <<>>
             op == rt.operation + 1
             gen == rt.generation + 1
             still == IF cand.resume THEN FALSE ELSE rt.suspended
  <2>1. r = [c EXCEPT !.operation = op, !.generation = gen, !.authority = gen,
                      !.binding = TRUE, !.suspended = still, !.recovering = FALSE,
                      !.buffer = empty, !.phase = "recovering"]
    BY <1>7, <1>8 DEF CommitCandidate, Runtimes
  <2>2. /\ op \in Nat /\ gen \in Nat /\ still \in BOOLEAN /\ empty \in Buffers
        /\ "recovering" \in Phases /\ HeardAll(empty) /\ Len(empty) <= Limit
    <3>1. still \in BOOLEAN
      <4>1. cand.resume => still = FALSE
        OBVIOUS
      <4>2. ~cand.resume => still = rt.suspended
        OBVIOUS
      <4> HIDE DEF still
      <4> QED
        BY <4>1, <4>2, <1>8
    <3>2. empty \in Buffers /\ "recovering" \in Phases /\ HeardAll(empty) /\ Len(empty) <= Limit
      BY StreamAssumption DEF Buffers, Phases, HeardAll
    <3>3. op \in Nat /\ gen \in Nat
      BY <1>8
    <3> QED
      BY <3>1, <3>2, <3>3
  <2> HIDE DEF c, r, empty, op, gen, still
  <2>3. /\ r \in Runtimes /\ r.operation = op /\ r.generation = gen /\ r.authority = gen
        /\ r.binding = TRUE /\ r.recovering = FALSE /\ r.buffer = empty
        /\ r.asked = c.asked /\ r.cursor = c.cursor /\ r.checkpoint = c.checkpoint
        /\ r.thread = c.thread /\ r.timeline = c.timeline /\ r.twice = c.twice
    BY <1>8, <2>1, <2>2 DEF Runtimes
  <2>4. Sound(r)
    BY <1>7, <2>2, <2>3 DEF Sound
  <2>5. Shows(r)
    BY <1>7, <2>3 DEF Shows
  <2>6. Threaded(c) => Threaded(r)
    <3>1. \A t \in Threads : Shown(r, t) = Shown(c, t)
      BY <2>3 DEF Shown
    <3> QED
      BY <2>3, <3>1 DEF Threaded, Contiguous
  <2> QED
    BY <1>2, <1>7, <2>3, <2>4, <2>5, <2>6 DEF empty, op, gen, Resting
<1> HIDE DEF c, r
<1>10. /\ HeardAll(entries) /\ Len(entries) = Len(cand.notices)
       /\ \A i \in 1..Len(entries) : entries[i].notice = cand.notices[i]
  <2>1. /\ cand.notices \in Seq(Notices) /\ Len(cand.notices) \in Nat
        /\ \A i \in 1..Len(cand.notices) :
             cand.notices[i] \in Notices /\ cand.notices[i].pos <= Len(log)
    BY <1>2 DEF HeardSeq
  <2>2. DOMAIN cand.notices = 1..Len(cand.notices)
    BY <2>1
  <2>3. \A i \in 1..Len(cand.notices) :
          entries[i] \in Entries /\ entries[i].notice = cand.notices[i]
    BY <2>1, <2>2 DEF Entries
  <2>4. entries \in Seq(Entries) /\ Len(entries) = Len(cand.notices)
    <3>1. entries \in [1..Len(cand.notices) -> Entries]
      BY <2>2, <2>3
    <3> HIDE DEF entries
    <3> QED
      BY <2>1, <3>1
  <2> HIDE DEF entries
  <2> QED
    BY <2>1, <2>3, <2>4 DEF HeardAll
<1> HIDE DEF entries
<1>11. /\ HeardSeq(full) /\ Len(full) = Len(cand.notices) + Len(wire)
       /\ \A i \in 1..Len(cand.notices) : full[i] = cand.notices[i]
       /\ Len(cand.notices) \in Nat /\ Len(wire) \in Nat
  BY <1>2, HeardConcat DEF HeardSeq
<1> HIDE DEF full
<1>12. /\ full \in Seq(Notices) /\ Len(entries) <= Len(full)
       /\ \A i \in 1..Len(full) : full[i].pos <= Len(log)
       /\ \A i \in 1..Len(entries) : entries[i].notice = full[i]
       /\ cand.snapshot <= r.cursor
  BY <1>6, <1>9, <1>10, <1>11 DEF HeardSeq
<1>13. /\ Sound(q) /\ Outcome(r, q)
       /\ Threaded(r) => Threaded(q)
       /\ q.out = "settled" /\ Shows(r) /\ Brings(full, 0, r.cursor)
            => Shows(q) /\ Brings(full, Len(entries), q.cursor)
  BY <1>2, <1>6, <1>9, <1>10, <1>12, DrainSound
<1> HIDE DEF q
<1>14. /\ Sound(f) /\ Ends(r, f) /\ SameContent(q, f)
       /\ ~q.recovering => f.phase = "ready" /\ f.binding = q.binding
       /\ q.recovering => f = q
  BY <1>1, <1>2, <1>9, <1>13, FinishSound
<1> HIDE DEF f
<1>15. /\ r.authority <= r.generation /\ rt.generation <= r.generation
  BY <1>8, <1>9
<1>16. \A g \in hydrates : g.operation <= r.operation /\ (CurrentCall(r, g) => r.recovering)
  <2>1. \A g \in hydrates : g.operation \in Nat /\ g.operation <= rt.operation
    BY <1>2 DEF StreamInv, Shape, Calls, Operations
  <2> QED
    BY <1>8, <1>9, <2>1 DEF CurrentCall
<1>17. /\ Sound(rt)' /\ Resting(rt)' /\ Operations'
       /\ (hydrates \subseteq Calls)' /\ (\A g \in hydrates : g.snapshot <= Len(log))'
       /\ SameContent(f, rt') /\ rt'.binding = f.binding /\ rt'.phase = f.phase
       /\ rt'.recovering = f.recovering /\ rt'.buffer = f.buffer
       /\ rt'.operation = f.operation
       /\ \A g \in hydrates' : g.answered /\ CurrentCall(rt', g) => r.recovering
  BY <1>1, <1>9, <1>14, <1>15, <1>16, SettleInv
<1>18. rt'.generation = r.generation /\ rt'.authority = r.authority
  BY <1>14, <1>17 DEF Ends, SameContent
<1>19. Shape'
  BY <1>1, <1>2, <1>3, <1>4, <1>17 DEF StreamInv, Shape, LogType
<1>20. f.phase = "ready" => ~f.recovering
  BY <1>14 DEF Ends
<1>21. rt'.authority # 0
  BY <1>8, <1>9, <1>18
<1>22. NoCandidate.stage = "none" /\ ~NoCandidate.resume
  BY DEF NoCandidate
<1>23. Link'
  BY <1>1, <1>2, <1>5, <1>15, <1>17, <1>18, <1>20, <1>21, <1>22 DEF Link
<1>24. ReadyComplete'
  <2>1. ASSUME rt'.phase = "ready", rt'.binding
        PROVE  Shows(rt') /\ Brings(wire', 0, rt'.cursor)
    <3>1. ~q.recovering /\ q.binding
      BY <1>13, <1>14, <1>17, <2>1 DEF Outcome
    <3>2. q.out = "settled"
      BY <1>13, <3>1 DEF Outcome
    <3>3. Brings(full, 0, r.cursor)
      BY <1>1, <1>9 DEF StreamInv, CandidateComplete, full
    <3>4. Shows(q) /\ Brings(full, Len(cand.notices), q.cursor) /\ q.cursor \in Nat
      BY <1>9, <1>10, <1>13, <3>2, <3>3, StreamAssumption DEF Sound, Runtimes, Cursors
    <3>5. Brings(wire, 0, q.cursor)
      BY <1>2, <3>4, BringsRest DEF full
    <3>6. rt'.cursor = q.cursor /\ rt'.timeline = q.timeline
      BY <1>14, <1>17 DEF SameContent
    <3> QED
      BY <1>1, <3>4, <3>5, <3>6 DEF Shows
  <2> QED
    BY <1>1, <2>1, CompletePrimed DEF ReadyComplete
<1>25. CallsComplete'
  <2>1. \A g \in hydrates' : g.answered /\ CurrentCall(rt', g) /\ rt'.binding
            => Brings(NoticesOf(rt'.buffer) \o wire', 0, g.snapshot)
    BY <1>9, <1>17
  <2> QED
    BY <1>1, <2>1, CallsPrimed
<1>26. Canon'
  <2>1. Canonical => Threaded(q)
    BY <1>7, <1>9, <1>13 DEF StreamInv, Canon
  <2>2. Canonical => Threaded(f)
    BY <1>14, <2>1, SameContentThreaded
  <2>3. Canonical => Threaded(rt')
    BY <1>17, <2>2, SameContentThreaded
  <2>4. Canonical => Threaded(rt)' /\ Contiguous(rt)' /\ rt'.twice = {}
    BY <1>1, <2>3, ThreadedPrimed DEF Threaded
  <2> QED
    BY <2>4 DEF Canon
<1> QED
  BY <1>3, <1>17, <1>19, <1>23, <1>24, <1>25, <1>26 DEF StreamInv

\* A record that is suspended, restored or closed: no call it made is current.
LEMMA RecordReset ==
    ASSUME StreamInv, log' = log, Sound(rt'), rt'.asked = 0, rt'.out = "settled",
           rt'.recovering = FALSE, rt'.buffer = <<>>, rt'.phase # "ready",
           rt.operation <= rt'.operation, rt.generation <= rt'.generation,
           rt'.authority = 0 \/ rt.generation < rt'.authority,
           hydrates' \subseteq hydrates
    PROVE  /\ Sound(rt)' /\ Resting(rt)' /\ Operations'
           /\ (hydrates \subseteq Calls)' /\ (\A h \in hydrates : h.snapshot <= Len(log))'
           /\ ReadyComplete' /\ CallsComplete'
<1>1. Sound(rt)'
  BY SoundPrimed
<1>2. Resting(rt)'
  BY DEF Resting
<1>3. (hydrates \subseteq Calls)' /\ (\A h \in hydrates : h.snapshot <= Len(log))'
  BY DEF StreamInv, Shape
<1>4. /\ \A h \in hydrates' : /\ h.operation \in Nat /\ h.generation \in Nat
                              /\ h.operation <= rt.operation /\ h.generation <= rt.generation
      /\ \A g, h \in hydrates' : g.operation = h.operation => g = h
  <2>1. \A h \in hydrates : h.operation \in Nat /\ h.generation \in Nat
    BY DEF StreamInv, Shape, Calls
  <2> QED
    BY <2>1 DEF StreamInv, Operations
<1>5. /\ rt.operation \in Nat /\ rt.generation \in Nat /\ rt'.operation \in Nat
      /\ rt'.generation \in Nat /\ rt'.authority \in Nat
  BY DEF StreamInv, Sound, Runtimes
<1>6. \A h \in hydrates' : ~CurrentCall(rt', h)
  BY <1>4, <1>5 DEF CurrentCall
<1>7. \A h \in hydrates' : ~CurrentCall(rt, h)'
  BY <1>6 DEF CurrentCall
<1>8. \A h \in hydrates' : h.operation <= rt'.operation /\ h.generation <= rt'.generation
  BY <1>4, <1>5
<1>9. Operations'
  BY <1>4, <1>7, <1>8 DEF Operations
<1>10. ReadyComplete' /\ CallsComplete'
  BY <1>7 DEF ReadyComplete, CallsComplete
<1> QED
  BY <1>1, <1>2, <1>3, <1>9, <1>10

\* What the record shows is left alone.
SameHistory(r, q) ==
    /\ q.cursor = r.cursor /\ q.checkpoint = r.checkpoint /\ q.thread = r.thread
    /\ q.timeline = r.timeline /\ q.twice = r.twice

\* A step that leaves the projection's history alone keeps the canonical facts.
LEMMA CanonKept ==
    ASSUME StreamInv, log' = log, closed' = closed, SameHistory(rt, rt')
    PROVE  Canon'
<1>1. \A t \in Threads : Shown(rt', t) = Shown(rt, t)
  BY DEF SameHistory, Shown
<1>2. Contiguous(rt) => Contiguous(rt')
  BY <1>1 DEF SameHistory, Contiguous
<1>3. Threaded(rt) => Threaded(rt')
  BY <1>2 DEF SameHistory, Threaded
<1> QED
  BY <1>2, <1>3, ThreadedPrimed DEF StreamInv, Canon, SameHistory

\* A candidate that has just been opened, or none, is owed nothing.
LEMMA CandidateFresh ==
    ASSUME StreamInv, log' = log, NEW b \in BOOLEAN,
           \/ cand' = NoCandidate
           \/ cand' = [NoCandidate EXCEPT !.stage = "opening", !.resume = b]
    PROVE  /\ CandidateComplete' /\ HeardSeq(cand.notices)'
           /\ (cand \in Candidates)' /\ (Len(cand.notices) <= Limit)'
           /\ (cand.snapshot <= Len(log))' /\ cand'.stage \in {"none", "opening"}
<1>1. /\ cand' \in Candidates /\ cand'.stage \in {"none", "opening"}
      /\ cand'.notices = <<>> /\ cand'.snapshot = 0
  <2>1. NoCandidate \in Candidates /\ NoCandidate.stage = "none"
        /\ NoCandidate.notices = <<>> /\ NoCandidate.snapshot = 0
    BY StreamAssumption DEF NoCandidate, Candidates
  <2>2. CASE cand' = NoCandidate
    BY <2>1, <2>2
  <2>3. CASE cand' = [NoCandidate EXCEPT !.stage = "opening", !.resume = b]
    BY <2>1, <2>3 DEF Candidates
  <2> QED
    BY <2>2, <2>3
<1>2. Len(log) \in Nat /\ Len(<<>>) <= Limit /\ <<>> \in Seq(Notices) /\ Len(<<>>) = 0
  BY StreamAssumption DEF StreamInv, Shape, LogType
<1>3. HeardSeq(cand.notices)'
  BY <1>1, <1>2 DEF HeardSeq
<1> QED
  BY <1>1, <1>2, <1>3 DEF CandidateComplete

\* suspendTransport
LEMMA SuspendSound ==
    ASSUME StreamInv
    PROVE  LET q == SuspendTransport(rt)
           IN  /\ Sound(q) /\ SameHistory(rt, q) /\ q.asked = 0 /\ q.out = "settled"
               /\ q.recovering = FALSE /\ q.buffer = <<>> /\ q.phase # "ready"
               /\ rt.operation <= q.operation /\ rt.generation <= q.generation
               /\ q.authority = 0 /\ ~q.binding
<1> DEFINE q == SuspendTransport(rt)
<1>1. /\ Sound(rt) /\ Resting(rt) /\ Link /\ rt \in Runtimes /\ rt.operation \in Nat
      /\ rt.generation \in Nat /\ rt.recovering \in BOOLEAN
  BY DEF StreamInv, Sound, Runtimes
<1>2. CASE rt.authority = 0
  <2>1. q = rt
    BY <1>2 DEF SuspendTransport
  <2> HIDE DEF q
  <2>2. /\ rt.asked = 0 /\ rt.out = "settled" /\ ~rt.recovering /\ rt.buffer = <<>>
        /\ rt.phase # "ready" /\ ~rt.binding
    BY <1>1, <1>2 DEF Resting, Link
  <2> QED
    BY <1>1, <1>2, <2>1, <2>2 DEF SameHistory, q
<1>3. CASE rt.authority # 0
  <2> DEFINE empty == <<>>
             op == rt.operation + 1
             gen == rt.generation + 1
  <2>1. q = [rt EXCEPT !.operation = op, !.generation = gen, !.recovering = FALSE,
                       !.buffer = empty, !.binding = FALSE, !.suspended = TRUE,
                       !.authority = 0, !.phase = "disconnected"]
    BY <1>3 DEF SuspendTransport
  <2>2. /\ op \in Nat /\ gen \in Nat /\ empty \in Buffers /\ "disconnected" \in Phases
        /\ rt.operation <= op /\ rt.generation <= gen
    BY <1>1 DEF Buffers, Phases
  <2>3. HeardAll(empty) /\ Len(empty) <= Limit
    BY StreamAssumption DEF HeardAll
  <2> HIDE DEF q, empty, op, gen
  <2>4. /\ q \in Runtimes /\ SameHistory(rt, q) /\ q.operation = op /\ q.generation = gen
        /\ q.recovering = FALSE /\ q.buffer = empty /\ q.binding = FALSE
        /\ q.authority = 0 /\ q.phase = "disconnected" /\ q.asked = rt.asked /\ q.out = rt.out
    BY <1>1, <2>1, <2>2 DEF Runtimes, SameHistory
  <2>5. Sound(q)
    BY <1>1, <2>3, <2>4 DEF Sound, SameHistory
  <2> QED
    BY <1>1, <2>2, <2>4, <2>5 DEF Resting, q, empty
<1> QED
  BY <1>2, <1>3

\* Records are recovered once the socket is back: the record is suspended, a candidate opened.
LEMMA RecoverInv ==
    ASSUME StreamInv, RecoverRecords, connected', hydrates' = hydrates, closed' = closed,
           recoveryError' = recoveryError, log' = log, wire' = wire,
           subscribed' = subscribed, silent' = silent, connected' \in BOOLEAN
    PROVE  StreamInv'
<1>1. /\ rt' = SuspendTransport(rt) /\ lease' = 0
      /\ \/ cand' = NoCandidate
         \/ cand' = [NoCandidate EXCEPT !.stage = "opening", !.resume = TRUE] /\ ~closed
  BY DEF RecoverRecords, Prepare
<1>2. /\ Sound(rt') /\ SameHistory(rt, rt') /\ rt'.asked = 0 /\ rt'.out = "settled"
      /\ rt'.recovering = FALSE /\ rt'.buffer = <<>> /\ rt'.phase # "ready"
      /\ rt.operation <= rt'.operation /\ rt.generation <= rt'.generation
      /\ rt'.authority = 0 /\ ~rt'.binding
  BY <1>1, SuspendSound
<1>3. /\ Sound(rt)' /\ Resting(rt)' /\ Operations'
      /\ (hydrates \subseteq Calls)' /\ (\A h \in hydrates : h.snapshot <= Len(log))'
      /\ ReadyComplete' /\ CallsComplete'
  BY <1>2, RecordReset
<1>4. Canon'
  BY <1>2, CanonKept
<1> DEFINE yes == TRUE
<1>5. yes \in BOOLEAN /\ (\/ cand' = NoCandidate
                          \/ cand' = [NoCandidate EXCEPT !.stage = "opening", !.resume = yes])
  BY <1>1
<1> HIDE DEF yes
<1>6. /\ CandidateComplete' /\ HeardSeq(cand.notices)'
      /\ (cand \in Candidates)' /\ (Len(cand.notices) <= Limit)'
      /\ (cand.snapshot <= Len(log))' /\ cand'.stage \in {"none", "opening"}
  BY <1>5, CandidateFresh
<1>7. HeardSeq(wire)'
  BY DEF StreamInv, Shape, HeardSeq
<1>8. Shape'
  BY <1>1, <1>3, <1>6, <1>7 DEF StreamInv, Shape, LogType
<1>9. cand'.stage # "none" => ~closed
  BY <1>1 DEF NoCandidate
<1>10. rt'.generation \in Nat
  BY <1>2 DEF Sound, Runtimes
<1>11. Link'
  BY <1>1, <1>2, <1>6, <1>9, <1>10 DEF StreamInv, Link
<1> QED
  BY <1>3, <1>4, <1>6, <1>8, <1>11 DEF StreamInv

\* The socket comes back, and recovery begins with it.
LEMMA ReconnectInv ==
    ASSUME StreamInv, Reconnect \/ RetryRecovery
    PROVE  StreamInv'
<1>1. /\ RecoverRecords /\ connected' /\ connected' \in BOOLEAN /\ hydrates' = hydrates
      /\ closed' = closed /\ recoveryError' = recoveryError /\ log' = log /\ wire' = wire
      /\ subscribed' = subscribed /\ silent' = silent
  BY DEF Reconnect, RetryRecovery, StreamInv, Shape
<1> QED
  BY <1>1, RecoverInv

\* The socket is lost, with all that was on it.
LEMMA LoseSocketInv ==
    ASSUME StreamInv, LoseSocket
    PROVE  StreamInv'
<1>1. /\ connected' = FALSE /\ subscribed' = FALSE /\ wire' = <<>>
      /\ rt' = SuspendTransport(rt) /\ cand' = NoCandidate /\ lease' = 0
      /\ hydrates' \subseteq hydrates /\ closed' = closed /\ log' = log /\ silent' = silent
  BY DEF LoseSocket
<1>2. /\ Sound(rt') /\ SameHistory(rt, rt') /\ rt'.asked = 0 /\ rt'.out = "settled"
      /\ rt'.recovering = FALSE /\ rt'.buffer = <<>> /\ rt'.phase # "ready"
      /\ rt.operation <= rt'.operation /\ rt.generation <= rt'.generation
      /\ rt'.authority = 0 /\ ~rt'.binding
  BY <1>1, SuspendSound
<1>3. /\ Sound(rt)' /\ Resting(rt)' /\ Operations'
      /\ (hydrates \subseteq Calls)' /\ (\A h \in hydrates : h.snapshot <= Len(log))'
      /\ ReadyComplete' /\ CallsComplete'
  BY <1>1, <1>2, RecordReset
<1>4. Canon'
  BY <1>1, <1>2, CanonKept
<1>5. /\ CandidateComplete' /\ HeardSeq(cand.notices)'
      /\ (cand \in Candidates)' /\ (Len(cand.notices) <= Limit)'
      /\ (cand.snapshot <= Len(log))'
  <2> DEFINE yes == TRUE
  <2>1. yes \in BOOLEAN
    OBVIOUS
  <2> HIDE DEF yes
  <2> QED
    BY <1>1, <2>1, CandidateFresh
<1>6. HeardSeq(wire)'
  BY <1>1 DEF HeardSeq
<1>7. recoveryError' \in BOOLEAN
  BY DEF LoseSocket
<1>8. Shape'
  BY <1>1, <1>3, <1>5, <1>6, <1>7 DEF StreamInv, Shape, LogType
<1>9. NoCandidate.stage = "none" /\ ~NoCandidate.resume
  BY DEF NoCandidate
<1>10. rt'.generation \in Nat
  BY <1>2 DEF Sound, Runtimes
<1>11. Link'
  BY <1>1, <1>2, <1>9, <1>10 DEF StreamInv, Link
<1> QED
  BY <1>3, <1>4, <1>5, <1>8, <1>11 DEF StreamInv

\* Staging fails.
LEMMA CandidateFailedInv ==
    ASSUME StreamInv, CandidateFailed
    PROVE  StreamInv'
<1>1. /\ cand.stage # "none" /\ cand' = NoCandidate /\ hydrates' = hydrates
      /\ closed' = closed /\ lease' = lease /\ log' = log /\ wire' = wire
      /\ connected' = connected /\ subscribed' = subscribed /\ silent' = silent
      /\ recoveryError' \in BOOLEAN
      /\ rt' = rt \/ rt' = RestoreSuspendedSession(rt)
  BY DEF CandidateFailed
<1>2. /\ CandidateComplete' /\ HeardSeq(wire)' /\ HeardSeq(cand.notices)'
      /\ (cand \in Candidates)' /\ (Len(cand.notices) <= Limit)'
      /\ (cand.snapshot <= Len(log))'
  BY <1>1, CandidateKept
<1>3. NoCandidate.stage = "none" /\ ~NoCandidate.resume
  BY DEF NoCandidate
<1>4. connected /\ ~closed
  BY <1>1 DEF StreamInv, Link
<1>5. CASE rt' = rt
  <2>1. /\ Sound(rt)' /\ Resting(rt)' /\ Operations'
        /\ (hydrates \subseteq Calls)' /\ (\A h \in hydrates : h.snapshot <= Len(log))'
        /\ ReadyComplete' /\ CallsComplete' /\ Canon'
    BY <1>1, <1>5, RecordKept
  <2>2. Shape'
    BY <1>1, <1>2, <2>1 DEF StreamInv, Shape, LogType
  <2>3. Link'
    BY <1>1, <1>3, <1>5 DEF StreamInv, Link
  <2> QED
    BY <1>2, <2>1, <2>2, <2>3 DEF StreamInv
<1>6. CASE rt' # rt /\ rt' = RestoreSuspendedSession(rt)
  <2> DEFINE empty == <<>>
             gen == rt.generation + 1
  <2>1. rt' = [rt EXCEPT !.generation = gen, !.authority = gen, !.binding = TRUE,
                         !.suspended = FALSE, !.recovering = FALSE, !.buffer = empty,
                         !.phase = "error"]
    BY <1>6 DEF RestoreSuspendedSession
  <2>2. /\ Sound(rt) /\ Resting(rt) /\ rt \in Runtimes /\ rt.operation \in Nat
        /\ rt.generation \in Nat
    BY DEF StreamInv, Sound, Runtimes
  <2>3. /\ gen \in Nat /\ empty \in Buffers /\ "error" \in Phases /\ rt.generation < gen
        /\ rt.generation <= gen /\ gen # 0 /\ gen <= gen
    BY <2>2 DEF Buffers, Phases
  <2>4. HeardAll(empty) /\ Len(empty) <= Limit
    BY StreamAssumption DEF HeardAll
  <2> HIDE DEF empty, gen
  <2>5. /\ rt' \in Runtimes /\ SameHistory(rt, rt') /\ rt'.operation = rt.operation
        /\ rt'.generation = gen /\ rt'.authority = gen /\ rt'.binding = TRUE
        /\ rt'.recovering = FALSE /\ rt'.buffer = empty /\ rt'.phase = "error"
        /\ rt'.asked = rt.asked /\ rt'.out = rt.out
    BY <2>1, <2>2, <2>3 DEF Runtimes, SameHistory
  <2>6. Sound(rt')
    BY <2>2, <2>4, <2>5 DEF Sound, SameHistory
  <2>7. rt.operation <= rt'.operation /\ rt'.asked = 0 /\ rt'.out = "settled"
        /\ rt'.buffer = <<>>
    BY <2>2, <2>5 DEF Resting, empty
  <2>8. /\ Sound(rt)' /\ Resting(rt)' /\ Operations'
        /\ (hydrates \subseteq Calls)' /\ (\A h \in hydrates : h.snapshot <= Len(log))'
        /\ ReadyComplete' /\ CallsComplete'
    BY <1>1, <2>3, <2>5, <2>6, <2>7, RecordReset
  <2>9. Canon'
    BY <1>1, <2>5, CanonKept
  <2>10. Shape'
    BY <1>1, <1>2, <2>8 DEF StreamInv, Shape, LogType
  <2>11. Link'
    BY <1>1, <1>3, <1>4, <2>3, <2>5 DEF StreamInv, Link
  <2> QED
    BY <1>2, <2>8, <2>9, <2>10, <2>11 DEF StreamInv
<1> QED
  BY <1>1, <1>5, <1>6

\* The Session is closed.
LEMMA CloseInv ==
    ASSUME StreamInv, CloseRecord
    PROVE  StreamInv'
<1> DEFINE empty == <<>>
           op == rt.operation + 1
           gen == rt.generation + 1
           none == [t \in Threads |-> 0]
<1>1. /\ closed' = TRUE /\ cand' = NoCandidate /\ lease' = 0 /\ hydrates' = hydrates
      /\ recoveryError' = recoveryError /\ log' = log /\ wire' = wire
      /\ connected' = connected /\ subscribed' = subscribed /\ silent' = silent
      /\ rt' = [rt EXCEPT !.operation = op, !.generation = gen, !.authority = 0,
                          !.binding = FALSE, !.suspended = FALSE, !.recovering = FALSE,
                          !.buffer = empty, !.phase = "disconnected", !.cursor = 0,
                          !.checkpoint = 0, !.thread = none]
  BY DEF CloseRecord
<1>2. /\ CandidateComplete' /\ HeardSeq(wire)' /\ HeardSeq(cand.notices)'
      /\ (cand \in Candidates)' /\ (Len(cand.notices) <= Limit)'
      /\ (cand.snapshot <= Len(log))'
  BY <1>1, CandidateKept
<1>3. NoCandidate.stage = "none" /\ ~NoCandidate.resume
  BY DEF NoCandidate
<1>4. /\ Sound(rt) /\ Resting(rt) /\ rt \in Runtimes /\ rt.operation \in Nat
      /\ rt.generation \in Nat /\ LogType /\ Len(log) \in Nat
  BY DEF StreamInv, Sound, Runtimes, Shape, LogType
<1>5. /\ gen \in Nat /\ op \in Nat /\ empty \in Buffers /\ "disconnected" \in Phases
      /\ rt.generation <= gen /\ rt.operation <= op
  BY <1>4 DEF Buffers, Phases
<1>6. none \in Numbers /\ 0 \in Cursors /\ \A t \in Threads : none[t] = 0
  BY StreamAssumption DEF Numbers, Cursors
<1>7. HeardAll(empty) /\ Len(empty) <= Limit
  BY StreamAssumption DEF HeardAll
<1> HIDE DEF empty, gen, op, none
<1>8. /\ rt' \in Runtimes /\ rt'.operation = op /\ rt'.generation = gen
      /\ rt'.authority = 0 /\ rt'.binding = FALSE /\ rt'.recovering = FALSE
      /\ rt'.buffer = empty /\ rt'.phase = "disconnected" /\ rt'.cursor = 0
      /\ rt'.checkpoint = 0 /\ rt'.thread = none /\ rt'.timeline = rt.timeline
      /\ rt'.twice = rt.twice /\ rt'.asked = rt.asked /\ rt'.out = rt.out
  BY <1>1, <1>4, <1>5, <1>6 DEF Runtimes
<1>9. Sound(rt')
  <2>1. \A t \in Threads : 0 <= SeqAt(t, 0)
    BY SeqAtNat
  <2> QED
    BY <1>4, <1>6, <1>7, <1>8, <2>1 DEF Sound
<1>10. rt'.asked = 0 /\ rt'.out = "settled" /\ rt'.buffer = <<>>
  BY <1>4, <1>8 DEF Resting, empty
<1>11. /\ Sound(rt)' /\ Resting(rt)' /\ Operations'
       /\ (hydrates \subseteq Calls)' /\ (\A h \in hydrates : h.snapshot <= Len(log))'
       /\ ReadyComplete' /\ CallsComplete'
  BY <1>1, <1>5, <1>8, <1>9, <1>10, RecordReset
<1>12. Canon'
  <2>1. Contiguous(rt)'
    BY <1>6, <1>8 DEF Contiguous
  <2>2. Canonical => rt'.twice = {}
    BY <1>8 DEF StreamInv, Canon
  <2> QED
    BY <1>1, <2>1, <2>2 DEF Canon
<1>13. Shape'
  BY <1>1, <1>2, <1>11 DEF StreamInv, Shape, LogType
<1>14. Link'
  BY <1>1, <1>3, <1>5, <1>8 DEF StreamInv, Link
<1> QED
  BY <1>2, <1>11, <1>12, <1>13, <1>14 DEF StreamInv

\* The Session is opened on its record: a candidate is staged beside it.
LEMMA OpenInv ==
    ASSUME StreamInv, OpenOnRecord
    PROVE  StreamInv'
<1> DEFINE no == FALSE
<1>1. /\ connected /\ ~closed /\ cand' = [NoCandidate EXCEPT !.stage = "opening", !.resume = no]
      /\ rt' = rt /\ hydrates' = hydrates /\ closed' = closed /\ lease' = lease
      /\ recoveryError' = recoveryError /\ log' = log /\ wire' = wire
      /\ connected' = connected /\ subscribed' = subscribed /\ silent' = silent
      /\ no \in BOOLEAN
  BY DEF OpenOnRecord, Prepare, history
<1>2. ~cand'.resume
  BY <1>1 DEF NoCandidate
<1> HIDE DEF no
<1>3. /\ CandidateComplete' /\ HeardSeq(cand.notices)'
      /\ (cand \in Candidates)' /\ (Len(cand.notices) <= Limit)'
      /\ (cand.snapshot <= Len(log))' /\ cand'.stage \in {"none", "opening"}
  BY <1>1, CandidateFresh
<1>4. /\ Sound(rt)' /\ Resting(rt)' /\ Operations'
      /\ (hydrates \subseteq Calls)' /\ (\A h \in hydrates : h.snapshot <= Len(log))'
      /\ ReadyComplete' /\ CallsComplete' /\ Canon'
  BY <1>1, RecordKept
<1>5. HeardSeq(wire)'
  BY <1>1 DEF StreamInv, Shape, HeardSeq
<1>6. Shape'
  BY <1>1, <1>3, <1>4, <1>5 DEF StreamInv, Shape, LogType
<1>7. Link'
  BY <1>1, <1>2, <1>3 DEF StreamInv, Link
<1> QED
  BY <1>3, <1>4, <1>6, <1>7 DEF StreamInv

\* A history mutation takes or gives back its lease on the record.
LEMMA LeaseInv ==
    ASSUME StreamInv, AcquireHistoryMutation \/ ReleaseHistoryMutation
    PROVE  StreamInv'
<1>1. /\ rt' = rt /\ cand' = cand /\ hydrates' = hydrates /\ closed' = closed
      /\ recoveryError' = recoveryError /\ log' = log /\ wire' = wire
      /\ connected' = connected /\ subscribed' = subscribed /\ silent' = silent
      /\ lease' = 0 \/ (lease' = rt.authority /\ rt.phase = "ready")
  BY DEF AcquireHistoryMutation, ReleaseHistoryMutation
<1>2. /\ CandidateComplete' /\ HeardSeq(wire)' /\ HeardSeq(cand.notices)'
      /\ (cand \in Candidates)' /\ (Len(cand.notices) <= Limit)'
      /\ (cand.snapshot <= Len(log))'
  BY <1>1, CandidateKept
<1>3. /\ Sound(rt)' /\ Resting(rt)' /\ Operations'
      /\ (hydrates \subseteq Calls)' /\ (\A h \in hydrates : h.snapshot <= Len(log))'
      /\ ReadyComplete' /\ CallsComplete' /\ Canon'
  BY <1>1, RecordKept
<1>4. rt.authority \in Nat
  BY DEF StreamInv, Sound, Runtimes
<1>5. Shape'
  BY <1>1, <1>2, <1>3, <1>4 DEF StreamInv, Shape, LogType
<1>6. Link'
  BY <1>1 DEF StreamInv, Link
<1> QED
  BY <1>2, <1>3, <1>5, <1>6 DEF StreamInv

\* The server answers the candidate's hydrate.
LEMMA ServerHydratesCandidateInv ==
    ASSUME StreamInv, ServerHydratesCandidate
    PROVE  StreamInv'
<1>1. /\ cand.stage = "hydrating" /\ rt' = rt /\ hydrates' = hydrates /\ closed' = closed
      /\ cand' = [cand EXCEPT !.stage = "hydrated", !.snapshot = Len(log)]
      /\ recoveryError' = recoveryError /\ lease' = lease /\ log' = log /\ wire' = wire
      /\ connected' = connected /\ subscribed' = subscribed /\ silent' = silent
  BY DEF ServerHydratesCandidate, history
<1>2. /\ LogType /\ HeardSeq(wire) /\ HeardSeq(cand.notices) /\ cand \in Candidates
      /\ Len(cand.notices) <= Limit
  BY DEF StreamInv, Shape
<1>3. Len(log) \in Nat /\ Len(log) \in 0..MaxEvents /\ Len(log) <= Len(log)
  BY <1>2, StreamAssumption DEF LogType
<1>4. /\ cand' \in Candidates /\ cand'.notices = cand.notices /\ cand'.resume = cand.resume
      /\ cand'.snapshot = Len(log) /\ cand'.stage = "hydrated"
  BY <1>1, <1>2, <1>3 DEF Candidates
<1>5. HeardSeq(cand.notices)' /\ HeardSeq(wire)'
  BY <1>1, <1>2, <1>4 DEF HeardSeq
<1>6. Brings(cand.notices \o wire, 0, Len(log))
  BY <1>2, HeardConcat, BringsNow
<1>7. CandidateComplete'
  BY <1>1, <1>4, <1>6, CompletePrimed DEF CandidateComplete
<1>8. /\ Sound(rt)' /\ Resting(rt)' /\ Operations'
      /\ (hydrates \subseteq Calls)' /\ (\A h \in hydrates : h.snapshot <= Len(log))'
      /\ ReadyComplete' /\ CallsComplete' /\ Canon'
  BY <1>1, RecordKept
<1>9. Shape'
  BY <1>1, <1>2, <1>3, <1>4, <1>5, <1>8 DEF StreamInv, Shape, LogType
<1>10. Link'
  BY <1>1, <1>4 DEF StreamInv, Link
<1> QED
  BY <1>7, <1>8, <1>9, <1>10 DEF StreamInv

\* The server answers the candidate's open.
LEMMA ServerOpensInv ==
    ASSUME StreamInv, ServerOpens
    PROVE  StreamInv'
<1> DEFINE replay == IF ~cand.resume \/ rt.cursor = 0 THEN <<>>
                     ELSE [i \in 1..(Len(log) - rt.cursor) |->
                             [kind |-> "env", pos |-> rt.cursor + i]]
<1>1. /\ cand.stage = "opening" /\ rt' = rt /\ hydrates' = hydrates /\ closed' = closed
      /\ cand' = [cand EXCEPT !.stage = "hydrating"] /\ subscribed' = TRUE
      /\ recoveryError' = recoveryError /\ lease' = lease /\ log' = log
      /\ wire' = wire \o replay /\ connected' = connected /\ silent' = silent
  BY DEF ServerOpens, history
<1>2. /\ LogType /\ HeardSeq(wire) /\ HeardSeq(cand.notices) /\ cand \in Candidates
      /\ Len(cand.notices) <= Limit /\ cand.snapshot <= Len(log) /\ Sound(rt) /\ Resting(rt)
      /\ Link
  BY DEF StreamInv, Shape
<1>3. /\ Len(log) \in Nat /\ Len(log) <= MaxEvents /\ MaxEvents \in Nat /\ rt.cursor \in Nat
      /\ rt.cursor <= Len(log)
  BY <1>2, StreamAssumption DEF LogType, Sound, Runtimes, Cursors
<1>4. HeardSeq(replay)
  <2>1. CASE replay = <<>>
    <3> HIDE DEF replay
    <3> QED
      BY <2>1 DEF HeardSeq
  <2>2. CASE replay # <<>>
    <3> DEFINE n == Len(log) - rt.cursor
    <3>1. replay = [i \in 1..n |-> [kind |-> "env", pos |-> rt.cursor + i]] /\ n \in Nat
      BY <1>3, <2>2
    <3>2. \A i \in 1..n : /\ [kind |-> "env", pos |-> rt.cursor + i] \in Notices
                          /\ rt.cursor + i <= Len(log)
      BY <1>3 DEF Notices, Positions
    <3>3. /\ replay \in [1..n -> Notices]
          /\ \A i \in 1..n : replay[i].pos <= Len(log)
      BY <3>1, <3>2
    <3> HIDE DEF replay, n
    <3>4. replay \in Seq(Notices) /\ Len(replay) = n
      BY <3>1, <3>3
    <3> QED
      BY <3>3, <3>4 DEF HeardSeq
  <2> QED
    BY <2>1, <2>2
<1>5. HeardSeq(wire')
  BY <1>1, <1>2, <1>4, HeardConcat
<1>6. /\ cand' \in Candidates /\ cand'.notices = cand.notices /\ cand'.resume = cand.resume
      /\ cand'.snapshot = cand.snapshot /\ cand'.stage = "hydrating"
  BY <1>1, <1>2 DEF Candidates
<1>7. HeardSeq(cand.notices)' /\ HeardSeq(wire)'
  BY <1>1, <1>2, <1>5, <1>6 DEF HeardSeq
<1>8. Sound(rt)' /\ Resting(rt)'
  BY <1>1, <1>2, SoundPrimed DEF Resting
<1>9. Shape'
  BY <1>1, <1>2, <1>6, <1>7 DEF StreamInv, Shape, LogType
<1>10. connected
  BY <1>1, <1>2 DEF Link
<1>11. Link'
  BY <1>1, <1>2, <1>6, <1>10 DEF Link
<1>12. Operations'
  BY <1>1 DEF StreamInv, Operations, CurrentCall
<1>13. Canon'
  BY <1>1, CanonKept DEF SameHistory
<1>14. CandidateComplete'
  BY <1>6 DEF CandidateComplete
<1>15. ReadyComplete' /\ CallsComplete'
  <2>1. CASE cand.resume
    <3>1. rt.authority = 0 /\ rt.phase # "ready"
      BY <1>2, <2>1 DEF Link
    <3> QED
      BY <1>1, <3>1 DEF ReadyComplete, CallsComplete, CurrentCall
  <2>2. CASE ~cand.resume
    <3>1. wire' = wire
      BY <1>1, <1>2, <2>2 DEF HeardSeq
    <3> QED
      BY <1>1, <3>1, RecordKept
  <2> QED
    BY <2>1, <2>2
<1> QED
  BY <1>8, <1>9, <1>11, <1>12, <1>13, <1>14, <1>15 DEF StreamInv

\* The server answers one of the record's hydrate calls.
LEMMA ServerHydratesInv ==
    ASSUME StreamInv, NEW h \in hydrates, ServerHydrates(h)
    PROVE  StreamInv'
<1> DEFINE a == [h EXCEPT !.answered = TRUE, !.snapshot = Len(log)]
<1>1. /\ hydrates' = (hydrates \ {h}) \cup {a} /\ rt' = rt /\ cand' = cand /\ closed' = closed
      /\ recoveryError' = recoveryError /\ lease' = lease /\ log' = log /\ wire' = wire
      /\ connected' = connected /\ subscribed' = subscribed /\ silent' = silent
  BY DEF ServerHydrates, history
<1>2. /\ LogType /\ HeardSeq(wire) /\ Sound(rt) /\ Resting(rt) /\ Operations
      /\ hydrates \subseteq Calls /\ \A g \in hydrates : g.snapshot <= Len(log)
  BY DEF StreamInv, Shape
<1>3. Len(log) \in Nat /\ Len(log) \in 0..MaxEvents /\ Len(log) <= Len(log)
  BY <1>2, StreamAssumption DEF LogType
<1>4. /\ a \in Calls /\ a.operation = h.operation /\ a.generation = h.generation
      /\ a.snapshot = Len(log)
  BY <1>2, <1>3 DEF Calls
<1> HIDE DEF a
<1>5. /\ CandidateComplete' /\ HeardSeq(wire)' /\ HeardSeq(cand.notices)'
      /\ (cand \in Candidates)' /\ (Len(cand.notices) <= Limit)'
      /\ (cand.snapshot <= Len(log))'
  BY <1>1, CandidateKept
<1>6. Sound(rt)' /\ Resting(rt)'
  BY <1>1, <1>2, SoundPrimed DEF Resting
<1>7. (hydrates \subseteq Calls)' /\ (\A g \in hydrates : g.snapshot <= Len(log))'
  BY <1>1, <1>2, <1>3, <1>4
<1>8. Shape'
  BY <1>1, <1>5, <1>7 DEF StreamInv, Shape, LogType
<1>9. Link'
  BY <1>1 DEF StreamInv, Link
<1>10. Operations'
  <2>1. (\A g \in hydrates : g.operation <= rt.operation /\ g.generation <= rt.generation)'
    BY <1>1, <1>2, <1>4 DEF Operations
  <2>2. (\A g, k \in hydrates : g.operation = k.operation => g = k)'
    BY <1>1, <1>2, <1>4 DEF Operations
  <2>3. (\A g \in hydrates : CurrentCall(rt, g) => rt.recovering)'
    BY <1>1, <1>2, <1>4 DEF Operations, CurrentCall
  <2> QED
    BY <2>1, <2>2, <2>3 DEF Operations
<1>11. ReadyComplete'
  BY <1>1, CompletePrimed DEF StreamInv, ReadyComplete
<1>12. CallsComplete'
  <2>1. ASSUME NEW g \in hydrates', g.answered, CurrentCall(rt', g), rt'.binding
        PROVE  Brings(NoticesOf(rt'.buffer) \o wire', 0, g.snapshot)
    <3>1. CASE g = a
      <4>1. HeardSeq(NoticesOf(rt.buffer))
        BY <1>2, NoticesOfType DEF Sound
      <4>2. Brings(NoticesOf(rt.buffer) \o wire, 0, Len(log))
        BY <1>2, <4>1, HeardConcat, BringsNow
      <4> QED
        BY <1>1, <1>4, <3>1, <4>2
    <3>2. CASE g # a
      BY <1>1, <2>1, <3>2 DEF StreamInv, CallsComplete
    <3> QED
      BY <3>1, <3>2
  <2> QED
    BY <1>1, <2>1, CallsPrimed
<1>13. Canon'
  BY <1>1, CanonKept DEF SameHistory
<1> QED
  BY <1>5, <1>6, <1>8, <1>9, <1>10, <1>11, <1>12, <1>13 DEF StreamInv

\* Brings after a step, for a sequence and a position given by value.
BringsNext(seq, from) ==
    /\ \A i, j \in (0 + 1)..Len(seq) :
         i < j /\ seq[j].pos > from => seq[i].pos < seq[j].pos
    /\ \A p \in (from + 1)..Len(log') :
         p \in silent' \/ \E i \in (0 + 1)..Len(seq) : seq[i].pos = p

\* Sending one more notification adds it at the end of buffer and socket together.
LEMMA AppendConcat ==
    ASSUME NEW a \in Seq(Notices), NEW w \in Seq(Notices), NEW n \in Notices
    PROVE  a \o Append(w, n) = Append(a \o w, n)
<1> DEFINE x == Append(w, n)
           l == a \o x
           b == a \o w
           y == Append(b, n)
<1>1. /\ x \in Seq(Notices) /\ Len(x) = Len(w) + 1 /\ x[Len(w) + 1] = n
      /\ \A i \in 1..Len(w) : x[i] = w[i]
      /\ Len(w) \in Nat /\ Len(a) \in Nat
  OBVIOUS
<1>2. /\ b \in Seq(Notices) /\ Len(b) = Len(a) + Len(w)
      /\ \A i \in 1..(Len(a) + Len(w)) : b[i] = IF i <= Len(a) THEN a[i] ELSE w[i - Len(a)]
  BY ConcatProperties
<1> HIDE DEF x, b
<1>3. /\ l \in Seq(Notices) /\ Len(l) = Len(a) + Len(x)
      /\ \A i \in 1..(Len(a) + Len(x)) : l[i] = IF i <= Len(a) THEN a[i] ELSE x[i - Len(a)]
  BY <1>1, ConcatProperties
<1>4. /\ y \in Seq(Notices) /\ Len(y) = Len(b) + 1 /\ y[Len(b) + 1] = n
      /\ \A i \in 1..Len(b) : y[i] = b[i]
  BY <1>2
<1> HIDE DEF l, y
<1>5. ASSUME NEW i \in 1..Len(l)
      PROVE  l[i] = y[i]
  <2>1. CASE i = Len(a) + Len(w) + 1
    <3>1. i - Len(a) = Len(w) + 1 /\ ~(i <= Len(a)) /\ i \in 1..(Len(a) + Len(x))
      BY <2>1, <1>1
    <3> QED
      BY <2>1, <3>1, <1>1, <1>2, <1>3, <1>4
  <2>2. CASE i # Len(a) + Len(w) + 1 /\ i <= Len(a)
    <3>1. i \in 1..(Len(a) + Len(x)) /\ i \in 1..(Len(a) + Len(w))
      BY <2>2, <1>1
    <3> QED
      BY <2>2, <3>1, <1>2, <1>3, <1>4
  <2>3. CASE i # Len(a) + Len(w) + 1 /\ ~(i <= Len(a))
    <3> DEFINE k == Len(a)
               m == Len(w)
    <3>1. k \in Nat /\ m \in Nat /\ i \in 1..(k + (m + 1)) /\ i # k + m + 1 /\ ~(i <= k)
      BY <2>3, <1>1, <1>3
    <3> HIDE DEF k, m
    <3>2. i \in 1..(k + m) /\ i - k \in 1..m
      BY <3>1
    <3>3. /\ i \in 1..(Len(a) + Len(x)) /\ i \in 1..(Len(a) + Len(w))
          /\ i - Len(a) \in 1..Len(w)
      BY <1>3, <3>2 DEF k, m
    <3>4. l[i] = x[i - Len(a)] /\ b[i] = w[i - Len(a)]
      BY <2>3, <3>3, <1>2, <1>3
    <3> QED
      BY <3>3, <3>4, <1>1, <1>2, <1>4
  <2> QED
    BY <2>1, <2>2, <2>3
<1>6. Len(l) = Len(y)
  BY <1>1, <1>2, <1>3, <1>4
<1>7. l = y
  BY <1>3, <1>4, <1>5, <1>6, SeqEqual
<1> QED
  BY <1>7 DEF l, y, b, x

\* A new event is brought by the notice sent for it, or was lost silently.
LEMMA EmitBrings ==
    ASSUME LogType, NEW s, HeardSeq(s), NEW c \in Nat, c <= Len(log), Brings(s, 0, c),
           Len(log') = Len(log) + 1, NEW z,
           \/ /\ silent' = silent
              /\ \E n \in Notices : z = Append(s, n) /\ n.pos = Len(log) + 1
           \/ silent' = silent \cup {Len(log) + 1} /\ z = s
    PROVE  BringsNext(z, c)
<1>1. s \in Seq(Notices) /\ Len(s) \in Nat /\ Len(log) \in Nat
  BY DEF HeardSeq, LogType
<1>2. \A i \in 1..Len(s) : s[i].pos \in Nat /\ s[i].pos <= Len(log)
  <2>1. \A i \in 1..Len(s) : s[i] \in Notices
    BY <1>1
  <2> QED
    BY <2>1, StreamAssumption DEF HeardSeq, Notices, Positions
<1>3. /\ \A i, j \in 1..Len(s) : i < j /\ s[j].pos > c => s[i].pos < s[j].pos
      /\ \A p \in (c + 1)..Len(log) : p \in silent \/ \E i \in 1..Len(s) : s[i].pos = p
  BY DEF Brings
<1>4. CASE silent' = silent \cup {Len(log) + 1} /\ z = s
  <2>1. \A p \in (c + 1)..Len(log') : p \in (c + 1)..Len(log) \/ p = Len(log) + 1
    BY <1>1
  <2> QED
    BY <1>3, <1>4, <2>1 DEF BringsNext
<1>5. ASSUME silent' = silent, NEW n \in Notices, z = Append(s, n), n.pos = Len(log) + 1
      PROVE  BringsNext(z, c)
  <2>1. /\ Len(z) = Len(s) + 1 /\ z[Len(s) + 1] = n
        /\ \A i \in 1..Len(s) : z[i] = s[i]
    BY <1>1, <1>5
  <2>2. ASSUME NEW i \in 1..Len(z), NEW j \in 1..Len(z), i < j, z[j].pos > c
        PROVE  z[i].pos < z[j].pos
    <3>1. i \in 1..Len(s) /\ z[i].pos = s[i].pos
      BY <1>1, <2>1, <2>2
    <3>2. CASE j = Len(s) + 1
      <4>1. z[j].pos = Len(log) + 1
        BY <1>5, <2>1, <3>2
      <4> QED
        BY <1>1, <1>2, <3>1, <4>1
    <3>3. CASE j # Len(s) + 1
      <4>1. j \in 1..Len(s) /\ z[j].pos = s[j].pos
        BY <1>1, <2>1, <3>3
      <4> QED
        BY <1>3, <2>2, <3>1, <4>1
    <3> QED
      BY <3>2, <3>3
  <2>3. ASSUME NEW p \in (c + 1)..Len(log')
        PROVE  p \in silent' \/ \E i \in 1..Len(z) : z[i].pos = p
    <3>1. CASE p = Len(log) + 1
      <4>1. Len(s) + 1 \in 1..Len(z)
        BY <1>1, <2>1
      <4> QED
        BY <1>5, <2>1, <3>1, <4>1
    <3>2. CASE p # Len(log) + 1
      <4>1. p \in (c + 1)..Len(log)
        BY <1>1, <3>2
      <4>2. \A i \in 1..Len(s) : i \in 1..Len(z)
        BY <1>1, <2>1
      <4> QED
        BY <1>3, <1>5, <2>1, <4>1, <4>2
    <3> QED
      BY <3>1, <3>2
  <2> QED
    BY <2>2, <2>3, SMTT(30) DEF BringsNext
<1> QED
  BY <1>4, <1>5

\* The server records an event and sends it well, lossily, badly or not at all.
LEMMA EmitInv ==
    ASSUME StreamInv, NEW t \in Threads, Emit(t)
    PROVE  StreamInv'
<1>1. /\ Len(log) < MaxEvents /\ log' = Append(log, t) /\ rt' = rt /\ cand' = cand
      /\ hydrates' = hydrates /\ closed' = closed /\ lease' = lease
      /\ recoveryError' = recoveryError /\ connected' = connected
      /\ subscribed' = subscribed
  BY DEF Emit, history
<1>2. /\ LogType /\ HeardSeq(wire) /\ HeardSeq(cand.notices) /\ cand \in Candidates
      /\ cand.snapshot <= Len(log) /\ silent \subseteq Positions
      /\ hydrates \subseteq Calls /\ \A g \in hydrates : g.snapshot <= Len(log)
      /\ Sound(rt) /\ Resting(rt) /\ Link /\ Operations
  BY DEF StreamInv, Shape
<1>3. /\ log \in Seq(Threads) /\ log' \in Seq(Threads) /\ Len(log) \in Nat
      /\ Len(log') = Len(log) + 1 /\ Len(log') <= MaxEvents
      /\ \A p \in 1..Len(log) : log'[p] = log[p]
      /\ MaxEvents \in Nat
  BY <1>1, <1>2, StreamAssumption DEF LogType
<1>4. Len(log) + 1 \in Positions
  BY <1>1, <1>3 DEF Positions
<1>5. \/ ~subscribed /\ wire' = wire /\ silent' = silent
      \/ subscribed /\ silent' = silent
           /\ \E n \in Notices : wire' = Append(wire, n) /\ n.pos = Len(log) + 1
      \/ subscribed /\ silent' = silent \cup {Len(log) + 1} /\ wire' = wire
  <2>1. \A k \in {"env", "lossy", "bad"} :
          [kind |-> k, pos |-> Len(log) + 1] \in Notices
    BY <1>4 DEF Notices
  <2>2. ASSUME NEW k \in {"env", "lossy", "bad"}, Sent(k)
        PROVE  \E n \in Notices : wire' = Append(wire, n) /\ n.pos = Len(log) + 1
    BY <2>1, <2>2 DEF Sent
  <2> QED
    BY <2>2 DEF Emit
<1>6. HeardSeq(wire)' /\ HeardSeq(cand.notices)' /\ (silent \subseteq Positions)'
  <2>1. \A s : HeardSeq(s) => s \in Seq(Notices) /\ \A i \in 1..Len(s) : s[i].pos <= Len(log')
    <3> SUFFICES ASSUME NEW s, HeardSeq(s)
                 PROVE  s \in Seq(Notices) /\ \A i \in 1..Len(s) : s[i].pos <= Len(log')
      OBVIOUS
    <3>1. s \in Seq(Notices) /\ \A i \in 1..Len(s) : s[i] \in Notices /\ s[i].pos <= Len(log)
      BY DEF HeardSeq
    <3>2. \A i \in 1..Len(s) : s[i].pos \in Nat
      BY <3>1, <1>3 DEF Notices, Positions
    <3> QED
      BY <3>1, <3>2, <1>3
  <2>2. HeardSeq(cand.notices)'
    BY <1>1, <1>2, <2>1 DEF HeardSeq
  <2>3. CASE wire' = wire
    BY <1>2, <1>4, <1>5, <2>1, <2>2, <2>3 DEF HeardSeq
  <2>4. ASSUME NEW n \in Notices, wire' = Append(wire, n), n.pos = Len(log) + 1
        PROVE  HeardSeq(wire)'
    <3>1. /\ wire \in Seq(Notices) /\ Len(wire) \in Nat
          /\ \A i \in 1..Len(wire) : wire[i].pos <= Len(log')
      BY <1>2, <2>1 DEF HeardSeq
    <3>2. /\ wire' \in Seq(Notices) /\ Len(wire') = Len(wire) + 1
          /\ wire'[Len(wire) + 1] = n /\ \A i \in 1..Len(wire) : wire'[i] = wire[i]
      BY <2>4, <3>1
    <3>3. \A i \in 1..Len(wire') : i \in 1..Len(wire) \/ i = Len(wire) + 1
      BY <3>1, <3>2
    <3>4. n.pos <= Len(log')
      BY <1>3, <2>4
    <3>5. \A i \in 1..Len(wire') : wire'[i].pos <= Len(log')
      BY <3>1, <3>2, <3>3, <3>4
    <3> QED
      BY <3>2, <3>5 DEF HeardSeq
  <2>5. (silent \subseteq Positions)'
    BY <1>2, <1>4, <1>5
  <2> QED
    BY <1>5, <2>2, <2>3, <2>4, <2>5
<1>7. \A n \in 0..Len(log) : \A u : SeqAt(u, n)' = SeqAt(u, n)
  BY <1>3, SeqAtKept
<1>8. /\ rt \in Runtimes /\ rt.cursor \in 0..Len(log) /\ rt.checkpoint <= rt.cursor
      /\ rt.timeline \subseteq 1..Len(log) /\ HeardAll(rt.buffer) /\ rt.cursor \in Nat
  BY <1>2, StreamAssumption DEF Sound, Runtimes, Cursors
<1>9. Sound(rt)'
  <2>1. (\A u \in Threads : rt.thread[u] <= SeqAt(u, rt.cursor))'
    <3>1. \A u : SeqAt(u, rt.cursor)' = SeqAt(u, rt.cursor)
      BY <1>1, <1>7, <1>8 DEF SeqAt
    <3> QED
      BY <1>1, <1>2, <3>1 DEF Sound
  <2>2. HeardAll(rt.buffer)'
    <3>1. /\ rt.buffer \in Seq(Entries)
          /\ \A i \in 1..Len(rt.buffer) : /\ rt.buffer[i] \in Entries
                                          /\ rt.buffer[i].notice.pos <= Len(log)
      BY <1>8 DEF HeardAll
    <3>2. \A i \in 1..Len(rt.buffer) : rt.buffer[i].notice.pos \in Nat
      BY <1>3, <3>1 DEF Entries, Notices, Positions
    <3> QED
      BY <1>1, <1>3, <3>1, <3>2 DEF HeardAll
  <2>3. rt.cursor <= Len(log') /\ rt.timeline \subseteq 1..Len(log')
    BY <1>3, <1>8
  <2>4. (rt \in Runtimes)' /\ (Len(rt.buffer) <= Limit)'
    <3>1. Runtimes' = Runtimes
      OBVIOUS
    <3> QED
      BY <1>1, <1>2, <1>8, <3>1 DEF Sound
  <2> QED
    BY <1>1, <1>8, <2>1, <2>2, <2>3, <2>4 DEF Sound
<1>10. Resting(rt)'
  BY <1>1, <1>2 DEF Resting
<1>11. Shape'
  <2>1. cand.snapshot <= Len(log') /\ \A g \in hydrates : g.snapshot <= Len(log')
    <3>1. cand.snapshot \in Nat /\ \A g \in hydrates : g.snapshot \in Nat
      BY <1>2, <1>3 DEF Candidates, Calls
    <3> QED
      BY <1>2, <1>3, <3>1
  <2>2. LogType'
    BY <1>3 DEF LogType
  <2> QED
    BY <1>1, <1>6, <2>1, <2>2 DEF StreamInv, Shape
<1>12. Link'
  BY <1>1, <1>2, <1>5 DEF Link
<1>13. Operations'
  BY <1>1, <1>2 DEF Operations, CurrentCall
<1>14. ASSUME subscribed, NEW a, HeardSeq(a), NEW c \in Nat, c <= Len(log),
              Brings(a \o wire, 0, c)
       PROVE  BringsNext(a \o wire', c)
  <2> DEFINE s == a \o wire
             z == a \o wire'
  <2>1. HeardSeq(s) /\ Brings(s, 0, c)
    BY <1>2, <1>14, HeardConcat
  <2>2. \/ silent' = silent /\ \E n \in Notices : z = Append(s, n) /\ n.pos = Len(log) + 1
        \/ silent' = silent \cup {Len(log) + 1} /\ z = s
    <3>1. CASE silent' = silent /\ \E n \in Notices : wire' = Append(wire, n)
                                                     /\ n.pos = Len(log) + 1
      <4>1. PICK n \in Notices : wire' = Append(wire, n) /\ n.pos = Len(log) + 1
        BY <3>1
      <4>2. a \in Seq(Notices) /\ wire \in Seq(Notices)
        BY <1>2, <1>14 DEF HeardSeq
      <4>3. z = Append(s, n)
        BY <4>1, <4>2, AppendConcat
      <4> HIDE DEF z, s
      <4> QED
        BY <3>1, <4>1, <4>3
    <3>2. CASE silent' = silent \cup {Len(log) + 1} /\ wire' = wire
      BY <3>2
    <3> QED
      BY <1>5, <1>14, <3>1, <3>2
  <2> HIDE DEF s, z
  <2>3. BringsNext(z, c)
    BY <1>2, <1>3, <1>14, <2>1, <2>2, EmitBrings
  <2> QED
    BY <2>3 DEF z
<1>15. ReadyComplete'
  <2> SUFFICES ASSUME rt.phase = "ready", rt.binding
               PROVE  Shows(rt)' /\ Brings(wire, 0, rt.cursor)'
    BY <1>1 DEF ReadyComplete
  <2>1. subscribed /\ Shows(rt) /\ Brings(wire, 0, rt.cursor)
    BY <1>2 DEF StreamInv, ReadyComplete, Link
  <2>2. Shows(rt)'
    BY <1>1, <1>5, <2>1 DEF Shows
  <2>3. BringsNext(wire', rt.cursor)
    <3>1. rt.cursor <= Len(log)
      BY <1>8, <1>3
    <3> QED
      BY <1>2, <1>3, <1>5, <1>8, <2>1, <3>1, EmitBrings
  <2> QED
    BY <1>1, <2>2, <2>3 DEF Brings, BringsNext
<1>16. CallsComplete'
  <2> SUFFICES ASSUME NEW h \in hydrates, h.answered, CurrentCall(rt, h), rt.binding
               PROVE  Brings(NoticesOf(rt.buffer) \o wire, 0, h.snapshot)'
    BY <1>1 DEF CallsComplete, CurrentCall
  <2>1. subscribed
    BY <1>2 DEF Operations, Link
  <2>2. Brings(NoticesOf(rt.buffer) \o wire, 0, h.snapshot)
    BY DEF StreamInv, CallsComplete
  <2>3. HeardSeq(NoticesOf(rt.buffer)) /\ h.snapshot \in Nat /\ h.snapshot <= Len(log)
    BY <1>2, <1>3, <1>8, NoticesOfType DEF Calls
  <2>4. BringsNext(NoticesOf(rt.buffer) \o wire', h.snapshot)
    BY <1>14, <2>1, <2>2, <2>3
  <2> DEFINE s == NoticesOf(rt.buffer) \o wire'
  <2>5. (NoticesOf(rt.buffer) \o wire)' = s /\ BringsNext(s, h.snapshot)
    BY <1>1, <2>4 DEF NoticesOf
  <2> HIDE DEF s
  <2> QED
    BY <2>5 DEF Brings, BringsNext
<1>17. CandidateComplete'
  <2> SUFFICES ASSUME cand.stage = "hydrated"
               PROVE  Brings(cand.notices \o wire, 0, cand.snapshot)'
    BY <1>1 DEF CandidateComplete
  <2>1. subscribed /\ Brings(cand.notices \o wire, 0, cand.snapshot)
    BY <1>2 DEF StreamInv, CandidateComplete, Link
  <2>2. cand.snapshot \in Nat
    BY <1>2, <1>3 DEF Candidates
  <2>3. BringsNext(cand.notices \o wire', cand.snapshot)
    BY <1>2, <1>14, <2>1, <2>2
  <2> DEFINE s == cand.notices \o wire'
  <2>4. (cand.notices \o wire)' = s /\ BringsNext(s, cand.snapshot)
    BY <1>1, <2>3
  <2> HIDE DEF s
  <2> QED
    BY <1>1, <2>4 DEF Brings, BringsNext
<1>18. Canon'
  <2>1. \A p \in rt.timeline : log'[p] = log[p] /\ SeqNo(p)' = SeqNo(p)
    <3> SUFFICES ASSUME NEW p \in rt.timeline
                 PROVE  log'[p] = log[p] /\ SeqNo(p)' = SeqNo(p)
      OBVIOUS
    <3>1. p \in 1..Len(log) /\ p \in 0..Len(log) /\ log'[p] = log[p]
      BY <1>3, <1>8
    <3>2. \A u : SeqAt(u, p)' = SeqAt(u, p)
      BY <3>1, <1>7
    <3> QED
      BY <3>1, <3>2 DEF SeqNo, SeqAt
  <2>2. \A u : Shown(rt, u)' = Shown(rt, u)
    BY <1>1, <2>1 DEF Shown
  <2>3. Contiguous(rt) => Contiguous(rt)'
    BY <1>1, <2>2 DEF Contiguous
  <2>4. Threaded(rt) => Threaded(rt)'
    BY <1>1, <2>1, <2>3 DEF Threaded
  <2> QED
    BY <1>1, <2>3, <2>4 DEF StreamInv, Canon
<1> QED
  BY <1>9, <1>10, <1>11, <1>12, <1>13, <1>15, <1>16, <1>17, <1>18 DEF StreamInv

\* The invariant holds initially.
LEMMA InitInv == Init => StreamInv
<1> SUFFICES ASSUME Init PROVE StreamInv
  OBVIOUS
<1> DEFINE none == [t \in Threads |-> 0]
           empty == <<>>
<1>1. /\ rt = [generation |-> 0, authority |-> 0, suspended |-> FALSE, binding |-> FALSE,
               phase |-> "idle", recovering |-> FALSE, buffer |-> empty, operation |-> 0,
               cursor |-> 0, checkpoint |-> 0, thread |-> none,
               timeline |-> {}, twice |-> {}, asked |-> 0, out |-> "settled"]
      /\ cand = NoCandidate /\ hydrates = {} /\ closed = FALSE /\ lease = 0
      /\ recoveryError = FALSE /\ log = empty /\ wire = empty /\ connected = TRUE
      /\ subscribed = FALSE /\ silent = {}
  BY DEF Init
<1>2. /\ none \in Numbers /\ 0 \in Cursors /\ empty \in Buffers /\ {} \in Timelines
      /\ "idle" \in Phases /\ "settled" \in Outs /\ \A t \in Threads : none[t] = 0
  BY StreamAssumption DEF Numbers, Cursors, Buffers, Timelines, Phases, Outs
<1>3. empty = <<>> /\ Len(empty) = 0 /\ HeardAll(empty) /\ HeardSeq(empty) /\ LogType
  BY <1>1, StreamAssumption DEF HeardAll, HeardSeq, LogType
<1> HIDE DEF none, empty
<1>4. rt \in Runtimes
  BY <1>1, <1>2 DEF Runtimes
<1>5. Sound(rt)
  <2>1. \A t \in Threads : 0 <= SeqAt(t, 0)
    BY SeqAtNat
  <2>2. 0 <= Limit
    BY StreamAssumption
  <2> QED
    BY <1>1, <1>2, <1>3, <1>4, <2>1, <2>2 DEF Sound
<1>6. Resting(rt)
  BY <1>1, <1>3 DEF Resting
<1>7. /\ NoCandidate \in Candidates /\ NoCandidate.stage = "none"
      /\ NoCandidate.notices = empty /\ NoCandidate.snapshot = 0 /\ ~NoCandidate.resume
  BY <1>3, StreamAssumption DEF NoCandidate, Candidates
<1>8. Shape
  <2>1. /\ recoveryError \in BOOLEAN /\ closed \in BOOLEAN /\ connected \in BOOLEAN
        /\ subscribed \in BOOLEAN
    BY <1>1
  <2>2. silent \subseteq Positions /\ hydrates \subseteq Calls /\ lease \in Nat
        /\ \A h \in hydrates : h.snapshot <= Len(log)
    BY <1>1
  <2>3. /\ cand \in Candidates /\ cand.notices = empty /\ cand.snapshot = 0
    BY <1>1, <1>7
  <2>4. /\ LogType /\ HeardSeq(cand.notices) /\ HeardSeq(wire) /\ Len(cand.notices) = 0
        /\ Len(log) = 0
    BY <1>1, <1>3, <2>3
  <2>5. Len(cand.notices) <= Limit /\ cand.snapshot <= Len(log)
    BY <2>3, <2>4, StreamAssumption
  <2> QED
    BY <2>1, <2>2, <2>3, <2>4, <2>5 DEF Shape
<1>9. Link
  BY <1>1, <1>3, <1>7 DEF Link
<1>10. Operations /\ ReadyComplete /\ CallsComplete /\ CandidateComplete
  BY <1>1, <1>7 DEF Operations, ReadyComplete, CallsComplete, CandidateComplete
<1>11. Canon
  BY <1>1, <1>2 DEF Canon, Threaded, Contiguous
<1> QED
  BY <1>5, <1>6, <1>8, <1>9, <1>10, <1>11 DEF StreamInv

\* Every step preserves it, action by action.
LEMMA NextInv == StreamInv /\ [Next]_vars => StreamInv'
<1> SUFFICES ASSUME StreamInv, [Next]_vars PROVE StreamInv'
  OBVIOUS
<1>1. CASE Notify
  BY <1>1, NotifyInv
<1>2. CASE HydrateEnds
  BY <1>2, HydrateReturnedInv, HydrateFailedInv DEF HydrateEnds
<1>3. CASE HydrateAnswered
  BY <1>3, ServerHydratesInv DEF HydrateAnswered
<1>4. CASE CandidateMoves
  BY <1>4, ServerOpensInv, ServerHydratesCandidateInv, InstallInv DEF CandidateMoves
<1>5. CASE CandidateFailed
  BY <1>5, CandidateFailedInv
<1>6. CASE AcquireHistoryMutation \/ ReleaseHistoryMutation
  BY <1>6, LeaseInv
<1>7. CASE RehydrateSession
  BY <1>7, RehydrateInv
<1>8. CASE OpenOnRecord
  BY <1>8, OpenInv
<1>9. CASE CloseRecord
  BY <1>9, CloseInv
<1>10. CASE LoseSocket
  BY <1>10, LoseSocketInv
<1>11. CASE Reconnect \/ RetryRecovery
  BY <1>11, ReconnectInv
<1>12. CASE \E t \in Threads : Emit(t)
  BY <1>12, EmitInv
<1>13. CASE UNCHANGED vars
  <2>1. /\ rt' = rt /\ cand' = cand /\ hydrates' = hydrates /\ closed' = closed
        /\ lease' = lease /\ recoveryError' = recoveryError /\ log' = log /\ wire' = wire
        /\ connected' = connected /\ subscribed' = subscribed /\ silent' = silent
    BY <1>13 DEF vars, history
  <2>2. /\ CandidateComplete' /\ HeardSeq(wire)' /\ HeardSeq(cand.notices)'
        /\ (cand \in Candidates)' /\ (Len(cand.notices) <= Limit)'
        /\ (cand.snapshot <= Len(log))'
    BY <2>1, CandidateKept
  <2>3. /\ Sound(rt)' /\ Resting(rt)' /\ Operations'
        /\ (hydrates \subseteq Calls)' /\ (\A h \in hydrates : h.snapshot <= Len(log))'
        /\ ReadyComplete' /\ CallsComplete' /\ Canon'
    BY <2>1, RecordKept
  <2>4. Shape'
    BY <2>1, <2>2, <2>3 DEF StreamInv, Shape, LogType
  <2>5. Link'
    BY <2>1 DEF StreamInv, Link
  <2> QED
    BY <2>2, <2>3, <2>4, <2>5 DEF StreamInv
<1> QED
  BY <1>1, <1>2, <1>3, <1>4, <1>5, <1>6, <1>7, <1>8, <1>9, <1>10, <1>11, <1>12, <1>13
     DEF Next

\* So it holds in every reachable state.
LEMMA SpecInv == Spec => []StreamInv
  BY InitInv, NextInv, PTL DEF Spec
-----------------------------------------------------------------------------
(* The properties *)

\* The state keeps its shape and neither buffer exceeds RECOVERY_NOTIFICATION_LIMIT,
\* whatever the limit, the faults and the number of events.
THEOREM StreamTypeCorrect == Spec => []TypeOK
<1>1. StreamInv => TypeOK
  <2> SUFFICES ASSUME StreamInv PROVE TypeOK
    OBVIOUS
  <2>1. rt \in Runtimes /\ rt.asked = 0 /\ rt.out = "settled" /\ Len(rt.buffer) <= Limit
    BY DEF StreamInv, Sound, Resting
  <2>2. rt \in [generation : Nat, authority : Nat, suspended : BOOLEAN, binding : BOOLEAN,
                phase : Phases, recovering : BOOLEAN, buffer : Buffers,
                operation : Nat, cursor : Cursors, checkpoint : Cursors,
                thread : Numbers, timeline : Timelines, twice : Timelines,
                asked : {0}, out : {"settled"}]
    BY <2>1 DEF Runtimes
  <2>3. /\ cand \in Candidates /\ Len(cand.notices) <= Limit /\ hydrates \subseteq Calls
        /\ lease \in Nat /\ recoveryError \in BOOLEAN /\ closed \in BOOLEAN
        /\ connected \in BOOLEAN /\ subscribed \in BOOLEAN /\ log \in Seq(Threads)
        /\ Len(log) <= MaxEvents /\ wire \in Seq(Notices) /\ silent \subseteq Positions
    BY DEF StreamInv, Shape, LogType, HeardSeq
  <2> QED
    BY <2>1, <2>2, <2>3, Zenon
       DEF TypeOK, Candidates, Calls, Buffers, Cursors, Numbers, Timelines
<1> QED
  BY <1>1, SpecInv, PTL

\* A record that reports ready has an authority on the open, subscribed socket, is not
\* recovering and has nothing buffered: no order of hydrates, failures, suspensions and
\* candidates of the runtime makes it ready early.
THEOREM ReadyOnlyWhenSettled == Spec => []ReadyIsSettled
<1>1. StreamInv => ReadyIsSettled
  BY DEF StreamInv, Link, Resting, ReadyIsSettled
<1> QED
  BY <1>1, SpecInv, PTL

\* A record that is ready and listens misses no durable event: commitHydrate, the
\* drain of the recovery buffer and the live stream together lose nothing that the
\* server did not lose without a notice.  Canonical snapshots are not needed.
THEOREM NothingMissed == Spec => []ReadyMissesNothing
<1>1. StreamInv => ReadyMissesNothing
  <2> SUFFICES ASSUME StreamInv, rt.phase = "ready", rt.binding, NEW p \in 1..Len(log)
               PROVE  p \in rt.timeline \cup silent \cup {wire[i].pos : i \in DOMAIN wire}
    BY DEF ReadyMissesNothing
  <2>1. Shows(rt) /\ Brings(wire, 0, rt.cursor)
    BY DEF StreamInv, ReadyComplete
  <2>2. rt.cursor \in Nat /\ wire \in Seq(Notices) /\ Len(log) \in Nat
    BY StreamAssumption DEF StreamInv, Sound, Runtimes, Cursors, Shape, HeardSeq, LogType
  <2>3. CASE p <= rt.cursor
    BY <2>1, <2>2, <2>3 DEF Shows
  <2>4. CASE ~(p <= rt.cursor)
    <3>1. p \in (rt.cursor + 1)..Len(log) /\ DOMAIN wire = 1..Len(wire)
      BY <2>2, <2>4
    <3>2. p \in silent \/ \E i \in 1..Len(wire) : wire[i].pos = p
      BY <2>1, <3>1 DEF Brings
    <3> QED
      BY <3>1, <3>2
  <2> QED
    BY <2>3, <2>4
<1> QED
  BY <1>1, SpecInv, PTL

\* With canonical snapshots no envelope is folded into a timeline that already has it,
\* whether it is replayed, buffered or late.
THEOREM NeverFoldedTwice == Spec => [](Canonical => FoldedOnce)
<1>1. StreamInv => (Canonical => FoldedOnce)
  BY DEF StreamInv, Canon, FoldedOnce
<1> QED
  BY <1>1, SpecInv, PTL

\* With canonical snapshots the timeline has no hole within a thread whose sequence is
\* known, and the number kept is that of the last envelope shown.
THEOREM NoHoleInThread == Spec => [](Canonical => ThreadsContiguous)
<1>1. StreamInv => (Canonical => ThreadsContiguous)
  <2> SUFFICES ASSUME StreamInv, Canonical, NEW t \in Threads, rt.thread[t] # 0
               PROVE  /\ rt.thread[t] \in Shown(rt, t)
                      /\ \A n \in Shown(rt, t) :
                           n <= rt.thread[t] /\ (n..rt.thread[t]) \subseteq Shown(rt, t)
    BY DEF ThreadsContiguous, Shown
  <2> QED
    BY DEF StreamInv, Canon, Contiguous
<1> QED
  BY <1>1, SpecInv, PTL
=============================================================================
