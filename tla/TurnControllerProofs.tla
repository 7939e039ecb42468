------------------------ MODULE TurnControllerProofs ------------------------
(***************************************************************************)
(* The prompt queue and the turn controller by themselves, in three parts. *)
(*                                                                         *)
(* The queue: every method of PromptQueue maps a well-formed queue to a    *)
(* well-formed queue; which prompts it leaves there, and which may be      *)
(* ahead of one another before and after.                                  *)
(*                                                                         *)
(* Keeps: whichever handler runs, the controller stays well formed, its    *)
(* link is left alone, and no turn is ever "unsent" again.                 *)
(*                                                                         *)
(* Orders: leases and queue stay in agreement, no turn is queued twice,    *)
(* and nothing becomes startable that was not.                             *)
(***************************************************************************)
EXTENDS TurnController, FiniteSetTheorems, SequenceTheorems, WellFoundedInduction, TLAPS

\* A non-empty set of natural numbers has a least element.
LEMMA LeastNat ==
    ASSUME NEW T \in SUBSET Nat, T # {}
    PROVE  \E m \in T : \A k \in T : m <= k
<1>1. PICK m \in T : \A k \in T : ~ (<<k, m>> \in OpToRel(<, Nat))
    BY NatLessThanWellFounded, WFMin, Zenon
<1>2. \A k \in T : ~ (k < m)
    BY <1>1 DEF OpToRel
<1> QED BY <1>2

\* Every rank from 1 to the size of a set of positions is the rank of one of them.
LEMMA RankExists ==
    ASSUME NEW n \in Nat, NEW I \in SUBSET (1..n), NEW k \in 1..Cardinality(I)
    PROVE  \E i \in I : Cardinality({j \in I : j <= i}) = k
<1> DEFINE R(i) == {j \in I : j <= i}
           T == {i \in 0..n : Cardinality(R(i)) >= k}
<1>1. IsFiniteSet(I) /\ Cardinality(I) \in Nat
  <2>1. IsFiniteSet(1..n)
    BY FS_Interval
  <2> QED BY <2>1, FS_Subset, FS_CardinalityType
<1>2. ASSUME NEW i \in 0..n
      PROVE  IsFiniteSet(R(i)) /\ Cardinality(R(i)) \in Nat
  <2>1. R(i) \in SUBSET I
    OBVIOUS
  <2> QED BY <1>1, <2>1, FS_Subset, FS_CardinalityType
<1>3. \A j \in I : j \in Int /\ 1 <= j /\ j <= n
    OBVIOUS
<1>4. \A i : \A j : j \in R(i) <=> j \in I /\ j <= i
    OBVIOUS
<1>5. R(n) = I
  <2>1. \A j : j \in R(n) <=> j \in I
    BY <1>3, <1>4
  <2> HIDE DEF R
  <2> QED BY <2>1
<1>6. R(0) = {}
  <2>1. \A j \in I : ~ (j <= 0)
    BY <1>3
  <2> QED BY <2>1
<1>7. \A i : i \in T <=> i \in 0..n /\ Cardinality(R(i)) >= k
    OBVIOUS
<1> HIDE DEF R, T
<1>8. PICK m \in T : \A i \in T : m <= i
  <2>1. n \in T
    BY <1>1, <1>5, <1>7
  <2>2. T \in SUBSET Nat /\ T # {}
    BY <1>7, <2>1
  <2> QED BY <2>2, LeastNat, Zenon
<1>9. m \in 0..n /\ Cardinality(R(m)) >= k
    BY <1>7
<1>10. m # 0
    BY <1>6, <1>9, FS_EmptySet
<1>11. m - 1 \in 0..n /\ m - 1 \notin T
    BY <1>8, <1>9, <1>10
<1>12. Cardinality(R(m - 1)) \in Nat /\ Cardinality(R(m - 1)) < k
    BY <1>2, <1>7, <1>11
<1>13. m \in I
  <2>1. SUFFICES ASSUME m \notin I PROVE FALSE
    OBVIOUS
  <2>2. \A j \in I : j <= m <=> j <= m - 1
    BY <1>3, <1>9, <2>1
  <2>3. R(m) = R(m - 1)
    BY <2>2 DEF R
  <2> QED BY <1>9, <1>12, <2>3
<1>14. Cardinality(R(m)) = Cardinality(R(m - 1)) + 1
  <2>1. \A j \in I : j <= m <=> j <= m - 1 \/ j = m
    BY <1>3, <1>9
  <2>2. R(m) = R(m - 1) \cup {m}
    BY <1>9, <1>13, <2>1 DEF R
  <2>3. m \notin R(m - 1)
    BY <1>4, <1>9
  <2> QED BY <1>2, <1>11, <2>2, <2>3, FS_AddElement
<1>15. Cardinality(R(m)) = k
    BY <1>9, <1>12, <1>14
<1> QED BY <1>13, <1>15 DEF R

\* Keep returns a sequence of elements of s.
LEMMA KeepType ==
    ASSUME NEW E, NEW s \in Seq(E), NEW S
    PROVE  Keep(s, S) \in Seq(E)
<1> DEFINE kept == {i \in 1..Len(s) : s[i] \in S}
           at(k) == CHOOSE i \in kept : Cardinality({j \in kept : j <= i}) = k
<1>1. Len(s) \in Nat /\ kept \in SUBSET (1..Len(s))
    OBVIOUS
<1>2. Cardinality(kept) \in Nat
  <2>1. IsFiniteSet(1..Len(s))
    BY <1>1, FS_Interval
  <2> QED BY <1>1, <2>1, FS_Subset, FS_CardinalityType
<1>3. ASSUME NEW k \in 1..Cardinality(kept) PROVE s[at(k)] \in E
  <2>1. \E i \in kept : Cardinality({j \in kept : j <= i}) = k
    BY <1>1, RankExists
  <2>2. at(k) \in kept
    BY <2>1
  <2> QED BY <1>1, <2>2
<1>4. Keep(s, S) = [k \in 1..Cardinality(kept) |-> s[at(k)]]
    BY Zenon DEF Keep
<1> HIDE DEF kept, at
<1> QED BY <1>2, <1>3, <1>4
-----------------------------------------------------------------------------
(* The methods of the queue *)

LEMMA QueueFields ==
    ASSUME NEW q \in Queues
    PROVE  /\ q.active \in Entries \cup {NoEntry}
           /\ q.active.id \in OptTurn
           /\ q.active.id # NoTurn => q.active \in Entries
           /\ q.active.id = NoTurn => q.active = NoEntry
           /\ q.pending \in Seq(Entries)
           /\ q.stash \in OptTurn
BY TurnsAssumption DEF Queues, Entries, NoEntry, OptTurn, Turns

LEMMA EmptyQueueType == EmptyQueue \in Queues
BY DEF EmptyQueue, Queues, OptTurn

LEMMA EnqueueType ==
    ASSUME NEW q \in Queues, NEW e \in Entries
    PROVE  Enqueue(q, e) \in Queues
<1>1. Append(q.pending, e) \in Seq(Entries)
    BY QueueFields
<1> QED BY <1>1, QueueFields DEF Enqueue, Queues

LEMMA PrependPendingType ==
    ASSUME NEW q \in Queues, NEW es \in Seq(Entries)
    PROVE  PrependPending(q, es) \in Queues
<1>1. es \o q.pending \in Seq(Entries)
    BY QueueFields
<1> QED BY <1>1, QueueFields DEF PrependPending, Queues

LEMMA RestoreActiveType ==
    ASSUME NEW q \in Queues, NEW e \in Entries, NEW preserve \in BOOLEAN
    PROVE  RestoreActive(q, e, preserve) \in Queues
<1>1. q.active.id # NoTurn => <<q.active>> \o q.pending \in Seq(Entries)
    BY QueueFields
<1> QED BY <1>1, QueueFields DEF RestoreActive, Queues

LEMMA SettleType ==
    ASSUME NEW q \in Queues, NEW t
    PROVE  Settle(q, t) \in Queues
<1>1. q.pending # <<>> => Head(q.pending) \in Entries /\ Tail(q.pending) \in Seq(Entries)
    BY QueueFields
<1> QED BY <1>1, QueueFields DEF Settle, Queues

LEMMA RemovePendingType ==
    ASSUME NEW q \in Queues, NEW t
    PROVE  RemovePending(q, t) \in Queues
<1>1. CASE t \notin Ids(q.pending)
    BY <1>1 DEF RemovePending
<1>2. CASE t \in Ids(q.pending)
  <2> DEFINE k == CHOOSE i \in DOMAIN q.pending : q.pending[i].id = t
             rest == SubSeq(q.pending, 1, k - 1) \o SubSeq(q.pending, k + 1, Len(q.pending))
  <2>1. \E i \in DOMAIN q.pending : q.pending[i].id = t
    BY <1>2 DEF Ids
  <2>2. k \in DOMAIN q.pending
    BY <2>1
  <2>3. q.pending \in Seq(Entries)
    BY QueueFields
  <2>4. k \in 1..Len(q.pending) /\ Len(q.pending) \in Nat
    BY <2>2, <2>3
  <2> HIDE DEF k
  <2>5. /\ SubSeq(q.pending, 1, k - 1) \in Seq(Entries)
        /\ SubSeq(q.pending, k + 1, Len(q.pending)) \in Seq(Entries)
    BY <2>3, <2>4
  <2>6. rest \in Seq(Entries)
    BY <2>5
  <2>7. RemovePending(q, t) = [q EXCEPT !.pending = rest]
    BY <1>2, Zenon DEF RemovePending, k
  <2> HIDE DEF rest
  <2> QED BY <2>6, <2>7, QueueFields DEF Queues
<1> QED BY <1>1, <1>2

LEMMA StashInterruptPromptType ==
    ASSUME NEW q \in Queues
    PROVE  StashInterruptPrompt(q, q.active) \in Queues
<1>1. q.active.text => q.active.id \in OptTurn
    BY QueueFields
<1> QED BY <1>1, QueueFields DEF StashInterruptPrompt, Queues

LEMMA TakeInterruptPromptType ==
    ASSUME NEW q \in Queues, NEW t
    PROVE  TakeInterruptPrompt(q, t) \in Queues
BY QueueFields DEF TakeInterruptPrompt, Queues, OptTurn
-----------------------------------------------------------------------------
(* No turn is queued twice *)

Distinct(p) == \A i, j \in DOMAIN p : p[i].id = p[j].id => i = j

OneEach(q) == Distinct(q.pending) /\ q.active.id \notin Ids(q.pending)

\* The ids of a sequence of entries are turns, so the null id is not one of them.
LEMMA IdsType ==
    ASSUME NEW p \in Seq(Entries)
    PROVE  /\ DOMAIN p = 1..Len(p) /\ Len(p) \in Nat
           /\ \A i \in 1..Len(p) : p[i] \in Entries /\ p[i].id \in Turns
           /\ Ids(p) \subseteq Turns /\ NoTurn \notin Ids(p)
           /\ Ids(<<>>) = {}
<1>1. DOMAIN p = 1..Len(p) /\ Len(p) \in Nat /\ \A i \in 1..Len(p) : p[i] \in Entries
    OBVIOUS
<1>2. \A e \in Entries : e.id \in Turns
    BY DEF Entries
<1>3. Ids(p) \subseteq Turns
    BY <1>1, <1>2 DEF Ids
<1>4. Ids(<<>>) = {}
    BY DEF Ids
<1> QED BY <1>1, <1>2, <1>3, <1>4, TurnsAssumption DEF Turns

\* One more entry at the end.
LEMMA IdsAppend ==
    ASSUME NEW p \in Seq(Entries), NEW e \in Entries
    PROVE  /\ Ids(Append(p, e)) = Ids(p) \cup {e.id}
           /\ Distinct(p) /\ e.id \notin Ids(p) => Distinct(Append(p, e))
<1> DEFINE s == Append(p, e)
<1>1. /\ DOMAIN p = 1..Len(p) /\ Len(p) \in Nat
      /\ DOMAIN s = 1..(Len(p) + 1)
      /\ \A i \in 1..Len(p) : s[i] = p[i]
      /\ s[Len(p) + 1] = e
    OBVIOUS
<1> HIDE DEF s
<1>2. \A i \in 1..(Len(p) + 1) : i \in 1..Len(p) \/ i = Len(p) + 1
    BY <1>1
<1>3. Ids(s) = Ids(p) \cup {e.id}
    BY <1>1, <1>2 DEF Ids
<1>4. ASSUME Distinct(p), e.id \notin Ids(p) PROVE Distinct(s)
  <2>1. \A i \in 1..Len(p) : p[i].id # e.id
    BY <1>1, <1>4 DEF Ids
  <2> QED BY <1>1, <1>2, <1>4, <2>1 DEF Distinct
<1> QED BY <1>3, <1>4 DEF s

\* Two sequences of entries, one after the other.
LEMMA IdsConcat ==
    ASSUME NEW a \in Seq(Entries), NEW b \in Seq(Entries)
    PROVE  /\ Ids(a \o b) = Ids(a) \cup Ids(b)
           /\ Distinct(a) /\ Distinct(b) /\ Ids(a) \cap Ids(b) = {} => Distinct(a \o b)
<1> DEFINE s == a \o b
<1>1. /\ DOMAIN a = 1..Len(a) /\ Len(a) \in Nat /\ DOMAIN b = 1..Len(b) /\ Len(b) \in Nat
      /\ DOMAIN s = 1..(Len(a) + Len(b))
      /\ \A i \in 1..(Len(a) + Len(b)) : s[i] = IF i <= Len(a) THEN a[i] ELSE b[i - Len(a)]
    OBVIOUS
<1> HIDE DEF s
<1>2. \A i \in 1..(Len(a) + Len(b)) :
          \/ i \in 1..Len(a) /\ s[i] = a[i]
          \/ i - Len(a) \in 1..Len(b) /\ s[i] = b[i - Len(a)]
    BY <1>1
<1>3. \A i \in 1..Len(a) : i \in 1..(Len(a) + Len(b)) /\ s[i] = a[i]
    BY <1>1
<1>4. \A i \in 1..Len(b) : i + Len(a) \in 1..(Len(a) + Len(b)) /\ s[i + Len(a)] = b[i]
    BY <1>1
<1>5. Ids(s) = Ids(a) \cup Ids(b)
  <2>1. Ids(s) \subseteq Ids(a) \cup Ids(b)
    BY <1>1, <1>2 DEF Ids
  <2>2. Ids(a) \subseteq Ids(s)
    BY <1>1, <1>3 DEF Ids
  <2>3. Ids(b) \subseteq Ids(s)
    BY <1>1, <1>4 DEF Ids
  <2> QED BY <2>1, <2>2, <2>3
<1>6. ASSUME Distinct(a), Distinct(b), Ids(a) \cap Ids(b) = {} PROVE Distinct(s)
  <2>1. \A i \in 1..Len(a), j \in 1..Len(b) : a[i].id # b[j].id
    BY <1>1, <1>6 DEF Ids
  <2> SUFFICES ASSUME NEW i \in 1..(Len(a) + Len(b)), NEW j \in 1..(Len(a) + Len(b)),
                      s[i].id = s[j].id
               PROVE  i = j
    BY <1>1 DEF Distinct
  <2>2. CASE i \in 1..Len(a) /\ s[i] = a[i] /\ j \in 1..Len(a) /\ s[j] = a[j]
    BY <1>1, <1>6, <2>2 DEF Distinct
  <2>3. CASE /\ i - Len(a) \in 1..Len(b) /\ s[i] = b[i - Len(a)]
             /\ j - Len(a) \in 1..Len(b) /\ s[j] = b[j - Len(a)]
    <3>1. i - Len(a) = j - Len(a)
        BY <1>1, <1>6, <2>3 DEF Distinct
    <3> QED BY <1>1, <3>1
  <2> QED BY <1>2, <2>1, <2>2, <2>3
<1> QED BY <1>5, <1>6 DEF s

\* The first entry and the rest.
LEMMA IdsTail ==
    ASSUME NEW p \in Seq(Entries), p # <<>>
    PROVE  /\ Head(p) \in Entries /\ Tail(p) \in Seq(Entries)
           /\ Ids(p) = {Head(p).id} \cup Ids(Tail(p))
           /\ Distinct(p) => Distinct(Tail(p)) /\ Head(p).id \notin Ids(Tail(p))
<1> DEFINE s == Tail(p)
           h == Head(p)
<1>1. /\ DOMAIN p = 1..Len(p) /\ Len(p) \in Nat \ {0}
      /\ DOMAIN s = 1..(Len(p) - 1)
      /\ \A i \in 1..(Len(p) - 1) : s[i] = p[i + 1]
      /\ h = p[1] /\ h \in Entries /\ s \in Seq(Entries)
    OBVIOUS
<1> HIDE DEF s, h
<1>2. \A i \in 1..Len(p) : i = 1 \/ (i - 1 \in 1..(Len(p) - 1) /\ s[i - 1] = p[i])
    BY <1>1
<1>3. 1 \in 1..Len(p) /\ \A i \in 1..(Len(p) - 1) : i + 1 \in 1..Len(p)
    BY <1>1
<1>4. Ids(p) = {h.id} \cup Ids(s)
  <2>1. Ids(p) \subseteq {h.id} \cup Ids(s)
    <3> SUFFICES ASSUME NEW i \in 1..Len(p) PROVE p[i].id \in {h.id} \cup Ids(s)
        BY <1>1 DEF Ids
    <3>1. CASE i = 1
        BY <1>1, <3>1
    <3>2. CASE i - 1 \in 1..(Len(p) - 1) /\ s[i - 1] = p[i]
        BY <1>1, <3>2 DEF Ids
    <3> QED BY <1>2, <3>1, <3>2
  <2>2. {h.id} \cup Ids(s) \subseteq Ids(p)
    BY <1>1, <1>3 DEF Ids
  <2> QED BY <2>1, <2>2
<1>5. ASSUME Distinct(p) PROVE Distinct(s) /\ h.id \notin Ids(s)
  <2>1. ASSUME NEW i \in 1..(Len(p) - 1), NEW j \in 1..(Len(p) - 1), s[i].id = s[j].id
        PROVE  i = j
    <3>1. i + 1 \in DOMAIN p /\ j + 1 \in DOMAIN p /\ p[i + 1].id = p[j + 1].id
        BY <1>1, <1>3, <2>1
    <3>2. i + 1 = j + 1
        BY <1>5, <3>1 DEF Distinct
    <3> QED BY <1>1, <3>2
  <2>2. ASSUME NEW i \in 1..(Len(p) - 1), s[i].id = h.id
        PROVE  FALSE
    <3>1. i + 1 = 1
        BY <1>1, <1>3, <1>5, <2>2 DEF Distinct
    <3> QED BY <1>1, <3>1
  <2> QED BY <1>1, <2>1, <2>2 DEF Distinct, Ids
<1> QED BY <1>1, <1>4, <1>5 DEF s, h

\* A sequence of entries without its k-th one.
LEMMA IdsRemove ==
    ASSUME NEW p \in Seq(Entries), NEW k \in 1..Len(p), Distinct(p)
    PROVE  LET rest == SubSeq(p, 1, k - 1) \o SubSeq(p, k + 1, Len(p))
           IN  /\ rest \in Seq(Entries)
               /\ Ids(rest) = Ids(p) \ {p[k].id}
               /\ Distinct(rest)
<1> DEFINE a == SubSeq(p, 1, k - 1)
           b == SubSeq(p, k + 1, Len(p))
<1>1. DOMAIN p = 1..Len(p) /\ Len(p) \in Nat /\ k \in Nat \ {0} /\ k <= Len(p)
    OBVIOUS
<1>2. /\ a \in Seq(Entries) /\ Len(a) = k - 1 /\ DOMAIN a = 1..(k - 1)
      /\ \A i \in 1..(k - 1) : a[i] = p[i]
    BY <1>1
<1>3. /\ b \in Seq(Entries) /\ Len(b) = Len(p) - k /\ DOMAIN b = 1..(Len(p) - k)
      /\ \A i \in 1..(Len(p) - k) : b[i] = p[k + i]
  <2>1. b \in Seq(Entries) /\ Len(b) = Len(p) - k
    <3>1. \A i \in (k + 1)..Len(p) : p[i] \in Entries
        BY <1>1, IdsType
    <3>2. k + 1 \in Int /\ Len(p) \in Int
        BY <1>1
    <3>3. b \in Seq(Entries) /\ Len(b) = IF k + 1 <= Len(p) THEN Len(p) - (k + 1) + 1 ELSE 0
        BY <3>1, <3>2, SubSeqProperties
    <3>4. \A n, m \in Int : m <= n => (IF m + 1 <= n THEN n - (m + 1) + 1 ELSE 0) = n - m
        OBVIOUS
    <3>5. k \in Int /\ k <= Len(p)
        BY <1>1
    <3> HIDE DEF b
    <3> QED BY <3>2, <3>3, <3>4, <3>5
  <2>2. ASSUME NEW i \in 1..(Len(p) - k) PROVE b[i] = p[k + i]
    BY <1>1, <2>2
  <2> HIDE DEF b
  <2> QED BY <2>1, <2>2
<1> HIDE DEF a, b
<1>4. \A i \in 1..(k - 1) : i \in 1..Len(p) /\ i # k
    BY <1>1
<1>5. \A i \in 1..(Len(p) - k) : k + i \in 1..Len(p) /\ k + i # k /\ k + i \notin 1..(k - 1)
    BY <1>1
<1>6. \A i \in 1..Len(p) : i \in 1..(k - 1) \/ i = k \/ (i - k \in 1..(Len(p) - k) /\ k + (i - k) = i)
    BY <1>1
<1>7. \A i, j \in 1..Len(p) : p[i].id = p[j].id => i = j
    BY <1>1 DEF Distinct
<1>8. Distinct(a)
    BY <1>2, <1>4, <1>7 DEF Distinct
<1>9. Distinct(b)
  <2>1. ASSUME NEW i \in 1..(Len(p) - k), NEW j \in 1..(Len(p) - k), b[i].id = b[j].id
        PROVE  i = j
    <3>1. k + i = k + j
        BY <1>3, <1>5, <1>7, <2>1, SMTT(30)
    <3> QED BY <1>1, <3>1
  <2> QED BY <1>3, <2>1 DEF Distinct
<1>10. ASSUME NEW i \in 1..(k - 1), NEW j \in 1..(Len(p) - k) PROVE a[i].id # b[j].id
  <2>1. i # k + j
    BY <1>5
  <2> QED BY <1>2, <1>3, <1>4, <1>5, <1>7, <2>1
<1>11. Ids(a) \cap Ids(b) = {}
    BY <1>2, <1>3, <1>10 DEF Ids
<1>12. Ids(a) \cup Ids(b) = Ids(p) \ {p[k].id}
  <2>1. Ids(a) \subseteq Ids(p) \ {p[k].id}
    BY <1>1, <1>2, <1>4, <1>7 DEF Ids
  <2>2. Ids(b) \subseteq Ids(p) \ {p[k].id}
    <3>1. ASSUME NEW j \in 1..(Len(p) - k) PROVE b[j].id \in Ids(p) \ {p[k].id}
        <4>1. k + j \in 1..Len(p) /\ k + j # k /\ k \in 1..Len(p)
            BY <1>5
        <4>2. b[j] = p[k + j] /\ p[k + j].id # p[k].id
            BY <1>3, <1>7, <4>1
        <4> QED BY <1>1, <4>1, <4>2 DEF Ids
    <3> QED BY <1>3, <3>1 DEF Ids
  <2>3. Ids(p) \ {p[k].id} \subseteq Ids(a) \cup Ids(b)
    <3> SUFFICES ASSUME NEW i \in 1..Len(p), i # k PROVE p[i].id \in Ids(a) \cup Ids(b)
        BY <1>1 DEF Ids
    <3>1. CASE i \in 1..(k - 1)
        BY <1>2, <3>1 DEF Ids
    <3>2. CASE i - k \in 1..(Len(p) - k) /\ k + (i - k) = i
        BY <1>3, <3>2 DEF Ids
    <3> QED BY <1>6, <3>1, <3>2
  <2> QED BY <2>1, <2>2, <2>3
<1>13. a \o b \in Seq(Entries)
    BY <1>2, <1>3
<1>14. Distinct(a \o b) /\ Ids(a \o b) = Ids(a) \cup Ids(b)
    BY <1>2, <1>3, <1>8, <1>9, <1>11, IdsConcat
<1> QED BY <1>12, <1>13, <1>14 DEF a, b

\* Two different ranks are the ranks of two different positions: Keep repeats no
\* element of a sequence that does not repeat one, and returns elements of both.
LEMMA KeepDistinct ==
    ASSUME NEW E, NEW s \in Seq(E), NEW S,
           \A i, j \in DOMAIN s : s[i] = s[j] => i = j
    PROVE  /\ \A i, j \in DOMAIN Keep(s, S) : Keep(s, S)[i] = Keep(s, S)[j] => i = j
           /\ \A i \in DOMAIN Keep(s, S) : Keep(s, S)[i] \in S
<1> DEFINE kept == {i \in 1..Len(s) : s[i] \in S}
           rank(i) == Cardinality({j \in kept : j <= i})
           at(k) == CHOOSE i \in kept : rank(i) = k
<1>1. Len(s) \in Nat /\ kept \in SUBSET (1..Len(s)) /\ DOMAIN s = 1..Len(s)
    OBVIOUS
<1>2. \A i \in kept : s[i] \in S
    OBVIOUS
<1>3. ASSUME NEW k \in 1..Cardinality(kept) PROVE at(k) \in kept /\ rank(at(k)) = k
  <2>1. \E i \in kept : rank(i) = k
    BY <1>1, RankExists
  <2> QED BY <2>1
<1>4. Keep(s, S) = [k \in 1..Cardinality(kept) |-> s[at(k)]]
    BY Zenon DEF Keep
<1> HIDE DEF kept, at, rank
<1>5. ASSUME NEW i \in 1..Cardinality(kept), NEW j \in 1..Cardinality(kept), s[at(i)] = s[at(j)]
      PROVE  i = j
  <2>1. at(i) = at(j)
    BY <1>1, <1>3, <1>5
  <2> QED BY <1>3, <2>1
<1> QED BY <1>2, <1>3, <1>4, <1>5

\* A later position has a higher rank: Keep returns every element of both.
LEMMA KeepAll ==
    ASSUME NEW E, NEW s \in Seq(E), NEW S, NEW i \in DOMAIN s, s[i] \in S
    PROVE  \E k \in DOMAIN Keep(s, S) : Keep(s, S)[k] = s[i]
<1> DEFINE kept == {j \in 1..Len(s) : s[j] \in S}
           upto(j) == {x \in kept : x <= j}
           rank(j) == Cardinality(upto(j))
           at(k) == CHOOSE j \in kept : rank(j) = k
<1>1. Len(s) \in Nat /\ kept \in SUBSET (1..Len(s)) /\ i \in kept /\ kept \subseteq Nat
    OBVIOUS
<1>2. IsFiniteSet(kept) /\ Cardinality(kept) \in Nat
  <2>1. IsFiniteSet(1..Len(s))
    BY <1>1, FS_Interval
  <2> QED BY <1>1, <2>1, FS_Subset, FS_CardinalityType
<1>3. Keep(s, S) = [k \in 1..Cardinality(kept) |-> s[at(k)]]
    BY Zenon DEF Keep
<1>4. \A j \in kept : upto(j) \subseteq kept /\ j \in upto(j)
    BY <1>1
<1>5. \A j, k \in kept : j < k => upto(j) \subseteq upto(k) /\ k \notin upto(j)
    BY <1>1
<1> HIDE DEF kept, upto
<1>6. \A j \in kept : rank(j) \in Nat /\ rank(j) <= Cardinality(kept) /\ IsFiniteSet(upto(j))
    BY <1>2, <1>4, FS_Subset, FS_CardinalityType
<1>7. rank(i) # 0
  <2>1. upto(i) # {}
    BY <1>1, <1>4
  <2> QED BY <1>1, <1>6, <2>1, FS_EmptySet
<1>8. ASSUME NEW j \in kept, NEW k \in kept, j < k PROVE rank(j) # rank(k)
  <2>1. upto(j) \subseteq upto(k) /\ upto(j) # upto(k)
    BY <1>4, <1>5, <1>8
  <2> QED BY <1>6, <2>1, FS_Subset
<1>9. \A j \in kept : rank(j) = rank(i) => j = i
  <2>1. \A j \in kept : j < i \/ i < j \/ j = i
    BY <1>1
  <2> QED BY <1>1, <1>8, <2>1
<1>10. rank(i) \in 1..Cardinality(kept)
  <2> HIDE DEF rank
  <2> QED BY <1>1, <1>2, <1>6, <1>7
<1>11. at(rank(i)) = i
  <2> HIDE DEF rank
  <2>1. at(rank(i)) \in kept /\ rank(at(rank(i))) = rank(i)
    BY <1>1 DEF at
  <2> HIDE DEF at
  <2> QED BY <1>9, <2>1
<1> HIDE DEF at, rank
<1> QED BY <1>3, <1>10, <1>11
-----------------------------------------------------------------------------
(* What the methods do to the active id and to the set of waiting ids *)

LEMMA EnqueueIds ==
    ASSUME NEW q \in Queues, OneEach(q), NEW e \in Entries, e.id \notin QueuedIds(q)
    PROVE  LET r == Enqueue(q, e)
           IN  /\ OneEach(r)
               /\ q.active.id = NoTurn => r.active.id = e.id /\ Ids(r.pending) = Ids(q.pending)
               /\ q.active.id # NoTurn => /\ r.active = q.active
                                          /\ Ids(r.pending) = Ids(q.pending) \cup {e.id}
<1>1. /\ q.pending \in Seq(Entries)
      /\ e.id \notin Ids(q.pending) /\ (q.active.id # NoTurn => e.id # q.active.id)
    BY QueueFields DEF QueuedIds
<1>2. CASE q.active.id = NoTurn
  <2>1. Enqueue(q, e).active = e /\ Enqueue(q, e).pending = q.pending
    BY <1>2 DEF Enqueue, Queues
  <2> QED BY <1>1, <1>2, <2>1 DEF OneEach
<1>3. CASE q.active.id # NoTurn
  <2>1. Enqueue(q, e).active = q.active /\ Enqueue(q, e).pending = Append(q.pending, e)
    BY <1>3 DEF Enqueue, Queues
  <2> QED BY <1>1, <1>3, <2>1, IdsAppend DEF OneEach
<1> QED BY <1>2, <1>3

LEMMA PrependPendingIds ==
    ASSUME NEW q \in Queues, OneEach(q), NEW es \in Seq(Entries), Distinct(es),
           Ids(es) \cap QueuedIds(q) = {}
    PROVE  LET r == PrependPending(q, es)
           IN  /\ OneEach(r) /\ r.active = q.active
               /\ Ids(r.pending) = Ids(es) \cup Ids(q.pending)
<1>1. q.pending \in Seq(Entries) /\ q.active.id \in OptTurn
    BY QueueFields
<1>2. /\ PrependPending(q, es).active = q.active
      /\ PrependPending(q, es).pending = es \o q.pending
    BY DEF PrependPending, Queues
<1>3. q.active.id \notin Ids(es) /\ Ids(es) \cap Ids(q.pending) = {}
  <2>1. NoTurn \notin Ids(es)
    BY IdsType
  <2> QED BY <2>1 DEF QueuedIds
<1> QED BY <1>1, <1>2, <1>3, IdsConcat DEF OneEach

LEMMA RestoreActiveIds ==
    ASSUME NEW q \in Queues, OneEach(q), NEW e \in Entries, e.id \notin Ids(q.pending)
    PROVE  LET r == RestoreActive(q, e, TRUE)
           IN  /\ OneEach(r) /\ r.active.id = e.id
               /\ Ids(r.pending) = Ids(q.pending) \cup ({q.active.id} \ {NoTurn, e.id})
<1> DEFINE r == RestoreActive(q, e, TRUE)
<1>1. q.pending \in Seq(Entries)
    BY QueueFields
<1>2. CASE q.active.id = NoTurn
  <2>1. r.active = e /\ r.pending = q.pending
    BY <1>2 DEF RestoreActive, Queues
  <2> QED BY <1>2, <2>1 DEF OneEach
<1>3. CASE q.active.id # NoTurn /\ q.active.id = e.id
  <2>1. r = q
    BY <1>3 DEF RestoreActive
  <2> QED BY <1>3, <2>1
<1>4. CASE q.active.id # NoTurn /\ q.active.id # e.id
  <2>1. r.active = e /\ r.pending = <<q.active>> \o q.pending
    BY <1>4 DEF RestoreActive, Queues
  <2>2. q.active \in Entries /\ <<q.active>> \in Seq(Entries)
    BY <1>4, QueueFields
  <2>3. Distinct(<<q.active>>) /\ Ids(<<q.active>>) = {q.active.id}
    BY DEF Distinct, Ids
  <2> HIDE DEF r
  <2>4. /\ Ids(r.pending) = {q.active.id} \cup Ids(q.pending)
        /\ Distinct(r.pending)
    <3> DEFINE one == <<q.active>>
    <3>1. one \in Seq(Entries) /\ Distinct(one) /\ Ids(one) = {q.active.id}
        BY <2>2, <2>3
    <3>2. r.pending = one \o q.pending
        BY <2>1
    <3> HIDE DEF one
    <3>3. Distinct(q.pending) /\ Ids(one) \cap Ids(q.pending) = {}
        BY <3>1 DEF OneEach
    <3> QED BY <1>1, <3>1, <3>2, <3>3, IdsConcat
  <2> QED BY <1>4, <2>1, <2>4 DEF OneEach, r
<1> QED BY <1>2, <1>3, <1>4

LEMMA SettleIds ==
    ASSUME NEW q \in Queues, OneEach(q), NEW t, q.active.id = t
    PROVE  LET r == Settle(q, t)
           IN  /\ OneEach(r)
               /\ r.active.id # NoTurn => r.active.id \in Ids(q.pending)
               /\ Ids(q.pending) = Ids(r.pending) \cup ({r.active.id} \ {NoTurn})
<1> DEFINE r == Settle(q, t)
<1>1. q.pending \in Seq(Entries) /\ NoTurn \notin Ids(q.pending)
    BY QueueFields, IdsType
<1>2. CASE q.pending = <<>>
  <2>1. r.active = NoEntry /\ r.pending = <<>>
    BY <1>2 DEF Settle, Queues
  <2>2. Ids(<<>>) = {} /\ NoEntry.id = NoTurn
    BY DEF Ids, NoEntry
  <2> QED BY <1>1, <1>2, <2>1, <2>2 DEF OneEach
<1>3. CASE q.pending # <<>>
  <2>1. r.active = Head(q.pending) /\ r.pending = Tail(q.pending)
    BY <1>3 DEF Settle, Queues
  <2> HIDE DEF r
  <2>2. /\ Ids(q.pending) = {r.active.id} \cup Ids(r.pending)
        /\ Distinct(r.pending) /\ r.active.id \notin Ids(r.pending)
    BY <1>1, <1>3, <2>1, IdsTail DEF OneEach
  <2> QED BY <1>1, <2>2 DEF OneEach, r
<1> QED BY <1>2, <1>3

LEMMA RemovePendingIds ==
    ASSUME NEW q \in Queues, OneEach(q), NEW t
    PROVE  LET r == RemovePending(q, t)
           IN  OneEach(r) /\ r.active = q.active /\ Ids(r.pending) = Ids(q.pending) \ {t}
<1>1. CASE t \notin Ids(q.pending)
    BY <1>1 DEF RemovePending
<1>2. CASE t \in Ids(q.pending)
  <2> DEFINE k == CHOOSE i \in DOMAIN q.pending : q.pending[i].id = t
             rest == SubSeq(q.pending, 1, k - 1) \o SubSeq(q.pending, k + 1, Len(q.pending))
  <2>1. \E i \in DOMAIN q.pending : q.pending[i].id = t
    BY <1>2 DEF Ids
  <2>2. k \in DOMAIN q.pending /\ q.pending[k].id = t
    BY <2>1
  <2>3. q.pending \in Seq(Entries)
    BY QueueFields
  <2>4. k \in 1..Len(q.pending)
    BY <2>2, <2>3
  <2>5. RemovePending(q, t) = [q EXCEPT !.pending = rest]
    BY <1>2, Zenon DEF RemovePending, k
  <2> HIDE DEF k
  <2>6. Ids(rest) = Ids(q.pending) \ {q.pending[k].id} /\ Distinct(rest)
    BY <2>3, <2>4, IdsRemove DEF OneEach
  <2> HIDE DEF rest
  <2>7. RemovePending(q, t).active = q.active /\ RemovePending(q, t).pending = rest
    BY <2>5 DEF Queues
  <2> QED BY <2>2, <2>6, <2>7 DEF OneEach
<1> QED BY <1>1, <1>2

\* Arming or taking the interrupted prompt leaves the queue alone.
LEMMA StashIds ==
    ASSUME NEW q \in Queues, NEW t, NEW e
    PROVE  /\ StashInterruptPrompt(q, e).active = q.active
           /\ StashInterruptPrompt(q, e).pending = q.pending
           /\ TakeInterruptPrompt(q, t).active = q.active
           /\ TakeInterruptPrompt(q, t).pending = q.pending
BY DEF StashInterruptPrompt, TakeInterruptPrompt, Queues
-----------------------------------------------------------------------------
(* The order of the queue *)

Before(p, y, x) == \E i, j \in DOMAIN p : i < j /\ p[i].id = y /\ p[j].id = x

\* x waits, and y is dispatched before it.
Ahead(q, y, x) == (y = q.active.id /\ x \in Ids(q.pending)) \/ Before(q.pending, y, x)

\* Nothing waits in an idle queue.
Packed(q) == q.active.id = NoTurn => q.pending = <<>>

\* From q to r only the turns N get ahead of others, and only the turns T leave.
Shifts(q, r, N, T) ==
    /\ \A x, y \in Turns : Ahead(r, y, x) => Ahead(q, y, x) \/ y \in N
    /\ QueuedIds(q) \subseteq QueuedIds(r) \cup T
    /\ Packed(q) => Packed(r)

\* One change of the queue after another.
LEMMA ShiftsTransitive ==
    ASSUME NEW q, NEW r, NEW s, NEW N, NEW T, NEW N2, NEW T2, Shifts(q, r, N, T), Shifts(r, s, N2, T2),
           N \subseteq N2, T \subseteq T2
    PROVE  Shifts(q, s, N2, T2)
BY DEF Shifts

\* Arming the interrupted prompt leaves the order alone.
LEMMA SameLineShifts ==
    ASSUME NEW q, NEW r, r.active = q.active, r.pending = q.pending, NEW N, NEW T
    PROVE  Shifts(q, r, N, T)
BY DEF Shifts, Ahead, Packed, QueuedIds

\* One more entry at the end comes before none.
LEMMA BeforeAppend ==
    ASSUME NEW p \in Seq(Entries), NEW e \in Entries, NEW x, NEW y, Before(Append(p, e), y, x)
    PROVE  Before(p, y, x) \/ x = e.id
<1> DEFINE s == Append(p, e)
<1>1. /\ DOMAIN p = 1..Len(p) /\ Len(p) \in Nat
      /\ DOMAIN s = 1..(Len(p) + 1)
      /\ \A i \in 1..Len(p) : s[i] = p[i]
      /\ s[Len(p) + 1] = e
    OBVIOUS
<1>2. PICK i, j \in DOMAIN s : i < j /\ s[i].id = y /\ s[j].id = x
    BY Zenon DEF Before
<1> HIDE DEF s
<1>3. i \in 1..Len(p) /\ (j \in 1..Len(p) \/ j = Len(p) + 1)
    BY <1>1, <1>2
<1>4. CASE j = Len(p) + 1
    BY <1>1, <1>2, <1>4
<1>5. CASE j \in 1..Len(p)
    BY <1>1, <1>2, <1>3, <1>5 DEF Before
<1> QED BY <1>3, <1>4, <1>5

\* The entries of two sequences, one after the other.
LEMMA ConcatAt ==
    ASSUME NEW a \in Seq(Entries), NEW b \in Seq(Entries)
    PROVE  /\ DOMAIN a = 1..Len(a) /\ Len(a) \in Nat /\ DOMAIN b = 1..Len(b) /\ Len(b) \in Nat
           /\ DOMAIN (a \o b) = 1..(Len(a) + Len(b))
           /\ \A i \in 1..Len(a) : (a \o b)[i] = a[i]
           /\ \A i \in 1..Len(b) : (a \o b)[Len(a) + i] = b[i]
OBVIOUS

\* Only the entries of the first sequence come before entries of the second.
LEMMA BeforeConcat ==
    ASSUME NEW a \in Seq(Entries), NEW b \in Seq(Entries), NEW x, NEW y, Before(a \o b, y, x)
    PROVE  y \in Ids(a) \/ Before(b, y, x)
<1> DEFINE s == a \o b
<1>1. /\ DOMAIN a = 1..Len(a) /\ Len(a) \in Nat /\ DOMAIN b = 1..Len(b) /\ Len(b) \in Nat
      /\ DOMAIN s = 1..(Len(a) + Len(b))
      /\ \A i \in 1..Len(a) : s[i] = a[i]
      /\ \A i \in 1..Len(b) : s[Len(a) + i] = b[i]
    BY ConcatAt
<1>2. PICK i, j \in DOMAIN s : i < j /\ s[i].id = y /\ s[j].id = x
    BY Zenon DEF Before
<1> HIDE DEF s
<1>3. CASE i \in 1..Len(a)
    BY <1>1, <1>2, <1>3 DEF Ids
<1>4. CASE i \notin 1..Len(a)
  <2> DEFINE k == i - Len(a)
             m == j - Len(a)
  <2>1. k \in 1..Len(b) /\ m \in 1..Len(b) /\ k < m /\ i = Len(a) + k /\ j = Len(a) + m
    BY <1>1, <1>2, <1>4
  <2> HIDE DEF k, m
  <2>2. b[k].id = y /\ b[m].id = x
    BY <1>1, <1>2, <2>1
  <2> QED BY <1>1, <2>1, <2>2 DEF Before
<1> QED BY <1>3, <1>4

\* One entry in front comes before all of them.
LEMMA BeforeOne ==
    ASSUME NEW a \in Seq(Entries), NEW b \in Seq(Entries), NEW t, Ids(a) = {t},
           \A u, v : ~Before(a, v, u), NEW x, NEW y, Before(a \o b, y, x)
    PROVE  Before(b, y, x) \/ (y = t /\ x \in Ids(b))
<1> DEFINE s == a \o b
<1>1. /\ DOMAIN a = 1..Len(a) /\ Len(a) \in Nat /\ DOMAIN b = 1..Len(b) /\ Len(b) \in Nat
      /\ DOMAIN s = 1..(Len(a) + Len(b))
      /\ \A i \in 1..Len(a) : s[i] = a[i]
      /\ \A i \in 1..Len(b) : s[Len(a) + i] = b[i]
    BY ConcatAt
<1>2. PICK i, j \in DOMAIN s : i < j /\ s[i].id = y /\ s[j].id = x
    BY Zenon DEF Before
<1> HIDE DEF s
<1>3. CASE i \notin 1..Len(a)
  <2> DEFINE k == i - Len(a)
             m == j - Len(a)
  <2>1. k \in 1..Len(b) /\ m \in 1..Len(b) /\ k < m /\ i = Len(a) + k /\ j = Len(a) + m
    BY <1>1, <1>2, <1>3
  <2> HIDE DEF k, m
  <2>2. b[k].id = y /\ b[m].id = x
    BY <1>1, <1>2, <2>1
  <2> QED BY <1>1, <2>1, <2>2 DEF Before
<1>4. CASE i \in 1..Len(a)
  <2>1. y = t
    BY <1>1, <1>2, <1>4 DEF Ids
  <2>2. j \notin 1..Len(a)
    BY <1>1, <1>2, <1>4 DEF Before
  <2> DEFINE m == j - Len(a)
  <2>3. m \in 1..Len(b) /\ j = Len(a) + m
    BY <1>1, <2>2
  <2> HIDE DEF m
  <2>4. x \in Ids(b)
    BY <1>1, <1>2, <2>3 DEF Ids
  <2> QED BY <2>1, <2>4
<1> QED BY <1>3, <1>4

\* The first entry comes before every other one.
LEMMA BeforeTail ==
    ASSUME NEW p \in Seq(Entries), p # <<>>, NEW x, NEW y
    PROVE  /\ Before(Tail(p), y, x) => Before(p, y, x)
           /\ x \in Ids(Tail(p)) => Before(p, Head(p).id, x)
<1> DEFINE s == Tail(p)
<1>1. /\ DOMAIN p = 1..Len(p) /\ Len(p) \in Nat \ {0}
      /\ DOMAIN s = 1..(Len(p) - 1) /\ Head(p) = p[1]
      /\ \A i \in 1..(Len(p) - 1) : s[i] = p[i + 1]
    OBVIOUS
<1> HIDE DEF s
<1>2. \A i \in 1..(Len(p) - 1) : i + 1 \in 1..Len(p) /\ 1 \in 1..Len(p) /\ 1 < i + 1
    BY <1>1
<1>3. ASSUME Before(s, y, x) PROVE Before(p, y, x)
  <2>1. PICK i, j \in DOMAIN s : i < j /\ s[i].id = y /\ s[j].id = x
    BY <1>3 DEF Before
  <2>2. i + 1 < j + 1
    BY <1>1, <2>1
  <2> QED BY <1>1, <1>2, <2>1, <2>2 DEF Before
<1>4. ASSUME x \in Ids(s) PROVE Before(p, Head(p).id, x)
  <2>1. PICK i \in DOMAIN s : s[i].id = x
    BY <1>4 DEF Ids
  <2> QED BY <1>1, <1>2, <2>1 DEF Before
<1> QED BY <1>3, <1>4 DEF s

\* What follows the k-th entry.
LEMMA IdsRemoveTail ==
    ASSUME NEW p \in Seq(Entries), NEW k \in 1..Len(p)
    PROVE  LET b == SubSeq(p, k + 1, Len(p)) IN b \in Seq(Entries) /\ Len(b) = Len(p) - k
<1> DEFINE b == SubSeq(p, k + 1, Len(p))
<1>1. DOMAIN p = 1..Len(p) /\ Len(p) \in Nat /\ k \in Nat \ {0} /\ k <= Len(p)
    OBVIOUS
<1>2. \A i \in (k + 1)..Len(p) : p[i] \in Entries
    BY <1>1, IdsType
<1>3. k + 1 \in Int /\ Len(p) \in Int
    BY <1>1
<1>4. b \in Seq(Entries) /\ Len(b) = IF k + 1 <= Len(p) THEN Len(p) - (k + 1) + 1 ELSE 0
    BY <1>2, <1>3, SubSeqProperties
<1>5. \A n, m \in Int : m <= n => (IF m + 1 <= n THEN n - (m + 1) + 1 ELSE 0) = n - m
    OBVIOUS
<1>6. k \in Int /\ k <= Len(p)
    BY <1>1
<1> HIDE DEF b
<1> QED BY <1>3, <1>4, <1>5, <1>6 DEF b

\* Removing an entry leaves the order of the others alone.
LEMMA BeforeRemove ==
    ASSUME NEW p \in Seq(Entries), NEW k \in 1..Len(p), NEW x, NEW y,
           Before(SubSeq(p, 1, k - 1) \o SubSeq(p, k + 1, Len(p)), y, x)
    PROVE  Before(p, y, x)
<1> DEFINE a == SubSeq(p, 1, k - 1)
           b == SubSeq(p, k + 1, Len(p))
           s == a \o b
           at(i) == IF i < k THEN i ELSE i + 1
<1>1. DOMAIN p = 1..Len(p) /\ Len(p) \in Nat /\ k \in Nat \ {0} /\ k <= Len(p)
    OBVIOUS
<1>2. /\ a \in Seq(Entries) /\ Len(a) = k - 1 /\ \A i \in 1..(k - 1) : a[i] = p[i]
    BY <1>1
<1>3. b \in Seq(Entries) /\ Len(b) = Len(p) - k
    BY <1>1, IdsRemoveTail
<1>4. \A i \in 1..(Len(p) - k) : b[i] = p[k + i]
    BY <1>1
<1> HIDE DEF a, b
<1>5. /\ DOMAIN s = 1..(Len(a) + Len(b))
      /\ \A i \in 1..Len(a) : s[i] = a[i]
      /\ \A i \in 1..Len(b) : s[Len(a) + i] = b[i]
    BY <1>2, <1>3, ConcatAt
<1> HIDE DEF s
<1>6. DOMAIN s = 1..(Len(p) - 1)
    BY <1>1, <1>2, <1>3, <1>5
<1>7. ASSUME NEW i \in 1..(Len(p) - 1) PROVE s[i] = p[at(i)] /\ at(i) \in 1..Len(p)
  <2>1. CASE i < k
    <3>1. i \in 1..(k - 1)
        BY <1>1, <2>1
    <3> QED BY <1>1, <1>2, <1>5, <2>1, <3>1
  <2>2. CASE ~(i < k)
    <3> DEFINE m == i - (k - 1)
    <3>1. m \in 1..(Len(p) - k) /\ i = (k - 1) + m /\ k + m = i + 1
        BY <1>1, <2>2
    <3> HIDE DEF m
    <3>2. s[i] = b[m]
        BY <1>2, <1>3, <1>5, <3>1
    <3>3. b[m] = p[i + 1]
        BY <1>4, <3>1
    <3>4. i + 1 \in 1..Len(p)
        BY <1>1
    <3> QED BY <2>2, <3>2, <3>3, <3>4
  <2> QED BY <2>1, <2>2
<1>8. \A i, j \in 1..(Len(p) - 1) : i < j => at(i) < at(j)
    BY <1>1
<1>9. PICK i, j \in DOMAIN s : i < j /\ s[i].id = y /\ s[j].id = x
    BY Zenon DEF Before, s, a, b
<1>10. s[i] = p[at(i)] /\ s[j] = p[at(j)] /\ at(i) \in 1..Len(p) /\ at(j) \in 1..Len(p) /\ at(i) < at(j)
    BY <1>6, <1>7, <1>8, <1>9
<1> HIDE DEF at
<1> QED BY <1>1, <1>9, <1>10 DEF Before

\* A new prompt goes behind everything that waits.
LEMMA EnqueueShifts ==
    ASSUME NEW q \in Queues, Packed(q), NEW e \in Entries, NEW T
    PROVE  LET r == Enqueue(q, e)
           IN  /\ \A x, y \in Turns : Ahead(r, y, x) => Ahead(q, y, x) \/ x = e.id
               /\ QueuedIds(q) \cup {e.id} \subseteq QueuedIds(r) /\ Packed(r)
<1> DEFINE r == Enqueue(q, e)
<1>1. q.pending \in Seq(Entries) /\ e.id # NoTurn
    BY QueueFields, TurnsAssumption DEF Entries, Turns
<1>2. CASE q.active.id = NoTurn
  <2>1. r.active = e /\ r.pending = <<>> /\ q.pending = <<>>
    BY <1>2 DEF Enqueue, Queues, Packed
  <2>2. Ids(<<>>) = {} /\ \A x, y : ~Before(<<>>, y, x)
    BY DEF Ids, Before
  <2> QED BY <1>1, <1>2, <2>1, <2>2 DEF Ahead, QueuedIds, Packed
<1>3. CASE q.active.id # NoTurn
  <2>1. r.active = q.active /\ r.pending = Append(q.pending, e)
    BY <1>3 DEF Enqueue, Queues
  <2>2. Ids(r.pending) = Ids(q.pending) \cup {e.id}
    BY <1>1, <2>1, IdsAppend
  <2>3. \A x, y : Before(r.pending, y, x) => Before(q.pending, y, x) \/ x = e.id
    BY <1>1, <2>1, BeforeAppend
  <2> QED BY <1>3, <2>1, <2>2, <2>3 DEF Ahead, QueuedIds, Packed
<1> QED BY <1>2, <1>3

\* Only the returned text gets ahead of what waits.
LEMMA PrependPendingShifts ==
    ASSUME NEW q \in Queues, NEW es \in Seq(Entries), q.active.id # NoTurn, NEW N, NEW T,
           Ids(es) \cup {q.active.id} \subseteq N
    PROVE  Shifts(q, PrependPending(q, es), N, T)
<1> DEFINE r == PrependPending(q, es)
<1>1. q.pending \in Seq(Entries)
    BY QueueFields
<1>2. r.active = q.active /\ r.pending = es \o q.pending
    BY DEF PrependPending, Queues
<1> HIDE DEF r
<1>3. Ids(r.pending) = Ids(es) \cup Ids(q.pending)
    BY <1>1, <1>2, IdsConcat
<1>4. \A x, y : Before(r.pending, y, x) => y \in Ids(es) \/ Before(q.pending, y, x)
    BY <1>1, <1>2, BeforeConcat
<1> QED BY <1>2, <1>3, <1>4 DEF Shifts, Ahead, QueuedIds, Packed, r

\* Only the installed turn gets ahead of what waits; the entry it displaces stays first.
LEMMA RestoreActiveShifts ==
    ASSUME NEW q \in Queues, NEW e \in Entries, NEW N, NEW T, e.id \in N
    PROVE  Shifts(q, RestoreActive(q, e, TRUE), N, T)
<1> DEFINE r == RestoreActive(q, e, TRUE)
<1>1. q.pending \in Seq(Entries) /\ e.id # NoTurn
    BY QueueFields, TurnsAssumption DEF Entries, Turns
<1>2. CASE q.active.id = NoTurn
  <2>1. r.active = e /\ r.pending = q.pending
    BY <1>2 DEF RestoreActive, Queues
  <2> QED BY <1>1, <1>2, <2>1 DEF Shifts, Ahead, QueuedIds, Packed
<1>3. CASE q.active.id # NoTurn /\ q.active.id = e.id
  <2>1. r = q
    BY <1>3 DEF RestoreActive
  <2> QED BY <2>1, SameLineShifts
<1>4. CASE q.active.id # NoTurn /\ q.active.id # e.id
  <2> DEFINE one == <<q.active>>
  <2>1. r.active = e /\ r.pending = one \o q.pending
    BY <1>4 DEF RestoreActive, Queues
  <2>2. one \in Seq(Entries) /\ Ids(one) = {q.active.id} /\ \A x, y : ~Before(one, y, x)
    <3>1. q.active \in Entries
        BY <1>4, QueueFields
    <3> QED BY <3>1 DEF Ids, Before
  <2> HIDE DEF one, r
  <2>3. Ids(r.pending) = {q.active.id} \cup Ids(q.pending)
    BY <1>1, <2>1, <2>2, IdsConcat
  <2>4. ASSUME NEW x, NEW y, Before(r.pending, y, x)
        PROVE  Before(q.pending, y, x) \/ (y = q.active.id /\ x \in Ids(q.pending))
    <3>1. Before(one \o q.pending, y, x)
        BY <2>1, <2>4
    <3> DEFINE p == q.pending
               t == q.active.id
    <3>2. p \in Seq(Entries) /\ Ids(one) = {t} /\ Before(one \o p, y, x)
        BY <1>1, <2>2, <3>1
    <3> HIDE DEF p, t
    <3>3. Before(p, y, x) \/ (y = t /\ x \in Ids(p))
        BY <2>2, <3>2, BeforeOne
    <3> QED BY <3>3 DEF p, t
  <2> QED BY <1>1, <2>1, <2>3, <2>4 DEF Shifts, Ahead, QueuedIds, Packed, r
<1> QED BY <1>2, <1>3, <1>4

\* The settled turn leaves, and the FIFO advances in order.
LEMMA SettleShifts ==
    ASSUME NEW q \in Queues, NEW t, NEW N, NEW T, t \in T
    PROVE  Shifts(q, Settle(q, t), N, T)
<1> DEFINE r == Settle(q, t)
<1>1. q.pending \in Seq(Entries) /\ NoTurn \notin Ids(q.pending)
    BY QueueFields, IdsType
<1>2. CASE q.active.id # t
  <2>1. r = q
    BY <1>2 DEF Settle
  <2> QED BY <2>1, SameLineShifts
<1>3. CASE q.active.id = t /\ q.pending = <<>>
  <2>1. r.active = NoEntry /\ r.pending = <<>>
    BY <1>3 DEF Settle, Queues
  <2>2. Ids(<<>>) = {} /\ \A x, y : ~Before(<<>>, y, x)
    BY DEF Ids, Before
  <2> QED BY <1>3, <2>1, <2>2 DEF Shifts, Ahead, QueuedIds, Packed
<1>4. CASE q.active.id = t /\ q.pending # <<>>
  <2>1. r.active = Head(q.pending) /\ r.pending = Tail(q.pending)
    BY <1>4 DEF Settle, Queues
  <2> HIDE DEF r
  <2>2. Ids(q.pending) = {r.active.id} \cup Ids(r.pending)
    BY <1>1, <1>4, <2>1, IdsTail
  <2>3. \A x, y : /\ Before(r.pending, y, x) => Before(q.pending, y, x)
                  /\ x \in Ids(r.pending) => Before(q.pending, r.active.id, x)
    BY <1>1, <1>4, <2>1, BeforeTail
  <2> QED BY <1>1, <1>4, <2>2, <2>3 DEF Shifts, Ahead, QueuedIds, Packed, r
<1> QED BY <1>2, <1>3, <1>4

\* The removed prompt leaves.
LEMMA RemovePendingShifts ==
    ASSUME NEW q \in Queues, OneEach(q), NEW t, NEW N, NEW T, t \in T
    PROVE  Shifts(q, RemovePending(q, t), N, T)
<1> DEFINE r == RemovePending(q, t)
<1>1. r.active = q.active /\ Ids(r.pending) = Ids(q.pending) \ {t}
    BY RemovePendingIds
<1>2. CASE t \notin Ids(q.pending)
  <2>1. r = q
    BY <1>2 DEF RemovePending
  <2> QED BY <2>1, SameLineShifts
<1>3. CASE t \in Ids(q.pending)
  <2> DEFINE k == CHOOSE i \in DOMAIN q.pending : q.pending[i].id = t
             rest == SubSeq(q.pending, 1, k - 1) \o SubSeq(q.pending, k + 1, Len(q.pending))
  <2>1. q.pending \in Seq(Entries) /\ \E i \in DOMAIN q.pending : q.pending[i].id = t
    BY <1>3, QueueFields DEF Ids
  <2>2. k \in DOMAIN q.pending
    BY <2>1
  <2>3. k \in 1..Len(q.pending)
    BY <2>1, <2>2
  <2>4. r = [q EXCEPT !.pending = rest]
    BY <1>3, Zenon DEF RemovePending, k
  <2> HIDE DEF k, r
  <2>5. r.pending = rest
    BY <2>4 DEF Queues
  <2>6. \A x, y : Before(rest, y, x) => Before(q.pending, y, x)
    BY <2>1, <2>3, BeforeRemove, Zenon
  <2> HIDE DEF rest
  <2>7. q.active.id = NoTurn /\ q.pending = <<>> => FALSE
    BY <1>3 DEF Ids
  <2> QED BY <1>1, <2>5, <2>6, <2>7 DEF Shifts, Ahead, QueuedIds, Packed, r
<1> QED BY <1>2, <1>3

-----------------------------------------------------------------------------
(* The controller stays well formed, and nothing is unsent again *)

\* The turns that the controller may still send: never attempted, or attempted
\* but not past their preflight.
Unsent(c) ==
    {t \in Turns : \/ t \notin c.attempted
                   \/ t = c.preflight
                   \/ t = c.startReq /\ c.stage = "preflight"}

WellFormed(c) ==
    /\ c \in Controllers
    /\ c.stage = "preflight" => c.startReq \in c.attempted
    /\ c.steerReq # NoTurn => c.steerOwner # NoTurn

\* What a handler may do to the controller: nothing becomes sendable again, the text
\* admitted as steering stays what it was, and a steer in flight keeps its target.
Keeps(c, d) ==
    /\ WellFormed(d)
    /\ Unsent(d) \subseteq Unsent(c)
    /\ d.link = c.link
    /\ d.steerAdmitted = c.steerAdmitted
    /\ d.steerOwner \in {c.steerOwner, NoTurn}

LEMMA KeepsTransitive ==
    ASSUME NEW c, NEW d, NEW e, Keeps(c, d), Keeps(d, e)
    PROVE  Keeps(c, e)
BY DEF Keeps

LEMMA KeepsReflexive ==
    ASSUME NEW c, WellFormed(c)
    PROVE  Keeps(c, c)
BY DEF Keeps

LEMMA NullTypes ==
    /\ NoTurn \in OptTurn /\ NoTurn \in OptLocal
    /\ NoOwner \in Owners
    /\ NoRecovery \in Recoveries
    /\ NoHydrated \in HydratedTurns
    /\ "none" \in Stages /\ "preflight" \in Stages /\ "wire" \in Stages
    /\ Turns \subseteq OptTurn
BY DEF OptTurn, OptLocal, NoOwner, Owners, NoRecovery, Recoveries, NoHydrated, HydratedTurns, Stages

LEMMA ActiveType ==
    ASSUME NEW c \in Controllers
    PROVE  /\ c.q \in Queues
           /\ Active(c) \in OptTurn
           /\ Active(c) # NoTurn => Active(c) \in Turns
BY QueueFields DEF Controllers, Active, OptTurn

LEMMA ClearRecoveryKeeps ==
    ASSUME NEW c, WellFormed(c), NEW t
    PROVE  Keeps(c, ClearRecovery(c)) /\ Keeps(c, ClearRecoveryOf(c, t))
<1>1. ClearRecovery(c) \in Controllers
    BY NullTypes DEF WellFormed, ClearRecovery, Controllers
<1>2. Keeps(c, ClearRecovery(c))
    BY <1>1 DEF Keeps, WellFormed, Unsent, ClearRecovery, Controllers
<1> QED BY <1>2, KeepsReflexive DEF ClearRecoveryOf

LEMMA InvalidateStartKeeps ==
    ASSUME NEW c, WellFormed(c)
    PROVE  Keeps(c, InvalidateStart(c))
<1>1. InvalidateStart(c) \in Controllers
    BY NullTypes DEF WellFormed, InvalidateStart, Controllers
<1> QED BY <1>1 DEF Keeps, WellFormed, Unsent, InvalidateStart, Controllers

LEMMA WithoutType ==
    ASSUME NEW t \in OptTurn, NEW u
    PROVE  Without(t, u) \in {t, NoTurn} /\ Without(t, u) \in OptTurn
BY DEF Without, OptTurn

LEMMA RetireLocalDispatchKeeps ==
    ASSUME NEW c, WellFormed(c), NEW t
    PROVE  Keeps(c, RetireLocalDispatch(c, t))
<1> DEFINE d == [c EXCEPT !.local = NoTurn, !.preflight = Without(@, t),
                          !.dispatching = Without(@, t)]
<1>1. /\ Without(c.preflight, t) \in OptTurn
      /\ Without(c.preflight, t) \in {c.preflight, NoTurn}
      /\ Without(c.dispatching, t) \in OptTurn
    BY WithoutType DEF WellFormed, Controllers
<1>2. d \in Controllers
    BY <1>1, NullTypes DEF WellFormed, Controllers
<1>3. Keeps(c, d)
    BY <1>1, <1>2, TurnsAssumption DEF Keeps, WellFormed, Unsent, Controllers, Turns
<1> QED BY <1>3, KeepsReflexive DEF RetireLocalDispatch

LEMMA AcceptLocalDispatchKeeps ==
    ASSUME NEW c, WellFormed(c), NEW t, NEW state \in {"running", "ended"}
    PROVE  Keeps(c, AcceptLocalDispatch(c, t, state))
<1>1. CASE c.local # t \/ ~Linked(c)
    BY <1>1, KeepsReflexive DEF AcceptLocalDispatch
<1>2. CASE c.local = t /\ Linked(c)
  <2> DEFINE b == ClearRecoveryOf(c, t)
             d == [b EXCEPT !.timedOut = Without(@, t),
                            !.owner = [turn |-> t, state |-> state],
                            !.preflight = Without(@, t),
                            !.local = NoTurn,
                            !.dispatching = Without(@, t)]
  <2>1. Keeps(c, b) /\ WellFormed(b)
    BY ClearRecoveryKeeps DEF Keeps
  <2>2. t \in OptTurn
    BY <1>2 DEF WellFormed, Controllers
  <2>3. [turn |-> t, state |-> state] \in Owners
    BY <2>2 DEF Owners
  <2> HIDE DEF b
  <2>4. /\ Without(b.preflight, t) \in OptTurn
        /\ Without(b.preflight, t) \in {b.preflight, NoTurn}
        /\ Without(b.dispatching, t) \in OptTurn
        /\ Without(b.timedOut, t) \in OptTurn
    BY <2>1, WithoutType DEF WellFormed, Controllers
  <2>5. d \in Controllers
    BY <2>1, <2>3, <2>4, NullTypes DEF WellFormed, Controllers
  <2>6. Keeps(b, d)
    BY <2>1, <2>4, <2>5, TurnsAssumption DEF Keeps, WellFormed, Unsent, Controllers, Turns
  <2>7. AcceptLocalDispatch(c, t, state) = d
    BY <1>2, Zenon DEF AcceptLocalDispatch, b
  <2> QED BY <2>1, <2>6, <2>7, KeepsTransitive
<1> QED BY <1>1, <1>2

LEMMA AdoptForegroundKeeps ==
    ASSUME NEW c, WellFormed(c), NEW t \in Turns
    PROVE  Keeps(c, AdoptForeground(c, t))
<1>1. ObservedTurn(t) \in Entries
    BY DEF ObservedTurn, Entries
<1>2. RestoreActive(c.q, ObservedTurn(t), TRUE) \in Queues
    BY <1>1, RestoreActiveType DEF WellFormed, Controllers
<1>3. AdoptForeground(c, t) \in Controllers
    BY <1>2 DEF AdoptForeground, WellFormed, Controllers
<1> QED BY <1>3 DEF AdoptForeground, Keeps, WellFormed, Unsent, Controllers

LEMMA GiveBackInterruptedKeeps ==
    ASSUME NEW c, WellFormed(c), NEW t \in Turns
    PROVE  Keeps(c, GiveBackInterrupted(c, t))
<1>1. TakeInterruptPrompt(c.q, t) \in Queues
    BY TakeInterruptPromptType DEF WellFormed, Controllers
<1>2. GiveBackInterrupted(c, t) \in Controllers
    BY <1>1 DEF GiveBackInterrupted, WellFormed, Controllers
<1> QED BY <1>2 DEF GiveBackInterrupted, Keeps, WellFormed, Unsent, Controllers

\* Only a turn that was never attempted is started.
LEMMA StartTurnKeeps ==
    ASSUME NEW c, WellFormed(c), NEW t
    PROVE  Keeps(c, StartTurn(c, t))
<1>1. CASE ~MayStart(c, t)
    BY <1>1, KeepsReflexive DEF StartTurn
<1>2. CASE MayStart(c, t)
  <2>1. t \in Turns /\ t \notin c.attempted
    BY <1>2, ActiveType DEF MayStart, WellFormed
  <2>2. StartTurn(c, t) \in Controllers
    BY <1>2, <2>1, NullTypes DEF StartTurn, WellFormed, Controllers
  <2> QED BY <1>2, <2>1, <2>2 DEF StartTurn, Keeps, WellFormed, Unsent, Controllers
<1> QED BY <1>1, <1>2

\* A change of the queue, and of fields that are not about sending.
LEMMA QueueUpdateKeeps ==
    ASSUME NEW c, WellFormed(c), NEW q \in Queues
    PROVE  Keeps(c, [c EXCEPT !.q = q])
<1>1. [c EXCEPT !.q = q] \in Controllers
    BY DEF WellFormed, Controllers
<1> QED BY <1>1 DEF Keeps, WellFormed, Unsent, Controllers

LEMMA InterruptFieldsKeep ==
    ASSUME NEW c, WellFormed(c), NEW q \in Queues, NEW i \in OptTurn, NEW r \in OptTurn
    PROVE  Keeps(c, [c EXCEPT !.q = q, !.interrupting = i, !.interruptReq = r])
<1> DEFINE d == [c EXCEPT !.q = q, !.interrupting = i, !.interruptReq = r]
<1>1. d \in Controllers
    BY DEF WellFormed, Controllers
<1> QED BY <1>1 DEF Keeps, WellFormed, Unsent, Controllers

LEMMA ReleaseQueueTurnKeeps ==
    ASSUME NEW c, WellFormed(c), NEW t \in Turns
    PROVE  Keeps(c, ReleaseQueueTurn(c, t))
<1> DEFINE other == c.hydrated
           inv == InvalidateStart(c)
           quiet == [inv EXCEPT !.interruptReq = NoTurn, !.q = Settle(@, t)]
<1>1. Keeps(c, inv) /\ WellFormed(inv) /\ inv.q \in Queues
    BY InvalidateStartKeeps DEF Keeps, WellFormed, Controllers
<1>2. Keeps(inv, quiet)
  <2>1. Settle(inv.q, t) \in Queues
    BY <1>1, SettleType
  <2> HIDE DEF inv
  <2>2. quiet \in Controllers
    BY <1>1, <2>1, NullTypes DEF WellFormed, Controllers
  <2> QED BY <1>1, <2>2 DEF Keeps, WellFormed, Unsent, Controllers
<1>3. Keeps(c, quiet) /\ WellFormed(quiet)
    BY <1>1, <1>2, KeepsTransitive DEF Keeps
<1>4. other \in HydratedTurns /\ other.turn \in OptTurn
    BY DEF WellFormed, Controllers, HydratedTurns
<1>5. CASE Active(c) # t
    BY <1>5, KeepsReflexive DEF ReleaseQueueTurn
<1> HIDE DEF quiet
<1>6. CASE Active(c) = t /\ other.turn # NoTurn /\ other.turn # t
  <2> DEFINE adopted == AdoptForeground(quiet, other.turn)
             i == IF other.state = "interrupting" THEN other.turn ELSE NoTurn
             d == [adopted EXCEPT !.interrupting = i]
  <2>1. other.turn \in Turns
    BY <1>4, <1>6 DEF OptTurn
  <2>2. Keeps(quiet, adopted) /\ WellFormed(adopted)
    BY <1>3, <2>1, AdoptForegroundKeeps DEF Keeps
  <2>3. i \in OptTurn
    BY <1>4, NullTypes
  <2> HIDE DEF adopted, i
  <2>4. d \in Controllers
    BY <2>2, <2>3 DEF WellFormed, Controllers
  <2>5. Keeps(adopted, d) /\ WellFormed(d)
    BY <2>2, <2>4 DEF Keeps, WellFormed, Unsent, Controllers
  <2> HIDE DEF d
  <2>6. Keeps(d, GiveBackInterrupted(d, t))
    BY <2>5, GiveBackInterruptedKeeps
  <2>7. ReleaseQueueTurn(c, t) = GiveBackInterrupted(d, t)
    BY <1>6, Zenon DEF ReleaseQueueTurn, quiet, inv, adopted, i, d
  <2> QED BY <1>3, <2>2, <2>5, <2>6, <2>7, KeepsTransitive
<1>7. CASE Active(c) = t /\ (other.turn = NoTurn \/ other.turn = t)
  <2> DEFINE e == [quiet EXCEPT !.interrupting = Without(@, t)]
             d == GiveBackInterrupted(e, t)
  <2>1. Without(quiet.interrupting, t) \in OptTurn
    BY <1>3, WithoutType DEF WellFormed, Controllers
  <2>2. e \in Controllers
    BY <1>3, <2>1 DEF WellFormed, Controllers
  <2>3. Keeps(quiet, e) /\ WellFormed(e)
    BY <1>3, <2>2 DEF Keeps, WellFormed, Unsent, Controllers
  <2>4. Keeps(e, d) /\ WellFormed(d)
    BY <2>3, GiveBackInterruptedKeeps DEF Keeps
  <2>5. Keeps(d, StartTurn(d, Active(d)))
    BY <2>4, StartTurnKeeps
  <2>6. ReleaseQueueTurn(c, t) = StartTurn(d, Active(d))
    BY <1>7, Zenon DEF ReleaseQueueTurn, quiet, inv
  <2> QED BY <1>3, <2>3, <2>4, <2>5, <2>6, KeepsTransitive
<1> QED BY <1>5, <1>6, <1>7

LEMMA AddReceiptType ==
    ASSUME NEW s \in Seq(Turns), NEW t \in Turns
    PROVE  AddReceipt(s, t) \in Seq(Turns)
<1>1. Append(s, t) \in Seq(Turns)
    OBVIOUS
<1>2. ASSUME Len(s) = ReceiptLimit PROVE Append(Tail(s), t) \in Seq(Turns)
  <2>1. s # <<>>
    BY <1>2, ControllerAssumption
  <2> QED BY <2>1
<1> QED BY <1>1, <1>2 DEF AddReceipt

LEMMA SettleTurnKeeps ==
    ASSUME NEW c, WellFormed(c), NEW t \in Turns
    PROVE  Keeps(c, SettleTurn(c, t))
<1> DEFINE b == ClearRecoveryOf(c, t)
           h == IF b.hydrated.turn = t THEN NoHydrated ELSE b.hydrated
           r == IF c.steerReq = NoTurn THEN DropSteersOf(b.retained, t) ELSE b.retained
           o == IF b.owner.turn = t THEN [b.owner EXCEPT !.state = "ended"] ELSE b.owner
           d == [b EXCEPT !.hydrated = h, !.timedOut = Without(@, t),
                          !.receipts = AddReceipt(@, t), !.retained = r, !.owner = o]
           e == RetireLocalDispatch(d, t)
<1>1. Keeps(c, b) /\ WellFormed(b)
    BY ClearRecoveryKeeps DEF Keeps
<1>2. b.hydrated \in HydratedTurns /\ b.owner \in Owners /\ b.retained \in SUBSET Steers
    BY <1>1 DEF WellFormed, Controllers
<1> HIDE DEF b
<1>3. h \in HydratedTurns
    BY <1>2, NullTypes
<1>4. r \in SUBSET Steers
    BY <1>2 DEF DropSteersOf
<1>5. o \in Owners
    BY <1>2 DEF Owners
<1>6. Without(b.timedOut, t) \in OptTurn /\ AddReceipt(b.receipts, t) \in Seq(Turns)
    BY <1>1, WithoutType, AddReceiptType DEF WellFormed, Controllers
<1> HIDE DEF h, r, o
<1>7. d \in Controllers
    BY <1>1, <1>3, <1>4, <1>5, <1>6 DEF WellFormed, Controllers
<1>8. Keeps(b, d) /\ WellFormed(d)
    BY <1>1, <1>7 DEF Keeps, WellFormed, Unsent, Controllers
<1> HIDE DEF d
<1>9. Keeps(d, e) /\ WellFormed(e)
    BY <1>8, RetireLocalDispatchKeeps DEF Keeps
<1>10. Keeps(e, ReleaseQueueTurn(e, t))
    BY <1>9, ReleaseQueueTurnKeeps
<1>11. SettleTurn(c, t) = ReleaseQueueTurn(e, t)
    BY Zenon DEF SettleTurn, b, h, r, o, d
<1> QED BY <1>1, <1>8, <1>9, <1>10, <1>11, KeepsTransitive

-----------------------------------------------------------------------------
(* Completions of a start *)

LEMMA ComposerKeeps ==
    ASSUME NEW c, WellFormed(c), NEW t \in Turns
    PROVE  Keeps(c, [c EXCEPT !.composer = @ \cup {t}])
<1>1. [c EXCEPT !.composer = @ \cup {t}] \in Controllers
    BY DEF WellFormed, Controllers
<1> QED BY <1>1 DEF Keeps, WellFormed, Unsent, Controllers

\* A turn is forgotten as attempted only while it is in its preflight.
LEMMA PreflightNotReadyKeeps ==
    ASSUME NEW c, WellFormed(c), NEW t \in Turns,
           c.startReq = t, c.stage = "preflight"
    PROVE  Keeps(c, PreflightNotReady(c, t))
<1>1. CASE t \in Reviews
  <2>1. Keeps(c, RetireLocalDispatch(c, t)) /\ WellFormed(RetireLocalDispatch(c, t))
    BY RetireLocalDispatchKeeps DEF Keeps
  <2>2. Keeps(RetireLocalDispatch(c, t), SettleTurn(RetireLocalDispatch(c, t), t))
    BY <2>1, SettleTurnKeeps
  <2> QED BY <1>1, <2>1, <2>2, KeepsTransitive DEF PreflightNotReady
<1>2. CASE t \notin Reviews
  <2> DEFINE b == [c EXCEPT !.attempted = @ \ {t}, !.preflight = NoTurn]
             r == [b EXCEPT !.local = NoTurn, !.preflight = Without(@, t),
                            !.dispatching = Without(@, t)]
  <2>1. b \in Controllers
    BY NullTypes DEF WellFormed, Controllers
  <2>2. RetireLocalDispatch(b, t) \in {b, r}
    BY DEF RetireLocalDispatch
  <2>3. Without(b.preflight, t) = NoTurn /\ Without(b.dispatching, t) \in OptTurn
    BY <2>1, WithoutType DEF Without, WellFormed, Controllers
  <2>4. r \in Controllers
    <3>1. PICK u \in OptTurn : u = Without(b.dispatching, t)
        BY <2>3
    <3>2. r = [b EXCEPT !.local = NoTurn, !.preflight = NoTurn, !.dispatching = u]
        BY <2>3, <3>1
    <3> HIDE DEF b, r
    <3> QED BY <2>1, <3>1, <3>2, NullTypes DEF Controllers
  <2>5. /\ InvalidateStart(b) \in Controllers
        /\ InvalidateStart(r) \in Controllers
    <3> HIDE DEF b, r
    <3>1. InvalidateStart(b) \in Controllers
        BY <2>1, NullTypes DEF InvalidateStart, Controllers
    <3>2. InvalidateStart(r) \in Controllers
        BY <2>4, NullTypes DEF InvalidateStart, Controllers
    <3> QED BY <3>1, <3>2
  <2>6. Keeps(c, InvalidateStart(b))
    BY <2>5, TurnsAssumption
       DEF InvalidateStart, Keeps, WellFormed, Unsent, Controllers, Turns
  <2>7. Keeps(c, InvalidateStart(r))
    BY <2>3, <2>5, TurnsAssumption
       DEF InvalidateStart, Keeps, WellFormed, Unsent, Controllers, Turns
  <2>8. PreflightNotReady(c, t) = InvalidateStart(RetireLocalDispatch(b, t))
    BY <1>2, Zenon DEF PreflightNotReady
  <2> HIDE DEF b, r
  <2> QED BY <2>2, <2>6, <2>7, <2>8
<1> QED BY <1>1, <1>2

LEMMA StartRefusedKeeps ==
    ASSUME NEW c, WellFormed(c), NEW t \in Turns
    PROVE  Keeps(c, StartRefused(c, t)) /\ Keeps(c, StartRejected(c, t))
<1> DEFINE d == RetireLocalDispatch(c, t)
           e == IF t \in Reviews THEN d ELSE [d EXCEPT !.composer = @ \cup {t}]
<1>1. Keeps(c, d) /\ WellFormed(d)
    BY RetireLocalDispatchKeeps DEF Keeps
<1> HIDE DEF d
<1>2. Keeps(d, e) /\ WellFormed(e)
    BY <1>1, ComposerKeeps, KeepsReflexive DEF Keeps
<1> HIDE DEF e
<1>3. Keeps(e, SettleTurn(e, t))
    BY <1>2, SettleTurnKeeps
<1>4. StartRefused(c, t) = SettleTurn(e, t)
    BY Zenon DEF StartRefused, d, e
<1>5. Keeps(c, StartRefused(c, t))
    BY <1>1, <1>2, <1>3, <1>4, KeepsTransitive
<1> QED BY <1>5, InvalidateStartKeeps DEF StartRejected

\* Once its frame is written, a turn is never unsent again.
LEMMA MarkSentKeeps ==
    ASSUME NEW c, WellFormed(c), NEW t \in Turns,
           c.startReq = t, c.stage = "preflight"
    PROVE  Keeps(c, MarkSent(c, t)) /\ t \notin Unsent(MarkSent(c, t))
<1>1. MarkSent(c, t) \in Controllers
    BY NullTypes DEF MarkSent, WellFormed, Controllers
<1> QED BY <1>1, TurnsAssumption
        DEF MarkSent, Keeps, WellFormed, Unsent, Controllers, Turns

LEMMA StartAckedKeeps ==
    ASSUME NEW c, WellFormed(c), NEW t \in Turns
    PROVE  Keeps(c, StartAcked(c, t))
<1> DEFINE d == IF StartCurrent(c, t) THEN AcceptLocalDispatch(c, t, "running") ELSE c
<1>1. Keeps(c, d) /\ WellFormed(d)
    BY AcceptLocalDispatchKeeps, KeepsReflexive DEF Keeps
<1> HIDE DEF d
<1>2. Keeps(d, InvalidateStart(d))
    BY <1>1, InvalidateStartKeeps
<1> QED BY <1>1, <1>2, KeepsTransitive DEF StartAcked, d

LEMMA StartUnconfirmedKeeps ==
    ASSUME NEW c, WellFormed(c), NEW t \in Turns
    PROVE  Keeps(c, StartUnconfirmed(c, t))
<1> DEFINE u == [c EXCEPT !.timedOut = t]
           d == IF StartCurrent(c, t) /\ t \notin Reviews /\ c.local = t THEN u ELSE c
<1>1. u \in Controllers
    BY NullTypes DEF WellFormed, Controllers
<1>2. Keeps(c, u)
    BY <1>1 DEF Keeps, WellFormed, Unsent, Controllers
<1> HIDE DEF u
<1>3. Keeps(c, d) /\ WellFormed(d)
    BY <1>2, KeepsReflexive DEF Keeps
<1> HIDE DEF d
<1>4. Keeps(d, InvalidateStart(d))
    BY <1>3, InvalidateStartKeeps
<1>5. StartUnconfirmed(c, t) = InvalidateStart(d)
    BY Zenon DEF StartUnconfirmed, d, u
<1> QED BY <1>3, <1>4, <1>5, KeepsTransitive

LEMMA StartCollidedKeeps ==
    ASSUME NEW c, WellFormed(c), NEW t \in Turns, NEW occupier \in Turns
    PROVE  Keeps(c, StartCollided(c, t, occupier))
<1> DEFINE a == RetireLocalDispatch(c, t)
           b == InvalidateStart(a)
           d == [b EXCEPT !.q = Settle(@, t), !.composer = @ \cup {t}]
<1>1. Keeps(c, a) /\ WellFormed(a)
    BY RetireLocalDispatchKeeps DEF Keeps
<1> HIDE DEF a
<1>2. Keeps(a, b) /\ WellFormed(b)
    BY <1>1, InvalidateStartKeeps DEF Keeps
<1> HIDE DEF b
<1>3. Settle(b.q, t) \in Queues
    BY <1>2, SettleType DEF WellFormed, Controllers
<1>4. d \in Controllers
    BY <1>2, <1>3 DEF WellFormed, Controllers
<1>5. Keeps(b, d) /\ WellFormed(d)
    BY <1>2, <1>4 DEF Keeps, WellFormed, Unsent, Controllers
<1> HIDE DEF d
<1>6. Keeps(c, d)
    BY <1>1, <1>2, <1>5, KeepsTransitive
<1>7. Keeps(d, StartTurn(d, Active(d))) /\ Keeps(d, AdoptForeground(d, occupier))
    BY <1>5, StartTurnKeeps, AdoptForegroundKeeps
<1>8. StartCollided(c, t, occupier) \in {StartTurn(d, Active(d)), AdoptForeground(d, occupier)}
    BY Zenon DEF StartCollided, a, b, d
<1> QED BY <1>6, <1>7, <1>8, KeepsTransitive
-----------------------------------------------------------------------------
(* Admission and steering *)

LEMMA EnqueueTurnKeeps ==
    ASSUME NEW c, WellFormed(c), NEW t \in Turns
    PROVE  Keeps(c, EnqueueTurn(c, t))
<1> DEFINE d == [c EXCEPT !.q = Enqueue(@, [id |-> t, text |-> TRUE])]
<1>1. Enqueue(c.q, [id |-> t, text |-> TRUE]) \in Queues
  <2>1. [id |-> t, text |-> TRUE] \in Entries
    BY DEF Entries
  <2> QED BY <2>1, EnqueueType DEF WellFormed, Controllers
<1>2. Keeps(c, d) /\ WellFormed(d)
    BY <1>1, QueueUpdateKeeps DEF Keeps
<1> HIDE DEF d
<1>3. Keeps(d, StartTurn(d, t))
    BY <1>2, StartTurnKeeps
<1>4. EnqueueTurn(c, t) \in {d, StartTurn(d, t)}
    BY Zenon DEF EnqueueTurn, d
<1> QED BY <1>2, <1>3, <1>4, KeepsTransitive

LEMMA CancelQueuedPromptKeeps ==
    ASSUME NEW c, WellFormed(c), NEW t
    PROVE  Keeps(c, CancelQueuedPrompt(c, t))
<1>1. RemovePending(c.q, t) \in Queues
    BY RemovePendingType DEF WellFormed, Controllers
<1> QED BY <1>1, QueueUpdateKeeps DEF CancelQueuedPrompt

LEMMA SubmitSteerKeeps ==
    ASSUME NEW c, WellFormed(c), NEW t \in Locals, Active(c) \in Turns
    PROVE  LET d == SubmitSteer(c, t)
           IN  /\ WellFormed(d) /\ Unsent(d) = Unsent(c) /\ d.link = c.link
               /\ d.steerAdmitted = c.steerAdmitted \cup {t}
<1>0. t \in Turns /\ t \in OptLocal
    BY DEF Turns, OptLocal
<1>1. [turn |-> t, owner |-> Active(c), sent |-> FALSE, accepted |-> FALSE] \in Steers
    BY <1>0 DEF Steers
<1>2. SubmitSteer(c, t) \in Controllers
    BY <1>0, <1>1, NullTypes DEF SubmitSteer, WellFormed, Controllers
<1>3. Active(c) # NoTurn
    BY TurnsAssumption DEF Turns
<1> QED BY <1>2, <1>3 DEF SubmitSteer, WellFormed, Unsent, Controllers

LEMMA ForgetSteerKeeps ==
    ASSUME NEW c, WellFormed(c), NEW t
    PROVE  Keeps(c, ForgetSteer(c, t))
<1>1. ForgetSteer(c, t) \in Controllers
    BY DEF ForgetSteer, WellFormed, Controllers
<1> QED BY <1>1 DEF ForgetSteer, Keeps, WellFormed, Unsent, Controllers

LEMMA UpdateSteerKeeps ==
    ASSUME NEW c, WellFormed(c), NEW t, NEW field
    PROVE  Keeps(c, UpdateSteer(c, t, field))
<1> DEFINE k == {[e EXCEPT !.sent = @ \/ (e.turn = t /\ field = "sent"),
                           !.accepted = @ \/ (e.turn = t /\ field = "accepted")]
                    : e \in c.retained}
<1>1. k \in SUBSET Steers
  <2>1. ASSUME NEW e \in Steers, NEW p \in BOOLEAN, NEW r \in BOOLEAN
        PROVE  [e EXCEPT !.sent = p, !.accepted = r] \in Steers
    BY DEF Steers
  <2>2. ASSUME NEW e \in Steers
        PROVE  /\ (e.sent \/ (e.turn = t /\ field = "sent")) \in BOOLEAN
               /\ (e.accepted \/ (e.turn = t /\ field = "accepted")) \in BOOLEAN
    OBVIOUS
  <2>3. ASSUME NEW e \in Steers
        PROVE  [e EXCEPT !.sent = @ \/ (e.turn = t /\ field = "sent"),
                         !.accepted = @ \/ (e.turn = t /\ field = "accepted")] \in Steers
    <3> DEFINE p == e.sent \/ (e.turn = t /\ field = "sent")
               r == e.accepted \/ (e.turn = t /\ field = "accepted")
    <3>1. p \in BOOLEAN /\ r \in BOOLEAN
        BY <2>2
    <3> HIDE DEF p, r
    <3>2. [e EXCEPT !.sent = p, !.accepted = r] \in Steers
        BY <2>1, <2>3, <3>1
    <3> QED BY <3>2, Zenon DEF p, r
  <2>4. c.retained \in SUBSET Steers
    BY DEF WellFormed, Controllers
  <2> QED BY <2>3, <2>4, Zenon
<1> HIDE DEF k
<1>2. [c EXCEPT !.retained = k] \in Controllers
    BY <1>1 DEF WellFormed, Controllers
<1>3. Keeps(c, [c EXCEPT !.retained = k])
    BY <1>2 DEF Keeps, WellFormed, Unsent, Controllers
<1> QED BY <1>3, Zenon DEF UpdateSteer, k

LEMMA RestageSteersKeeps ==
    ASSUME NEW c, WellFormed(c), NEW turns \in Seq(Turns)
    PROVE  Keeps(c, RestageSteers(c, turns))
<1> DEFINE es == SteerEntries(turns)
<1>1. es \in Seq(Entries) /\ (turns # <<>> => es # <<>>)
  <2>1. /\ Len(turns) \in Nat
        /\ DOMAIN turns = 1..Len(turns)
        /\ turns # <<>> => Len(turns) # 0
        /\ \A i \in 1..Len(turns) : turns[i] \in Turns
    OBVIOUS
  <2>2. \A t \in Turns : [id |-> t, text |-> TRUE] \in Entries
    BY DEF Entries
  <2>3. es = [i \in 1..Len(turns) |-> [id |-> turns[i], text |-> TRUE]]
    BY <2>1, Zenon DEF SteerEntries
  <2>4. es \in [1..Len(turns) -> Entries]
    BY <2>1, <2>2, <2>3
  <2>5. es \in Seq(Entries) /\ Len(es) = Len(turns)
    <3> HIDE DEF es
    <3> QED BY <2>1, <2>4
  <2> QED BY <2>1, <2>5
<1> HIDE DEF es
<1>2. c.q \in Queues
    BY DEF WellFormed, Controllers
<1>3. ASSUME turns # <<>>
      PROVE  PrependPending(RestoreActive(c.q, es[1], TRUE), Tail(es)) \in Queues
  <2>1. es[1] \in Entries /\ Tail(es) \in Seq(Entries)
    BY <1>1, <1>3
  <2> QED BY <1>2, <2>1, RestoreActiveType, PrependPendingType
<1>4. PrependPending(c.q, es) \in Queues
    BY <1>1, <1>2, PrependPendingType
<1>5. CASE turns = <<>>
    BY <1>5, KeepsReflexive DEF RestageSteers
<1>6. CASE turns # <<>> /\ Active(c) \notin c.attempted
  <2>1. RestageSteers(c, turns)
        = [c EXCEPT !.q = PrependPending(RestoreActive(@, es[1], TRUE), Tail(es))]
    BY <1>6, Zenon DEF RestageSteers, es
  <2> QED BY <1>3, <1>6, <2>1, QueueUpdateKeeps
<1>7. CASE turns # <<>> /\ Active(c) \in c.attempted
  <2>1. RestageSteers(c, turns) = [c EXCEPT !.q = PrependPending(@, es)]
    BY <1>7, Zenon DEF RestageSteers, es
  <2> QED BY <1>4, <2>1, QueueUpdateKeeps
<1> QED BY <1>5, <1>6, <1>7

LEMMA FinishSteerKeeps ==
    ASSUME NEW c, WellFormed(c)
    PROVE  Keeps(c, FinishSteer(c))
<1> DEFINE k == IF ~c.steerUnknown /\ Received(c, c.steerOwner)
                THEN DropSteersOf(c.retained, c.steerOwner) ELSE c.retained
           d == [c EXCEPT !.steerReq = NoTurn, !.steerOwner = NoTurn, !.retained = k]
<1>1. k \in SUBSET Steers
    BY DEF WellFormed, Controllers, DropSteersOf
<1> HIDE DEF k
<1>2. d \in Controllers
    BY <1>1, NullTypes DEF WellFormed, Controllers
<1>3. Keeps(c, d) /\ WellFormed(d)
    BY <1>2 DEF Keeps, WellFormed, Unsent, Controllers
<1> HIDE DEF d
<1>4. Keeps(d, StartTurn(d, Active(d)))
    BY <1>3, StartTurnKeeps
<1>5. FinishSteer(c) = StartTurn(d, Active(d))
    BY Zenon DEF FinishSteer, d, k
<1> QED BY <1>3, <1>4, <1>5, KeepsTransitive

\* Every way a steer call ends, except the fallback to a new turn.
LEMMA SteerEndsKeep ==
    ASSUME NEW c, WellFormed(c), c.steerReq # NoTurn
    PROVE  /\ Keeps(c, SteerNotAdmitted(c))
           /\ Keeps(c, SteerAccepted(c))
           /\ Keeps(c, SteerUnconfirmed(c))
<1> DEFINE t == c.steerReq
           f == ForgetSteer(c, t)
           n == RestageSteers(f, <<t>>)
           a == UpdateSteer(c, t, "accepted")
           u == [c EXCEPT !.steerUnknown = TRUE]
<1>1. ASSUME NEW d, Keeps(c, d)
      PROVE  Keeps(c, FinishSteer(d))
  <2>1. Keeps(d, FinishSteer(d))
    BY <1>1, FinishSteerKeeps DEF Keeps
  <2> QED BY <1>1, <2>1, KeepsTransitive
<1>2. t \in Turns
    BY DEF WellFormed, Controllers, OptLocal, Turns
<1>3. Keeps(c, f) /\ WellFormed(f)
    BY ForgetSteerKeeps DEF Keeps
<1>4. Keeps(c, n)
  <2> HIDE DEF f
  <2>1. <<t>> \in Seq(Turns)
    BY <1>2
  <2>2. Keeps(f, n)
    BY <1>3, <2>1, RestageSteersKeeps
  <2> QED BY <1>3, <2>2, KeepsTransitive
<1>5. Keeps(c, a)
    BY UpdateSteerKeeps
<1>6. Keeps(c, u)
  <2>1. u \in Controllers
    BY DEF WellFormed, Controllers
  <2> QED BY <2>1 DEF Keeps, WellFormed, Unsent, Controllers
<1>7. Keeps(c, c)
    BY KeepsReflexive
<1>8. Keeps(c, SteerNotAdmitted(c))
  <2>1. SteerNotAdmitted(c) \in {FinishSteer(n), FinishSteer(c)}
    BY Zenon DEF SteerNotAdmitted
  <2> HIDE DEF n
  <2> QED BY <1>1, <1>4, <1>7, <2>1
<1>9. Keeps(c, SteerAccepted(c))
    BY <1>1, <1>5 DEF SteerAccepted
<1>10. Keeps(c, SteerUnconfirmed(c))
  <2>1. SteerUnconfirmed(c) \in {FinishSteer(u), FinishSteer(c)}
    BY Zenon DEF SteerUnconfirmed
  <2> HIDE DEF u
  <2> QED BY <1>1, <1>6, <1>7, <2>1
<1> QED BY <1>8, <1>9, <1>10

LEMMA SteerFellBackKeeps ==
    ASSUME NEW c, WellFormed(c), NEW f \in Turns
    PROVE  Keeps(c, SteerFellBack(c, f))
<1> DEFINE g == ForgetSteer(c, c.steerReq)
           d == [g EXCEPT !.attempted = @ \cup {f}]
           q == IF Active(c) = c.steerOwner THEN Settle(c.q, c.steerOwner) ELSE c.q
           r == RestoreActive(q, [id |-> f, text |-> TRUE], TRUE)
           o == [turn |-> f, state |-> "running"]
           u == [d EXCEPT !.steerUnknown = TRUE]
           w == [d EXCEPT !.q = r, !.owner = o]
<1>1. ASSUME NEW e, Keeps(c, e)
      PROVE  Keeps(c, FinishSteer(e))
  <2>1. Keeps(e, FinishSteer(e))
    BY <1>1, FinishSteerKeeps DEF Keeps
  <2> QED BY <1>1, <2>1, KeepsTransitive
<1>2. Keeps(c, g) /\ WellFormed(g)
    BY ForgetSteerKeeps DEF Keeps
<1>3. r \in Queues
  <2>1. q \in Queues
    BY SettleType DEF WellFormed, Controllers
  <2>2. [id |-> f, text |-> TRUE] \in Entries
    BY DEF Entries
  <2> HIDE DEF q
  <2> QED BY <2>1, <2>2, RestoreActiveType
<1>4. o \in Owners
    BY NullTypes DEF Owners
<1> HIDE DEF g, r, o
<1>5. d \in Controllers
    BY <1>2 DEF WellFormed, Controllers
<1>6. Keeps(g, d) /\ WellFormed(d)
    BY <1>2, <1>5 DEF Keeps, WellFormed, Unsent, Controllers
<1> HIDE DEF d
<1>7. u \in Controllers /\ w \in Controllers
    BY <1>3, <1>4, <1>6 DEF WellFormed, Controllers
<1>8. Keeps(d, u) /\ Keeps(d, w)
    BY <1>6, <1>7 DEF Keeps, WellFormed, Unsent, Controllers
<1>9. Keeps(c, c) /\ Keeps(c, d) /\ Keeps(c, u) /\ Keeps(c, w)
    BY <1>2, <1>6, <1>8, KeepsTransitive, KeepsReflexive
<1>10. SteerFellBack(c, f) \in {FinishSteer(c), FinishSteer(d), FinishSteer(u), FinishSteer(w)}
    BY Zenon DEF SteerFellBack, d, g, r, o
<1> HIDE DEF u, w
<1> QED BY <1>1, <1>9, <1>10

LEMMA RetrySteerDeliveryKeeps ==
    ASSUME NEW c, WellFormed(c)
    PROVE  Keeps(c, RetrySteerDelivery(c))
<1> DEFINE d == [c EXCEPT !.steerUnknown = FALSE, !.steerReq = NoTurn,
                          !.steerOwner = NoTurn]
<1>1. d \in Controllers
    BY NullTypes DEF WellFormed, Controllers
<1>2. Keeps(c, d) /\ WellFormed(d)
    BY <1>1 DEF Keeps, WellFormed, Unsent, Controllers
<1> HIDE DEF d
<1>3. Keeps(d, StartTurn(d, Active(d)))
    BY <1>2, StartTurnKeeps
<1> QED BY <1>2, <1>3, KeepsTransitive DEF RetrySteerDelivery, d
-----------------------------------------------------------------------------
(* Notifications and interrupt *)

LEMMA ObserveTurnStartedKeeps ==
    ASSUME NEW c, WellFormed(c), NEW t \in Turns
    PROVE  Keeps(c, ObserveTurnStarted(c, t))
<1> DEFINE d == ConfirmTurnAccepted(c, t)
<1>1. Keeps(c, d) /\ WellFormed(d)
    BY AcceptLocalDispatchKeeps DEF ConfirmTurnAccepted, Keeps
<1> HIDE DEF d
<1>2. Keeps(d, AdoptObservedTurn(d, t))
    BY <1>1, AdoptForegroundKeeps, KeepsReflexive DEF AdoptObservedTurn
<1> QED BY <1>1, <1>2, KeepsTransitive DEF ObserveTurnStarted, d

LEMMA ObserveTerminalKeeps ==
    ASSUME NEW c, WellFormed(c), NEW t \in Turns
    PROVE  Keeps(c, ObserveTerminal(c, t))
<1> DEFINE d == ConfirmTurnAccepted(c, t)
<1>1. Keeps(c, d) /\ WellFormed(d)
    BY AcceptLocalDispatchKeeps DEF ConfirmTurnAccepted, Keeps
<1> HIDE DEF d
<1>2. Keeps(d, SettleTurn(d, t))
    BY <1>1, SettleTurnKeeps
<1> QED BY <1>1, <1>2, KeepsTransitive DEF ObserveTerminal, d

LEMMA ObserveSteerDroppedKeeps ==
    ASSUME NEW c, WellFormed(c), NEW t \in Turns, NEW given \in Seq(Turns)
    PROVE  Keeps(c, ObserveSteerDropped(c, t, given))
<1> DEFINE d == ConfirmTurnAccepted(c, t)
           mine == {e \in d.retained : /\ e.owner = t /\ e.sent
                                       /\ \E i \in DOMAIN given : given[i] = e.turn}
           returned == Keep(given, {e.turn : e \in mine})
           left == d.retained \ mine
           u == d.steerUnknown /\ mine = {}
           f == [d EXCEPT !.retained = left, !.steerUnknown = u]
<1>1. Keeps(c, d) /\ WellFormed(d)
    BY AcceptLocalDispatchKeeps DEF ConfirmTurnAccepted, Keeps
<1> HIDE DEF d
<1>2. returned \in Seq(Turns)
    BY KeepType
<1> HIDE DEF mine
<1>3. left \in SUBSET Steers
    BY <1>1 DEF WellFormed, Controllers
<1>4. u \in BOOLEAN
    OBVIOUS
<1> HIDE DEF returned, left, u
<1>5. f \in Controllers
    BY <1>1, <1>3, <1>4 DEF WellFormed, Controllers
<1>6. Keeps(d, f) /\ WellFormed(f)
    BY <1>1, <1>5 DEF Keeps, WellFormed, Unsent, Controllers
<1> HIDE DEF f
<1>7. Keeps(f, RestageSteers(f, returned))
    BY <1>2, <1>6, RestageSteersKeeps
<1>8. ObserveSteerDropped(c, t, given) = RestageSteers(f, returned)
    BY Zenon DEF ObserveSteerDropped, d, mine, returned, left, u, f
<1> QED BY <1>1, <1>6, <1>7, <1>8, KeepsTransitive

LEMMA InterruptKeeps ==
    ASSUME NEW c, WellFormed(c), NEW b \in BOOLEAN, NEW t
    PROVE  Keeps(c, Interrupt(c, b)) /\ Keeps(c, InterruptReturned(c, t, b))
<1>1. c.q \in Queues /\ Active(c) \in OptTurn /\ c.interrupting \in OptTurn
    BY ActiveType DEF WellFormed, Controllers
<1>2. Keeps(c, Interrupt(c, b))
  <2> DEFINE q == IF b THEN StashInterruptPrompt(c.q, c.q.active)
                  ELSE TakeInterruptPrompt(c.q, c.q.active.id)
  <2>1. q \in Queues
    BY <1>1, StashInterruptPromptType, TakeInterruptPromptType
  <2>2. Interrupt(c, b) = [c EXCEPT !.q = q, !.interrupting = Active(c),
                                    !.interruptReq = Active(c)]
    BY Zenon DEF Interrupt
  <2> HIDE DEF q
  <2>3. Keeps(c, [c EXCEPT !.q = q, !.interrupting = Active(c),
                           !.interruptReq = Active(c)])
    BY <1>1, <2>1, InterruptFieldsKeep, Zenon
  <2> QED BY <2>2, <2>3, Zenon
<1>3. Keeps(c, InterruptReturned(c, t, b))
  <2> DEFINE i == IF b /\ Linked(c) /\ Active(c) = t THEN c.interrupting
                  ELSE Without(c.interrupting, t)
             d == [c EXCEPT !.interruptReq = NoTurn, !.interrupting = i]
  <2>1. i \in OptTurn
    BY <1>1, WithoutType
  <2>2. InterruptReturned(c, t, b) = d
    BY Zenon DEF InterruptReturned
  <2> HIDE DEF i
  <2>3. d \in Controllers
    BY <2>1, NullTypes DEF WellFormed, Controllers
  <2>4. Keeps(c, d)
    BY <2>3 DEF Keeps, WellFormed, Unsent, Controllers
  <2> QED BY <2>2, <2>4
<1> QED BY <1>2, <1>3
-----------------------------------------------------------------------------
(* Lifecycle recovery *)

LEMMA RetryTurnRecoveryKeeps ==
    ASSUME NEW c, WellFormed(c)
    PROVE  Keeps(c, RetryTurnRecovery(c))
<1> DEFINE r(p) == [turn |-> Active(c), phase |-> p]
           a == [c EXCEPT !.lookup = Active(c), !.recovery = r("checking")]
           b == [c EXCEPT !.recovery = r("unavailable")]
<1>1. Active(c) \in OptTurn
    BY ActiveType DEF WellFormed
<1>2. r("checking") \in Recoveries /\ r("unavailable") \in Recoveries
    BY <1>1 DEF Recoveries
<1>3. RetryTurnRecovery(c) \in {c, a, b}
    BY Zenon DEF RetryTurnRecovery
<1> HIDE DEF r
<1>4. a \in Controllers /\ b \in Controllers
    BY <1>1, <1>2 DEF WellFormed, Controllers
<1>5. Keeps(c, a) /\ Keeps(c, b)
    BY <1>4 DEF Keeps, WellFormed, Unsent, Controllers
<1> HIDE DEF a, b
<1> QED BY <1>3, <1>5, KeepsReflexive

LEMMA ApplyRecoveredStateKeeps ==
    ASSUME NEW c, WellFormed(c), NEW t \in Turns, NEW state
    PROVE  Keeps(c, ApplyRecoveredState(c, t, state))
<1> DEFINE live == state \in {"active", "interrupting"}
           a == ClearRecovery(c)
           b == InvalidateStart(a)
           s == IF live THEN "running" ELSE "ended"
           e == AcceptLocalDispatch(b, t, s)
           i == IF state = "interrupting" THEN t ELSE NoTurn
           d == [e EXCEPT !.interruptReq = NoTurn, !.interrupting = i]
<1>1. Keeps(c, a) /\ WellFormed(a)
    BY ClearRecoveryKeeps DEF Keeps
<1>2. Keeps(a, b) /\ WellFormed(b)
    BY <1>1, InvalidateStartKeeps DEF Keeps
<1>3. Keeps(b, e) /\ WellFormed(e)
  <2> HIDE DEF b
  <2>1. s \in {"running", "ended"}
    OBVIOUS
  <2> QED BY <1>2, <2>1, AcceptLocalDispatchKeeps DEF Keeps
<1>4. i \in OptTurn
    BY NullTypes
<1> HIDE DEF e, i
<1>5. d \in Controllers
    BY <1>3, <1>4, NullTypes DEF WellFormed, Controllers
<1>6. Keeps(e, d) /\ WellFormed(d)
    BY <1>3, <1>5 DEF Keeps, WellFormed, Unsent, Controllers
<1> HIDE DEF d
<1>7. Keeps(d, SettleTurn(d, t))
    BY <1>6, SettleTurnKeeps
<1>8. ApplyRecoveredState(c, t, state) \in {d, SettleTurn(d, t)}
    BY Zenon DEF ApplyRecoveredState, d, e, i
<1> HIDE DEF a, b
<1> QED BY <1>1, <1>2, <1>3, <1>6, <1>7, <1>8, KeepsTransitive

LEMMA LookupReturnedKeeps ==
    ASSUME NEW c, WellFormed(c), NEW t \in Turns, NEW result
    PROVE  Keeps(c, LookupReturned(c, t, result))
<1> DEFINE d == [c EXCEPT !.lookup = NoTurn]
           r == [turn |-> t, phase |-> result]
           e == [d EXCEPT !.recovery = r]
<1>1. d \in Controllers
    BY NullTypes DEF WellFormed, Controllers
<1>2. Keeps(c, d) /\ WellFormed(d)
    BY <1>1 DEF Keeps, WellFormed, Unsent, Controllers
<1>3. LookupReturned(c, t, result)
      = IF ~Linked(c) \/ Active(c) # t THEN d
        ELSE IF result \in {"unknown", "error"} THEN e
        ELSE ApplyRecoveredState(d, t, result)
    BY Zenon DEF LookupReturned
<1> HIDE DEF d
<1>4. ASSUME result \in {"unknown", "error"} PROVE Keeps(d, e)
  <2>1. r \in Recoveries
    BY <1>4, NullTypes DEF Recoveries
  <2> HIDE DEF r
  <2>2. e \in Controllers
    BY <1>2, <2>1 DEF WellFormed, Controllers
  <2> QED BY <1>2, <2>2 DEF Keeps, WellFormed, Unsent, Controllers
<1>5. Keeps(d, ApplyRecoveredState(d, t, result))
    BY <1>2, ApplyRecoveredStateKeeps
<1> HIDE DEF e
<1> QED BY <1>2, <1>3, <1>4, <1>5, KeepsTransitive

LEMMA ContinueWithoutTurnKeeps ==
    ASSUME NEW c, WellFormed(c), Active(c) # NoTurn
    PROVE  Keeps(c, ContinueWithoutTurn(c))
<1> DEFINE t == Active(c)
           a == ClearRecovery(c)
           b == RetireLocalDispatch(a, t)
           o == IF b.owner.turn = t THEN NoOwner ELSE b.owner
           d == [b EXCEPT !.timedOut = NoTurn, !.owner = o,
                          !.q = TakeInterruptPrompt(@, t)]
<1>1. t \in Turns
    BY ActiveType DEF WellFormed
<1>2. Keeps(c, a) /\ WellFormed(a)
    BY ClearRecoveryKeeps DEF Keeps
<1> HIDE DEF t
<1>3. Keeps(a, b) /\ WellFormed(b)
    BY <1>2, RetireLocalDispatchKeeps DEF Keeps
<1> HIDE DEF a, b
<1>4. o \in Owners /\ TakeInterruptPrompt(b.q, t) \in Queues
    BY <1>3, NullTypes, TakeInterruptPromptType DEF WellFormed, Controllers
<1> HIDE DEF o
<1>5. d \in Controllers
    BY <1>3, <1>4, NullTypes DEF WellFormed, Controllers
<1>6. Keeps(b, d) /\ WellFormed(d)
    BY <1>3, <1>5 DEF Keeps, WellFormed, Unsent, Controllers
<1> HIDE DEF d
<1>7. Keeps(d, ReleaseQueueTurn(d, t))
    BY <1>1, <1>6, ReleaseQueueTurnKeeps
<1>8. ContinueWithoutTurn(c) = ReleaseQueueTurn(d, t)
    BY Zenon DEF ContinueWithoutTurn, t, a, b, o, d
<1> QED BY <1>2, <1>3, <1>6, <1>7, <1>8, KeepsTransitive

LEMMA ReconcileLeasesKeeps ==
    ASSUME NEW c, WellFormed(c), NEW preserve
    PROVE  Keeps(c, ReconcileLeases(c, preserve))
<1> DEFINE a == [c EXCEPT !.steerUnknown = FALSE]
           d == ClearRecovery(a)
           e == RetireLocalDispatch(d, d.local)
           f == [e EXCEPT !.owner = NoOwner]
<1>1. a \in Controllers
    BY DEF WellFormed, Controllers
<1>2. Keeps(c, a) /\ WellFormed(a)
    BY <1>1 DEF Keeps, WellFormed, Unsent, Controllers
<1> HIDE DEF a
<1>3. Keeps(a, d) /\ WellFormed(d)
    BY <1>2, ClearRecoveryKeeps DEF Keeps
<1> HIDE DEF d
<1>4. Keeps(d, e) /\ WellFormed(e)
    BY <1>3, RetireLocalDispatchKeeps DEF Keeps
<1> HIDE DEF e
<1>5. f \in Controllers
    BY <1>4, NullTypes DEF WellFormed, Controllers
<1>6. Keeps(e, f)
    BY <1>4, <1>5 DEF Keeps, WellFormed, Unsent, Controllers
<1> HIDE DEF f
<1>7. ReconcileLeases(c, preserve) \in {d, f}
    BY Zenon DEF ReconcileLeases, a, d, e, f
<1> QED BY <1>2, <1>3, <1>4, <1>6, <1>7, KeepsTransitive

LEMMA ReconcileActiveKeeps ==
    ASSUME NEW c, WellFormed(c), NEW t \in Turns, NEW state
    PROVE  Keeps(c, ReconcileActive(c, t, state))
<1> DEFINE a == InvalidateStart(c)
           s == IF state = "done" THEN "ended" ELSE "running"
           d == AcceptLocalDispatch(a, t, s)
           fg == c.hydrated.turn
           o == IF d.owner.turn = t THEN [d.owner EXCEPT !.state = "ended"] ELSE d.owner
           e == [d EXCEPT !.owner = o, !.q = Settle(@, t)]
<1>1. Keeps(c, a) /\ WellFormed(a)
    BY InvalidateStartKeeps DEF Keeps
<1>2. Keeps(a, d) /\ WellFormed(d)
  <2> HIDE DEF a
  <2>1. s \in {"running", "ended"}
    OBVIOUS
  <2> QED BY <1>1, <2>1, AcceptLocalDispatchKeeps DEF Keeps
<1> HIDE DEF a, d
<1>3. o \in Owners
    BY <1>2 DEF WellFormed, Controllers, Owners
<1>4. Settle(d.q, t) \in Queues
    BY <1>2, SettleType DEF WellFormed, Controllers
<1> HIDE DEF o
<1>5. e \in Controllers
    BY <1>2, <1>3, <1>4 DEF WellFormed, Controllers
<1>6. Keeps(d, e) /\ WellFormed(e)
    BY <1>2, <1>5 DEF Keeps, WellFormed, Unsent, Controllers
<1> HIDE DEF e
<1>7. ReconcileActive(c, t, state)
      = IF state # "done" THEN d
        ELSE IF fg \notin {NoTurn, t} THEN AdoptForeground(e, fg) ELSE e
    BY Zenon DEF ReconcileActive, a, d, e, o
<1>8. ASSUME fg \notin {NoTurn, t} PROVE Keeps(e, AdoptForeground(e, fg))
  <2>1. fg \in Turns
    BY <1>8 DEF WellFormed, Controllers, HydratedTurns, OptTurn
  <2> QED BY <1>6, <2>1, AdoptForegroundKeeps
<1> HIDE DEF fg
<1> QED BY <1>1, <1>2, <1>6, <1>7, <1>8, KeepsTransitive

LEMMA HydratedForegroundType ==
    ASSUME NEW snap
    PROVE  HydratedForeground(snap) \in HydratedTurns
<1>1. CASE ServerForeground(snap) = {}
    BY <1>1, NullTypes DEF HydratedForeground
<1>2. CASE ServerForeground(snap) # {}
  <2> DEFINE t == CHOOSE x \in ServerForeground(snap) : TRUE
  <2>1. t \in ServerForeground(snap)
    BY <1>2
  <2>2. HydratedForeground(snap) = [turn |-> t, state |-> snap[t]]
    BY <1>2, Zenon DEF HydratedForeground
  <2> HIDE DEF t
  <2>3. t \in OptTurn /\ snap[t] \in {"active", "interrupting"}
    BY <2>1, NullTypes DEF ServerForeground
  <2> QED BY <2>2, <2>3 DEF HydratedTurns
<1> QED BY <1>1, <1>2

LEMMA ReconcileFromHydrateKeeps ==
    ASSUME NEW c, WellFormed(c), NEW snap, NEW preserve
    PROVE  Keeps(c, ReconcileFromHydrate(c, snap, preserve))
<1> DEFINE fg == HydratedForeground(snap)
           a == ReconcileLeases(c, preserve)
           i == IF fg.state = "interrupting" THEN fg.turn ELSE NoTurn
           d == [a EXCEPT !.hydrated = fg, !.interruptReq = NoTurn, !.interrupting = i]
           t == Active(c)
           b == InvalidateStart(d)
<1>1. fg \in HydratedTurns /\ fg.turn \in OptTurn
    BY HydratedForegroundType DEF HydratedTurns
<1>2. Keeps(c, a) /\ WellFormed(a)
    BY ReconcileLeasesKeeps DEF Keeps
<1> HIDE DEF fg, a
<1>3. i \in OptTurn
    BY <1>1, NullTypes
<1> HIDE DEF i
<1>4. d \in Controllers
    BY <1>1, <1>2, <1>3, NullTypes DEF WellFormed, Controllers
<1>5. Keeps(a, d) /\ WellFormed(d)
    BY <1>2, <1>4 DEF Keeps, WellFormed, Unsent, Controllers
<1> HIDE DEF d
<1>6. Keeps(d, b) /\ WellFormed(b)
    BY <1>5, InvalidateStartKeeps DEF Keeps
<1> HIDE DEF b
<1>7. ASSUME fg.turn # NoTurn PROVE Keeps(b, AdoptForeground(b, fg.turn))
  <2>1. fg.turn \in Turns
    BY <1>1, <1>7 DEF OptTurn
  <2> QED BY <1>6, <2>1, AdoptForegroundKeeps
<1>8. ASSUME t # NoTurn PROVE Keeps(d, ReconcileActive(d, t, snap[t]))
  <2>1. t \in Turns
    BY <1>8, ActiveType DEF WellFormed
  <2> QED BY <1>5, <2>1, ReconcileActiveKeeps
<1>9. Keeps(d, RetryTurnRecovery(d))
    BY <1>5, RetryTurnRecoveryKeeps
<1>10. ReconcileFromHydrate(c, snap, preserve)
       = IF fg.turn \notin {NoTurn, t} /\ t \notin c.attempted
         THEN AdoptForeground(b, fg.turn)
         ELSE IF t = NoTurn \/ t \notin c.attempted THEN d
         ELSE IF snap[t] # "absent" THEN ReconcileActive(d, t, snap[t])
         ELSE RetryTurnRecovery(d)
    BY Zenon DEF ReconcileFromHydrate, fg, a, i, d, b
<1> HIDE DEF t
<1>11. Keeps(c, d)
    BY <1>2, <1>5, KeepsTransitive
<1>12. Keeps(c, b)
    BY <1>6, <1>11, KeepsTransitive
<1> QED BY <1>7, <1>8, <1>9, <1>10, <1>11, <1>12, KeepsTransitive
-----------------------------------------------------------------------------
(* Transport and the accepted owner *)

\* A suspend forgets only the attempt of a turn still in its preflight.
LEMMA SuspendTransportKeeps ==
    ASSUME NEW c, WellFormed(c)
    PROVE  Keeps(c, SuspendTransport(c))
<1> DEFINE a == [c EXCEPT !.retained = {}, !.steerReq = NoTurn,
                          !.steerOwner = NoTurn, !.steerUnknown = FALSE]
           d == RestageSteers(a, UnsentSteers(c))
           e == InvalidateStart(d)
           f == [e EXCEPT !.attempted = @ \ {c.preflight}, !.preflight = NoTurn,
                          !.interruptReq = NoTurn, !.local = NoTurn,
                          !.owner = NoOwner, !.dispatching = NoTurn,
                          !.interrupting = NoTurn]
<1>1. a \in Controllers
    BY NullTypes DEF WellFormed, Controllers
<1>2. Keeps(c, a) /\ WellFormed(a)
    BY <1>1 DEF Keeps, WellFormed, Unsent, Controllers
<1>3. UnsentSteers(c) \in Seq(Turns)
  <2>1. ASSUME NEW x \in c.retained, x.turn = c.steerReq PROVE c.steerReq \in Turns
    BY <2>1 DEF WellFormed, Controllers, Steers
  <2> QED BY <2>1 DEF UnsentSteers
<1> HIDE DEF a
<1>4. Keeps(a, d) /\ WellFormed(d)
    BY <1>2, <1>3, RestageSteersKeeps DEF Keeps
<1> HIDE DEF d
<1>5. Keeps(d, e) /\ WellFormed(e)
    BY <1>4, InvalidateStartKeeps DEF Keeps
<1> HIDE DEF e
<1>6. Keeps(c, e)
    BY <1>2, <1>4, <1>5, KeepsTransitive
<1>7. f \in Controllers
    BY <1>5, NullTypes DEF WellFormed, Controllers
<1>8. e.stage = "none"
    BY <1>4 DEF e, InvalidateStart, WellFormed, Controllers
<1>9. Keeps(c, f)
    BY <1>5, <1>6, <1>7, <1>8, TurnsAssumption
       DEF Keeps, WellFormed, Unsent, Controllers, Turns
<1>10. SuspendTransport(c) = f
    BY Zenon DEF SuspendTransport, a, d, e, f
<1> QED BY <1>9, <1>10

LEMMA SetAcceptedOwnerInteractionKeeps ==
    ASSUME NEW c, WellFormed(c), NEW waiting
    PROVE  Keeps(c, SetAcceptedOwnerInteraction(c, waiting))
<1> DEFINE o == [c.owner EXCEPT !.state = IF waiting THEN "waiting" ELSE "running"]
           d == [c EXCEPT !.owner = o]
<1>1. o \in Owners
    BY DEF WellFormed, Controllers, Owners
<1>2. SetAcceptedOwnerInteraction(c, waiting) = d
    BY Zenon DEF SetAcceptedOwnerInteraction
<1> HIDE DEF o
<1>3. d \in Controllers
    BY <1>1 DEF WellFormed, Controllers
<1>4. Keeps(c, d)
    BY <1>3 DEF Keeps, WellFormed, Unsent, Controllers
<1> QED BY <1>2, <1>4

\* The record's runtime changes the link, and nothing that Unsent reads.
LEMMA RelinkKeeps ==
    ASSUME NEW c, WellFormed(c), NEW l \in Links
    PROVE  /\ WellFormed([c EXCEPT !.link = l])
           /\ Unsent([c EXCEPT !.link = l]) = Unsent(c)
           /\ [c EXCEPT !.link = l].link = l
<1>1. [c EXCEPT !.link = l] \in Controllers
    BY DEF WellFormed, Controllers
<1> QED BY <1>1 DEF WellFormed, Unsent, Controllers

LEMMA RelinkSame ==
    ASSUME NEW c \in Controllers, NEW l, NEW d, d = [c EXCEPT !.link = l]
    PROVE  /\ d.q = c.q /\ d.link = l /\ d.local = c.local /\ d.retained = c.retained
           /\ d.composer = c.composer /\ d.steerReq = c.steerReq /\ d.steerOwner = c.steerOwner
           /\ d.steerAdmitted = c.steerAdmitted
<1>1. \A f \in DOMAIN c : f # "link" => d[f] = c[f]
    OBVIOUS
<1>2. DOMAIN c = {"q", "link", "local", "dispatching", "owner", "interrupting", "interruptReq",
                  "recovery", "lookup", "hydrated", "timedOut", "attempted", "preflight",
                  "startReq", "stage", "receipts", "steering", "steerReq", "steerOwner",
                  "steerUnknown", "steerAdmitted", "retained", "composer"}
    BY DEF Controllers
<1> QED BY <1>1, <1>2
-----------------------------------------------------------------------------
(* Leases and order: the facts behind LeaseIsActive and WaitingIsStartable *)

\* The lease of an unacknowledged start belongs to the active turn, which has been
\* attempted; the owner that is reported as running is the active turn.  A start in
\* its preflight still has its lease, a record without a transport has none, and
\* neither has one that is steering.
Leased(c) ==
    /\ c.local = c.dispatching
    /\ c.local # NoTurn => /\ c.local = Active(c)
                           /\ c.local \in c.attempted
                           /\ c.owner.turn # c.local
    /\ c.preflight # NoTurn => c.preflight = c.local
    /\ c.owner.state \in {"running", "waiting"} => c.owner.turn = Active(c)
    /\ c.owner.turn # NoTurn => c.owner.turn \in c.attempted
    /\ c.owner.turn = NoTurn => c.owner.state = "none"
    /\ c.stage = "preflight" => c.local = c.startReq /\ c.preflight = c.startReq
    /\ ~Linked(c) => c.stage = "none" /\ c.local = NoTurn
    /\ c.steerReq # NoTurn => c.local = NoTurn

\* Every text is held once.
OneSteer(c) ==
    \A e, g \in c.retained : e.turn = g.turn => e.owner = g.owner /\ e.sent = g.sent

\* What d holds for steering, c held: the same text for the same turn, and its frame
\* was written or not in both.
Holds(c, d) ==
    \A e \in d.retained : \E g \in c.retained :
        g.turn = e.turn /\ g.owner = e.owner /\ g.sent = e.sent

\* No turn is queued twice, what waits is a prompt of this client that was never
\* attempted, text held for steering is held once and neither queued nor attempted,
\* and the foreground turn that hydrate reported is not one this client could still send.
Fifo(c) ==
    /\ OneEach(c.q)
    /\ Ids(c.q.pending) \subseteq Locals \ c.attempted
    /\ Active(c) \in c.attempted \cup Locals \cup {NoTurn}
    /\ RetainedTurns(c) \cap (c.attempted \cup QueuedIds(c.q)) = {}
    /\ RetainedTurns(c) \subseteq c.steerAdmitted \cap Locals
    /\ OneSteer(c)
    /\ c.preflight \in OptLocal
    /\ c.hydrated.turn \in Locals => c.hydrated.turn \notin Unsent(c)

Orderly(c) == Leased(c) /\ Fifo(c)

\* The prompts that the controller may still start without being given them again.
Startable(c) == (QueuedIds(c.q) \ c.attempted) \cup ({c.preflight} \ {NoTurn})

\* The acknowledgement is still awaited, but something else proved the start.
Accepted(c) == c.stage = "wire" /\ c.local # c.startReq


\* What a handler may do to an orderly controller: nothing new becomes startable,
\* no text is held that was not, and no start counts as accepted that did not.
Orders(c, d) ==
    /\ Orderly(d)
    /\ Startable(d) \subseteq Startable(c)
    /\ Holds(c, d)
    /\ d.steerReq \in {c.steerReq, NoTurn}
    /\ Accepted(d) => Accepted(c) /\ d.startReq = c.startReq

LEMMA HoldsTransitive ==
    ASSUME NEW c, NEW d, NEW e, Holds(c, d), Holds(d, e)
    PROVE  Holds(c, e)
<1> SUFFICES ASSUME NEW x \in e.retained
             PROVE  \E g \in c.retained : g.turn = x.turn /\ g.owner = x.owner /\ g.sent = x.sent
    BY DEF Holds
<1>1. PICK y \in d.retained : y.turn = x.turn /\ y.owner = x.owner /\ y.sent = x.sent
    BY DEF Holds
<1>2. PICK g \in c.retained : g.turn = y.turn /\ g.owner = y.owner /\ g.sent = y.sent
    BY DEF Holds
<1> QED BY <1>1, <1>2

LEMMA OrdersTransitive ==
    ASSUME NEW c, NEW d, NEW e, Orders(c, d), Orders(d, e)
    PROVE  Orders(c, e)
BY HoldsTransitive DEF Orders

LEMMA OrdersReflexive ==
    ASSUME NEW c, Orderly(c)
    PROVE  Orders(c, c)
BY DEF Orders, Holds

LEMMA HoldsTurns ==
    ASSUME NEW c, NEW d, Holds(c, d)
    PROVE  RetainedTurns(d) \subseteq RetainedTurns(c) /\ (OneSteer(c) => OneSteer(d))
<1>1. RetainedTurns(d) \subseteq RetainedTurns(c)
    BY DEF RetainedTurns, Holds
<1>2. ASSUME OneSteer(c), NEW e \in d.retained, NEW g \in d.retained, e.turn = g.turn
      PROVE  e.owner = g.owner /\ e.sent = g.sent
  <2>1. PICK x \in c.retained : x.turn = e.turn /\ x.owner = e.owner /\ x.sent = e.sent
    BY DEF Holds
  <2>2. PICK y \in c.retained : y.turn = g.turn /\ y.owner = g.owner /\ y.sent = g.sent
    BY DEF Holds
  <2> QED BY <1>2, <2>1, <2>2 DEF OneSteer
<1> QED BY <1>1, <1>2 DEF OneSteer

\* The accepted owner stays, ends or is forgotten.
OwnerFades(c, d) ==
    \/ d.owner = c.owner
    \/ d.owner.turn = NoTurn /\ d.owner.state = "none"
    \/ d.owner.turn = c.owner.turn /\ c.owner.turn # NoTurn /\ d.owner.state = "ended"

\* d differs from c in nothing that order and leases read, the end of an owner apart.
SameLease(c, d) ==
    /\ d.q.active = c.q.active /\ d.q.pending = c.q.pending
    /\ d.local = c.local /\ d.dispatching = c.dispatching /\ OwnerFades(c, d)
    /\ d.preflight = c.preflight /\ d.startReq = c.startReq /\ d.stage = c.stage
    /\ d.attempted = c.attempted /\ d.steerAdmitted = c.steerAdmitted
    /\ d.steerReq \in {c.steerReq, NoTurn} /\ Holds(c, d)
    /\ d.link = c.link
    /\ d.hydrated = c.hydrated \/ d.hydrated.turn = NoTurn

LEMMA SameLeaseOrders ==
    ASSUME NEW c, Orderly(c), NEW d, SameLease(c, d)
    PROVE  Orders(c, d)
<1>1. RetainedTurns(d) \subseteq RetainedTurns(c) /\ (OneSteer(c) => OneSteer(d))
    BY HoldsTurns DEF SameLease
<1>2. QueuedIds(d.q) = QueuedIds(c.q) /\ OneEach(d.q) = OneEach(c.q) /\ Unsent(d) = Unsent(c)
    BY DEF SameLease, QueuedIds, OneEach, Unsent
<1>3. Leased(d)
    BY DEF SameLease, OwnerFades, Orderly, Leased, Active, Linked
<1>4. Fifo(d)
    BY <1>1, <1>2, TurnsAssumption DEF SameLease, Orderly, Fifo, Active
<1>5. Startable(d) = Startable(c) /\ (Accepted(d) => Accepted(c) /\ d.startReq = c.startReq)
    BY <1>2 DEF SameLease, Startable, Accepted
<1> QED BY <1>3, <1>4, <1>5 DEF SameLease, Orders, Orderly

LEMMA InvalidateStartOrders ==
    ASSUME NEW c, WellFormed(c), Orderly(c)
    PROVE  Orders(c, InvalidateStart(c))
<1> DEFINE d == InvalidateStart(c)
<1>1. /\ d.q = c.q /\ d.local = c.local /\ d.dispatching = c.dispatching
      /\ d.owner = c.owner /\ d.preflight = c.preflight /\ d.startReq = NoTurn
      /\ d.stage = "none" /\ d.attempted = c.attempted /\ d.retained = c.retained
      /\ d.steerAdmitted = c.steerAdmitted /\ d.steerReq = c.steerReq
      /\ d.link = c.link /\ d.hydrated = c.hydrated
    BY DEF InvalidateStart, WellFormed, Controllers
<1>2. Unsent(d) \subseteq Unsent(c)
    BY InvalidateStartKeeps DEF Keeps
<1> HIDE DEF d
<1>3. Leased(d)
    BY <1>1 DEF Orderly, Leased, Active, Linked
<1>4. Fifo(d)
    BY <1>1, <1>2 DEF Orderly, Fifo, Active, RetainedTurns, OneSteer, Holds
<1>5. Startable(d) = Startable(c) /\ ~Accepted(d) /\ Holds(c, d)
    BY <1>1 DEF Startable, Accepted, Holds
<1> QED BY <1>1, <1>3, <1>4, <1>5 DEF Orders, Orderly, d

\* Starting the head of the queue: it gets the lease.
LEMMA StartTurnOrders ==
    ASSUME NEW c, WellFormed(c), Orderly(c), NEW t
    PROVE  Orders(c, StartTurn(c, t))
<1>1. CASE ~MayStart(c, t)
    BY <1>1, OrdersReflexive DEF StartTurn
<1>2. CASE MayStart(c, t)
  <2> DEFINE d == StartTurn(c, t)
  <2>1. /\ d.q = c.q /\ d.local = t /\ d.dispatching = t
        /\ d.owner = c.owner /\ d.preflight = t /\ d.startReq = t
        /\ d.stage = "preflight" /\ d.attempted = c.attempted \cup {t}
        /\ d.retained = c.retained /\ d.steerAdmitted = c.steerAdmitted
        /\ d.steerReq = c.steerReq /\ d.link = c.link /\ d.hydrated = c.hydrated
    BY <1>2 DEF StartTurn, WellFormed, Controllers
  <2>2. /\ t # NoTurn /\ t \notin c.attempted /\ Active(c) = t /\ c.steerReq = NoTurn
        /\ c.link = "ready"
    BY <1>2 DEF MayStart
  <2>3. Unsent(d) \subseteq Unsent(c)
    BY StartTurnKeeps DEF Keeps
  <2> HIDE DEF d
  <2>4. c.owner.turn # t /\ c.local = NoTurn /\ c.owner.state \notin {"running", "waiting"}
    BY <2>2 DEF Orderly, Leased
  <2>5. t \in Locals /\ t \notin Ids(c.q.pending) /\ t \notin RetainedTurns(c)
    BY <2>2 DEF Orderly, Fifo, OneEach, Active, QueuedIds
  <2>6. Leased(d)
    BY <2>1, <2>2, <2>4 DEF Orderly, Leased, Active, Linked
  <2>7. Fifo(d)
    BY <2>1, <2>2, <2>3, <2>5 DEF Orderly, Fifo, Active, RetainedTurns, OneSteer, Holds, OptLocal
  <2>8. Startable(d) \subseteq Startable(c) /\ ~Accepted(d) /\ Holds(c, d)
    BY <2>1, <2>2 DEF Startable, Accepted, Holds, QueuedIds, Active
  <2> QED BY <2>1, <2>6, <2>7, <2>8 DEF Orders, Orderly, d
<1> QED BY <1>1, <1>2

\* What a handler does that may also prove the start of t.
Observes(c, d, t) ==
    /\ Orderly(d)
    /\ Startable(d) \subseteq Startable(c)
    /\ Holds(c, d)
    /\ d.steerReq \in {c.steerReq, NoTurn}
    /\ Accepted(d) => d.startReq = t \/ (Accepted(c) /\ d.startReq = c.startReq)

\* The lease of a turn that is past its preflight becomes the accepted owner.
LEMMA AcceptLocalDispatchOrders ==
    ASSUME NEW c, WellFormed(c), Orderly(c), NEW t \in Turns,
           NEW state \in {"running", "ended"},
           c.stage = "preflight" => c.startReq # t
    PROVE  LET d == AcceptLocalDispatch(c, t, state)
           IN  /\ Observes(c, d, t) /\ d.q = c.q /\ d.attempted = c.attempted
               /\ d.stage = c.stage /\ d.startReq = c.startReq /\ d.hydrated = c.hydrated
               /\ d.link = c.link /\ d.retained = c.retained
               /\ d.steerUnknown = c.steerUnknown
               /\ Linked(c) => d.local # t
<1> DEFINE d == AcceptLocalDispatch(c, t, state)
<1>1. CASE c.local # t \/ ~Linked(c)
  <2>1. d = c
    BY <1>1 DEF AcceptLocalDispatch
  <2> QED BY <1>1, <2>1 DEF Observes, Holds
<1>2. CASE c.local = t /\ Linked(c)
  <2> DEFINE b == ClearRecoveryOf(c, t)
  <2>1. WellFormed(b)
    BY ClearRecoveryKeeps DEF Keeps
  <2>2. /\ b.q = c.q /\ b.local = c.local /\ b.dispatching = c.dispatching
        /\ b.preflight = c.preflight /\ b.startReq = c.startReq
        /\ b.stage = c.stage /\ b.attempted = c.attempted /\ b.retained = c.retained
        /\ b.steerAdmitted = c.steerAdmitted /\ b.steerReq = c.steerReq
        /\ b.link = c.link /\ b.hydrated = c.hydrated /\ b.steerUnknown = c.steerUnknown
    BY DEF ClearRecoveryOf, ClearRecovery, WellFormed, Controllers
  <2> HIDE DEF b
  <2>3. d = [b EXCEPT !.timedOut = Without(@, t),
                      !.owner = [turn |-> t, state |-> state],
                      !.preflight = Without(@, t),
                      !.local = NoTurn,
                      !.dispatching = Without(@, t)]
    BY <1>2, Zenon DEF AcceptLocalDispatch, b
  <2>4. /\ d.q = c.q /\ d.local = NoTurn /\ d.dispatching = Without(c.dispatching, t)
        /\ d.owner = [turn |-> t, state |-> state]
        /\ d.preflight = Without(c.preflight, t) /\ d.startReq = c.startReq
        /\ d.stage = c.stage /\ d.attempted = c.attempted /\ d.retained = c.retained
        /\ d.steerAdmitted = c.steerAdmitted /\ d.steerReq = c.steerReq
        /\ d.link = c.link /\ d.hydrated = c.hydrated /\ d.steerUnknown = c.steerUnknown
    BY <2>1, <2>2, <2>3 DEF WellFormed, Controllers
  <2>5. Unsent(d) \subseteq Unsent(c)
    BY AcceptLocalDispatchKeeps DEF Keeps
  <2>6. t # NoTurn /\ NoTurn \in OptLocal
    BY TurnsAssumption DEF Turns, OptLocal
  <2> HIDE DEF d
  <2>7. /\ c.dispatching = t /\ c.preflight \in {t, NoTurn} /\ c.stage # "preflight"
        /\ t = Active(c) /\ t \in c.attempted
    BY <1>2, <2>6 DEF Orderly, Leased
  <2>8. d.dispatching = NoTurn /\ d.preflight = NoTurn
    BY <2>4, <2>7 DEF Without
  <2>9. d.owner.turn = t /\ d.owner.state = state
    BY <2>4
  <2>10. Leased(d)
    BY <1>2, <2>4, <2>6, <2>7, <2>8, <2>9 DEF Leased, Active, Linked
  <2>11. Fifo(d)
    BY <2>4, <2>5, <2>6, <2>8 DEF Orderly, Fifo, Active, RetainedTurns, OneSteer, Holds
  <2>12. /\ Startable(d) \subseteq Startable(c) /\ Holds(c, d)
         /\ Accepted(d) => d.startReq = t \/ (Accepted(c) /\ d.startReq = c.startReq)
    BY <1>2, <2>4, <2>8 DEF Startable, Holds, Accepted
  <2> QED BY <2>4, <2>6, <2>10, <2>11, <2>12 DEF Observes, Orderly, d
<1> QED BY <1>1, <1>2

\* A turn that this client could not send: minted elsewhere, or already sent.
Sure(c, t) == t \in Turns /\ (t \in Locals => t \notin Unsent(c))

\* A foreground turn is installed over a head that was never attempted.
LEMMA AdoptForegroundOrders ==
    ASSUME NEW c, WellFormed(c), Orderly(c), NEW t, Sure(c, t), Active(c) \notin c.attempted
    PROVE  Orders(c, AdoptForeground(c, t)) /\ Active(AdoptForeground(c, t)) = t
<1> DEFINE d == AdoptForeground(c, t)
           e == ObservedTurn(t)
<1>1. e \in Entries /\ e.id = t /\ t \in Turns /\ t # NoTurn
    BY TurnsAssumption DEF ObservedTurn, Entries, Sure, Turns
<1>2. t \in Foreign \/ t \in c.attempted
    BY DEF Sure, Unsent, Turns
<1>3. t \notin Ids(c.q.pending) /\ t \notin RetainedTurns(c)
    BY <1>2, TurnsAssumption DEF Orderly, Fifo
<1>4. c.q \in Queues /\ OneEach(c.q)
    BY DEF WellFormed, Controllers, Orderly, Fifo
<1> HIDE DEF e
<1> DEFINE q == RestoreActive(c.q, e, TRUE)
<1>5. /\ OneEach(q) /\ q.active.id = t
      /\ Ids(q.pending) = Ids(c.q.pending) \cup ({Active(c)} \ {NoTurn, t})
    BY <1>1, <1>3, <1>4, RestoreActiveIds DEF Active
<1> HIDE DEF q
<1>6. d = [c EXCEPT !.attempted = @ \cup {t}, !.q = q]
    BY Zenon DEF AdoptForeground, q, e
<1>7. /\ d.q = q /\ d.local = c.local /\ d.dispatching = c.dispatching
      /\ d.owner = c.owner /\ d.preflight = c.preflight /\ d.startReq = c.startReq
      /\ d.stage = c.stage /\ d.attempted = c.attempted \cup {t} /\ d.retained = c.retained
      /\ d.steerAdmitted = c.steerAdmitted /\ d.steerReq = c.steerReq
      /\ d.link = c.link /\ d.hydrated = c.hydrated
    BY <1>6 DEF WellFormed, Controllers
<1>8. Unsent(d) \subseteq Unsent(c)
    BY <1>1, AdoptForegroundKeeps DEF Keeps
<1> HIDE DEF d
<1>9. c.local = NoTurn /\ c.owner.state \notin {"running", "waiting"} /\ c.preflight = NoTurn
    BY DEF Orderly, Leased
<1>10. Leased(d)
    BY <1>7, <1>9 DEF Orderly, Leased, Active, Linked
<1>11. QueuedIds(d.q) = QueuedIds(c.q) \cup {t}
    BY <1>1, <1>5, <1>7 DEF QueuedIds, Active
<1>12. Fifo(d)
  <2>1. Ids(d.q.pending) \subseteq Locals \ d.attempted
    BY <1>3, <1>5, <1>7 DEF Orderly, Fifo
  <2>2. RetainedTurns(d) = RetainedTurns(c)
    BY <1>7 DEF RetainedTurns
  <2>3. RetainedTurns(d) \cap (d.attempted \cup QueuedIds(d.q)) = {}
    BY <1>3, <1>7, <1>11, <2>2 DEF Orderly, Fifo
  <2>4. OneSteer(d)
    BY <1>7 DEF Orderly, Fifo, OneSteer, Holds
  <2> QED BY <1>5, <1>7, <1>8, <2>1, <2>2, <2>3, <2>4 DEF Orderly, Fifo, Active
<1>13. Startable(d) \subseteq Startable(c) /\ Holds(c, d) /\ (Accepted(d) <=> Accepted(c))
    BY <1>7, <1>11 DEF Startable, Holds, Accepted
<1> QED BY <1>5, <1>7, <1>10, <1>12, <1>13 DEF Orders, Orderly, Active, d

\* The interrupted prompt is given back.
LEMMA GiveBackInterruptedOrders ==
    ASSUME NEW c, WellFormed(c), Orderly(c), NEW t
    PROVE  /\ Orders(c, GiveBackInterrupted(c, t))
           /\ Active(GiveBackInterrupted(c, t)) = Active(c)
           /\ GiveBackInterrupted(c, t).attempted = c.attempted
<1> DEFINE d == GiveBackInterrupted(c, t)
           q == TakeInterruptPrompt(c.q, t)
<1>1. q.active = c.q.active /\ q.pending = c.q.pending
    BY StashIds DEF WellFormed, Controllers
<1> HIDE DEF q
<1>2. d = [c EXCEPT !.composer = IF c.q.stash = t THEN @ \cup {t} ELSE @, !.q = q]
    BY Zenon DEF GiveBackInterrupted, q
<1>3. /\ d.q = q /\ d.local = c.local /\ d.dispatching = c.dispatching
      /\ d.owner = c.owner /\ d.preflight = c.preflight /\ d.startReq = c.startReq
      /\ d.stage = c.stage /\ d.attempted = c.attempted /\ d.retained = c.retained
      /\ d.steerAdmitted = c.steerAdmitted /\ d.steerReq = c.steerReq
      /\ d.link = c.link /\ d.hydrated = c.hydrated
    BY <1>2 DEF WellFormed, Controllers
<1> HIDE DEF d
<1>4. SameLease(c, d)
    BY <1>1, <1>3 DEF SameLease, OwnerFades, Holds
<1>5. Active(d) = Active(c)
    BY <1>1, <1>3 DEF Active
<1> QED BY <1>3, <1>4, <1>5, SameLeaseOrders DEF d

\* d differs from c in its queue only, and its active turn is the one of c unless both
\* were never attempted.
Requeues(c, d) ==
    /\ Active(d) = Active(c) \/ {Active(c), Active(d)} \cap c.attempted = {}
    /\ d.link = c.link /\ d.attempted = c.attempted
    /\ d.preflight = c.preflight /\ d.startReq = c.startReq /\ d.stage = c.stage
    /\ d.local = c.local /\ d.recovery = c.recovery /\ d.lookup = c.lookup
    /\ d.hydrated = c.hydrated /\ d.receipts = c.receipts /\ d.retained = c.retained
    /\ d.steerReq = c.steerReq /\ d.steerOwner = c.steerOwner
    /\ d.steerUnknown = c.steerUnknown /\ d.composer = c.composer

LEMMA RequeueRequeues ==
    ASSUME NEW c, WellFormed(c), NEW q,
           q.active.id = Active(c) \/ {Active(c), q.active.id} \cap c.attempted = {}
    PROVE  Requeues(c, [c EXCEPT !.q = q])
<1> DEFINE d == [c EXCEPT !.q = q]
<1>1. /\ d.q = q /\ d.link = c.link /\ d.attempted = c.attempted
      /\ d.preflight = c.preflight /\ d.startReq = c.startReq /\ d.stage = c.stage
      /\ d.local = c.local /\ d.recovery = c.recovery /\ d.lookup = c.lookup
      /\ d.hydrated = c.hydrated /\ d.receipts = c.receipts /\ d.retained = c.retained
      /\ d.steerReq = c.steerReq /\ d.steerOwner = c.steerOwner
      /\ d.steerUnknown = c.steerUnknown /\ d.composer = c.composer
    BY DEF WellFormed, Controllers
<1> HIDE DEF d
<1> QED BY <1>1 DEF Requeues, Active, d

\* A new queue over the same prompts, when no lease and no running owner depends on
\* the active turn or the active turn stays.
LEMMA RequeueOrders ==
    ASSUME NEW c, WellFormed(c), Orderly(c), NEW q, OneEach(q), NEW new,
           Ids(q.pending) \subseteq Locals \ c.attempted,
           q.active.id \in c.attempted \cup Locals \cup {NoTurn},
           q.active.id = Active(c)
             \/ (c.local = NoTurn /\ c.owner.state \notin {"running", "waiting"}),
           RetainedTurns(c) \cap QueuedIds(q) = {},
           QueuedIds(q) \ c.attempted \subseteq Startable(c) \cup new
    PROVE  LET d == [c EXCEPT !.q = q]
           IN  /\ Orderly(d) /\ Startable(d) \subseteq Startable(c) \cup new
               /\ Holds(c, d) /\ d.steerReq = c.steerReq
               /\ d.attempted = c.attempted /\ Active(d) = q.active.id
               /\ d.stage = c.stage /\ d.startReq = c.startReq /\ d.local = c.local
               /\ Accepted(d) = Accepted(c) /\ RetainedTurns(d) = RetainedTurns(c)
<1> DEFINE d == [c EXCEPT !.q = q]
<1>1. /\ d.q = q /\ d.local = c.local /\ d.dispatching = c.dispatching
      /\ d.owner = c.owner /\ d.preflight = c.preflight /\ d.startReq = c.startReq
      /\ d.stage = c.stage /\ d.attempted = c.attempted /\ d.retained = c.retained
      /\ d.steerAdmitted = c.steerAdmitted /\ d.steerReq = c.steerReq
      /\ d.link = c.link /\ d.hydrated = c.hydrated
    BY DEF WellFormed, Controllers
<1> HIDE DEF d
<1>2. Unsent(d) = Unsent(c) /\ RetainedTurns(d) = RetainedTurns(c) /\ Holds(c, d)
    BY <1>1 DEF Unsent, RetainedTurns, Holds
<1>3. Leased(d)
    BY <1>1 DEF Orderly, Leased, Active, Linked
<1>4. Fifo(d)
    BY <1>1, <1>2 DEF Orderly, Fifo, Active, OneSteer
<1>5. Startable(d) \subseteq Startable(c) \cup new /\ Accepted(d) = Accepted(c)
    BY <1>1 DEF Startable, Accepted
<1> QED BY <1>1, <1>2, <1>3, <1>4, <1>5 DEF Orderly, Active, d

\* The active turn, which nothing holds any more, leaves the queue: the next head, if
\* there is one, was never attempted.
LEMMA SettleQueueOrders ==
    ASSUME NEW c, WellFormed(c), Orderly(c), NEW t, Active(c) = t,
           c.local = NoTurn, c.owner.state \notin {"running", "waiting"}
    PROVE  LET d == [c EXCEPT !.q = Settle(@, t)]
           IN  Orders(c, d) /\ Active(d) \notin d.attempted /\ WellFormed(d)
<1> DEFINE q == Settle(c.q, t)
           d == [c EXCEPT !.q = q]
<1>1. c.q \in Queues /\ OneEach(c.q) /\ c.q.active.id = t
    BY DEF WellFormed, Controllers, Orderly, Fifo, Active
<1>2. /\ OneEach(q) /\ (q.active.id # NoTurn => q.active.id \in Ids(c.q.pending))
      /\ Ids(c.q.pending) = Ids(q.pending) \cup ({q.active.id} \ {NoTurn})
      /\ q \in Queues
    BY <1>1, SettleIds, SettleType
<1> HIDE DEF q
<1>3. QueuedIds(q) = Ids(c.q.pending) /\ Ids(c.q.pending) \subseteq QueuedIds(c.q)
    BY <1>2 DEF QueuedIds
<1>4. /\ Ids(c.q.pending) \subseteq Locals \ c.attempted
      /\ RetainedTurns(c) \cap QueuedIds(c.q) = {}
    BY DEF Orderly, Fifo
<1>5. QueuedIds(q) \ c.attempted \subseteq Startable(c) \cup {}
    BY <1>3 DEF Startable
<1>6. /\ Orderly(d) /\ Startable(d) \subseteq Startable(c) \cup {}
      /\ Holds(c, d) /\ d.steerReq = c.steerReq
      /\ d.attempted = c.attempted /\ Active(d) = q.active.id
      /\ d.startReq = c.startReq /\ Accepted(d) = Accepted(c)
  <2>1. Ids(q.pending) \subseteq Locals \ c.attempted
    BY <1>2, <1>4
  <2>2. q.active.id \in c.attempted \cup Locals \cup {NoTurn}
    BY <1>2, <1>4
  <2>3. RetainedTurns(c) \cap QueuedIds(q) = {}
    BY <1>3, <1>4
  <2> QED BY <1>2, <1>5, <2>1, <2>2, <2>3, RequeueOrders
<1>7. NoTurn \notin c.attempted
    BY TurnsAssumption DEF WellFormed, Controllers, Turns
<1>8. WellFormed(d)
    BY <1>2, QueueUpdateKeeps DEF Keeps
<1>9. Orders(c, d) /\ Active(d) \notin d.attempted
    BY <1>2, <1>4, <1>6, <1>7 DEF Orders
<1> QED BY <1>8, <1>9 DEF q

\* Retiring the lease of t, seen with the start call already invalidated.
LEMMA RetireLocalDispatchOrders ==
    ASSUME NEW c, WellFormed(c), Orderly(InvalidateStart(c)), NEW t
    PROVE  LET i == InvalidateStart(c)
               r == RetireLocalDispatch(c, t)
               e == InvalidateStart(r)
           IN  /\ Orders(i, e) /\ r.q = c.q /\ r.owner = c.owner /\ r.hydrated = c.hydrated
               /\ r.attempted = c.attempted /\ r.link = c.link /\ r.retained = c.retained
               /\ Active(c) = t => r.local = NoTurn
               /\ c.local # t => r = c
<1> DEFINE i == InvalidateStart(c)
           r == RetireLocalDispatch(c, t)
           e == InvalidateStart(r)
<1>1. CASE c.local # t
  <2>1. r = c
    BY <1>1 DEF RetireLocalDispatch
  <2>2. i.local = c.local /\ i.q = c.q
    BY DEF InvalidateStart, WellFormed, Controllers
  <2>3. Active(c) = t => c.local = NoTurn
    BY <1>1, <2>2 DEF Orderly, Leased, Active
  <2> QED BY <1>1, <2>1, <2>3, OrdersReflexive
<1>2. CASE c.local = t
  <2>1. /\ r.q = c.q /\ r.local = NoTurn /\ r.dispatching = Without(c.dispatching, t)
        /\ r.owner = c.owner /\ r.preflight = Without(c.preflight, t)
        /\ r.attempted = c.attempted /\ r.retained = c.retained
        /\ r.steerAdmitted = c.steerAdmitted /\ r.steerReq = c.steerReq
        /\ r.link = c.link /\ r.hydrated = c.hydrated /\ r.steerOwner = c.steerOwner
    BY <1>2 DEF RetireLocalDispatch, WellFormed, Controllers
  <2>2. WellFormed(r) /\ WellFormed(e) /\ WellFormed(i)
    BY RetireLocalDispatchKeeps, InvalidateStartKeeps DEF Keeps
  <2>3. Keeps(i, e)
    <3>1. Unsent(e) \subseteq Unsent(i)
      <4>1. /\ e.attempted = r.attempted /\ e.preflight = r.preflight /\ e.stage = "none"
            /\ i.attempted = c.attempted /\ i.preflight = c.preflight /\ i.stage = "none"
        <5> HIDE DEF r
        <5> QED BY <2>2 DEF InvalidateStart, WellFormed, Controllers
      <4>2. r.preflight \in {c.preflight, NoTurn}
        BY <2>1 DEF Without
      <4> HIDE DEF e, i, r
      <4> QED BY <2>1, <4>1, <4>2, TurnsAssumption DEF Unsent, Turns
    <3>2. /\ e.link = i.link /\ e.steerAdmitted = i.steerAdmitted
          /\ e.steerOwner = i.steerOwner
      <4> HIDE DEF r
      <4> QED BY <2>1, <2>2 DEF InvalidateStart, WellFormed, Controllers
    <3> QED BY <2>2, <3>1, <3>2 DEF Keeps
  <2> HIDE DEF r
  <2>4. /\ e.q = r.q /\ e.local = r.local /\ e.dispatching = r.dispatching
        /\ e.owner = r.owner /\ e.preflight = r.preflight /\ e.stage = "none"
        /\ e.attempted = r.attempted /\ e.retained = r.retained
        /\ e.steerAdmitted = r.steerAdmitted /\ e.steerReq = r.steerReq
        /\ e.link = r.link /\ e.hydrated = r.hydrated
    BY <2>2 DEF InvalidateStart, WellFormed, Controllers
  <2>5. /\ i.q = c.q /\ i.local = c.local /\ i.dispatching = c.dispatching
        /\ i.owner = c.owner /\ i.preflight = c.preflight /\ i.stage = "none"
        /\ i.attempted = c.attempted /\ i.retained = c.retained
        /\ i.steerAdmitted = c.steerAdmitted /\ i.steerReq = c.steerReq
        /\ i.link = c.link /\ i.hydrated = c.hydrated
    BY DEF InvalidateStart, WellFormed, Controllers
  <2>o. Orderly(i)
    OBVIOUS
  <2> HIDE DEF e, i
  <2>6. e.dispatching = NoTurn /\ e.preflight = NoTurn
    BY <1>2, <2>1, <2>4, <2>5, <2>o DEF Orderly, Leased, Without
  <2>7. Leased(e)
    BY <2>o, <2>1, <2>4, <2>5, <2>6 DEF Orderly, Leased, Active, Linked
  <2>8. Fifo(e)
    BY <2>o, <2>1, <2>3, <2>4, <2>5, <2>6 DEF Keeps, Orderly, Fifo, Active, RetainedTurns, OneSteer, Holds, OptLocal
  <2>9. Startable(e) \subseteq Startable(i) /\ Holds(i, e) /\ ~Accepted(e)
    BY <2>1, <2>4, <2>5, <2>6 DEF Startable, Holds, Accepted
  <2> QED BY <1>2, <2>1, <2>4, <2>5, <2>7, <2>8, <2>9 DEF Orders, Orderly, e, i, r
<1> QED BY <1>1, <1>2

\* releaseQueueTurn, once nothing holds the turn.
LEMMA ReleaseQueueTurnOrders ==
    ASSUME NEW c, WellFormed(c), NEW t \in Turns, Active(c) = t,
           Orderly(InvalidateStart(c)),
           c.local = NoTurn, c.owner.state \notin {"running", "waiting"}
    PROVE  Orders(InvalidateStart(c), ReleaseQueueTurn(c, t))
<1> DEFINE other == c.hydrated
           inv == InvalidateStart(c)
           s == [inv EXCEPT !.q = Settle(@, t)]
           quiet == [inv EXCEPT !.interruptReq = NoTurn, !.q = Settle(@, t)]
<1>1. WellFormed(inv)
    BY InvalidateStartKeeps DEF Keeps
<1>2. /\ inv.q = c.q /\ inv.local = c.local /\ inv.owner = c.owner
      /\ inv.hydrated = c.hydrated
    BY DEF InvalidateStart, WellFormed, Controllers
<1> HIDE DEF inv
<1>3. Orders(inv, s) /\ Active(s) \notin s.attempted /\ WellFormed(s)
    BY <1>1, <1>2, SettleQueueOrders DEF Active, inv
<1>4. SameLease(s, quiet) /\ quiet.attempted = s.attempted /\ Active(quiet) = Active(s)
      /\ quiet.hydrated = c.hydrated /\ quiet.q = s.q
    BY <1>1, <1>2 DEF SameLease, OwnerFades, Active, Holds, WellFormed, Controllers
<1>5. WellFormed(quiet)
  <2>1. quiet = [s EXCEPT !.interruptReq = NoTurn]
    BY <1>1 DEF WellFormed, Controllers
  <2> HIDE DEF s, quiet
  <2>2. quiet \in Controllers
    BY <1>3, <2>1, NullTypes DEF WellFormed, Controllers
  <2> QED BY <1>3, <2>1, <2>2 DEF WellFormed, Controllers
<1> HIDE DEF s, quiet
<1>6. Orders(inv, quiet) /\ Orderly(quiet) /\ Active(quiet) \notin quiet.attempted
    BY <1>3, <1>4, SameLeaseOrders, OrdersTransitive DEF Orders
<1>7. other.turn \in OptTurn
    BY DEF WellFormed, Controllers, HydratedTurns
<1>8. CASE other.turn # NoTurn /\ other.turn # t
  <2> DEFINE adopted == AdoptForeground(quiet, other.turn)
             i == IF other.state = "interrupting" THEN other.turn ELSE NoTurn
             d == [adopted EXCEPT !.interrupting = i]
  <2>1. Sure(quiet, other.turn)
    BY <1>4, <1>6, <1>7, <1>8 DEF Sure, OptTurn, Orderly, Fifo
  <2>2. Orders(quiet, adopted) /\ WellFormed(adopted)
    BY <1>5, <1>6, <2>1, AdoptForegroundOrders, AdoptForegroundKeeps DEF Keeps, Sure
  <2>3. i \in OptTurn
    BY <1>7, NullTypes
  <2> HIDE DEF adopted, i
  <2>4. d \in Controllers
    BY <2>2, <2>3 DEF WellFormed, Controllers
  <2>5. WellFormed(d) /\ SameLease(adopted, d)
    BY <2>2, <2>4 DEF WellFormed, Controllers, SameLease, OwnerFades, Holds
  <2> HIDE DEF d
  <2>6. Orders(adopted, d) /\ Orderly(d)
    BY <2>2, <2>5, SameLeaseOrders DEF Orders
  <2>7. Orders(d, GiveBackInterrupted(d, t))
    BY <2>5, <2>6, GiveBackInterruptedOrders
  <2>8. ReleaseQueueTurn(c, t) = GiveBackInterrupted(d, t)
    BY <1>8, Zenon DEF ReleaseQueueTurn, quiet, inv, adopted, i, d
  <2> QED BY <1>6, <2>2, <2>6, <2>7, <2>8, OrdersTransitive DEF inv
<1>9. CASE other.turn = NoTurn \/ other.turn = t
  <2> DEFINE e == [quiet EXCEPT !.interrupting = Without(@, t)]
             d == GiveBackInterrupted(e, t)
  <2>1. Without(quiet.interrupting, t) \in OptTurn
    BY <1>5, WithoutType DEF WellFormed, Controllers
  <2>2. e \in Controllers
    BY <1>5, <2>1 DEF WellFormed, Controllers
  <2>3. WellFormed(e) /\ SameLease(quiet, e)
    BY <1>5, <2>2 DEF WellFormed, Controllers, SameLease, OwnerFades, Holds
  <2> HIDE DEF e
  <2>4. Orders(quiet, e) /\ Orderly(e)
    BY <1>6, <2>3, SameLeaseOrders DEF Orders
  <2>5. Orders(e, d) /\ Orderly(d) /\ WellFormed(d)
    BY <2>3, <2>4, GiveBackInterruptedOrders, GiveBackInterruptedKeeps DEF Orders, Keeps
  <2>6. Orders(d, StartTurn(d, Active(d)))
    BY <2>5, StartTurnOrders
  <2>7. ReleaseQueueTurn(c, t) = StartTurn(d, Active(d))
    BY <1>9, Zenon DEF ReleaseQueueTurn, quiet, inv, e
  <2> QED BY <1>6, <2>4, <2>5, <2>6, <2>7, OrdersTransitive DEF inv
<1> QED BY <1>8, <1>9

\* A proof of acceptance followed by the end of the start call.
LEMMA ObservesInvalidate ==
    ASSUME NEW c, NEW d, NEW t, Observes(c, d, t), WellFormed(d)
    PROVE  Orders(c, InvalidateStart(d))
<1>1. Orders(d, InvalidateStart(d)) /\ ~Accepted(InvalidateStart(d))
  <2>1. InvalidateStart(d).stage = "none"
    BY DEF InvalidateStart, WellFormed, Controllers
  <2> QED BY <2>1, InvalidateStartOrders DEF Observes, Accepted
<1> QED BY <1>1, HoldsTransitive DEF Orders, Observes

\* settleTurn from c up to the release of the lease, which it does in d.
Settling(c, d, t) ==
    /\ WellFormed(d)
    /\ d.q = c.q /\ d.local = c.local /\ d.dispatching = c.dispatching
    /\ d.preflight = c.preflight /\ d.startReq = c.startReq /\ d.stage = c.stage
    /\ d.attempted = c.attempted /\ d.steerAdmitted = c.steerAdmitted
    /\ d.steerReq = c.steerReq /\ d.link = c.link
    /\ Holds(c, d) /\ OwnerFades(c, d)
    /\ c.owner.turn = t => d.owner.state = "ended"
    /\ d.hydrated = c.hydrated \/ d.hydrated.turn = NoTurn
    /\ d.hydrated = (IF c.hydrated.turn = t THEN NoHydrated ELSE c.hydrated)
    /\ d.recovery = (IF c.recovery.turn = t THEN NoRecovery ELSE c.recovery)
    /\ d.lookup = (IF c.recovery.turn = t THEN NoTurn ELSE c.lookup)
    /\ d.receipts = AddReceipt(c.receipts, t)
    /\ d.retained = (IF c.steerReq = NoTurn THEN DropSteersOf(c.retained, t) ELSE c.retained)
    /\ d.steerOwner = c.steerOwner /\ d.steerUnknown = c.steerUnknown /\ d.composer = c.composer
    /\ SettleTurn(c, t) = ReleaseQueueTurn(RetireLocalDispatch(d, t), t)

LEMMA SettlePrefix ==
    ASSUME NEW c, WellFormed(c), NEW t \in Turns
    PROVE  \E d : Settling(c, d, t)
<1> DEFINE b == ClearRecoveryOf(c, t)
           h == IF b.hydrated.turn = t THEN NoHydrated ELSE b.hydrated
           w == Without(b.timedOut, t)
           a == AddReceipt(b.receipts, t)
           s == IF c.steerReq = NoTurn THEN DropSteersOf(b.retained, t) ELSE b.retained
           o == IF b.owner.turn = t THEN [b.owner EXCEPT !.state = "ended"] ELSE b.owner
           d == [b EXCEPT !.hydrated = h, !.timedOut = w, !.receipts = a,
                          !.retained = s, !.owner = o]
<1>1. WellFormed(b)
    BY ClearRecoveryKeeps DEF Keeps
<1>2. /\ b.q = c.q /\ b.local = c.local /\ b.dispatching = c.dispatching
      /\ b.preflight = c.preflight /\ b.startReq = c.startReq
      /\ b.stage = c.stage /\ b.attempted = c.attempted /\ b.retained = c.retained
      /\ b.steerAdmitted = c.steerAdmitted /\ b.steerReq = c.steerReq
      /\ b.link = c.link /\ b.hydrated = c.hydrated /\ b.owner = c.owner
      /\ b.steerOwner = c.steerOwner /\ b.steerUnknown = c.steerUnknown
      /\ b.composer = c.composer /\ b.receipts = c.receipts
      /\ b.recovery = (IF c.recovery.turn = t THEN NoRecovery ELSE c.recovery)
      /\ b.lookup = (IF c.recovery.turn = t THEN NoTurn ELSE c.lookup)
    BY DEF ClearRecoveryOf, ClearRecovery, WellFormed, Controllers
<1> HIDE DEF b
<1>3. SettleTurn(c, t) = ReleaseQueueTurn(RetireLocalDispatch(d, t), t)
    BY Zenon DEF SettleTurn, b
<1>4. /\ h \in HydratedTurns /\ w \in OptTurn /\ a \in Seq(Turns) /\ s \in SUBSET Steers
      /\ s \subseteq c.retained /\ o \in Owners
  <2>1. /\ b.hydrated \in HydratedTurns /\ b.timedOut \in OptTurn /\ b.receipts \in Seq(Turns)
        /\ b.retained \in SUBSET Steers /\ b.owner \in Owners
    BY <1>1 DEF WellFormed, Controllers
  <2>2. a \in Seq(Turns)
    BY <2>1, AddReceiptType
  <2>3. w \in OptTurn
    BY <2>1, WithoutType
  <2>4. o \in Owners
    BY <2>1 DEF Owners
  <2> QED BY <1>2, <2>1, <2>2, <2>3, <2>4, NullTypes DEF DropSteersOf
<1>5. /\ h = c.hydrated \/ h.turn = NoTurn
      /\ h = (IF c.hydrated.turn = t THEN NoHydrated ELSE c.hydrated)
      /\ a = AddReceipt(c.receipts, t)
      /\ s = (IF c.steerReq = NoTurn THEN DropSteersOf(c.retained, t) ELSE c.retained)
      /\ o = c.owner \/ (o.turn = c.owner.turn /\ c.owner.turn # NoTurn /\ o.state = "ended")
      /\ c.owner.turn = t => o.state = "ended"
  <2>1. c.owner \in Owners /\ t # NoTurn /\ NoHydrated.turn = NoTurn
    BY TurnsAssumption DEF WellFormed, Controllers, NoHydrated, Turns
  <2> QED BY <1>2, <2>1 DEF Owners
<1> HIDE DEF h, w, a, s, o
<1>6. d \in Controllers
    BY <1>1, <1>4 DEF WellFormed, Controllers
<1>7. /\ d.q = c.q /\ d.local = c.local /\ d.dispatching = c.dispatching
      /\ d.preflight = c.preflight /\ d.startReq = c.startReq /\ d.stage = c.stage
      /\ d.attempted = c.attempted /\ d.steerAdmitted = c.steerAdmitted
      /\ d.steerReq = c.steerReq /\ d.link = c.link /\ d.retained = s
      /\ d.owner = o /\ d.hydrated = h /\ d.steerOwner = c.steerOwner
      /\ d.recovery = b.recovery /\ d.lookup = b.lookup /\ d.receipts = a
      /\ d.steerUnknown = c.steerUnknown /\ d.composer = c.composer
    BY <1>1, <1>2 DEF WellFormed, Controllers
<1>8. WellFormed(d)
    BY <1>6, <1>7 DEF WellFormed
<1>9. Holds(c, d) /\ OwnerFades(c, d)
    BY <1>4, <1>5, <1>7 DEF Holds, OwnerFades
<1> HIDE DEF d
<1>10. Settling(c, d, t)
    BY <1>2, <1>3, <1>5, <1>7, <1>8, <1>9 DEF Settling
<1> QED BY <1>10

\* SameLease survives the end of the start call on both sides.
LEMMA SameLeaseInvalidate ==
    ASSUME NEW c, WellFormed(c), NEW d, WellFormed(d),
           d.q.active = c.q.active, d.q.pending = c.q.pending,
           d.local = c.local, d.dispatching = c.dispatching, OwnerFades(c, d),
           d.preflight = c.preflight, d.attempted = c.attempted,
           d.steerAdmitted = c.steerAdmitted, d.steerReq \in {c.steerReq, NoTurn},
           Holds(c, d), d.link = c.link,
           d.hydrated = c.hydrated \/ d.hydrated.turn = NoTurn
    PROVE  SameLease(InvalidateStart(c), InvalidateStart(d))
<1> DEFINE i == InvalidateStart(c)
           j == InvalidateStart(d)
<1>1. /\ i.q = c.q /\ i.local = c.local /\ i.dispatching = c.dispatching
      /\ i.owner = c.owner /\ i.preflight = c.preflight /\ i.startReq = NoTurn
      /\ i.stage = "none" /\ i.attempted = c.attempted /\ i.retained = c.retained
      /\ i.steerAdmitted = c.steerAdmitted /\ i.steerReq = c.steerReq
      /\ i.link = c.link /\ i.hydrated = c.hydrated
    BY DEF InvalidateStart, WellFormed, Controllers
<1>2. /\ j.q = d.q /\ j.local = d.local /\ j.dispatching = d.dispatching
      /\ j.owner = d.owner /\ j.preflight = d.preflight /\ j.startReq = NoTurn
      /\ j.stage = "none" /\ j.attempted = d.attempted /\ j.retained = d.retained
      /\ j.steerAdmitted = d.steerAdmitted /\ j.steerReq = d.steerReq
      /\ j.link = d.link /\ j.hydrated = d.hydrated
    BY DEF InvalidateStart, WellFormed, Controllers
<1> HIDE DEF i, j
<1>3. Holds(i, j) /\ OwnerFades(i, j)
    BY <1>1, <1>2 DEF Holds, OwnerFades
<1>4. SameLease(i, j)
    BY <1>1, <1>2, <1>3 DEF SameLease
<1> QED BY <1>4 DEF i, j

\* The terminal of the active turn.
LEMMA SettleActiveOrders ==
    ASSUME NEW c, WellFormed(c), NEW t \in Turns, Active(c) = t, Orderly(InvalidateStart(c))
    PROVE  Orders(InvalidateStart(c), SettleTurn(c, t))
<1>1. PICK d : Settling(c, d, t)
    BY SettlePrefix
<1> DEFINE i == InvalidateStart(c)
           j == InvalidateStart(d)
           r == RetireLocalDispatch(d, t)
<1>2. Orders(i, j) /\ Orderly(j)
    BY <1>1, SameLeaseInvalidate, SameLeaseOrders DEF Orders, Settling
<1>3. d.owner.state \notin {"running", "waiting"}
  <2>1. i.owner = c.owner /\ i.q = c.q
    BY DEF InvalidateStart, WellFormed, Controllers
  <2>2. i.owner.state \in {"running", "waiting"} => i.owner.turn = Active(i)
    BY DEF Orderly, Leased
  <2> HIDE DEF i
  <2>3. c.owner.state \in {"running", "waiting"} => c.owner.turn = t
    BY <2>1, <2>2 DEF Active
  <2> QED BY <1>1, <2>3 DEF OwnerFades, Settling
<1>4. Active(d) = t
    BY <1>1 DEF Active, Settling
<1>5. /\ Orders(j, InvalidateStart(r)) /\ r.q = d.q /\ r.owner = d.owner /\ r.local = NoTurn
      /\ WellFormed(r)
    BY <1>1, <1>2, <1>4, RetireLocalDispatchOrders, RetireLocalDispatchKeeps DEF Keeps, Settling
<1> HIDE DEF i, j, r
<1>6. Active(r) = t /\ Orderly(InvalidateStart(r))
    BY <1>4, <1>5 DEF Active, Orders
<1>7. Orders(InvalidateStart(r), ReleaseQueueTurn(r, t))
    BY <1>3, <1>5, <1>6, ReleaseQueueTurnOrders
<1>8. Orders(i, ReleaseQueueTurn(r, t))
    BY <1>2, <1>5, <1>7, OrdersTransitive
<1> QED BY <1>1, <1>8 DEF i, r, Settling

\* The terminal of a turn that is not at the head of the queue.
LEMMA SettleOtherOrders ==
    ASSUME NEW c, WellFormed(c), NEW t \in Turns, Active(c) # t, Orderly(c)
    PROVE  Orders(c, SettleTurn(c, t))
<1>1. PICK d : Settling(c, d, t)
    BY SettlePrefix
<1>2. Orders(c, d)
    BY <1>1, SameLeaseOrders DEF SameLease, Settling
<1>3. d.local # t /\ Active(d) # t
    BY <1>1, TurnsAssumption DEF Orderly, Leased, Active, Turns, Settling
<1>4. SettleTurn(c, t) = d
    BY <1>1, <1>3 DEF RetireLocalDispatch, ReleaseQueueTurn, Settling
<1> QED BY <1>2, <1>4

\* The terminal of any turn of an orderly controller.
LEMMA SettleTurnOrders ==
    ASSUME NEW c, WellFormed(c), NEW t \in Turns, Orderly(c)
    PROVE  Orders(c, SettleTurn(c, t))
<1>1. Orders(c, InvalidateStart(c)) /\ Orderly(InvalidateStart(c))
    BY InvalidateStartOrders DEF Orders
<1>2. CASE Active(c) = t
    BY <1>1, <1>2, SettleActiveOrders, OrdersTransitive
<1> QED BY <1>2, SettleOtherOrders
-----------------------------------------------------------------------------
(* startTurn after its awaits *)

LEMMA StartRefusedOrders ==
    ASSUME NEW c, WellFormed(c), Orderly(c), NEW t \in Turns, Active(c) = t
    PROVE  Orders(c, StartRefused(c, t)) /\ Orders(c, SettleTurn(RetireLocalDispatch(c, t), t))
<1> DEFINE i == InvalidateStart(c)
           r == RetireLocalDispatch(c, t)
           e == [r EXCEPT !.composer = @ \cup {t}]
<1>1. Orders(c, i) /\ Orderly(i)
    BY InvalidateStartOrders DEF Orders
<1>2. Orders(i, InvalidateStart(r)) /\ Orderly(InvalidateStart(r)) /\ r.q = c.q /\ WellFormed(r)
    BY <1>1, RetireLocalDispatchOrders, RetireLocalDispatchKeeps DEF Keeps, Orders
<1> HIDE DEF r
<1>3. e \in Controllers
    BY <1>2 DEF WellFormed, Controllers
<1>4. WellFormed(e)
    BY <1>2, <1>3 DEF WellFormed, Controllers
<1>5. e.q = r.q /\ SameLease(InvalidateStart(r), InvalidateStart(e))
  <2>1. /\ e.q = r.q /\ e.local = r.local /\ e.dispatching = r.dispatching
        /\ e.owner = r.owner /\ e.preflight = r.preflight /\ e.attempted = r.attempted
        /\ e.steerAdmitted = r.steerAdmitted /\ e.steerReq = r.steerReq
        /\ e.link = r.link /\ e.hydrated = r.hydrated /\ e.retained = r.retained
    BY <1>2 DEF WellFormed, Controllers
  <2>2. Holds(r, e) /\ OwnerFades(r, e)
    BY <2>1 DEF Holds, OwnerFades
  <2> HIDE DEF e
  <2> QED BY <1>2, <1>4, <2>1, <2>2, SameLeaseInvalidate
<1> HIDE DEF e, i
<1>6. Orders(InvalidateStart(r), InvalidateStart(e)) /\ Orderly(InvalidateStart(e))
    BY <1>2, <1>5, SameLeaseOrders DEF Orders
<1>7. Active(r) = t /\ Active(e) = t
    BY <1>2, <1>5 DEF Active
<1>8. /\ Orders(InvalidateStart(r), SettleTurn(r, t))
      /\ Orders(InvalidateStart(e), SettleTurn(e, t))
    BY <1>2, <1>4, <1>6, <1>7, SettleActiveOrders
<1>9. Orders(c, SettleTurn(r, t)) /\ Orders(c, SettleTurn(e, t))
    BY <1>1, <1>2, <1>6, <1>8, OrdersTransitive
<1>10. StartRefused(c, t) \in {SettleTurn(r, t), SettleTurn(e, t)}
    BY Zenon DEF StartRefused, r, e
<1> QED BY <1>9, <1>10 DEF r

\* A preflight that ends on a record that is no longer ready: a prompt may be started
\* again, as before.
LEMMA PreflightNotReadyOrders ==
    ASSUME NEW c, WellFormed(c), Orderly(c), NEW t \in Locals, Active(c) = t,
           c.startReq = t, c.stage = "preflight"
    PROVE  Orders(c, PreflightNotReady(c, t))
<1>0. t \in Turns /\ t # NoTurn
    BY TurnsAssumption DEF Turns
<1>1. CASE t \in Reviews
    BY <1>0, <1>1, StartRefusedOrders DEF PreflightNotReady
<1>2. CASE t \notin Reviews
  <2> DEFINE a == [c EXCEPT !.attempted = @ \ {t}, !.preflight = NoTurn]
             r == RetireLocalDispatch(a, t)
             d == PreflightNotReady(c, t)
  <2>1. c.local = t /\ c.preflight = t /\ c.dispatching = t /\ c.owner.turn # t
    BY <1>0 DEF Orderly, Leased
  <2>2. /\ a.q = c.q /\ a.local = t /\ a.dispatching = t /\ a.owner = c.owner
        /\ a.preflight = NoTurn /\ a.attempted = c.attempted \ {t}
        /\ a.retained = c.retained /\ a.steerAdmitted = c.steerAdmitted
        /\ a.steerReq = c.steerReq /\ a.link = c.link /\ a.hydrated = c.hydrated
        /\ a \in Controllers
    BY <2>1, NullTypes DEF WellFormed, Controllers
  <2> HIDE DEF a
  <2>3. /\ r.q = a.q /\ r.local = NoTurn /\ r.dispatching = NoTurn /\ r.owner = a.owner
        /\ r.preflight = NoTurn /\ r.attempted = a.attempted
        /\ r.retained = a.retained /\ r.steerAdmitted = a.steerAdmitted
        /\ r.steerReq = a.steerReq /\ r.link = a.link /\ r.hydrated = a.hydrated
        /\ r \in Controllers
    BY <2>2, NullTypes DEF RetireLocalDispatch, Without, Controllers
  <2> HIDE DEF r
  <2>4. d = InvalidateStart(r)
    BY <1>2, Zenon DEF PreflightNotReady, a, r
  <2>5. /\ d.q = c.q /\ d.local = NoTurn /\ d.dispatching = NoTurn /\ d.owner = c.owner
        /\ d.preflight = NoTurn /\ d.attempted = c.attempted \ {t}
        /\ d.retained = c.retained /\ d.steerAdmitted = c.steerAdmitted
        /\ d.steerReq = c.steerReq /\ d.link = c.link /\ d.hydrated = c.hydrated
        /\ d.stage = "none"
    BY <2>2, <2>3, <2>4 DEF InvalidateStart, Controllers
  <2>6. Unsent(d) \subseteq Unsent(c)
    BY <1>0, PreflightNotReadyKeeps DEF Keeps
  <2> HIDE DEF d
  <2>7. Leased(d)
    BY <2>1, <2>5 DEF Orderly, Leased, Active, Linked
  <2>8. Fifo(d)
    BY <2>5, <2>6 DEF Orderly, Fifo, Active, RetainedTurns, OneSteer, Holds, OptLocal
  <2>9. Startable(d) \subseteq Startable(c) /\ Holds(c, d) /\ ~Accepted(d)
    BY <1>0, <2>1, <2>5 DEF Startable, Holds, Accepted
  <2> QED BY <2>5, <2>7, <2>8, <2>9 DEF Orders, Orderly, d
<1> QED BY <1>1, <1>2

\* The frame is written: the turn is no longer startable.
LEMMA MarkSentOrders ==
    ASSUME NEW c, WellFormed(c), Orderly(c), NEW t \in Turns, c.startReq = t,
           c.stage = "preflight"
    PROVE  LET d == MarkSent(c, t)
           IN  /\ Orders(c, d) /\ t \notin Startable(d) /\ d.q = c.q
               /\ d.retained = c.retained /\ d.link = c.link /\ ~Accepted(d)
<1> DEFINE d == MarkSent(c, t)
<1>1. /\ d.q = c.q /\ d.local = c.local /\ d.dispatching = c.dispatching
      /\ d.owner = c.owner /\ d.preflight = NoTurn /\ d.startReq = t
      /\ d.stage = "wire" /\ d.attempted = c.attempted /\ d.retained = c.retained
      /\ d.steerAdmitted = c.steerAdmitted /\ d.steerReq = c.steerReq
      /\ d.link = c.link /\ d.hydrated = c.hydrated
    BY DEF MarkSent, WellFormed, Controllers
<1>2. Unsent(d) \subseteq Unsent(c)
    BY MarkSentKeeps DEF Keeps
<1> HIDE DEF d
<1>3. Leased(d)
    BY <1>1 DEF Orderly, Leased, Active, Linked
<1>4. Fifo(d)
    BY <1>1, <1>2 DEF Orderly, Fifo, Active, RetainedTurns, OneSteer, Holds, OptLocal
<1>5. /\ Startable(d) \subseteq Startable(c) /\ Holds(c, d) /\ ~Accepted(d)
      /\ t \notin Startable(d)
  <2>1. c.local = t /\ t \in c.attempted /\ t # NoTurn
    BY TurnsAssumption DEF Orderly, Leased, WellFormed, Turns
  <2> QED BY <1>1, <2>1 DEF Startable, Holds, Accepted
<1> QED BY <1>1, <1>3, <1>4, <1>5 DEF Orders, Orderly, d

LEMMA StartAckedOrders ==
    ASSUME NEW c, WellFormed(c), Orderly(c), NEW t \in Turns, c.stage = "wire"
    PROVE  Orders(c, StartAcked(c, t))
<1> DEFINE d == AcceptLocalDispatch(c, t, "running")
<1>1. Observes(c, d, t) /\ WellFormed(d)
    BY AcceptLocalDispatchOrders, AcceptLocalDispatchKeeps DEF Keeps
<1>2. Orders(c, InvalidateStart(d)) /\ Orders(c, InvalidateStart(c))
    BY <1>1, ObservesInvalidate, InvalidateStartOrders
<1> QED BY <1>2 DEF StartAcked

LEMMA StartUnconfirmedOrders ==
    ASSUME NEW c, WellFormed(c), Orderly(c), NEW t \in Turns
    PROVE  Orders(c, StartUnconfirmed(c, t))
<1> DEFINE d == [c EXCEPT !.timedOut = t]
<1>1. WellFormed(d)
  <2>1. d \in Controllers
    BY NullTypes DEF WellFormed, Controllers
  <2> QED BY <2>1 DEF WellFormed, Controllers
<1>2. SameLease(c, d)
    BY DEF SameLease, OwnerFades, Holds, WellFormed, Controllers
<1> HIDE DEF d
<1>3. Orders(c, d) /\ Orders(d, InvalidateStart(d)) /\ Orders(c, InvalidateStart(c))
    BY <1>1, <1>2, SameLeaseOrders, InvalidateStartOrders DEF Orders
<1>4. Orders(c, InvalidateStart(d))
    BY <1>3, OrdersTransitive
<1> QED BY <1>3, <1>4 DEF StartUnconfirmed, d

LEMMA StartRejectedOrders ==
    ASSUME NEW c, WellFormed(c), Orderly(c), NEW t \in Turns
    PROVE  Orders(c, StartRejected(c, t))
BY StartRefusedOrders, InvalidateStartOrders DEF StartRejected, StartCurrent

\* turn_in_progress, answered to a start that nothing proved accepted.
LEMMA StartCollidedOrders ==
    ASSUME NEW c, WellFormed(c), Orderly(c), NEW t \in Turns, Active(c) = t, c.local = t,
           NEW f, Sure(c, f)
    PROVE  Orders(c, StartCollided(c, t, f))
<1> DEFINE i == InvalidateStart(c)
           r == RetireLocalDispatch(c, t)
           e == InvalidateStart(r)
           s == [e EXCEPT !.q = Settle(@, t)]
           d == [e EXCEPT !.q = Settle(@, t), !.composer = @ \cup {t}]
<1>1. Orders(c, i) /\ Orderly(i)
    BY InvalidateStartOrders DEF Orders
<1>2. /\ Orders(i, e) /\ r.q = c.q /\ r.owner = c.owner /\ r.local = NoTurn /\ WellFormed(r)
      /\ Keeps(c, r)
    BY <1>1, RetireLocalDispatchOrders, RetireLocalDispatchKeeps DEF Keeps
<1>3. WellFormed(e) /\ Keeps(r, e)
    BY <1>2, InvalidateStartKeeps DEF Keeps
<1> HIDE DEF r
<1>4. e.q = c.q /\ e.owner = c.owner /\ e.local = NoTurn
    BY <1>2 DEF InvalidateStart, WellFormed, Controllers
<1> HIDE DEF e, i
<1>5. e.owner.state \notin {"running", "waiting"} /\ Orderly(e) /\ Active(e) = t
    BY <1>2, <1>4, TurnsAssumption DEF Orderly, Leased, Orders, Active, Turns
<1>6. Orders(e, s) /\ Active(s) \notin s.attempted /\ WellFormed(s)
    BY <1>3, <1>4, <1>5, SettleQueueOrders
<1>7. /\ d = [s EXCEPT !.composer = @ \cup {t}]
      /\ s.attempted = e.attempted /\ s.preflight = e.preflight /\ s.startReq = e.startReq
      /\ s.stage = e.stage
    BY <1>3 DEF WellFormed, Controllers
<1> HIDE DEF s, d
<1>8. d \in Controllers /\ SameLease(s, d) /\ d.attempted = s.attempted /\ Active(d) = Active(s)
      /\ d.preflight = s.preflight
    BY <1>6, <1>7 DEF WellFormed, Controllers, SameLease, OwnerFades, Holds, Active
<1>9. WellFormed(d)
    BY <1>6, <1>7, <1>8 DEF WellFormed, Controllers
<1>10. Orders(c, d) /\ Orderly(d)
    BY <1>1, <1>2, <1>6, <1>8, SameLeaseOrders, OrdersTransitive DEF Orders
<1>11. Unsent(d) \subseteq Unsent(c)
    BY <1>2, <1>3, <1>7, <1>8 DEF Keeps, Unsent, SameLease
<1>12. Sure(d, f)
    BY <1>11 DEF Sure
<1>13. /\ Orders(d, StartTurn(d, Active(d)))
       /\ Orders(d, AdoptForeground(d, f))
    BY <1>6, <1>8, <1>9, <1>10, <1>12, StartTurnOrders, AdoptForegroundOrders
<1>14. StartCollided(c, t, f) \in {StartTurn(d, Active(d)), AdoptForeground(d, f)}
    BY Zenon DEF StartCollided, d, e, r
<1> QED BY <1>10, <1>13, <1>14, OrdersTransitive
-----------------------------------------------------------------------------
(* Admission *)

\* What a handler may do that also makes the turns of new startable.
OrdersWith(c, d, new) ==
    /\ Orderly(d)
    /\ Startable(d) \subseteq Startable(c) \cup new
    /\ Holds(c, d)
    /\ d.steerReq \in {c.steerReq, NoTurn}
    /\ Accepted(d) => Accepted(c) /\ d.startReq = c.startReq

LEMMA OrdersWithThen ==
    ASSUME NEW c, NEW d, NEW e, NEW new, OrdersWith(c, d, new), Orders(d, e)
    PROVE  OrdersWith(c, e, new)
BY HoldsTransitive DEF Orders, OrdersWith

LEMMA OrdersThenWith ==
    ASSUME NEW c, NEW d, NEW e, NEW new, Orders(c, d), OrdersWith(d, e, new)
    PROVE  OrdersWith(c, e, new)
BY HoldsTransitive DEF Orders, OrdersWith

LEMMA OrdersIsWith ==
    ASSUME NEW c, NEW d, NEW new, Orders(c, d)
    PROVE  OrdersWith(c, d, new)
BY DEF Orders, OrdersWith

\* An idle controller holds no lease and reports no running owner.
LEMMA IdleIsFree ==
    ASSUME NEW c, Orderly(c), Active(c) \notin c.attempted
    PROVE  /\ c.local = NoTurn /\ c.owner.state \notin {"running", "waiting"}
           /\ c.preflight = NoTurn
BY DEF Orderly, Leased

LEMMA EnqueueTurnOrders ==
    ASSUME NEW c, WellFormed(c), Orderly(c), NEW t \in Locals, MayEnqueue(c, t)
    PROVE  /\ OrdersWith(c, EnqueueTurn(c, t), {t})
           /\ \E d : /\ EnqueueTurn(c, t) \in {d, StartTurn(d, t)} /\ WellFormed(d) /\ Orderly(d)
                     /\ Requeues(c, d) /\ QueuedIds(d.q) = QueuedIds(c.q) \cup {t}
<1> DEFINE x == [id |-> t, text |-> TRUE]
           q == Enqueue(c.q, x)
           d == [c EXCEPT !.q = q]
<1>1. x \in Entries /\ x.id = t /\ t \in Turns
    BY DEF Entries, Turns
<1>2. /\ t \notin c.attempted /\ t \notin QueuedIds(c.q) /\ t \notin c.steerAdmitted
      /\ c.q \in Queues /\ OneEach(c.q)
    BY DEF MayEnqueue, WellFormed, Controllers, Orderly, Fifo
<1> HIDE DEF x
<1>3. /\ q \in Queues /\ OneEach(q)
      /\ q.active.id = IF Active(c) = NoTurn THEN t ELSE Active(c)
      /\ Ids(q.pending) \subseteq Ids(c.q.pending) \cup {t}
      /\ QueuedIds(q) = QueuedIds(c.q) \cup {t}
  <2>1. q \in Queues
    BY <1>1, <1>2, EnqueueType
  <2>2. t # NoTurn
    BY <1>1, TurnsAssumption DEF Turns
  <2> QED BY <1>1, <1>2, <2>1, <2>2, EnqueueIds DEF Active, QueuedIds
<1> HIDE DEF q
<1>4. NoTurn \notin c.attempted
    BY TurnsAssumption DEF WellFormed, Controllers, Turns
<1>5. OrdersWith(c, d, {t}) /\ WellFormed(d)
  <2>1. Ids(q.pending) \subseteq Locals \ c.attempted
    BY <1>2, <1>3 DEF Orderly, Fifo
  <2>2. q.active.id \in c.attempted \cup Locals \cup {NoTurn}
    BY <1>3 DEF Orderly, Fifo
  <2>3. \/ q.active.id = Active(c)
        \/ c.local = NoTurn /\ c.owner.state \notin {"running", "waiting"}
    BY <1>3, <1>4, IdleIsFree
  <2>4. RetainedTurns(c) \cap QueuedIds(q) = {}
    BY <1>2, <1>3 DEF Orderly, Fifo
  <2>5. QueuedIds(q) \ c.attempted \subseteq Startable(c) \cup {t}
    BY <1>3 DEF Startable
  <2>6. /\ Orderly(d) /\ Startable(d) \subseteq Startable(c) \cup {t}
        /\ Holds(c, d) /\ d.steerReq = c.steerReq
        /\ d.startReq = c.startReq /\ Accepted(d) = Accepted(c)
    BY <1>3, <2>1, <2>2, <2>3, <2>4, <2>5, RequeueOrders
  <2>7. WellFormed(d)
    BY <1>3, QueueUpdateKeeps DEF Keeps
  <2> QED BY <2>6, <2>7 DEF OrdersWith
<1>6. EnqueueTurn(c, t) \in {d, StartTurn(d, t)}
    BY Zenon DEF EnqueueTurn, q, x
<1> HIDE DEF d
<1>7. OrdersWith(c, StartTurn(d, t), {t})
  <2>1. Orders(d, StartTurn(d, t))
    BY <1>5, StartTurnOrders DEF OrdersWith
  <2> QED BY <1>5, <2>1, OrdersWithThen
<1>8. Requeues(c, d) /\ QueuedIds(d.q) = QueuedIds(c.q) \cup {t}
  <2>1. q.active.id = Active(c) \/ {Active(c), q.active.id} \cap c.attempted = {}
    BY <1>2, <1>3, <1>4
  <2>2. d.q = q
    BY DEF d, WellFormed, Controllers
  <2> QED BY <1>3, <2>1, <2>2, RequeueRequeues DEF d
<1> QED BY <1>5, <1>6, <1>7, <1>8 DEF OrdersWith

LEMMA CancelQueuedPromptOrders ==
    ASSUME NEW c, WellFormed(c), Orderly(c), NEW t
    PROVE  Orders(c, CancelQueuedPrompt(c, t))
<1> DEFINE q == RemovePending(c.q, t)
           d == [c EXCEPT !.q = q]
<1>1. c.q \in Queues /\ OneEach(c.q)
    BY DEF WellFormed, Controllers, Orderly, Fifo
<1>2. OneEach(q) /\ q.active = c.q.active /\ Ids(q.pending) \subseteq Ids(c.q.pending)
    BY <1>1, RemovePendingIds
<1>3. CancelQueuedPrompt(c, t) = d
    BY Zenon DEF CancelQueuedPrompt
<1> HIDE DEF q
<1>4. QueuedIds(q) \subseteq QueuedIds(c.q) /\ q.active.id = Active(c)
    BY <1>2 DEF QueuedIds, Active
<1>5. /\ Orderly(d) /\ Startable(d) \subseteq Startable(c) \cup {}
      /\ Holds(c, d) /\ d.steerReq = c.steerReq
      /\ d.startReq = c.startReq /\ Accepted(d) = Accepted(c)
  <2>1. Ids(q.pending) \subseteq Locals \ c.attempted
    BY <1>2 DEF Orderly, Fifo
  <2>2. q.active.id \in c.attempted \cup Locals \cup {NoTurn}
    BY <1>4 DEF Orderly, Fifo
  <2>3. RetainedTurns(c) \cap QueuedIds(q) = {}
    BY <1>4 DEF Orderly, Fifo
  <2>4. QueuedIds(q) \ c.attempted \subseteq Startable(c) \cup {}
    BY <1>4 DEF Startable
  <2> QED BY <1>2, <1>4, <2>1, <2>2, <2>3, <2>4, RequeueOrders
<1> QED BY <1>3, <1>5 DEF Orders
-----------------------------------------------------------------------------
(* Native steering *)

\* Text is submitted as steering: it is held, unsent, for the active turn.
LEMMA SubmitSteerOrders ==
    ASSUME NEW c, WellFormed(c), Orderly(c), NEW t \in Locals, CanSteerText(c),
           t \notin c.attempted \cup c.steerAdmitted
    PROVE  LET d == SubmitSteer(c, t)
           IN  /\ Orderly(d) /\ Startable(d) = Startable(c) /\ Accepted(d) = Accepted(c)
               /\ \A e \in d.retained : e \in c.retained \/ (e.turn = t /\ ~e.sent)
               /\ d.startReq = c.startReq /\ d.link = c.link /\ d.q = c.q
               /\ d.steerReq = t
<1> DEFINE x == [turn |-> t, owner |-> Active(c), sent |-> FALSE, accepted |-> FALSE]
           d == [c EXCEPT !.steerAdmitted = @ \cup {t}, !.retained = @ \cup {x},
                          !.steerReq = t, !.steerOwner = Active(c)]
<1>1. x.turn = t /\ x.sent = FALSE /\ x.owner = Active(c)
    OBVIOUS
<1>2. SubmitSteer(c, t) = d
    BY Zenon DEF SubmitSteer
<1> HIDE DEF x
<1>3. /\ d.q = c.q /\ d.local = c.local /\ d.dispatching = c.dispatching
      /\ d.owner = c.owner /\ d.preflight = c.preflight /\ d.startReq = c.startReq
      /\ d.stage = c.stage /\ d.attempted = c.attempted /\ d.retained = c.retained \cup {x}
      /\ d.steerAdmitted = c.steerAdmitted \cup {t} /\ d.steerReq = t
      /\ d.link = c.link /\ d.hydrated = c.hydrated
    BY DEF WellFormed, Controllers
<1> HIDE DEF d
<1>4. Unsent(d) = Unsent(c) /\ RetainedTurns(d) = RetainedTurns(c) \cup {t}
    BY <1>1, <1>3 DEF Unsent, RetainedTurns
<1>5. \A e \in d.retained : e \in c.retained \/ (e.turn = t /\ ~e.sent)
    BY <1>1, <1>3
<1>6. t \notin QueuedIds(c.q) /\ c.local = NoTurn /\ t \notin RetainedTurns(c) /\ Linked(c)
  <2>1. Active(c) \in c.attempted /\ c.q.pending = <<>> /\ c.dispatching = NoTurn
    BY DEF CanSteerText
  <2>2. Ids(<<>>) = {}
    BY DEF Ids
  <2>3. t \notin QueuedIds(c.q)
    BY <2>1, <2>2 DEF QueuedIds, Active
  <2> QED BY <2>1, <2>3 DEF Orderly, Leased, Fifo, CanSteerText, Linked
<1>7. Leased(d)
    BY <1>3, <1>6 DEF Orderly, Leased, Active, Linked
<1>8. OneSteer(d)
  <2>1. \A e \in c.retained : e.turn # t
    BY <1>6 DEF RetainedTurns
  <2> QED BY <1>1, <1>3, <2>1 DEF OneSteer, Orderly, Fifo
<1>9. Fifo(d)
    BY <1>3, <1>4, <1>6, <1>8 DEF Orderly, Fifo, Active
<1>10. Startable(d) = Startable(c) /\ Accepted(d) = Accepted(c)
    BY <1>3 DEF Startable, Accepted
<1> QED BY <1>2, <1>3, <1>5, <1>7, <1>9, <1>10 DEF Orderly

\* What updateSteer records.
Sending(c, d, t) ==
    \A e \in d.retained : \E g \in c.retained :
        g.turn = e.turn /\ g.owner = e.owner /\ (e.sent <=> (g.sent \/ g.turn = t))

LEMMA UpdateSteerOrders ==
    ASSUME NEW c, WellFormed(c), Orderly(c), NEW t, NEW field
    PROVE  LET d == UpdateSteer(c, t, field)
           IN  /\ Orderly(d) /\ Startable(d) = Startable(c) /\ Accepted(d) = Accepted(c)
               /\ d.startReq = c.startReq /\ d.link = c.link /\ d.q = c.q
               /\ d.steerReq = c.steerReq
               /\ field # "sent" => Orders(c, d)
               /\ field = "sent" => Sending(c, d, t)
<1> DEFINE up(e) == [e EXCEPT !.sent = @ \/ (e.turn = t /\ field = "sent"),
                              !.accepted = @ \/ (e.turn = t /\ field = "accepted")]
           d == UpdateSteer(c, t, field)
           k == {up(e) : e \in c.retained}
<1>1. d = [c EXCEPT !.retained = k]
    BY Zenon DEF UpdateSteer
<1>2. \A e \in c.retained : /\ up(e).turn = e.turn /\ up(e).owner = e.owner
                            /\ up(e).sent = (e.sent \/ (e.turn = t /\ field = "sent"))
                            /\ e.sent \in BOOLEAN
    BY DEF WellFormed, Controllers, Steers
<1> HIDE DEF k, d, up
<1>3. /\ d.q = c.q /\ d.local = c.local /\ d.dispatching = c.dispatching
      /\ d.owner = c.owner /\ d.preflight = c.preflight /\ d.startReq = c.startReq
      /\ d.stage = c.stage /\ d.attempted = c.attempted
      /\ d.steerAdmitted = c.steerAdmitted /\ d.steerReq = c.steerReq
      /\ d.link = c.link /\ d.hydrated = c.hydrated /\ d.retained = k
    BY <1>1 DEF WellFormed, Controllers
<1>4. Unsent(d) = Unsent(c) /\ RetainedTurns(d) = RetainedTurns(c)
    BY <1>2, <1>3 DEF Unsent, RetainedTurns, k
<1>5. OneSteer(d)
  <2> SUFFICES ASSUME NEW x \in d.retained, NEW y \in d.retained, x.turn = y.turn
               PROVE  x.owner = y.owner /\ x.sent = y.sent
    BY DEF OneSteer
  <2>1. PICK e \in c.retained : x = up(e)
    BY <1>3 DEF k
  <2>2. PICK g \in c.retained : y = up(g)
    BY <1>3 DEF k
  <2>3. e.turn = g.turn
    BY <1>2, <2>1, <2>2
  <2>4. e.owner = g.owner /\ e.sent = g.sent
    BY <2>3 DEF Orderly, Fifo, OneSteer
  <2> QED BY <1>2, <2>1, <2>2, <2>3, <2>4
<1>6. Leased(d)
    BY <1>3 DEF Orderly, Leased, Active, Linked
<1>7. Fifo(d)
    BY <1>3, <1>4, <1>5 DEF Orderly, Fifo, Active
<1>8. Startable(d) = Startable(c) /\ Accepted(d) = Accepted(c)
    BY <1>3 DEF Startable, Accepted
<1>9. field # "sent" => Holds(c, d)
  <2> SUFFICES ASSUME field # "sent", NEW x \in d.retained
               PROVE  \E g \in c.retained : g.turn = x.turn /\ g.owner = x.owner /\ g.sent = x.sent
    BY DEF Holds
  <2>1. PICK e \in c.retained : x = up(e)
    BY <1>3 DEF k
  <2>2. x.turn = e.turn /\ x.owner = e.owner /\ x.sent = e.sent
    BY <1>2, <2>1
  <2> QED BY <2>2
<1>10. ASSUME field = "sent"
      PROVE  Sending(c, d, t)
  <2>1. ASSUME NEW x \in d.retained
        PROVE  \E g \in c.retained :
                 g.turn = x.turn /\ g.owner = x.owner /\ (x.sent <=> (g.sent \/ g.turn = t))
    <3>1. PICK e \in c.retained : x = up(e)
        BY <1>3 DEF k
    <3>2. x.turn = e.turn /\ x.owner = e.owner /\ (x.sent <=> (e.sent \/ e.turn = t))
        BY <1>2, <1>10, <3>1
    <3> QED BY <3>2
  <2> QED BY <2>1, Zenon DEF Sending
<1> QED BY <1>3, <1>6, <1>7, <1>8, <1>9, <1>10 DEF Orders, Orderly, d

LEMMA ForgetSteerOrders ==
    ASSUME NEW c, WellFormed(c), Orderly(c), NEW t
    PROVE  LET d == ForgetSteer(c, t)
           IN  /\ Orders(c, d) /\ t \notin RetainedTurns(d)
               /\ d.q = c.q /\ d.attempted = c.attempted /\ d.steerReq = c.steerReq
<1> DEFINE d == ForgetSteer(c, t)
<1>1. /\ d.q = c.q /\ d.local = c.local /\ d.dispatching = c.dispatching
      /\ d.owner = c.owner /\ d.preflight = c.preflight /\ d.startReq = c.startReq
      /\ d.stage = c.stage /\ d.attempted = c.attempted
      /\ d.steerAdmitted = c.steerAdmitted /\ d.steerReq = c.steerReq
      /\ d.link = c.link /\ d.hydrated = c.hydrated
      /\ d.retained = {e \in c.retained : e.turn # t}
    BY DEF ForgetSteer, WellFormed, Controllers
<1> HIDE DEF d
<1>2. SameLease(c, d) /\ t \notin RetainedTurns(d)
    BY <1>1 DEF SameLease, OwnerFades, Holds, RetainedTurns
<1> QED BY <1>1, <1>2, SameLeaseOrders DEF d

TurnsOf(s) == {s[i] : i \in DOMAIN s}

NoRepeat(s) == \A i, j \in DOMAIN s : s[i] = s[j] => i = j

\* Returned text as queue entries.
LEMMA SteerEntriesIds ==
    ASSUME NEW turns \in Seq(Turns), NoRepeat(turns)
    PROVE  LET es == SteerEntries(turns)
           IN  /\ es \in Seq(Entries) /\ Ids(es) = TurnsOf(turns) /\ Distinct(es)
               /\ turns # <<>> => es # <<>>
<1> DEFINE es == SteerEntries(turns)
<1>1. /\ Len(turns) \in Nat
      /\ DOMAIN turns = 1..Len(turns)
      /\ turns # <<>> => Len(turns) # 0
      /\ \A i \in 1..Len(turns) : turns[i] \in Turns
    OBVIOUS
<1>2. \A t \in Turns : [id |-> t, text |-> TRUE] \in Entries /\ [id |-> t, text |-> TRUE].id = t
    BY DEF Entries
<1>3. es = [i \in 1..Len(turns) |-> [id |-> turns[i], text |-> TRUE]]
    BY <1>1, Zenon DEF SteerEntries
<1>4. es \in [1..Len(turns) -> Entries] /\ \A i \in 1..Len(turns) : es[i].id = turns[i]
    BY <1>1, <1>2, <1>3
<1> HIDE DEF es
<1>5. es \in Seq(Entries) /\ Len(es) = Len(turns) /\ DOMAIN es = 1..Len(turns)
    BY <1>1, <1>4
<1>6. Ids(es) = TurnsOf(turns) /\ Distinct(es)
    BY <1>1, <1>4, <1>5 DEF Ids, TurnsOf, Distinct, NoRepeat
<1>7. turns # <<>> => es # <<>>
    BY <1>1, <1>5
<1> QED BY <1>5, <1>6, <1>7 DEF es

\* Returned text that nothing else holds goes ahead of every later prompt.
LEMMA RestageSteersOrders ==
    ASSUME NEW c, WellFormed(c), Orderly(c), NEW turns \in Seq(Turns), NoRepeat(turns),
           TurnsOf(turns) \subseteq Locals,
           TurnsOf(turns) \cap (c.attempted \cup QueuedIds(c.q) \cup RetainedTurns(c)) = {}
    PROVE  LET d == RestageSteers(c, turns)
           IN  /\ OrdersWith(c, d, TurnsOf(turns)) /\ Requeues(c, d)
               /\ QueuedIds(d.q) = QueuedIds(c.q) \cup TurnsOf(turns)
<1> DEFINE es == SteerEntries(turns)
           T == TurnsOf(turns)
<1>1. es \in Seq(Entries) /\ Ids(es) = T /\ Distinct(es) /\ (turns # <<>> => es # <<>>)
    BY SteerEntriesIds
<1>2. c.q \in Queues /\ OneEach(c.q)
    BY DEF WellFormed, Controllers, Orderly, Fifo
<1> HIDE DEF es, T
<1>3. T \subseteq Locals /\ T \cap (c.attempted \cup QueuedIds(c.q) \cup RetainedTurns(c)) = {}
    BY DEF T
<1>4. ASSUME NEW q \in Queues, OneEach(q), QueuedIds(q) = QueuedIds(c.q) \cup T,
             Ids(q.pending) \cap c.attempted = {},
             q.active.id \in c.attempted \cup Locals \cup {NoTurn},
             Ids(q.pending) \subseteq Locals,
             q.active.id = Active(c) \/ {Active(c), q.active.id} \cap c.attempted = {}
      PROVE  LET d == [c EXCEPT !.q = q]
             IN  OrdersWith(c, d, T) /\ Requeues(c, d) /\ QueuedIds(d.q) = QueuedIds(c.q) \cup T
  <2> DEFINE d == [c EXCEPT !.q = q]
  <2>1. Ids(q.pending) \subseteq Locals \ c.attempted
    BY <1>4
  <2>2. RetainedTurns(c) \cap QueuedIds(q) = {}
    BY <1>3, <1>4 DEF Orderly, Fifo
  <2>3. QueuedIds(q) \ c.attempted \subseteq Startable(c) \cup T
    BY <1>4 DEF Startable
  <2>4. /\ Orderly(d) /\ Startable(d) \subseteq Startable(c) \cup T
        /\ Holds(c, d) /\ d.steerReq = c.steerReq
        /\ d.startReq = c.startReq /\ Accepted(d) = Accepted(c)
    <3>1. \/ q.active.id = Active(c)
          \/ c.local = NoTurn /\ c.owner.state \notin {"running", "waiting"}
        BY <1>4, IdleIsFree
    <3> QED BY <1>4, <2>1, <2>2, <2>3, <3>1, RequeueOrders
  <2>5. Requeues(c, d)
    BY <1>4, RequeueRequeues
  <2>6. d.q = q
    BY DEF WellFormed, Controllers
  <2> QED BY <1>4, <2>4, <2>5, <2>6 DEF OrdersWith
<1>5. CASE turns = <<>>
  <2>1. RestageSteers(c, turns) = c /\ T = {}
    BY <1>5 DEF RestageSteers, T, TurnsOf
  <2> QED BY <2>1, OrdersReflexive, OrdersIsWith DEF T, Requeues
<1>6. CASE turns # <<>> /\ Active(c) \notin c.attempted
  <2> DEFINE r == RestoreActive(c.q, es[1], TRUE)
             q == PrependPending(r, Tail(es))
  <2>1. RestageSteers(c, turns) = [c EXCEPT !.q = q]
    BY <1>6, Zenon DEF RestageSteers, es
  <2>2. /\ es[1] \in Entries /\ Tail(es) \in Seq(Entries) /\ Distinct(Tail(es))
        /\ T = {es[1].id} \cup Ids(Tail(es)) /\ es[1].id \notin Ids(Tail(es))
    <3>1. Head(es) = es[1]
        BY <1>1, <1>6
    <3> QED BY <1>1, <1>6, <3>1, IdsTail
  <2>3. Active(c) \in Locals \cup {NoTurn} /\ Active(c) = c.q.active.id
    BY <1>6 DEF Orderly, Fifo, Active
  <2>4. es[1].id \notin Ids(c.q.pending) /\ Ids(c.q.pending) \subseteq Locals \ c.attempted
    BY <1>3, <2>2 DEF QueuedIds, Orderly, Fifo
  <2>5. /\ r \in Queues /\ OneEach(r) /\ r.active.id = es[1].id
        /\ Ids(r.pending) = Ids(c.q.pending) \cup ({Active(c)} \ {NoTurn, es[1].id})
    <3>1. r \in Queues
        BY <1>2, <2>2, RestoreActiveType
    <3>2. PICK e \in Entries : e = es[1]
        BY <2>2
    <3>3. r = RestoreActive(c.q, e, TRUE) /\ e.id \notin Ids(c.q.pending)
        BY <2>4, <3>2
    <3>4. c.q \in Queues /\ OneEach(c.q)
        BY <1>2
    <3> HIDE DEF r
    <3>5. /\ OneEach(r) /\ r.active.id = e.id
          /\ Ids(r.pending) = Ids(c.q.pending) \cup ({c.q.active.id} \ {NoTurn, e.id})
        BY <3>3, <3>4, RestoreActiveIds
    <3> QED BY <2>3, <3>1, <3>2, <3>5
  <2>6. es[1].id # NoTurn /\ es[1].id \in Locals
    BY <1>3, <2>2, TurnsAssumption
  <2> HIDE DEF r
  <2>7. QueuedIds(r) = QueuedIds(c.q) \cup {es[1].id}
    BY <2>3, <2>5, <2>6 DEF QueuedIds
  <2>8. Ids(Tail(es)) \cap QueuedIds(r) = {}
    BY <1>3, <2>2, <2>7
  <2>9. /\ q \in Queues /\ OneEach(q) /\ q.active = r.active
        /\ Ids(q.pending) = Ids(Tail(es)) \cup Ids(r.pending)
    BY <2>2, <2>5, <2>8, PrependPendingIds, PrependPendingType
  <2> HIDE DEF q
  <2>10. QueuedIds(q) = QueuedIds(c.q) \cup T
    BY <2>2, <2>7, <2>9 DEF QueuedIds
  <2>11. Ids(q.pending) \subseteq Locals /\ Ids(q.pending) \cap c.attempted = {}
    BY <1>3, <1>6, <2>2, <2>3, <2>4, <2>5, <2>9
  <2>12. {Active(c), q.active.id} \cap c.attempted = {}
    BY <1>3, <1>6, <2>2, <2>5, <2>9
  <2>13. q.active.id \in c.attempted \cup Locals \cup {NoTurn}
    BY <2>5, <2>6, <2>9
  <2> QED BY <1>4, <2>1, <2>9, <2>10, <2>11, <2>12, <2>13 DEF T
<1>7. CASE turns # <<>> /\ Active(c) \in c.attempted
  <2> DEFINE q == PrependPending(c.q, es)
  <2>1. RestageSteers(c, turns) = [c EXCEPT !.q = q]
    BY <1>7, Zenon DEF RestageSteers, es
  <2>2. /\ q \in Queues /\ OneEach(q) /\ q.active = c.q.active
        /\ Ids(q.pending) = T \cup Ids(c.q.pending)
    BY <1>1, <1>2, <1>3, PrependPendingIds, PrependPendingType
  <2> HIDE DEF q
  <2>3. QueuedIds(q) = QueuedIds(c.q) \cup T /\ q.active.id = Active(c)
    BY <2>2 DEF QueuedIds, Active
  <2>4. Ids(q.pending) \subseteq Locals /\ Ids(q.pending) \cap c.attempted = {}
    BY <1>3, <2>2 DEF Orderly, Fifo
  <2>5. q.active.id \in c.attempted \cup Locals \cup {NoTurn}
    BY <1>7, <2>3
  <2> QED BY <1>4, <2>1, <2>2, <2>3, <2>4, <2>5 DEF T
<1> QED BY <1>5, <1>6, <1>7

\* The finally block of a steer call.
LEMMA FinishSteerOrders ==
    ASSUME NEW c, WellFormed(c), Orderly(c)
    PROVE  Orders(c, FinishSteer(c))
<1> DEFINE k == IF ~c.steerUnknown /\ Received(c, c.steerOwner)
                THEN DropSteersOf(c.retained, c.steerOwner) ELSE c.retained
           d == [c EXCEPT !.steerReq = NoTurn, !.steerOwner = NoTurn, !.retained = k]
<1>1. k \in SUBSET Steers /\ k \subseteq c.retained
    BY DEF WellFormed, Controllers, DropSteersOf
<1> HIDE DEF k
<1>2. d \in Controllers
    BY <1>1, NullTypes DEF WellFormed, Controllers
<1>3. WellFormed(d)
    BY <1>2 DEF WellFormed, Controllers
<1>4. SameLease(c, d)
    BY <1>1 DEF SameLease, OwnerFades, Holds, WellFormed, Controllers
<1> HIDE DEF d
<1>5. Orders(c, d) /\ Orders(d, StartTurn(d, Active(d)))
    BY <1>3, <1>4, SameLeaseOrders, StartTurnOrders DEF Orders
<1>6. FinishSteer(c) = StartTurn(d, Active(d))
    BY Zenon DEF FinishSteer, d, k
<1> QED BY <1>5, <1>6, OrdersTransitive

LEMMA RetrySteerDeliveryOrders ==
    ASSUME NEW c, WellFormed(c), Orderly(c)
    PROVE  Orders(c, RetrySteerDelivery(c))
<1> DEFINE d == [c EXCEPT !.steerUnknown = FALSE, !.steerReq = NoTurn, !.steerOwner = NoTurn]
<1>1. d \in Controllers
    BY NullTypes DEF WellFormed, Controllers
<1>2. WellFormed(d)
    BY <1>1 DEF WellFormed, Controllers
<1>3. SameLease(c, d)
    BY DEF SameLease, OwnerFades, Holds, WellFormed, Controllers
<1> HIDE DEF d
<1>4. Orders(c, d) /\ Orders(d, StartTurn(d, Active(d)))
    BY <1>2, <1>3, SameLeaseOrders, StartTurnOrders DEF Orders
<1>5. RetrySteerDelivery(c) = StartTurn(d, Active(d))
    BY Zenon DEF RetrySteerDelivery, d
<1> QED BY <1>4, <1>5, OrdersTransitive

\* A steer that was not admitted is queued again; an accepted or an unconfirmed one
\* stays as it is.
LEMMA SteerEndsOrder ==
    ASSUME NEW c, WellFormed(c), Orderly(c), c.steerReq # NoTurn
    PROVE  /\ OrdersWith(c, SteerNotAdmitted(c), {c.steerReq} \cap RetainedTurns(c))
           /\ Orders(c, SteerAccepted(c))
           /\ Orders(c, SteerUnconfirmed(c))
<1> DEFINE t == c.steerReq
<1>1. t \in Turns /\ t \in Locals
    BY DEF WellFormed, Controllers, OptLocal, Turns
<1>2. ASSUME t \in RetainedTurns(c)
      PROVE  OrdersWith(c, SteerNotAdmitted(c), {t} \cap RetainedTurns(c))
  <2> DEFINE f == ForgetSteer(c, t)
             r == RestageSteers(f, <<t>>)
  <2>1. /\ Orders(c, f) /\ t \notin RetainedTurns(f) /\ f.q = c.q
        /\ f.attempted = c.attempted /\ WellFormed(f)
    BY ForgetSteerOrders, ForgetSteerKeeps DEF Keeps
  <2>2. <<t>> \in Seq(Turns) /\ NoRepeat(<<t>>) /\ TurnsOf(<<t>>) = {t}
    BY <1>1 DEF NoRepeat, TurnsOf
  <2> HIDE DEF f
  <2>3. {t} \cap (f.attempted \cup QueuedIds(f.q) \cup RetainedTurns(f)) = {}
    BY <1>2, <2>1 DEF Orderly, Fifo
  <2>4. OrdersWith(f, r, {t})
    <3>1. Orderly(f) /\ WellFormed(f) /\ TurnsOf(<<t>>) \subseteq Locals
        BY <1>1, <2>1, <2>2 DEF Orders
    <3>2. TurnsOf(<<t>>) \cap (f.attempted \cup QueuedIds(f.q) \cup RetainedTurns(f)) = {}
        BY <2>2, <2>3
    <3>3. OrdersWith(f, RestageSteers(f, <<t>>), TurnsOf(<<t>>))
        BY <2>2, <3>1, <3>2, RestageSteersOrders
    <3> QED BY <2>2, <3>3
  <2>5. WellFormed(r)
    BY <2>1, <2>2, RestageSteersKeeps DEF Keeps
  <2> HIDE DEF r
  <2>6. OrdersWith(c, r, {t}) /\ Orderly(r)
    BY <2>1, <2>4, OrdersThenWith DEF OrdersWith
  <2>7. Orders(r, FinishSteer(r))
    BY <2>5, <2>6, FinishSteerOrders
  <2>8. SteerNotAdmitted(c) = FinishSteer(r)
    BY <1>2, Zenon DEF SteerNotAdmitted, f, r
  <2>9. {t} = {t} \cap RetainedTurns(c)
    BY <1>2
  <2> QED BY <2>6, <2>7, <2>8, <2>9, OrdersWithThen
<1>3. ASSUME t \notin RetainedTurns(c)
      PROVE  OrdersWith(c, SteerNotAdmitted(c), {t} \cap RetainedTurns(c))
  <2>1. SteerNotAdmitted(c) = FinishSteer(c)
    BY <1>3, Zenon DEF SteerNotAdmitted
  <2> QED BY <2>1, FinishSteerOrders, OrdersIsWith
<1>4. Orders(c, SteerAccepted(c))
  <2> DEFINE u == UpdateSteer(c, t, "accepted")
  <2>1. Orders(c, u) /\ Orderly(u) /\ WellFormed(u)
    BY UpdateSteerOrders, UpdateSteerKeeps DEF Keeps
  <2> HIDE DEF u
  <2>2. Orders(u, FinishSteer(u))
    BY <2>1, FinishSteerOrders
  <2> QED BY <2>1, <2>2, OrdersTransitive DEF SteerAccepted, u
<1>5. Orders(c, SteerUnconfirmed(c))
  <2> DEFINE u == [c EXCEPT !.steerUnknown = TRUE]
  <2>1. u \in Controllers
    BY DEF WellFormed, Controllers
  <2>2. WellFormed(u) /\ SameLease(c, u)
    BY <2>1 DEF WellFormed, Controllers, SameLease, OwnerFades, Holds
  <2> HIDE DEF u
  <2>3. Orders(c, u) /\ Orders(u, FinishSteer(u))
    BY <2>2, SameLeaseOrders, FinishSteerOrders DEF Orders
  <2>4. SteerUnconfirmed(c) \in {FinishSteer(u), FinishSteer(c)}
    BY Zenon DEF SteerUnconfirmed, u
  <2> QED BY <2>3, <2>4, OrdersTransitive, FinishSteerOrders
<1> QED BY <1>2, <1>3, <1>4, <1>5

\* A turn that Core started on its own counts as attempted.
LEMMA AttemptForeignOrders ==
    ASSUME NEW c, WellFormed(c), Orderly(c), NEW f \in Foreign
    PROVE  LET d == [c EXCEPT !.attempted = @ \cup {f}]
           IN  /\ Orders(c, d) /\ WellFormed(d) /\ d.q = c.q /\ d.local = c.local
               /\ d.attempted = c.attempted \cup {f} /\ d.steerReq = c.steerReq
               /\ d.preflight = c.preflight /\ d.retained = c.retained
               /\ d.owner = c.owner /\ d.steerUnknown = c.steerUnknown
<1> DEFINE d == [c EXCEPT !.attempted = @ \cup {f}]
<1>1. /\ d.q = c.q /\ d.local = c.local /\ d.dispatching = c.dispatching
      /\ d.owner = c.owner /\ d.preflight = c.preflight /\ d.startReq = c.startReq
      /\ d.stage = c.stage /\ d.attempted = c.attempted \cup {f}
      /\ d.steerAdmitted = c.steerAdmitted /\ d.steerReq = c.steerReq
      /\ d.link = c.link /\ d.hydrated = c.hydrated /\ d.retained = c.retained
      /\ d.steerOwner = c.steerOwner /\ d.steerUnknown = c.steerUnknown
    BY DEF WellFormed, Controllers
<1>2. d \in Controllers
    BY DEF WellFormed, Controllers, Turns
<1> HIDE DEF d
<1>3. WellFormed(d)
    BY <1>1, <1>2 DEF WellFormed
<1>4. f \notin Locals /\ Unsent(d) \subseteq Unsent(c) /\ Holds(c, d)
    BY <1>1, TurnsAssumption DEF Unsent, Holds
<1>5. Leased(d)
    BY <1>1 DEF Orderly, Leased, Active, Linked
<1>6. Fifo(d)
    BY <1>1, <1>4 DEF Orderly, Fifo, Active, RetainedTurns, OneSteer
<1>7. Startable(d) \subseteq Startable(c) /\ Accepted(d) = Accepted(c)
    BY <1>1 DEF Startable, Accepted
<1> QED BY <1>1, <1>3, <1>4, <1>5, <1>6, <1>7 DEF Orders, Orderly, d

\* steered = false: the new turn of Core becomes the active turn.
LEMMA SteerFellBackOrders ==
    ASSUME NEW c, WellFormed(c), Orderly(c), NEW f \in Foreign, c.steerReq # NoTurn
    PROVE  Orders(c, SteerFellBack(c, f))
<1> DEFINE t == c.steerReq
           a == c.steerOwner
           g == ForgetSteer(c, t)
           d == [g EXCEPT !.attempted = @ \cup {f}]
           superseded == Active(c) \notin {NoTurn, a, f} /\ Active(c) \in c.attempted
           q == IF Active(c) = a THEN Settle(c.q, a) ELSE c.q
           x == [id |-> f, text |-> TRUE]
           p == RestoreActive(q, x, TRUE)
           o == [turn |-> f, state |-> "running"]
           e == [d EXCEPT !.q = p, !.owner = o]
<1>1. /\ Orders(c, g) /\ Orderly(g) /\ WellFormed(g) /\ g.q = c.q
      /\ g.attempted = c.attempted /\ g.steerReq = t
    BY ForgetSteerOrders, ForgetSteerKeeps DEF Keeps, Orders
<1> HIDE DEF g
<1>2. /\ Orders(c, d) /\ Orderly(d) /\ WellFormed(d) /\ d.q = c.q
      /\ d.attempted = c.attempted \cup {f} /\ d.local = g.local /\ d.steerReq = t
  <2>1. /\ Orders(g, d) /\ WellFormed(d) /\ d.q = g.q
        /\ d.attempted = g.attempted \cup {f} /\ d.local = g.local /\ d.steerReq = g.steerReq
    BY <1>1, AttemptForeignOrders
  <2> HIDE DEF d
  <2>2. Orders(c, d) /\ Orderly(d)
    BY <1>1, <2>1, OrdersTransitive DEF Orders
  <2> QED BY <1>1, <2>1, <2>2
<1> HIDE DEF d
<1>3. Orders(c, FinishSteer(c)) /\ Orders(c, FinishSteer(d))
    BY <1>2, FinishSteerOrders, OrdersTransitive
<1>4. Orders(c, FinishSteer([d EXCEPT !.steerUnknown = TRUE]))
  <2> DEFINE u == [d EXCEPT !.steerUnknown = TRUE]
  <2>1. u \in Controllers
    BY <1>2 DEF WellFormed, Controllers
  <2>2. WellFormed(u) /\ SameLease(d, u)
    BY <1>2, <2>1 DEF WellFormed, Controllers, SameLease, OwnerFades, Holds
  <2> HIDE DEF u
  <2>3. Orders(d, u) /\ Orders(u, FinishSteer(u))
    BY <1>2, <2>2, SameLeaseOrders, FinishSteerOrders DEF Orders
  <2>4. Orders(c, FinishSteer(u))
    BY <1>2, <2>3, OrdersTransitive
  <2> QED BY <2>4 DEF u
<1>5. ASSUME ~superseded
      PROVE  Orders(c, FinishSteer(e))
  <2>1. /\ c.q \in Queues /\ OneEach(c.q) /\ Active(c) = c.q.active.id
        /\ a # NoTurn /\ Ids(c.q.pending) \subseteq Locals \ c.attempted
        /\ RetainedTurns(d) \cap QueuedIds(c.q) = {}
    <3>1. RetainedTurns(d) \cap QueuedIds(d.q) = {}
        BY <1>2 DEF Orderly, Fifo
    <3> QED BY <1>2, <3>1 DEF WellFormed, Controllers, Orderly, Fifo, Active
  <2>2. f \in Turns /\ f # NoTurn /\ f \notin Locals /\ x \in Entries /\ x.id = f
    BY TurnsAssumption DEF Turns, Entries
  <2>3. /\ q \in Queues /\ OneEach(q) /\ Ids(q.pending) \subseteq Ids(c.q.pending)
        /\ QueuedIds(q) \subseteq QueuedIds(c.q)
        /\ q.active.id \in {NoTurn, f} \/ q.active.id \in Locals \ c.attempted
    <3>1. CASE Active(c) = a
        <4>1. q = Settle(c.q, a)
            BY <3>1
        <4>2. /\ q \in Queues /\ OneEach(q)
              /\ q.active.id # NoTurn => q.active.id \in Ids(c.q.pending)
              /\ Ids(c.q.pending) = Ids(q.pending) \cup ({q.active.id} \ {NoTurn})
            BY <2>1, <3>1, <4>1, SettleIds, SettleType
        <4> HIDE DEF q
        <4> QED BY <2>1, <4>2 DEF QueuedIds
    <3>2. CASE Active(c) # a
        <4>1. q = c.q
            BY <3>2
        <4>2. Active(c) \in {NoTurn, f} \/ Active(c) \notin c.attempted
            BY <1>5, <3>2
        <4>3. Active(c) \in c.attempted \cup Locals \cup {NoTurn}
            BY DEF Orderly, Fifo
        <4> HIDE DEF q
        <4> QED BY <2>1, <4>1, <4>2, <4>3
    <3> QED BY <3>1, <3>2
  <2> HIDE DEF q, x
  <2>4. /\ p \in Queues /\ OneEach(p) /\ p.active.id = f
        /\ Ids(p.pending) = Ids(q.pending) \cup ({q.active.id} \ {NoTurn, f})
    <3>1. f \notin Ids(q.pending)
        BY <2>1, <2>2, <2>3
    <3> QED BY <2>2, <2>3, <3>1, RestoreActiveIds, RestoreActiveType
  <2> HIDE DEF p
  <2>5. /\ Ids(p.pending) \subseteq Locals \ d.attempted
        /\ QueuedIds(p) \subseteq QueuedIds(c.q) \cup {f}
    <3>1. Ids(p.pending) \subseteq Locals \ c.attempted
        BY <2>1, <2>3, <2>4
    <3> QED BY <1>2, <2>2, <2>3, <2>4, <3>1 DEF QueuedIds
  <2>6. o \in Owners /\ o.turn = f /\ o.state = "running"
    BY <2>2 DEF Owners, OptTurn
  <2> HIDE DEF o
  <2>7. /\ e.q = p /\ e.local = d.local /\ e.dispatching = d.dispatching
        /\ e.owner = o /\ e.preflight = d.preflight /\ e.startReq = d.startReq
        /\ e.stage = d.stage /\ e.attempted = d.attempted
        /\ e.steerAdmitted = d.steerAdmitted /\ e.steerReq = d.steerReq
        /\ e.link = d.link /\ e.hydrated = d.hydrated /\ e.retained = d.retained
        /\ e.steerOwner = d.steerOwner
    BY <1>2 DEF WellFormed, Controllers
  <2>8. e \in Controllers
    BY <1>2, <2>4, <2>6 DEF WellFormed, Controllers
  <2> HIDE DEF e
  <2>9. WellFormed(e)
    BY <1>2, <2>7, <2>8 DEF WellFormed
  <2>10. d.local = NoTurn
    BY <1>2 DEF Orderly, Leased
  <2>11. Leased(e)
    BY <1>2, <2>2, <2>4, <2>6, <2>7, <2>10 DEF Orderly, Leased, Active, Linked
  <2>12. Fifo(e)
    <3>1. Unsent(e) = Unsent(d) /\ RetainedTurns(e) = RetainedTurns(d)
        BY <2>7 DEF Unsent, RetainedTurns
    <3>2. RetainedTurns(e) \cap (e.attempted \cup QueuedIds(e.q)) = {}
      <4>1. RetainedTurns(d) \cap d.attempted = {} /\ f \in d.attempted
        BY <1>2 DEF Orderly, Fifo
      <4> QED BY <2>1, <2>5, <2>7, <3>1, <4>1
    <3>3. OneSteer(e)
        BY <1>2, <2>7 DEF Orderly, Fifo, OneSteer
    <3> QED BY <1>2, <2>4, <2>5, <2>7, <3>1, <3>2, <3>3 DEF Orderly, Fifo, Active
  <2>13. Startable(e) \subseteq Startable(d) /\ Holds(d, e) /\ Accepted(e) = Accepted(d)
    BY <1>2, <2>5, <2>7 DEF Startable, Holds, Accepted
  <2>14. Orders(d, e) /\ Orderly(e)
    BY <2>7, <2>11, <2>12, <2>13 DEF Orders, Orderly
  <2>15. Orders(e, FinishSteer(e))
    BY <2>9, <2>14, FinishSteerOrders
  <2> QED BY <1>2, <2>14, <2>15, OrdersTransitive
<1>6. \/ SteerFellBack(c, f) \in {FinishSteer(c), FinishSteer(d),
                                  FinishSteer([d EXCEPT !.steerUnknown = TRUE])}
      \/ ~superseded /\ SteerFellBack(c, f) = FinishSteer(e)
  <2> HIDE DEF superseded, q, e
  <2>1. SteerFellBack(c, f) =
          IF t \notin RetainedTurns(c) THEN FinishSteer(c)
          ELSE IF Received(c, f) THEN FinishSteer(d)
          ELSE IF superseded THEN FinishSteer([d EXCEPT !.steerUnknown = TRUE])
          ELSE FinishSteer(e)
    BY Zenon DEF SteerFellBack, d, g, superseded, q, e
  <2> QED BY <2>1, Zenon
<1> HIDE DEF superseded, e
<1> QED BY <1>3, <1>4, <1>5, <1>6
-----------------------------------------------------------------------------
(* Notifications *)

\* A turn that is past its preflight, or not of this client, is not in preflight.
LEMMA SureIsPastPreflight ==
    ASSUME NEW c, WellFormed(c), Orderly(c), NEW t, Sure(c, t)
    PROVE  c.stage = "preflight" => c.startReq # t
<1> SUFFICES ASSUME c.stage = "preflight", c.startReq = t PROVE FALSE
    OBVIOUS
<1>1. t \in Unsent(c) /\ t # NoTurn
    BY TurnsAssumption DEF Sure, Unsent, Turns
<1>2. t \in Locals
    BY <1>1 DEF Orderly, Leased, Fifo, OptLocal
<1> QED BY <1>1, <1>2 DEF Sure

LEMMA ConfirmTurnAcceptedOrders ==
    ASSUME NEW c, WellFormed(c), Orderly(c), NEW t, Sure(c, t)
    PROVE  LET d == ConfirmTurnAccepted(c, t)
           IN  /\ Observes(c, d, t) /\ Orderly(d) /\ WellFormed(d) /\ Sure(d, t)
               /\ d.q = c.q /\ d.attempted = c.attempted /\ d.retained = c.retained
               /\ d.steerUnknown = c.steerUnknown
<1>1. t \in Turns
    BY DEF Sure
<1> DEFINE d == ConfirmTurnAccepted(c, t)
<1>2. /\ Observes(c, d, t) /\ d.q = c.q /\ d.attempted = c.attempted
      /\ d.retained = c.retained /\ d.steerUnknown = c.steerUnknown
    BY <1>1, SureIsPastPreflight, AcceptLocalDispatchOrders DEF ConfirmTurnAccepted
<1>3. WellFormed(d) /\ Unsent(d) \subseteq Unsent(c)
    BY AcceptLocalDispatchKeeps DEF ConfirmTurnAccepted, Keeps
<1> HIDE DEF d
<1>4. Sure(d, t) /\ Orderly(d)
    BY <1>2, <1>3 DEF Sure, Observes
<1> QED BY <1>2, <1>3, <1>4 DEF d

LEMMA ObservesThen ==
    ASSUME NEW c, NEW d, NEW e, NEW t, Observes(c, d, t), Orders(d, e)
    PROVE  Observes(c, e, t)
BY HoldsTransitive DEF Orders, Observes

LEMMA ObserveTurnStartedOrders ==
    ASSUME NEW c, WellFormed(c), Orderly(c), NEW t, Sure(c, t)
    PROVE  Observes(c, ObserveTurnStarted(c, t), t)
<1> DEFINE d == ConfirmTurnAccepted(c, t)
<1>1. Observes(c, d, t) /\ Orderly(d) /\ WellFormed(d) /\ Sure(d, t)
    BY ConfirmTurnAcceptedOrders
<1> HIDE DEF d
<1>2. CASE AdoptObservedTurn(d, t) = d
    BY <1>1, <1>2 DEF ObserveTurnStarted, d
<1>3. CASE AdoptObservedTurn(d, t) # d
  <2>1. AdoptObservedTurn(d, t) = AdoptForeground(d, t) /\ Active(d) = NoTurn
    BY <1>3 DEF AdoptObservedTurn
  <2>2. Active(d) \notin d.attempted
    BY <1>1, <2>1, TurnsAssumption DEF WellFormed, Controllers, Turns
  <2>3. Orders(d, AdoptForeground(d, t))
    BY <1>1, <2>2, AdoptForegroundOrders
  <2> QED BY <1>1, <2>1, <2>3, ObservesThen DEF ObserveTurnStarted, d
<1> QED BY <1>2, <1>3

LEMMA ObserveTerminalOrders ==
    ASSUME NEW c, WellFormed(c), Orderly(c), NEW t, Sure(c, t)
    PROVE  Observes(c, ObserveTerminal(c, t), t)
<1> DEFINE d == ConfirmTurnAccepted(c, t)
<1>1. Observes(c, d, t) /\ Orderly(d) /\ WellFormed(d) /\ Sure(d, t)
    BY ConfirmTurnAcceptedOrders
<1> HIDE DEF d
<1>2. Orders(d, SettleTurn(d, t))
    BY <1>1, SettleTurnOrders DEF Sure
<1> QED BY <1>1, <1>2, ObservesThen DEF ObserveTerminal, d

\* Core returns inputs: the held ones become startable again.
LEMMA ObserveSteerDroppedOrders ==
    ASSUME NEW c, WellFormed(c), Orderly(c), NEW t, Sure(c, t),
           NEW given \in Seq(Turns), NoRepeat(given)
    PROVE  LET d == ObserveSteerDropped(c, t, given)
           IN  /\ Orderly(d) /\ Holds(c, d) /\ d.steerReq \in {c.steerReq, NoTurn}
               /\ Startable(d) \subseteq Startable(c) \cup (TurnsOf(given) \cap RetainedTurns(c))
               /\ Accepted(d) => d.startReq = t \/ (Accepted(c) /\ d.startReq = c.startReq)
<1> DEFINE d == ConfirmTurnAccepted(c, t)
           mine == {e \in d.retained : /\ e.owner = t /\ e.sent
                                       /\ \E i \in DOMAIN given : given[i] = e.turn}
           M == {e.turn : e \in mine}
           returned == Keep(given, M)
           s == [d EXCEPT !.retained = @ \ mine, !.steerUnknown = @ /\ mine = {}]
<1>1. /\ Observes(c, d, t) /\ Orderly(d) /\ WellFormed(d)
      /\ d.retained = c.retained
    BY ConfirmTurnAcceptedOrders
<1> HIDE DEF d
<1>2. /\ mine \subseteq d.retained /\ M \subseteq RetainedTurns(d) /\ M \subseteq TurnsOf(given)
    BY DEF RetainedTurns, TurnsOf
<1>3. \A e \in d.retained : e.turn \in M => e \in mine
  <2> SUFFICES ASSUME NEW e \in d.retained, NEW g \in mine, e.turn = g.turn PROVE e \in mine
    OBVIOUS
  <2>1. g \in d.retained /\ g.owner = t /\ g.sent /\ \E i \in DOMAIN given : given[i] = g.turn
    OBVIOUS
  <2>2. e.owner = g.owner /\ e.sent = g.sent
    BY <1>1, <2>1 DEF Orderly, Fifo, OneSteer
  <2> QED BY <2>1, <2>2
<1>4. /\ returned \in Seq(Turns) /\ NoRepeat(returned) /\ TurnsOf(returned) \subseteq M
  <2>1. returned \in Seq(Turns)
    BY KeepType
  <2>2. /\ \A i, j \in DOMAIN returned : returned[i] = returned[j] => i = j
        /\ \A i \in DOMAIN returned : returned[i] \in M
    <3>1. \A i, j \in DOMAIN given : given[i] = given[j] => i = j
        BY DEF NoRepeat
    <3> HIDE DEF M
    <3> QED BY <3>1, KeepDistinct
  <2> HIDE DEF returned, M
  <2> QED BY <2>1, <2>2 DEF NoRepeat, TurnsOf
<1>5. ObserveSteerDropped(c, t, given) = RestageSteers(s, returned)
    BY Zenon DEF ObserveSteerDropped, d
<1> HIDE DEF mine
<1>6. /\ s.q = d.q /\ s.local = d.local /\ s.dispatching = d.dispatching
      /\ s.owner = d.owner /\ s.preflight = d.preflight /\ s.startReq = d.startReq
      /\ s.stage = d.stage /\ s.attempted = d.attempted
      /\ s.steerAdmitted = d.steerAdmitted /\ s.steerReq = d.steerReq
      /\ s.link = d.link /\ s.hydrated = d.hydrated /\ s.retained = d.retained \ mine
      /\ s.steerOwner = d.steerOwner
    BY <1>1 DEF WellFormed, Controllers
<1>7. s \in Controllers
  <2>1. (d.steerUnknown /\ mine = {}) \in BOOLEAN /\ d.retained \ mine \in SUBSET Steers
    BY <1>1 DEF WellFormed, Controllers
  <2> DEFINE b == d.steerUnknown /\ mine = {}
  <2>2. s = [d EXCEPT !.retained = d.retained \ mine, !.steerUnknown = b]
    OBVIOUS
  <2> HIDE DEF b, s
  <2>3. b \in BOOLEAN
    BY <2>1 DEF b
  <2> QED BY <1>1, <2>1, <2>2, <2>3 DEF WellFormed, Controllers
<1> HIDE DEF s, returned, M
<1>8. WellFormed(s)
    BY <1>1, <1>6, <1>7 DEF WellFormed
<1>9. SameLease(d, s)
    BY <1>6 DEF SameLease, OwnerFades, Holds
<1>10. Orders(d, s) /\ Orderly(s)
    BY <1>1, <1>9, SameLeaseOrders DEF Orders
<1>11. Observes(c, s, t)
    BY <1>1, <1>10, ObservesThen
<1>12. M \cap RetainedTurns(s) = {}
    BY <1>3, <1>6 DEF RetainedTurns
<1>13. /\ TurnsOf(returned) \subseteq Locals
       /\ TurnsOf(returned) \cap (s.attempted \cup QueuedIds(s.q) \cup RetainedTurns(s)) = {}
    BY <1>1, <1>2, <1>4, <1>6, <1>12 DEF Orderly, Fifo
<1>14. OrdersWith(s, RestageSteers(s, returned), TurnsOf(returned))
    BY <1>4, <1>8, <1>10, <1>13, RestageSteersOrders
<1>15. TurnsOf(returned) \subseteq TurnsOf(given) \cap RetainedTurns(c)
  <2>1. RetainedTurns(d) = RetainedTurns(c)
    BY <1>1 DEF RetainedTurns
  <2> QED BY <1>2, <1>4, <2>1
<1> QED BY <1>5, <1>11, <1>14, <1>15, HoldsTransitive DEF OrdersWith, Observes
-----------------------------------------------------------------------------
(* Interrupt and recovery *)

LEMMA InterruptOrders ==
    ASSUME NEW c, WellFormed(c), Orderly(c), NEW b \in BOOLEAN, NEW t
    PROVE  Orders(c, Interrupt(c, b)) /\ Orders(c, InterruptReturned(c, t, b))
<1>1. Orders(c, Interrupt(c, b))
  <2> DEFINE q == IF b THEN StashInterruptPrompt(c.q, c.q.active)
                  ELSE TakeInterruptPrompt(c.q, c.q.active.id)
             d == [c EXCEPT !.q = q, !.interrupting = Active(c), !.interruptReq = Active(c)]
  <2>1. q.active = c.q.active /\ q.pending = c.q.pending
    BY StashIds DEF WellFormed, Controllers
  <2>2. Interrupt(c, b) = d
    BY Zenon DEF Interrupt
  <2> HIDE DEF q
  <2>3. SameLease(c, d)
    BY <2>1 DEF SameLease, OwnerFades, Holds, WellFormed, Controllers
  <2> QED BY <2>2, <2>3, SameLeaseOrders
<1>2. Orders(c, InterruptReturned(c, t, b))
  <2> DEFINE i == IF b /\ Linked(c) /\ Active(c) = t THEN c.interrupting
                  ELSE Without(c.interrupting, t)
             d == [c EXCEPT !.interruptReq = NoTurn, !.interrupting = i]
  <2>1. InterruptReturned(c, t, b) = d
    BY Zenon DEF InterruptReturned
  <2> HIDE DEF i
  <2>2. SameLease(c, d)
    BY DEF SameLease, OwnerFades, Holds, WellFormed, Controllers
  <2> QED BY <2>1, <2>2, SameLeaseOrders
<1> QED BY <1>1, <1>2

LEMMA RetryTurnRecoveryOrders ==
    ASSUME NEW c, WellFormed(c), Orderly(c)
    PROVE  Orders(c, RetryTurnRecovery(c))
<1> DEFINE r(p) == [turn |-> Active(c), phase |-> p]
           a == [c EXCEPT !.lookup = Active(c), !.recovery = r("checking")]
           b == [c EXCEPT !.recovery = r("unavailable")]
<1>1. RetryTurnRecovery(c) \in {c, a, b}
    BY Zenon DEF RetryTurnRecovery
<1> HIDE DEF r
<1>2. SameLease(c, a) /\ SameLease(c, b)
    BY DEF SameLease, OwnerFades, Holds, WellFormed, Controllers
<1> HIDE DEF a, b
<1> QED BY <1>1, <1>2, SameLeaseOrders, OrdersReflexive

LEMMA ClearRecoveryOrders ==
    ASSUME NEW c, WellFormed(c), Orderly(c)
    PROVE  Orders(c, ClearRecovery(c)) /\ Active(ClearRecovery(c)) = Active(c)
<1> DEFINE d == ClearRecovery(c)
<1>1. SameLease(c, d) /\ Active(d) = Active(c)
    BY DEF ClearRecovery, SameLease, OwnerFades, Holds, WellFormed, Controllers, Active
<1> QED BY <1>1, SameLeaseOrders

\* turn/state/get answered with a state of the active turn.
LEMMA ApplyRecoveredStateOrders ==
    ASSUME NEW c, WellFormed(c), Orderly(c), NEW t \in Turns, NEW state
    PROVE  Orders(c, ApplyRecoveredState(c, t, state))
<1> DEFINE live == state \in {"active", "interrupting"}
           a == ClearRecovery(c)
           b == InvalidateStart(a)
           st == IF live THEN "running" ELSE "ended"
           e == AcceptLocalDispatch(b, t, st)
           i == IF state = "interrupting" THEN t ELSE NoTurn
           d == [e EXCEPT !.interruptReq = NoTurn, !.interrupting = i]
<1>1. Orders(c, a) /\ Orderly(a) /\ WellFormed(a)
    BY ClearRecoveryOrders, ClearRecoveryKeeps DEF Orders, Keeps
<1> HIDE DEF a
<1>2. /\ Orders(a, b) /\ Orderly(b) /\ WellFormed(b) /\ b.stage = "none"
  <2>1. b.stage = "none"
    BY <1>1 DEF InvalidateStart, WellFormed, Controllers
  <2> QED BY <1>1, <2>1, InvalidateStartOrders, InvalidateStartKeeps DEF Orders, Keeps
<1>3. st \in {"running", "ended"} /\ i \in OptTurn
    BY DEF OptTurn
<1> HIDE DEF b, st, i
<1>4. Observes(b, e, t) /\ e.stage = "none" /\ WellFormed(e)
    BY <1>2, <1>3, AcceptLocalDispatchOrders, AcceptLocalDispatchKeeps DEF Keeps
<1> HIDE DEF e
<1>5. d \in Controllers
    BY <1>3, <1>4, NullTypes DEF WellFormed, Controllers
<1>6. WellFormed(d) /\ SameLease(e, d)
    BY <1>4, <1>5 DEF WellFormed, Controllers, SameLease, OwnerFades, Holds
<1> HIDE DEF d
<1>7. Orders(b, e) /\ Orderly(e)
    BY <1>4 DEF Observes, Orders, Accepted
<1>8. Orders(c, d) /\ Orderly(d)
    BY <1>1, <1>2, <1>6, <1>7, SameLeaseOrders, OrdersTransitive DEF Orders
<1>9. Orders(d, SettleTurn(d, t))
    BY <1>6, <1>8, SettleTurnOrders
<1>10. ApplyRecoveredState(c, t, state) \in {d, SettleTurn(d, t)}
    BY Zenon DEF ApplyRecoveredState, a, b, st, e, i, d
<1> QED BY <1>8, <1>9, <1>10, OrdersTransitive

LEMMA LookupReturnedOrders ==
    ASSUME NEW c, WellFormed(c), Orderly(c), NEW t \in Turns, NEW result
    PROVE  Orders(c, LookupReturned(c, t, result))
<1> DEFINE d == [c EXCEPT !.lookup = NoTurn]
           r == [turn |-> t, phase |-> result]
           e == [d EXCEPT !.recovery = r]
<1>1. d \in Controllers
    BY NullTypes DEF WellFormed, Controllers
<1>2. WellFormed(d) /\ SameLease(c, d)
    BY <1>1 DEF WellFormed, Controllers, SameLease, OwnerFades, Holds
<1> HIDE DEF d, r
<1>3. Orders(c, d) /\ Orderly(d)
    BY <1>2, SameLeaseOrders DEF Orders
<1>4. SameLease(d, e)
    BY <1>2 DEF WellFormed, Controllers, SameLease, OwnerFades, Holds
<1> HIDE DEF e
<1>5. Orders(d, e) /\ Orders(d, ApplyRecoveredState(d, t, result))
    BY <1>2, <1>3, <1>4, SameLeaseOrders, ApplyRecoveredStateOrders
<1>6. LookupReturned(c, t, result) \in {d, e, ApplyRecoveredState(d, t, result)}
    BY Zenon DEF LookupReturned, d, e, r
<1> QED BY <1>3, <1>5, <1>6, OrdersTransitive

\* continueWithoutTurn before the queue advances.
Continuing(c) ==
    LET t == Active(c)
    IN  [RetireLocalDispatch(ClearRecovery(c), t) EXCEPT
            !.timedOut = NoTurn,
            !.owner = IF @.turn = t THEN NoOwner ELSE @,
            !.q = TakeInterruptPrompt(@, t)]

LEMMA ContinuingOrders ==
    ASSUME NEW c, WellFormed(c), Orderly(c), Active(c) # NoTurn
    PROVE  LET d == Continuing(c)
           IN  /\ WellFormed(d) /\ Orders(c, InvalidateStart(d)) /\ Active(d) = Active(c)
               /\ d.local = NoTurn /\ d.owner.state \notin {"running", "waiting"}
               /\ d.q.active = c.q.active /\ d.q.pending = c.q.pending
               /\ d.link = c.link /\ d.attempted = c.attempted /\ d.hydrated = c.hydrated
               /\ d.recovery = NoRecovery /\ d.lookup = NoTurn /\ d.receipts = c.receipts
               /\ d.retained = c.retained /\ d.steerReq = c.steerReq
               /\ d.steerOwner = c.steerOwner /\ d.steerUnknown = c.steerUnknown
               /\ d.composer = c.composer /\ Unsent(d) \subseteq Unsent(c)
<1> DEFINE t == Active(c)
           a == ClearRecovery(c)
           b == RetireLocalDispatch(a, t)
           o == IF b.owner.turn = t THEN NoOwner ELSE b.owner
           q == TakeInterruptPrompt(b.q, t)
           d == [b EXCEPT !.timedOut = NoTurn, !.owner = o, !.q = q]
<1>0. t \in Turns
    BY ActiveType DEF WellFormed
<1>1. Orders(c, a) /\ Orderly(a) /\ WellFormed(a) /\ Active(a) = t
    BY ClearRecoveryOrders, ClearRecoveryKeeps DEF Orders, Keeps
<1> HIDE DEF a
<1>2. Orders(a, InvalidateStart(a)) /\ Orderly(InvalidateStart(a))
    BY <1>1, InvalidateStartOrders DEF Orders
<1>3. /\ Orders(InvalidateStart(a), InvalidateStart(b)) /\ b.local = NoTurn
      /\ b.q = a.q /\ b.owner = a.owner /\ WellFormed(b)
    BY <1>1, <1>2, RetireLocalDispatchOrders, RetireLocalDispatchKeeps DEF Keeps
<1>4. Orderly(InvalidateStart(b))
    BY <1>3 DEF Orders
<1> HIDE DEF b
<1>5. /\ q \in Queues /\ q.active = b.q.active /\ q.pending = b.q.pending
      /\ o \in Owners /\ (o = b.owner \/ (o.turn = NoTurn /\ o.state = "none"))
      /\ o.state \notin {"running", "waiting"}
  <2>1. q \in Queues /\ q.active = b.q.active /\ q.pending = b.q.pending
    BY <1>3, StashIds, TakeInterruptPromptType DEF WellFormed, Controllers
  <2>2. NoOwner.turn = NoTurn /\ NoOwner.state = "none"
    BY DEF NoOwner
  <2>3. b.owner.state \in {"running", "waiting"} => b.owner.turn = t
    BY <1>1, <1>3 DEF Orderly, Leased
  <2> QED BY <1>3, <2>1, <2>2, <2>3, NullTypes DEF WellFormed, Controllers
<1>6. Continuing(c) = d
    BY Zenon DEF Continuing, a, b
<1> HIDE DEF o, q
<1>7. d \in Controllers
    BY <1>3, <1>5, NullTypes DEF WellFormed, Controllers
<1>8. /\ d.q = q /\ d.local = b.local /\ d.dispatching = b.dispatching
      /\ d.owner = o /\ d.preflight = b.preflight /\ d.startReq = b.startReq
      /\ d.stage = b.stage /\ d.attempted = b.attempted
      /\ d.steerAdmitted = b.steerAdmitted /\ d.steerReq = b.steerReq
      /\ d.link = b.link /\ d.hydrated = b.hydrated /\ d.retained = b.retained
      /\ d.steerOwner = b.steerOwner
    BY <1>3 DEF WellFormed, Controllers
<1> HIDE DEF d
<1>9. WellFormed(d)
    BY <1>3, <1>7, <1>8 DEF WellFormed
<1>10. Holds(b, d) /\ OwnerFades(b, d)
    BY <1>5, <1>8 DEF Holds, OwnerFades
<1>11. SameLease(InvalidateStart(b), InvalidateStart(d))
    BY <1>3, <1>5, <1>8, <1>9, <1>10, SameLeaseInvalidate
<1>12. Orders(InvalidateStart(b), InvalidateStart(d)) /\ Orderly(InvalidateStart(d))
    BY <1>4, <1>11, SameLeaseOrders DEF Orders
<1>13. Active(d) = t
    BY <1>1, <1>3, <1>5, <1>8 DEF Active
<1>14. Orders(c, InvalidateStart(d))
    BY <1>1, <1>2, <1>3, <1>12, OrdersTransitive
<1>15. /\ a.recovery = NoRecovery /\ a.lookup = NoTurn /\ a.receipts = c.receipts
       /\ a.steerOwner = c.steerOwner /\ a.steerUnknown = c.steerUnknown
       /\ a.composer = c.composer /\ a.q = c.q /\ a.link = c.link /\ a.attempted = c.attempted
       /\ a.hydrated = c.hydrated /\ a.retained = c.retained /\ a.steerReq = c.steerReq
    BY DEF a, ClearRecovery, WellFormed, Controllers
<1>16. /\ b.recovery = a.recovery /\ b.lookup = a.lookup /\ b.receipts = a.receipts
       /\ b.steerOwner = a.steerOwner /\ b.steerUnknown = a.steerUnknown
       /\ b.composer = a.composer /\ b.link = a.link /\ b.attempted = a.attempted
       /\ b.hydrated = a.hydrated /\ b.retained = a.retained /\ b.steerReq = a.steerReq
    BY <1>1 DEF b, RetireLocalDispatch, WellFormed, Controllers
<1>17. /\ d.recovery = b.recovery /\ d.lookup = b.lookup /\ d.receipts = b.receipts
       /\ d.steerUnknown = b.steerUnknown /\ d.composer = b.composer
    BY <1>3 DEF d, WellFormed, Controllers
<1>18. Unsent(d) \subseteq Unsent(c)
  <2>1. Unsent(b) \subseteq Unsent(a) /\ Unsent(a) \subseteq Unsent(c)
    BY <1>1, RetireLocalDispatchKeeps, ClearRecoveryKeeps DEF Keeps, a, b
  <2> QED BY <1>8, <2>1 DEF Unsent
<1> HIDE DEF t
<1>19. /\ d.q.active = c.q.active /\ d.q.pending = c.q.pending
       /\ d.link = c.link /\ d.attempted = c.attempted /\ d.hydrated = c.hydrated
       /\ d.recovery = NoRecovery /\ d.lookup = NoTurn /\ d.receipts = c.receipts
       /\ d.retained = c.retained /\ d.steerReq = c.steerReq
       /\ d.steerOwner = c.steerOwner /\ d.steerUnknown = c.steerUnknown
       /\ d.composer = c.composer
    BY <1>3, <1>5, <1>8, <1>15, <1>16, <1>17
<1>20. d.local = NoTurn /\ d.owner.state \notin {"running", "waiting"}
    BY <1>3, <1>5, <1>8
<1> QED BY <1>6, <1>9, <1>13, <1>14, <1>18, <1>19, <1>20 DEF t

\* The user goes on without the active turn.
LEMMA ContinueWithoutTurnOrders ==
    ASSUME NEW c, WellFormed(c), Orderly(c), Active(c) # NoTurn
    PROVE  Orders(c, ContinueWithoutTurn(c))
<1> DEFINE t == Active(c)
           d == Continuing(c)
<1>1. t \in Turns
    BY ActiveType DEF WellFormed
<1>2. /\ WellFormed(d) /\ Orders(c, InvalidateStart(d)) /\ Active(d) = t
      /\ d.local = NoTurn /\ d.owner.state \notin {"running", "waiting"}
    BY ContinuingOrders
<1>3. ContinueWithoutTurn(c) = ReleaseQueueTurn(d, t)
    BY Zenon DEF ContinueWithoutTurn, Continuing
<1> HIDE DEF d, t
<1>4. Orderly(InvalidateStart(d))
    BY <1>2 DEF Orders
<1>5. Orders(InvalidateStart(d), ReleaseQueueTurn(d, t))
    BY <1>1, <1>2, <1>4, ReleaseQueueTurnOrders
<1> QED BY <1>2, <1>3, <1>5, OrdersTransitive

\* Hydrate supersedes the leases of a record that had no authority: it has none.
LEMMA ReconcileLeasesOrders ==
    ASSUME NEW c, WellFormed(c), Orderly(c), NEW preserve,
           (preserve /\ Linked(c)) \/ c.local = NoTurn
    PROVE  LET d == ReconcileLeases(c, preserve)
           IN  /\ Orders(c, d) /\ WellFormed(d) /\ Unsent(d) \subseteq Unsent(c)
               /\ Active(d) = Active(c) /\ d.attempted = c.attempted /\ d.link = c.link
<1> DEFINE a == [c EXCEPT !.steerUnknown = FALSE]
           b == ClearRecovery(a)
           r == RetireLocalDispatch(b, b.local)
           e == [r EXCEPT !.owner = NoOwner]
           d == ReconcileLeases(c, preserve)
<1>1. a \in Controllers
    BY DEF WellFormed, Controllers
<1>2. WellFormed(a) /\ SameLease(c, a)
    BY <1>1 DEF WellFormed, Controllers, SameLease, OwnerFades, Holds
<1>3. Active(a) = Active(c) /\ a.attempted = c.attempted /\ a.local = c.local /\ a.link = c.link
    BY DEF WellFormed, Controllers, Active
<1> HIDE DEF a
<1>4. Orders(c, a) /\ Orderly(a)
    BY <1>2, SameLeaseOrders DEF Orders
<1>5. Orders(a, b) /\ Orderly(b) /\ Active(b) = Active(c) /\ WellFormed(b)
    BY <1>2, <1>3, <1>4, ClearRecoveryOrders, ClearRecoveryKeeps DEF Orders, Keeps
<1>6. b.attempted = c.attempted /\ b.local = c.local /\ b.link = c.link
    BY <1>2, <1>3 DEF ClearRecovery, WellFormed, Controllers
<1> HIDE DEF b
<1>7. WellFormed(d) /\ Unsent(d) \subseteq Unsent(c)
    BY ReconcileLeasesKeeps DEF Keeps
<1>8. CASE preserve /\ Linked(c)
  <2>1. d = b
    BY <1>8, Zenon DEF ReconcileLeases, a, b
  <2> HIDE DEF d
  <2> QED BY <1>4, <1>5, <1>6, <1>7, <2>1, OrdersTransitive DEF d
<1>9. CASE ~(preserve /\ Linked(c))
  <2>1. d = e
    BY <1>9, Zenon DEF ReconcileLeases, a, b
  <2>2. b.local = NoTurn
    BY <1>6, <1>9
  <2>3. /\ r.q = b.q /\ r.local = NoTurn /\ r.dispatching = b.dispatching
        /\ r.preflight = b.preflight /\ r.startReq = b.startReq
        /\ r.stage = b.stage /\ r.attempted = b.attempted
        /\ r.steerAdmitted = b.steerAdmitted /\ r.steerReq = b.steerReq
        /\ r.link = b.link /\ r.hydrated = b.hydrated /\ r.retained = b.retained
    BY <1>5, <2>2 DEF RetireLocalDispatch, Without, WellFormed, Controllers
  <2>4. WellFormed(r)
    BY <1>5, RetireLocalDispatchKeeps DEF Keeps
  <2> HIDE DEF r
  <2>5. /\ e.q = b.q /\ e.local = NoTurn /\ e.dispatching = b.dispatching
        /\ e.preflight = b.preflight /\ e.startReq = b.startReq
        /\ e.stage = b.stage /\ e.attempted = b.attempted
        /\ e.steerAdmitted = b.steerAdmitted /\ e.steerReq = b.steerReq
        /\ e.link = b.link /\ e.hydrated = b.hydrated /\ e.retained = b.retained
        /\ e.owner = NoOwner
    BY <2>3, <2>4 DEF WellFormed, Controllers
  <2>6. NoOwner.turn = NoTurn /\ NoOwner.state = "none"
    BY DEF NoOwner
  <2> HIDE DEF e, d
  <2>7. SameLease(b, e)
    BY <2>2, <2>5, <2>6 DEF SameLease, OwnerFades, Holds
  <2>8. Orders(c, e)
    BY <1>4, <1>5, <2>7, SameLeaseOrders, OrdersTransitive
  <2>9. Active(e) = Active(c) /\ e.attempted = c.attempted /\ e.link = c.link
    BY <1>5, <1>6, <2>5 DEF Active
  <2> QED BY <1>7, <2>1, <2>8, <2>9 DEF d
<1> QED BY <1>8, <1>9

\* An explicit lifecycle state of the active turn in the hydrate: the turn ended.
ReconcileEnded(c, t) ==
    LET d == AcceptLocalDispatch(InvalidateStart(c), t, "ended")
    IN  [d EXCEPT !.owner = IF @.turn = t THEN [@ EXCEPT !.state = "ended"] ELSE @,
                  !.q = Settle(@, t)]

LEMMA ReconcileEndedOrders ==
    ASSUME NEW c, WellFormed(c), Orderly(c), Linked(c), NEW t \in Turns, Active(c) = t
    PROVE  LET z == ReconcileEnded(c, t)
           IN  /\ WellFormed(z) /\ Orders(c, z) /\ Active(z) \notin z.attempted
               /\ z.hydrated = c.hydrated /\ z.q = Settle(c.q, t)
<1> DEFINE a == InvalidateStart(c)
           d == AcceptLocalDispatch(a, t, "ended")
           o == IF d.owner.turn = t THEN [d.owner EXCEPT !.state = "ended"] ELSE d.owner
           w == [d EXCEPT !.owner = o]
           z == [w EXCEPT !.q = Settle(@, t)]
           ended == [d EXCEPT !.owner = o, !.q = Settle(@, t)]
<1>1. /\ Orders(c, a) /\ Orderly(a) /\ WellFormed(a) /\ a.stage = "none"
      /\ a.q = c.q /\ a.link = c.link /\ a.hydrated = c.hydrated
  <2>1. a.stage = "none" /\ a.q = c.q /\ a.link = c.link /\ a.hydrated = c.hydrated
    BY DEF InvalidateStart, WellFormed, Controllers
  <2> QED BY <2>1, InvalidateStartOrders, InvalidateStartKeeps DEF Orders, Keeps
<1>2. "ended" \in {"running", "ended"}
    OBVIOUS
<1> HIDE DEF a
<1>3. /\ Observes(a, d, t) /\ WellFormed(d) /\ d.stage = "none" /\ d.q = c.q
      /\ d.local # t /\ d.hydrated = c.hydrated
    BY <1>1, <1>2, AcceptLocalDispatchOrders, AcceptLocalDispatchKeeps DEF Keeps, Linked
<1> HIDE DEF d
<1>4. Orders(c, d) /\ Orderly(d) /\ Active(d) = t
  <2>1. Orders(a, d) /\ Orderly(d)
    BY <1>3 DEF Observes, Orders, Accepted
  <2> QED BY <1>1, <1>3, <2>1, OrdersTransitive DEF Active
<1>5. d.local = NoTurn
    BY <1>3, <1>4 DEF Orderly, Leased
<1>6. /\ o \in Owners
      /\ o = d.owner \/ (o.turn = d.owner.turn /\ d.owner.turn # NoTurn /\ o.state = "ended")
      /\ o.state \notin {"running", "waiting"}
  <2>1. d.owner \in Owners /\ t # NoTurn
    BY <1>3, TurnsAssumption DEF WellFormed, Controllers, Turns
  <2>2. d.owner.state \in {"running", "waiting"} => d.owner.turn = t
    BY <1>4 DEF Orderly, Leased
  <2> QED BY <2>1, <2>2 DEF Owners
<1> HIDE DEF o
<1>7. w \in Controllers
    BY <1>3, <1>6 DEF WellFormed, Controllers
<1>8. WellFormed(w) /\ SameLease(d, w) /\ w.owner = o /\ w.local = NoTurn /\ w.q = d.q
      /\ w.hydrated = d.hydrated
    BY <1>3, <1>5, <1>6, <1>7 DEF WellFormed, Controllers, SameLease, OwnerFades, Holds
<1>9. ReconcileEnded(c, t) = z
  <2>1. ReconcileEnded(c, t) = ended
    BY Zenon DEF ReconcileEnded, a, d, o
  <2> QED BY <1>3, <1>8, <2>1 DEF WellFormed, Controllers
<1> HIDE DEF w
<1>10. Orders(c, w) /\ Orderly(w) /\ Active(w) = t
    BY <1>4, <1>8, SameLeaseOrders, OrdersTransitive DEF Orders, Active
<1>11. Orders(w, z) /\ Active(z) \notin z.attempted /\ WellFormed(z)
    BY <1>6, <1>8, <1>10, SettleQueueOrders
<1>12. /\ z.hydrated = c.hydrated /\ z.q = Settle(c.q, t)
    BY <1>3, <1>8 DEF WellFormed, Controllers
<1> HIDE DEF z
<1>13. Orders(c, z) /\ Orderly(z)
    BY <1>10, <1>11, OrdersTransitive DEF Orders
<1> QED BY <1>9, <1>11, <1>12, <1>13

\* An explicit lifecycle state of the active turn in the hydrate.
LEMMA ReconcileActiveOrders ==
    ASSUME NEW c, WellFormed(c), Orderly(c), Linked(c), NEW t \in Turns, Active(c) = t, NEW state
    PROVE  Orders(c, ReconcileActive(c, t, state))
<1> DEFINE a == InvalidateStart(c)
           d == AcceptLocalDispatch(a, t, "running")
           z == ReconcileEnded(c, t)
           fg == c.hydrated.turn
<1>1. Orders(c, a) /\ Orderly(a) /\ WellFormed(a)
    BY InvalidateStartOrders, InvalidateStartKeeps DEF Orders, Keeps
<1>2. Orders(c, d)
  <2>1. a.stage = "none"
    BY DEF InvalidateStart, WellFormed, Controllers
  <2> HIDE DEF a
  <2>2. Observes(a, d, t) /\ d.stage = "none"
    BY <1>1, <2>1, AcceptLocalDispatchOrders
  <2> HIDE DEF d
  <2>3. Orders(a, d)
    BY <2>2 DEF Observes, Orders, Accepted
  <2> QED BY <1>1, <2>3, OrdersTransitive
<1>3. /\ WellFormed(z) /\ Orders(c, z) /\ Active(z) \notin z.attempted
      /\ z.hydrated = c.hydrated
    BY ReconcileEndedOrders
<1> HIDE DEF z
<1>4. fg \notin {NoTurn, t} => Orders(z, AdoptForeground(z, fg))
  <2>1. fg \in OptTurn
    BY DEF WellFormed, Controllers, HydratedTurns
  <2>2. Orderly(z)
    BY <1>3 DEF Orders
  <2>3. fg # NoTurn => Sure(z, fg)
    BY <1>3, <2>1, <2>2 DEF Sure, Orderly, Fifo, OptTurn
  <2> QED BY <1>3, <2>2, <2>3, AdoptForegroundOrders
<1>5. ReconcileActive(c, t, state) =
          IF state # "done" THEN d
          ELSE IF fg \notin {NoTurn, t} THEN AdoptForeground(z, fg) ELSE z
  <2>1. CASE state = "done"
    BY <2>1, Zenon DEF ReconcileActive, ReconcileEnded, z
  <2>2. CASE state # "done"
    BY <2>2, Zenon DEF ReconcileActive
  <2> QED BY <2>1, <2>2
<1> HIDE DEF fg, d
<1> QED BY <1>2, <1>3, <1>4, <1>5, OrdersTransitive

\* reconcileFromHydrate before it looks at the active turn.
Reconciling(c, snap, preserve) ==
    LET fg == HydratedForeground(snap)
    IN  [ReconcileLeases(c, preserve) EXCEPT
            !.hydrated = fg,
            !.interruptReq = NoTurn,
            !.interrupting = IF fg.state = "interrupting" THEN fg.turn ELSE NoTurn]

LEMMA ReconcilingOrders ==
    ASSUME NEW c, WellFormed(c), Orderly(c), Linked(c), NEW snap, NEW preserve,
           preserve \/ c.local = NoTurn,
           \A t \in ServerForeground(snap) : Sure(c, t)
    PROVE  LET d == Reconciling(c, snap, preserve)
               fg == HydratedForeground(snap)
           IN  /\ Orders(c, d) /\ WellFormed(d) /\ Unsent(d) \subseteq Unsent(c) /\ Linked(d)
               /\ Active(d) = Active(c) /\ d.attempted = c.attempted /\ d.hydrated = fg
               /\ fg.turn = NoTurn \/ fg.turn \in ServerForeground(snap)
<1> DEFINE fg == HydratedForeground(snap)
           a == ReconcileLeases(c, preserve)
           i == IF fg.state = "interrupting" THEN fg.turn ELSE NoTurn
           d == [a EXCEPT !.hydrated = fg, !.interruptReq = NoTurn, !.interrupting = i]
           t == Active(c)
<1>1. /\ Orders(c, a) /\ Orderly(a) /\ WellFormed(a) /\ Unsent(a) \subseteq Unsent(c)
      /\ Active(a) = t /\ a.attempted = c.attempted /\ a.link = c.link
    BY ReconcileLeasesOrders DEF Orders
<1>2. /\ fg \in HydratedTurns /\ (fg.turn # NoTurn => Sure(c, fg.turn))
      /\ fg.turn = NoTurn \/ fg.turn \in ServerForeground(snap)
  <2>1. CASE ServerForeground(snap) = {}
    <3>1. fg = NoHydrated /\ NoHydrated.turn = NoTurn
        BY <2>1 DEF HydratedForeground, NoHydrated
    <3> QED BY <3>1, NullTypes
  <2>2. CASE ServerForeground(snap) # {}
    <3> DEFINE x == CHOOSE y \in ServerForeground(snap) : TRUE
    <3>1. x \in ServerForeground(snap)
        BY <2>2
    <3>2. fg = [turn |-> x, state |-> snap[x]]
        BY <2>2, Zenon DEF HydratedForeground
    <3> HIDE DEF x, fg
    <3>3. x \in Turns /\ snap[x] \in {"active", "interrupting"}
        BY <3>1 DEF ServerForeground
    <3> QED BY <3>1, <3>2, <3>3 DEF HydratedTurns, OptTurn
  <2> QED BY <2>1, <2>2
<1>3. i \in OptTurn
    BY <1>2 DEF HydratedTurns, OptTurn
<1> HIDE DEF a, fg, i
<1>4. d \in Controllers
    BY <1>1, <1>2, <1>3, NullTypes DEF WellFormed, Controllers
<1>5. /\ d.q = a.q /\ d.local = a.local /\ d.dispatching = a.dispatching
      /\ d.owner = a.owner /\ d.preflight = a.preflight /\ d.startReq = a.startReq
      /\ d.stage = a.stage /\ d.attempted = a.attempted
      /\ d.steerAdmitted = a.steerAdmitted /\ d.steerReq = a.steerReq
      /\ d.link = a.link /\ d.hydrated = fg /\ d.retained = a.retained
      /\ d.steerOwner = a.steerOwner
    BY <1>1 DEF WellFormed, Controllers
<1> HIDE DEF d
<1>6. WellFormed(d) /\ Unsent(d) = Unsent(a) /\ Linked(d) /\ Active(d) = t
    BY <1>1, <1>4, <1>5 DEF WellFormed, Unsent, Linked, Active
<1>7. Leased(d)
    BY <1>1, <1>5 DEF Orderly, Leased, Active, Linked
<1>8. Fifo(d)
  <2>1. fg.turn \in Locals => fg.turn \notin Unsent(d)
    BY <1>1, <1>2, <1>6, TurnsAssumption DEF Sure
  <2> QED BY <1>1, <1>5, <2>1 DEF Orderly, Fifo, Active, RetainedTurns, OneSteer
<1>9. Startable(d) = Startable(a) /\ Holds(a, d) /\ Accepted(d) = Accepted(a)
    BY <1>5 DEF Startable, Holds, Accepted
<1>10. Orders(c, d) /\ Orderly(d)
  <2>1. Orders(a, d) /\ Orderly(d)
    BY <1>5, <1>7, <1>8, <1>9 DEF Orders, Orderly
  <2> QED BY <1>1, <2>1, OrdersTransitive
<1>11. Reconciling(c, snap, preserve) = d
    BY Zenon DEF Reconciling, d, a, fg, i
<1> QED BY <1>1, <1>2, <1>5, <1>6, <1>10, <1>11 DEF fg

\* session-hydrate, on a snapshot that names no turn this client could still send.
LEMMA ReconcileFromHydrateOrders ==
    ASSUME NEW c, WellFormed(c), Orderly(c), Linked(c), NEW snap, NEW preserve,
           preserve \/ c.local = NoTurn,
           \A t \in ServerForeground(snap) : Sure(c, t)
    PROVE  Orders(c, ReconcileFromHydrate(c, snap, preserve))
<1> DEFINE fg == HydratedForeground(snap)
           d == Reconciling(c, snap, preserve)
           t == Active(c)
<1>1. /\ Orders(c, d) /\ WellFormed(d) /\ Unsent(d) \subseteq Unsent(c) /\ Linked(d)
      /\ Active(d) = t /\ d.attempted = c.attempted
      /\ fg.turn = NoTurn \/ fg.turn \in ServerForeground(snap)
    BY ReconcilingOrders
<1>2. Orderly(d)
    BY <1>1 DEF Orders
<1>3. ReconcileFromHydrate(c, snap, preserve) =
         IF fg.turn \notin {NoTurn, t} /\ t \notin c.attempted
         THEN AdoptForeground(InvalidateStart(d), fg.turn)
         ELSE IF t = NoTurn \/ t \notin c.attempted THEN d
         ELSE IF snap[t] # "absent" THEN ReconcileActive(d, t, snap[t])
         ELSE RetryTurnRecovery(d)
    BY Zenon DEF ReconcileFromHydrate, Reconciling
<1> HIDE DEF d, fg
<1>4. fg.turn # NoTurn /\ t \notin c.attempted
       => Orders(c, AdoptForeground(InvalidateStart(d), fg.turn))
  <2> SUFFICES ASSUME fg.turn # NoTurn, t \notin c.attempted
               PROVE  Orders(c, AdoptForeground(InvalidateStart(d), fg.turn))
    OBVIOUS
  <2> DEFINE e == InvalidateStart(d)
  <2>1. Orders(d, e) /\ Orderly(e) /\ WellFormed(e) /\ Unsent(e) \subseteq Unsent(d)
    BY <1>1, <1>2, InvalidateStartOrders, InvalidateStartKeeps DEF Orders, Keeps
  <2>2. e.q = d.q /\ e.attempted = d.attempted
    BY <1>1 DEF InvalidateStart, WellFormed, Controllers
  <2> HIDE DEF e
  <2>3. Sure(e, fg.turn)
    BY <1>1, <2>1 DEF Sure
  <2>4. Active(e) \notin e.attempted
    BY <1>1, <2>2 DEF Active
  <2>5. Orders(e, AdoptForeground(e, fg.turn))
    BY <2>1, <2>3, <2>4, AdoptForegroundOrders
  <2>6. Orders(c, AdoptForeground(e, fg.turn))
    BY <1>1, <2>1, <2>5, OrdersTransitive
  <2> QED BY <2>6 DEF e
<1>5. t # NoTurn => Orders(c, ReconcileActive(d, t, snap[t]))
  <2>1. t # NoTurn => t \in Turns
    BY ActiveType DEF WellFormed
  <2> QED BY <1>1, <1>2, <2>1, ReconcileActiveOrders, OrdersTransitive
<1>6. Orders(c, RetryTurnRecovery(d))
    BY <1>1, <1>2, RetryTurnRecoveryOrders, OrdersTransitive
<1> HIDE DEF t
<1> QED BY <1>1, <1>3, <1>4, <1>5, <1>6
-----------------------------------------------------------------------------
(* Transport *)

\* The record's runtime changes the link.
LEMMA RelinkOrders ==
    ASSUME NEW c, WellFormed(c), Orderly(c), NEW l \in Links,
           \/ l \in {"faulted", "deaf", "recovering", "draining", "ready"}
           \/ c.stage = "none" /\ c.local = NoTurn
    PROVE  Orders(c, [c EXCEPT !.link = l]) /\ Active([c EXCEPT !.link = l]) = Active(c)
<1> DEFINE d == [c EXCEPT !.link = l]
<1>1. /\ d.q = c.q /\ d.local = c.local /\ d.dispatching = c.dispatching
      /\ d.owner = c.owner /\ d.preflight = c.preflight /\ d.startReq = c.startReq
      /\ d.stage = c.stage /\ d.attempted = c.attempted
      /\ d.steerAdmitted = c.steerAdmitted /\ d.steerReq = c.steerReq
      /\ d.link = l /\ d.hydrated = c.hydrated /\ d.retained = c.retained
    BY DEF WellFormed, Controllers
<1> HIDE DEF d
<1>2. Leased(d)
    BY <1>1 DEF Orderly, Leased, Active, Linked
<1>3. Fifo(d)
    BY <1>1 DEF Orderly, Fifo, Active, RetainedTurns, OneSteer, Unsent
<1>4. Startable(d) = Startable(c) /\ Holds(c, d) /\ Accepted(d) = Accepted(c) /\ Active(d) = Active(c)
    BY <1>1 DEF Startable, Holds, Accepted, Active
<1> QED BY <1>1, <1>2, <1>3, <1>4 DEF Orders, Orderly, d

\* suspendTransport: what never reached the wire is startable again, an unsent steer
\* included, and nothing is held.
LEMMA SuspendTransportOrders ==
    ASSUME NEW c, WellFormed(c), Orderly(c)
    PROVE  LET d == SuspendTransport(c)
           IN  /\ OrdersWith(c, d, TurnsOf(UnsentSteers(c)))
               /\ d.stage = "none" /\ d.local = NoTurn /\ d.retained = {} /\ d.steerReq = NoTurn
<1> DEFINE a == [c EXCEPT !.retained = {}, !.steerReq = NoTurn,
                          !.steerOwner = NoTurn, !.steerUnknown = FALSE]
           us == UnsentSteers(c)
           b == RestageSteers(a, us)
           e == InvalidateStart(b)
           d == SuspendTransport(c)
<1>1. a \in Controllers
    BY NullTypes DEF WellFormed, Controllers
<1>2. /\ a.q = c.q /\ a.attempted = c.attempted /\ a.retained = {} /\ a.preflight = c.preflight
      /\ a.steerReq = NoTurn /\ WellFormed(a) /\ SameLease(c, a)
    BY <1>1 DEF WellFormed, Controllers, SameLease, OwnerFades, Holds
<1> HIDE DEF a
<1>3. Orders(c, a) /\ Orderly(a)
    BY <1>2, SameLeaseOrders DEF Orders
<1>4. us \in Seq(Turns) /\ NoRepeat(us) /\ TurnsOf(us) \subseteq RetainedTurns(c)
  <2>1. CASE us = <<>>
    BY <2>1 DEF NoRepeat, TurnsOf
  <2>2. CASE us # <<>>
    <3>1. us = <<c.steerReq>> /\ \E e1 \in c.retained : e1.turn = c.steerReq
        BY <2>2 DEF UnsentSteers
    <3>2. c.steerReq \in RetainedTurns(c)
        BY <3>1 DEF RetainedTurns
    <3>3. c.steerReq \in Turns
        BY <3>2 DEF Orderly, Fifo, Turns
    <3> HIDE DEF us
    <3> QED BY <3>1, <3>2, <3>3 DEF NoRepeat, TurnsOf
  <2> QED BY <2>1, <2>2
<1> HIDE DEF us
<1>5. /\ TurnsOf(us) \subseteq Locals
      /\ TurnsOf(us) \cap (a.attempted \cup QueuedIds(a.q) \cup RetainedTurns(a)) = {}
    BY <1>2, <1>4 DEF Orderly, Fifo, RetainedTurns
<1>6. OrdersWith(a, b, TurnsOf(us)) /\ WellFormed(b)
    BY <1>2, <1>3, <1>4, <1>5, RestageSteersOrders, RestageSteersKeeps DEF Keeps
<1>7. b.attempted = a.attempted /\ b.retained = a.retained /\ b.preflight = a.preflight
      /\ b.steerReq = a.steerReq /\ b.hydrated = a.hydrated
  <2>1. \E q : b = [a EXCEPT !.q = q]
    <3>1. a = [a EXCEPT !.q = a.q]
        BY <1>2 DEF WellFormed, Controllers
    <3> QED BY <3>1 DEF RestageSteers
  <2> QED BY <1>2, <2>1 DEF WellFormed, Controllers
<1> HIDE DEF b
<1>8. OrdersWith(c, b, TurnsOf(us)) /\ Orderly(b)
    BY <1>3, <1>6, OrdersThenWith DEF OrdersWith
<1>9. /\ e.q = b.q /\ e.attempted = b.attempted /\ e.retained = b.retained
      /\ e.steerAdmitted = b.steerAdmitted /\ e.hydrated = b.hydrated
      /\ e.steerReq = b.steerReq /\ e.stage = "none" /\ e \in Controllers
  <2>1. e \in Controllers
    BY <1>6, InvalidateStartKeeps DEF Keeps, WellFormed
  <2> QED BY <1>6, <2>1 DEF InvalidateStart, WellFormed, Controllers
<1> HIDE DEF e
<1>10. d = [e EXCEPT !.attempted = @ \ {c.preflight}, !.preflight = NoTurn,
                     !.interruptReq = NoTurn, !.local = NoTurn, !.owner = NoOwner,
                     !.dispatching = NoTurn, !.interrupting = NoTurn]
    BY Zenon DEF SuspendTransport, a, us, b, e
<1>11. /\ d.q = b.q /\ d.local = NoTurn /\ d.dispatching = NoTurn /\ d.owner = NoOwner
       /\ d.preflight = NoTurn /\ d.stage = "none" /\ d.attempted = b.attempted \ {c.preflight}
       /\ d.retained = {} /\ d.steerAdmitted = b.steerAdmitted /\ d.steerReq = NoTurn
       /\ d.hydrated = b.hydrated
    BY <1>2, <1>7, <1>9, <1>10 DEF Controllers
<1>12. NoOwner.turn = NoTurn /\ NoOwner.state = "none"
    BY DEF NoOwner
<1> HIDE DEF d
<1>13. Leased(d)
    BY <1>11, <1>12 DEF Leased
<1>14. Fifo(d)
  <2>1. Unsent(d) \subseteq Unsent(b) /\ RetainedTurns(d) = {} /\ OneSteer(d)
    BY <1>2, <1>7, <1>11, TurnsAssumption DEF Unsent, RetainedTurns, OneSteer, Turns
  <2>2. Active(d) \in d.attempted \cup Locals \cup {NoTurn}
    BY <1>7, <1>8, <1>11 DEF Orderly, Fifo, Active, OptLocal
  <2> QED BY <1>8, <1>11, <2>1, <2>2 DEF Orderly, Fifo, OptLocal
<1>15. Startable(d) \subseteq Startable(b) /\ Holds(c, d) /\ ~Accepted(d)
  <2>1. Holds(c, d) /\ ~Accepted(d)
    BY <1>11 DEF Holds, Accepted
  <2>2. NoTurn \notin QueuedIds(b.q)
    <3>1. b.q \in Queues
        BY <1>6 DEF WellFormed, Controllers
    <3>2. Ids(b.q.pending) \subseteq Turns
        BY <3>1, QueueFields, IdsType
    <3> QED BY <3>2, TurnsAssumption DEF QueuedIds, Turns
  <2>3. b.preflight = c.preflight
    BY <1>2, <1>7
  <2>4. Startable(d) \subseteq Startable(b)
    BY <1>11, <2>2, <2>3 DEF Startable
  <2> QED BY <2>1, <2>4
<1>16. OrdersWith(c, d, TurnsOf(us))
    BY <1>8, <1>11, <1>13, <1>14, <1>15 DEF OrdersWith, Orderly
<1> QED BY <1>11, <1>16 DEF d, us

LEMMA SetAcceptedOwnerInteractionOrders ==
    ASSUME NEW c, WellFormed(c), Orderly(c), NEW waiting \in BOOLEAN,
           c.owner.state \in {"running", "waiting"}
    PROVE  Orders(c, SetAcceptedOwnerInteraction(c, waiting))
<1> DEFINE o == [c.owner EXCEPT !.state = IF waiting THEN "waiting" ELSE "running"]
           d == [c EXCEPT !.owner = o]
<1>1. SetAcceptedOwnerInteraction(c, waiting) = d
    BY Zenon DEF SetAcceptedOwnerInteraction
<1>2. o.turn = c.owner.turn /\ o.state \in {"running", "waiting"}
    BY DEF WellFormed, Controllers, Owners
<1> HIDE DEF o
<1>3. /\ d.q = c.q /\ d.local = c.local /\ d.dispatching = c.dispatching
      /\ d.owner = o /\ d.preflight = c.preflight /\ d.startReq = c.startReq
      /\ d.stage = c.stage /\ d.attempted = c.attempted
      /\ d.steerAdmitted = c.steerAdmitted /\ d.steerReq = c.steerReq
      /\ d.link = c.link /\ d.hydrated = c.hydrated /\ d.retained = c.retained
    BY DEF WellFormed, Controllers
<1> HIDE DEF d
<1>4. Leased(d)
    BY <1>2, <1>3 DEF Orderly, Leased, Active, Linked
<1>5. Fifo(d)
    BY <1>3 DEF Orderly, Fifo, Active, RetainedTurns, OneSteer, Unsent
<1>6. Startable(d) = Startable(c) /\ Holds(c, d) /\ Accepted(d) = Accepted(c)
    BY <1>3 DEF Startable, Holds, Accepted
<1> QED BY <1>1, <1>3, <1>4, <1>5, <1>6 DEF Orders, Orderly

\* A controller that holds nothing is orderly.
LEMMA FreshIsOrderly ==
    ASSUME NEW c, c.q = EmptyQueue, c.local = NoTurn, c.dispatching = NoTurn, c.owner = NoOwner,
           c.preflight = NoTurn, c.stage = "none", c.retained = {}, c.steerReq = NoTurn,
           c.hydrated = NoHydrated
    PROVE  Orderly(c) /\ Startable(c) = {} /\ ~Accepted(c)
<1>1. Active(c) = NoTurn /\ Ids(c.q.pending) = {} /\ NoHydrated.turn = NoTurn
      /\ NoOwner.turn = NoTurn /\ NoOwner.state = "none"
    BY DEF Active, EmptyQueue, NoEntry, Ids, NoHydrated, NoOwner
<1>2. OneEach(c.q) /\ QueuedIds(c.q) = {}
    BY <1>1 DEF OneEach, Distinct, EmptyQueue, NoEntry, QueuedIds, Ids
<1>3. Leased(c)
    BY <1>1 DEF Leased
<1>4. Fifo(c)
    BY <1>1, <1>2, TurnsAssumption DEF Fifo, RetainedTurns, OneSteer, OptLocal
<1> QED BY <1>2, <1>3, <1>4 DEF Orderly, Startable, Accepted

\* A steer that was not admitted is over.
LEMMA SteerNotAdmittedEnds ==
    ASSUME NEW c, WellFormed(c), c.steerReq # NoTurn
    PROVE  SteerNotAdmitted(c).steerReq = NoTurn
<1> DEFINE t == c.steerReq
           f == ForgetSteer(c, t)
           n == RestageSteers(f, <<t>>)
<1>1. ASSUME NEW x, WellFormed(x) PROVE FinishSteer(x).steerReq = NoTurn
  <2> DEFINE d == [x EXCEPT !.steerReq = NoTurn, !.steerOwner = NoTurn,
                            !.retained = IF ~x.steerUnknown /\ Received(x, x.steerOwner)
                                         THEN DropSteersOf(@, x.steerOwner) ELSE @]
  <2>1. FinishSteer(x) = StartTurn(d, Active(d))
    BY DEF FinishSteer
  <2>2. d.steerReq = NoTurn
    BY <1>1 DEF WellFormed, Controllers
  <2>3. DOMAIN d = DOMAIN x /\ "steerReq" \in DOMAIN x
    BY <1>1 DEF WellFormed, Controllers
  <2> HIDE DEF d
  <2>4. StartTurn(d, Active(d)).steerReq = d.steerReq
    BY <2>3 DEF StartTurn
  <2> QED BY <2>1, <2>2, <2>4
<1>2. t \in Turns
    BY DEF WellFormed, Controllers, OptLocal, Turns
<1>3. WellFormed(f)
    BY ForgetSteerKeeps DEF Keeps
<1>4. WellFormed(n)
  <2> HIDE DEF f
  <2>1. <<t>> \in Seq(Turns)
    BY <1>2
  <2> QED BY <1>3, <2>1, RestageSteersKeeps DEF Keeps
<1>5. SteerNotAdmitted(c) \in {FinishSteer(n), FinishSteer(c)}
    BY Zenon DEF SteerNotAdmitted
<1> HIDE DEF n
<1> QED BY <1>1, <1>4, <1>5

=============================================================================
