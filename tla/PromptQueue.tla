---------------------------- MODULE PromptQueue ----------------------------
(***************************************************************************)
(* The per-Session prompt queue (class PromptTurnQueue of                  *)
(* features/composer/turn-queue.ts): one active turn, a FIFO of prompts    *)
(* that each become a turn of their own, and the interrupted prompt that   *)
(* is given back when its own turn ends.                                   *)
(*                                                                         *)
(* The class is sequential and side-effect free, so its methods are        *)
(* operators from a queue to the next queue; TurnController calls them.    *)
(* A record manager gives every Session a queue of its own, so the         *)
(* per-session list of interrupt restores holds at most one entry and is   *)
(* the turn it is armed for.                                               *)
(***************************************************************************)
EXTENDS Integers, Sequences, FiniteSets

CONSTANTS
    Locals,   \* turn ids minted by this client: each one carries a prompt
    Foreign,  \* turn ids minted elsewhere: by another client, or by Core
    NoTurn    \* the null turn id

ASSUME TurnsAssumption ==
    /\ Locals \cap Foreign = {}
    /\ NoTurn \notin Locals \cup Foreign

Turns == Locals \cup Foreign

\* A queue entry: its turn id and whether it carries a prompt (text or files).
\* A turn adopted from the server is an entry without a prompt.
Entries == [id : Turns, text : BOOLEAN]
NoEntry == [id |-> NoTurn, text |-> FALSE]

OptTurn == Turns \cup {NoTurn}
Queues == [active : Entries \cup {NoEntry}, pending : Seq(Entries), stash : OptTurn]

EmptyQueue == [active |-> NoEntry, pending |-> <<>>, stash |-> NoTurn]

\* The elements of s that are in S, in their order (written without recursion,
\* so that TurnControllerProofs can prove what it returns).
Keep(s, S) ==
    LET kept == {i \in 1..Len(s) : s[i] \in S}
    IN  [k \in 1..Cardinality(kept) |->
            s[CHOOSE i \in kept : Cardinality({j \in kept : j <= i}) = k]]

Ids(seq) == {seq[i].id : i \in DOMAIN seq}
QueuedIds(q) == Ids(q.pending) \cup ({q.active.id} \ {NoTurn})

\* enqueue: an idle queue makes the turn active, a busy one appends it.
Enqueue(q, e) ==
    IF q.active.id = NoTurn
    THEN [q EXCEPT !.active = e]
    ELSE [q EXCEPT !.pending = Append(@, e)]

\* prependPending: returned steering precedes the later drafts.
PrependPending(q, es) == [q EXCEPT !.pending = es \o @]

\* Mutant: the displaced entry loses its place.
RestoreActiveAtBack(q, e, preserve) ==
    IF q.active.id = NoTurn THEN [q EXCEPT !.active = e]
    ELSE IF q.active.id = e.id \/ ~preserve THEN q
    ELSE [q EXCEPT !.active = e, !.pending = Append(@, q.active)]

\* restoreActive: install a turn; a different active entry refuses it, or is
\* pushed back to the head of the FIFO when the caller asks to preserve it.
RestoreActive(q, e, preserve) ==
    IF q.active.id = NoTurn THEN [q EXCEPT !.active = e]
    ELSE IF q.active.id = e.id \/ ~preserve THEN q
    ELSE [q EXCEPT !.active = e, !.pending = <<q.active>> \o @]

\* settle: only the active turn settles, and the FIFO advances by one.
Settle(q, t) ==
    IF q.active.id # t THEN q
    ELSE IF q.pending = <<>> THEN [q EXCEPT !.active = NoEntry]
    ELSE [q EXCEPT !.active = Head(q.pending), !.pending = Tail(@)]

\* removePending: the active turn is never removed.
RemovePending(q, t) ==
    IF t \notin Ids(q.pending) THEN q
    ELSE LET k == CHOOSE i \in DOMAIN q.pending : q.pending[i].id = t
         IN  [q EXCEPT !.pending = SubSeq(@, 1, k - 1) \o SubSeq(@, k + 1, Len(@))]

\* stashInterruptPrompt: one re-armable entry; nothing to give back, no entry.
StashInterruptPrompt(q, e) == IF e.text THEN [q EXCEPT !.stash = e.id] ELSE q

\* takeInterruptPrompt: consumed only by the turn it was armed for.
TakeInterruptPrompt(q, t) == IF q.stash = t THEN [q EXCEPT !.stash = NoTurn] ELSE q
=============================================================================
