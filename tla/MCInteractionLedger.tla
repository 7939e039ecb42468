------------------------ MODULE MCInteractionLedger ------------------------
(***************************************************************************)
(* A small ledger for TLC: an approval and two questions of one turn.      *)
(***************************************************************************)
EXTENDS InteractionLedger, TLC

CONSTANTS a1, q1, q2, t1

MCApprovals == {a1}
MCQuestions == {q1, q2}
MCTurns == {t1}
MCTurnOf == [i \in {a1, q1, q2} |-> t1]
QuestionSymmetry == Permutations({q1, q2})
=============================================================================
