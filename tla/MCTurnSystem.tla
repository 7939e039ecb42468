---------------------------- MODULE MCTurnSystem ----------------------------
(* Instances of TurnSystem for TLC. *)
EXTENDS TurnSystem, TLC

CONSTANTS t1, t2, f1, f2, none

OneLocal == {t1}
OtherLocal == {t2}
TwoLocals == {t1, t2}
OneForeign == {f1}
TwoForeign == {f1, f2}
Empty == {}
TurnSymmetry == Permutations(Locals) \cup Permutations(Foreign)
=============================================================================
