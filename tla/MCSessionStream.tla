-------------------------- MODULE MCSessionStream --------------------------
(* Instances of SessionStream for TLC. *)
EXTENDS SessionStream, TLC

CONSTANTS a, b

NoReceipts == {}
FirstIsReceipt == {1}

ThreadSymmetry == Permutations(Threads)
=============================================================================
