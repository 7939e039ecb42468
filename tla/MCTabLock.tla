----------------------------- MODULE MCTabLock -----------------------------
(***************************************************************************)
(* Two tabs that switch between two Sessions.                              *)
(***************************************************************************)
EXTENDS TabLock

CONSTANTS tab1, tab2, s1, s2

MCTabs == {tab1, tab2}
MCSessions == {s1, s2}
=============================================================================
