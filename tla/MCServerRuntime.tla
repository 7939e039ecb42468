-------------------------- MODULE MCServerRuntime --------------------------
(***************************************************************************)
(* The connection runtime with a bounded number of user calls and faults.  *)
(***************************************************************************)
EXTENDS ServerRuntime
=============================================================================
