---------------------------- MODULE MCMcpRuntime ---------------------------
(***************************************************************************)
(* McpRuntime for TLC.                                                     *)
(***************************************************************************)
EXTENDS McpRuntime, TLC

CONSTANTS c1, c2, p1, p2, p3, l1, l2

Alike == Permutations(Caller) \cup Permutations(Proc) \cup Permutations(Lock)
=============================================================================
