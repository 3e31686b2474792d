---------------------------- MODULE MCApprovals ----------------------------
(***************************************************************************)
(* ApprovalRoutes for TLC.                                                 *)
(***************************************************************************)
EXTENDS ApprovalRoutes, TLC

CONSTANTS q1, q2, q3, a1, a2, v1, v2

Answers == {<<>>, <<"free", "gated">>, <<"denied">>}

Alike == Permutations(Req) \cup Permutations(Coroutine) \cup Permutations(Conv)
=============================================================================
