---------------------------- MODULE MCTaskRoutes ----------------------------
(***************************************************************************)
(* TaskRoutes for TLC: small sets, and which nodes have which jobs.        *)
(***************************************************************************)
EXTENDS TaskRoutes, TLC

CONSTANTS n1, n2, t1, t2, s1, s2, s3, c1, c2

AllJobs == Node \X Task

Alike ==
    Permutations(Slot) \cup Permutations(Node) \cup Permutations(Client)
=============================================================================
