--------------------------- MODULE MCSchedulerNode ---------------------------
(***************************************************************************)
(* SchedulerNode for TLC: small sets, and which nodes have which jobs.     *)
(***************************************************************************)
EXTENDS SchedulerNode, TLC

CONSTANTS n1, n2, t1, t2, s1, s2, s3

AllJobs == Node \X Task

Alike == Permutations(Slot) \cup Permutations(Node)
=============================================================================
