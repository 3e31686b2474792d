-------------------------- MODULE MCTaskDispatcher --------------------------
(***************************************************************************)
(* TaskDispatcher for TLC: small sets, and their symmetries.               *)
(***************************************************************************)
EXTENDS TaskDispatcher, TLC

CONSTANTS n1, n2, t1, t2, t3, s1, s2, s3

Alike == Permutations(Slot) \cup Permutations(Node)

\* Where no task differs from another.
TasksAlike == Permutations(Slot) \cup Permutations(Task)
=============================================================================
