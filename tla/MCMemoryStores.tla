--------------------------- MODULE MCMemoryStores --------------------------
(***************************************************************************)
(* MemoryStores for TLC.                                                   *)
(***************************************************************************)
EXTENDS MemoryStores, TLC

CONSTANTS a1, a2, r1, r2, f1, f2, f3, v1, v2

Alike ==
    Permutations(Actor) \cup Permutations(Rec) \cup Permutations(Fact) \cup Permutations(Value)
=============================================================================
