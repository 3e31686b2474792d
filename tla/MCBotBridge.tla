----------------------------- MODULE MCBotBridge ---------------------------
(***************************************************************************)
(* BotBridge for TLC.                                                      *)
(***************************************************************************)
EXTENDS BotBridge, TLC

CONSTANTS w1, w2, w3, m1, m2, v1, v2, e1, e2, e3

Alike ==
    Permutations(Worker) \cup Permutations(Msg) \cup Permutations(Workspace)
      \cup Permutations(Letter)
=============================================================================
