---------------------------- MODULE MCPlanApply ----------------------------
(***************************************************************************)
(* PlanApply for TLC: three steps, of which one runs once, listed in an    *)
(* order that the sort has to mend.                                        *)
(***************************************************************************)
EXTENDS PlanApply

CONSTANTS q1, q2, a1, a2

ThreeSteps == <<"once", "config", "ask">>

Kinds == [s \in {"once", "config", "ask"} |-> IF s = "ask" THEN "browser without url" ELSE s]

Shape(once, config, ask) ==
    [s \in {"once", "config", "ask"} |->
        CASE s = "once" -> once [] s = "config" -> config [] OTHER -> ask]

\* The plan lists its steps in the reverse of the order that they need.
Shapes == {Shape(<<"ask", "config">>, <<>>, <<"config">>)}
=============================================================================
