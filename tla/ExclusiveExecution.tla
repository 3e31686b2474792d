-------------------------- MODULE ExclusiveExecution ------------------------
(***************************************************************************)
(* What the leases of the dispatcher promise, without leases, rows, nodes  *)
(* or time: a task is in the hands of one worker at most, who takes it up, *)
(* executes it at most once, and lets it go; workers that die let go at    *)
(* any moment.                                                             *)
(***************************************************************************)
CONSTANTS Task, Worker

VARIABLE holds      \* what each worker has in hand

Free == [phase |-> "free"]
Hold(t, phase) == [task |-> t, phase |-> phase]

HasInHand(w, t) == holds[w].phase # "free" /\ holds[w].task = t

Init == holds = [w \in Worker |-> Free]

Take(w, t) ==
    /\ holds[w] = Free
    /\ \A v \in Worker : ~HasInHand(v, t)
    /\ holds' = [holds EXCEPT ![w] = Hold(t, "taken")]

Begin(w, t) ==
    /\ holds[w] = Hold(t, "taken")
    /\ holds' = [holds EXCEPT ![w] = Hold(t, "executing")]

\* The execution is over, or was not called for.
End(w, t) ==
    /\ holds[w] \in {Hold(t, "taken"), Hold(t, "executing")}
    /\ holds' = [holds EXCEPT ![w] = Hold(t, "ended")]

LetGo(W) == holds' = [w \in Worker |-> IF w \in W THEN Free ELSE holds[w]]

Next ==
    \/ \E w \in Worker, t \in Task : Take(w, t) \/ Begin(w, t) \/ End(w, t)
    \/ \E W \in SUBSET Worker : LetGo(W)

Spec == Init /\ [][Next]_holds
=============================================================================
