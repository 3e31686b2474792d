-------------------------- MODULE OrderedExecution --------------------------
(***************************************************************************)
(* What apply_plan promises, without a sort, a file, requests or awaits:   *)
(* a worker takes the steps up one at a time, each only when those that it *)
(* needs have been served, passes over those that can no longer be served, *)
(* triggers the tasks that fell due exactly once, after the last step has  *)
(* ended, and does not leave before - unless it breaks off.                *)
(***************************************************************************)
CONSTANTS Step, Worker

VARIABLES
    needs,      \* [Step -> SUBSET Step]
    work,       \* [Worker -> the status of each step, and the tasks that are due]
    brokenOff   \* some worker did not finish

vars == <<needs, work, brokenOff>>

Nothing == [status |-> [s \in Step |-> "pending"], due |-> {}]

Served == {"completed", "needs_input"}
Ended == Served \cup {"failed"}

StepsIn(w, S) == {s \in Step : work[w].status[s] \in S}

\* No step is under way, and the next may begin.
Free(w) == StepsIn(w, {"executing"}) = {}

AllEnded(w) == StepsIn(w, Ended) = Step

Init ==
    /\ needs \in [Step -> SUBSET Step]
    /\ work = [w \in Worker |-> Nothing]
    /\ brokenOff = FALSE

\* A step goes from one status to another, and nothing else but the tasks that are due.
Goes(w, s, from, to, due) ==
    /\ work[w].status[s] = from /\ work'[w].status[s] \in to
    /\ work' = [work EXCEPT ![w] =
                    [status |-> [work[w].status EXCEPT ![s] = work'[w].status[s]],
                     due |-> due]]
    /\ UNCHANGED <<needs, brokenOff>>

\* A step begins, or begins and ends at once.
TakeUp(w, s) ==
    /\ Goes(w, s, "pending", Ended \cup {"executing"}, work[w].due)
    /\ Free(w) /\ needs[s] \subseteq StepsIn(w, Served)

PassOver(w, s) ==
    /\ Goes(w, s, "pending", {"failed"}, work[w].due)
    /\ Free(w) /\ needs[s] \subseteq StepsIn(w, Ended)
    /\ needs[s] \cap StepsIn(w, {"failed"}) # {}

\* A step ends; it may have made a task that is to be triggered.
Return(w, s) ==
    /\ s \notin work[w].due
    /\ \/ Goes(w, s, "executing", {"failed"}, work[w].due)
       \/ \E tasks \in SUBSET {s} :
              Goes(w, s, "executing", {"completed"}, work[w].due \cup tasks)

Trigger(w, s) ==
    /\ s \in work[w].due /\ AllEnded(w)
    /\ \E from \in Ended : Goes(w, s, from, {"executing"}, work[w].due)

Settle(w, s) ==
    /\ s \in work[w].due
    /\ Goes(w, s, "executing", {"completed", "failed"}, work[w].due \ {s})

Leave(w) ==
    /\ AllEnded(w) /\ work[w].due = {}
    /\ work' = [work EXCEPT ![w] = Nothing]
    /\ UNCHANGED <<needs, brokenOff>>

BreakOff(w) ==
    /\ brokenOff' = TRUE
    /\ work' = [work EXCEPT ![w] = Nothing]
    /\ UNCHANGED needs

\* The steps that are given another status.
Moved(w) == {s \in Step : work'[w].status[s] # work[w].status[s]}

Next ==
    \E w \in Worker :
        \/ \E s \in Moved(w) :
              TakeUp(w, s) \/ PassOver(w, s) \/ Return(w, s) \/ Trigger(w, s) \/ Settle(w, s)
        \/ Leave(w) \/ BreakOff(w)

Spec == Init /\ [][Next]_vars
=============================================================================
