--------------------------- MODULE TaskDispatcher ---------------------------
(***************************************************************************)
(* DistributedTaskDispatcher (cognix/scheduler/dispatcher.py): every node  *)
(* polls the task table, leases due tasks and runs what it leased, with a  *)
(* heartbeat that extends the lease while the executor works.              *)
(*                                                                         *)
(* A run slot is one _run_claimed coroutine; its pc is the await at which  *)
(* the coroutine is suspended, so nodes, coroutines and the database       *)
(* interleave exactly where the code awaits.  Operators marked "a wrong    *)
(* form" are plausible bugs; the model does not use them, they show that   *)
(* the properties below can fail.                                          *)
(***************************************************************************)
EXTENDS TaskStore, FiniteSets

CONSTANTS
    Task,            \* rows of scheduled_tasks
    Slot,            \* bound: _run_claimed coroutines alive at once, all nodes
    MinHeartbeat,    \* the 10 of max(lease_ttl_seconds // 3, 10), in time units
    Slack,           \* longest delay of a step that a live node owes
    MaxConcurrent, BatchSize,
    MaxRetries,
    RetryBase, RetryMax,
    Period,          \* time from one fire of a recurring task to the next
    OneShot,         \* tasks whose schedule is an ISO datetime
    Keyed,           \* tasks created with an idempotency key ...
    PayloadKeyed,    \* ... and those whose payload carries it as well
    Mortal,          \* nodes that may crash or be stopped
    Faults           \* what may go wrong, a subset of FaultKind

\* abort:   execute times out or raises     persist: _persist_run fails
\* raise:   a statement of the dispatcher's coroutines raises
\* extend:  extend_lease raises             restart: nodes come back
FaultKind == {"abort", "persist", "raise", "extend", "restart"}

ASSUME DispatcherAssumption ==
    /\ MinHeartbeat \in Nat \ {0} /\ Slack \in Nat
    /\ MaxConcurrent \in Nat \ {0} /\ BatchSize \in Nat \ {0}
    /\ MaxRetries \in Nat /\ RunCap > MaxRetries
    /\ RetryBase \in Nat /\ RetryMax \in Nat /\ Period \in Nat
    /\ OneShot \subseteq Task /\ Keyed \subseteq Task
    /\ PayloadKeyed \subseteq Keyed
    /\ Mortal \subseteq Node
    /\ Faults \subseteq FaultKind
    /\ NULL \notin Task

VARIABLES
    task,    \* the table: one row per task
    run,     \* the coroutines, one record per slot
    loop,    \* where _run_loop of each node stands
    cand,    \* candidates that claim_due_tasks has selected, not yet tried
    active,  \* _active_task_ids of each node
    succeeded  \* history: the tasks that a run has executed successfully

vars == <<task, run, loop, cand, active, succeeded>>

-----------------------------------------------------------------------------
HeartbeatInterval ==
    LET third == LeaseTTL \div 3
    IN  IF third > MinHeartbeat THEN third ELSE MinHeartbeat

\* compute_retry_delay; it saturates at RetryMax.
RetryDelay(attempts) ==
    LET delay == RetryBase * 2^(attempts - 1)
    IN  IF delay \in 0..RetryMax THEN delay ELSE RetryMax

ExhaustedEarly(attempts) == attempts >= MaxRetries          \* a wrong form

\* _complete_failed_run: no retry is left.
Exhausted(attempts) == attempts > MaxRetries

(***************************************************************************)
(* next_run_time(schedule), as a distance from now: the trigger is asked   *)
(* for the fire time that follows no previous one, so a date trigger       *)
(* answers its date again, which is past once the task has been due.       *)
(***************************************************************************)
NextFire(t) == IF t \in OneShot THEN 0 ELSE Period

\* A slot that holds no coroutine.
Idle == [pc |-> "idle", node |-> NULL, task |-> NULL, wait |-> NULL,
         out |-> NULL, next |-> NULL, fail |-> FALSE, awaited |-> FALSE]

(***************************************************************************)
(* pc      claimed:   leased, the rest of the batch is still being claimed *)
(*         checking:  about to check the idempotency key                   *)
(*         executing: the executor works                                   *)
(*         recorded:  _persist_run has committed, execute has not returned *)
(*         finished:  about to read the row after the run                  *)
(*         writing:   about to write complete_lease                        *)
(* wait    time in which the next step this coroutine owes must happen;    *)
(*         NULL while executing without a heartbeat                        *)
(* out     result of the run          next, fail  what is to be written    *)
(* awaited the gather of the current dispatch cycle waits for it           *)
(***************************************************************************)
LiveRun == [pc : {"claimed", "checking", "executing", "recorded", "finished",
                  "writing"},
            node : Node, task : Task,
            wait : Nat \cup {NULL},
            out : {"success", "failure", "skipped", NULL},
            next : Nat \cup {NULL}, fail : BOOLEAN, awaited : BOOLEAN]

Working(s) == run[s].pc \in {"executing", "recorded"}

FreeSlotsForgetful(n) == MaxConcurrent                      \* a wrong form

\* dispatch_once: what max_concurrent leaves free on a node.
FreeSlots(n) ==
    LET free == MaxConcurrent - Cardinality(active[n])
    IN  IF free > 0 THEN free ELSE 0

HasKey(t) == t \in PayloadKeyed \/ task[t].keyed

-----------------------------------------------------------------------------
Init ==
    /\ task = [t \in Task |-> Created(Period, t \in Keyed)]
    /\ run = [s \in Slot |-> Idle]
    /\ loop = [n \in Node |-> "sleeping"]
    /\ cand = [n \in Node |-> {}]
    /\ active = [n \in Node |-> {}]
    /\ succeeded = {}

(***************************************************************************)
(* dispatch_once, up to the SELECT of claim_due_tasks.  The rows come in   *)
(* order of next_run; all of them are due, so any choice of that many due  *)
(* rows stands for an order.                                               *)
(***************************************************************************)
SelectDue(n) ==
    LET due   == {t \in Task : Claimable(task[t])}
        limit == IF BatchSize < FreeSlots(n) THEN BatchSize ELSE FreeSlots(n)
        size  == IF Cardinality(due) < limit THEN Cardinality(due) ELSE limit
    IN  /\ loop[n] = "sleeping"
        /\ size > 0
        /\ \E batch \in SUBSET due :
              /\ Cardinality(batch) = size
              /\ cand' = [cand EXCEPT ![n] = batch]
        /\ loop' = [loop EXCEPT ![n] = "claiming"]
        /\ UNCHANGED <<task, run, active, succeeded>>

\* claim_due_tasks, one candidate: acquire_lease, then a re-read of the row.
Claim(n, t) ==
    /\ loop[n] = "claiming" /\ t \in cand[n]
    /\ cand' = [cand EXCEPT ![n] = @ \ {t}]
    /\ IF CanAcquire(task[t], n)
       THEN /\ task' = [task EXCEPT ![t] = Acquired(@, n)]
            /\ \E s \in Slot :
                  /\ run[s].pc = "idle"
                  /\ run' = [run EXCEPT ![s] =
                        [Idle EXCEPT !.pc = "claimed", !.node = n, !.task = t,
                                     !.wait = Slack, !.awaited = TRUE]]
       ELSE UNCHANGED <<task, run>>
    /\ UNCHANGED <<loop, active, succeeded>>

(***************************************************************************)
(* A statement of claim_due_tasks raises: what was leased before it stays  *)
(* leased, and no coroutine is started for it.                             *)
(***************************************************************************)
ClaimRaises(n) ==
    /\ "raise" \in Faults
    /\ loop[n] = "claiming" /\ cand[n] # {}
    /\ cand' = [cand EXCEPT ![n] = {}]
    /\ loop' = [loop EXCEPT ![n] = "sleeping"]
    /\ run' = [s \in Slot |->
                 IF run[s].node = n /\ run[s].pc = "claimed" THEN Idle ELSE run[s]]
    /\ UNCHANGED <<task, active, succeeded>>

\* All candidates tried: gather starts every claimed coroutine at once.
StartBatch(n) ==
    /\ loop[n] = "claiming" /\ cand[n] = {}
    /\ loop' = [loop EXCEPT ![n] = "gathering"]
    /\ run' = [s \in Slot |->
                 IF run[s].node = n /\ run[s].pc = "claimed"
                 THEN [run[s] EXCEPT !.pc = "checking"] ELSE run[s]]
    /\ active' = [active EXCEPT ![n] = @ \cup
                     {run[s].task : s \in {x \in Slot : /\ run[x].node = n
                                                        /\ run[x].pc = "claimed"}}]
    /\ UNCHANGED <<task, cand, succeeded>>

\* gather has returned: the loop goes on to its heartbeat, reaper and sleep.
EndBatch(n) ==
    /\ loop[n] = "gathering"
    /\ \A s \in Slot : run[s].node = n => ~run[s].awaited
    /\ loop' = [loop EXCEPT ![n] = "sleeping"]
    /\ UNCHANGED <<task, run, cand, active, succeeded>>

\* The orphan reaper, between two cycles: one UPDATE over the whole table.
ReapOrphans(n) ==
    /\ loop[n] = "sleeping"
    /\ \E t \in Task : Reaped(task[t]) # task[t]
    /\ task' = [t \in Task |-> Reaped(task[t])]
    /\ UNCHANGED <<run, loop, cand, active, succeeded>>

-----------------------------------------------------------------------------
\* The finally clause of the run: the task is no longer active on its node.
Discard(s) ==
    active' = [active EXCEPT ![run[s].node] = @ \ {run[s].task}]

\* check_idempotency says that the key has been executed: nothing runs.
SkipSeenKey(s) ==
    LET t == run[s].task IN
    /\ run[s].pc = "checking"
    /\ HasKey(t) /\ KeySeen(task[t])
    /\ run' = [run EXCEPT ![s] = [@ EXCEPT !.pc = "finished", !.out = "skipped"]]
    /\ Discard(s)
    /\ UNCHANGED <<task, loop, cand, succeeded>>

\* Otherwise the key is stored, the heartbeat starts and so does the executor.
StartExecution(s) ==
    LET t == run[s].task IN
    /\ run[s].pc = "checking"
    /\ ~(HasKey(t) /\ KeySeen(task[t]))
    /\ task' = [task EXCEPT ![t] = IF HasKey(t) THEN KeyStored(@) ELSE @]
    /\ run' = [run EXCEPT ![s] =
              [@ EXCEPT !.pc = "executing", !.wait = HeartbeatInterval + Slack]]
    /\ UNCHANGED <<loop, cand, active, succeeded>>

(***************************************************************************)
(* _lease_heartbeat_loop: its interval has passed.  A refused extension    *)
(* ends the loop, one that raises is only logged.                          *)
(***************************************************************************)
Heartbeat(s) ==
    LET t == run[s].task IN
    /\ Working(s)
    /\ run[s].wait # NULL /\ run[s].wait <= Slack
    /\ \/ /\ CanExtend(task[t], run[s].node)
          /\ task' = [task EXCEPT ![t] = Extended(@)]
          /\ run' = [run EXCEPT ![s] = [@ EXCEPT !.wait = HeartbeatInterval + Slack]]
       \/ /\ ~CanExtend(task[t], run[s].node)
          /\ run' = [run EXCEPT ![s] = [@ EXCEPT !.wait = NULL]]
          /\ UNCHANGED task
       \/ /\ "extend" \in Faults
          /\ run' = [run EXCEPT ![s] = [@ EXCEPT !.wait = HeartbeatInterval + Slack]]
          /\ UNCHANGED task
    /\ UNCHANGED <<loop, cand, active, succeeded>>

\* What the history keeps of one more run of a task.
Outcome(t, out) ==
    succeeded' = IF out = "success" THEN succeeded \cup {t} ELSE succeeded

(***************************************************************************)
(* The task's own work ends; _persist_run commits the run record and       *)
(* run_count, or fails and is only logged.                                 *)
(***************************************************************************)
RecordRun(s, out) ==
    LET t == run[s].task IN
    /\ run[s].pc = "executing"
    /\ \/ task' = [task EXCEPT ![t] = RunRecorded(@)]
       \/ "persist" \in Faults /\ UNCHANGED task
    /\ run' = [run EXCEPT ![s] = [@ EXCEPT !.pc = "recorded", !.out = out]]
    /\ Outcome(t, out)
    /\ UNCHANGED <<loop, cand, active>>

\* execute returns (artifact and events written); the heartbeat is cancelled.
ReturnRun(s) ==
    /\ run[s].pc = "recorded"
    /\ run' = [run EXCEPT ![s] = [@ EXCEPT !.pc = "finished", !.wait = Slack]]
    /\ Discard(s)
    /\ UNCHANGED <<task, loop, cand, succeeded>>

(***************************************************************************)
(* wait_for cancels the executor, or execute raises: in its work (nothing  *)
(* is recorded) or after _persist_run (what is recorded stays).  Either    *)
(* way the run is a failure and the heartbeat is cancelled.                *)
(***************************************************************************)
AbortRun(s) ==
    /\ "abort" \in Faults
    /\ Working(s)
    /\ run' = [run EXCEPT ![s] =
              [@ EXCEPT !.pc = "finished", !.out = "failure", !.wait = Slack]]
    /\ Discard(s)
    /\ UNCHANGED <<task, loop, cand, succeeded>>

(***************************************************************************)
(* The row is read back and the run is judged by it: a canceled task is    *)
(* left alone, a failed run is retried while run_count <= max_retries and  *)
(* fails the task after that, anything else advances the schedule.  (A     *)
(* failure of a task that is gone counts as a success.)                    *)
(***************************************************************************)
Failed(r) == r.out = "failure" /\ task[r.task].state # "deleted"

Attempts(t) == IF task[t].runs > 1 THEN task[t].runs ELSE 1

GivesUp(r) == Failed(r) /\ Exhausted(Attempts(r.task))

\* next_run after the run r, if a success would put it off by nextFire.
ScheduleAfter(r, nextFire) ==
    IF ~Failed(r) THEN nextFire
    ELSE IF GivesUp(r) THEN NULL
    ELSE RetryDelay(Attempts(r.task))

Judge(s) ==
    LET t == run[s].task IN
    /\ run[s].pc = "finished"
    /\ \/ task[t].state = "canceled" /\ run' = [run EXCEPT ![s] = Idle]
       \/ /\ task[t].state # "canceled"
          /\ run' = [run EXCEPT ![s] =
                [@ EXCEPT !.pc = "writing",
                          !.next = ScheduleAfter(run[s], NextFire(t)),
                          !.fail = GivesUp(run[s])]]
    /\ UNCHANGED <<task, loop, cand, active, succeeded>>

\* complete_lease: the coroutine ends.
WriteBack(s) ==
    LET r == run[s] IN
    /\ r.pc = "writing"
    /\ task' = [task EXCEPT ![r.task] =
                  Completed(@, r.node, r.next, IF r.fail THEN "failed" ELSE NULL)]
    /\ run' = [run EXCEPT ![s] = Idle]
    /\ UNCHANGED <<loop, cand, active, succeeded>>

(***************************************************************************)
(* A statement of the coroutine raises: the coroutine ends with its lease  *)
(* in place, and if the current gather awaits it, gather raises at once    *)
(* and the loop goes on while its siblings keep running.                   *)
(***************************************************************************)
Raise(s) ==
    LET n == run[s].node IN
    /\ "raise" \in Faults
    /\ run[s].pc \in {"checking", "finished", "writing"}
    /\ run' = [x \in Slot |->
                 IF x = s THEN Idle
                 ELSE IF run[x].node = n /\ run[s].awaited
                      THEN [run[x] EXCEPT !.awaited = FALSE] ELSE run[x]]
    /\ loop' = [loop EXCEPT ![n] = IF run[s].awaited THEN "sleeping" ELSE @]
    /\ IF run[s].pc = "checking" THEN Discard(s) ELSE UNCHANGED active
    /\ UNCHANGED <<task, cand, succeeded>>

\* Crash, or stop(): the coroutines die with the node, their leases stay.
Crash(n) ==
    /\ n \in Mortal /\ loop[n] # "down"
    /\ loop' = [loop EXCEPT ![n] = "down"]
    /\ cand' = [cand EXCEPT ![n] = {}]
    /\ run' = [s \in Slot |-> IF run[s].node = n THEN Idle ELSE run[s]]
    /\ active' = [active EXCEPT ![n] = {}]
    /\ UNCHANGED <<task, succeeded>>

\* A node starts under a fresh id: n stands for an id no row mentions.
Restart(n) ==
    /\ "restart" \in Faults
    /\ loop[n] = "down"
    /\ \A t \in Task : task[t].owner # n
    /\ loop' = [loop EXCEPT ![n] = "sleeping"]
    /\ UNCHANGED <<task, run, cand, active, succeeded>>

\* Time passes, but never beyond the moment at which a live step is overdue.
Tick ==
    /\ \A s \in Slot : run[s].pc # "idle" /\ run[s].wait # NULL => run[s].wait > 0
    /\ task' = [t \in Task |-> Aged(task[t])]
    /\ run' = [s \in Slot |->
                 IF run[s].pc = "idle" \/ run[s].wait = NULL THEN run[s]
                 ELSE [run[s] EXCEPT !.wait = @ - 1, !.next = Sooner(@)]]
    /\ UNCHANGED <<loop, cand, active, succeeded>>

-----------------------------------------------------------------------------
LoopStep(n) ==
    \/ SelectDue(n) \/ (\E t \in Task : Claim(n, t)) \/ ClaimRaises(n)
    \/ StartBatch(n) \/ EndBatch(n)

\* What the coroutine owes: each of its awaits ends.
Advance(s) ==
    \/ SkipSeenKey(s) \/ StartExecution(s)
    \/ RecordRun(s, "success") \/ RecordRun(s, "failure")
    \/ ReturnRun(s) \/ Judge(s) \/ WriteBack(s)

RunStep(s) == Advance(s) \/ Heartbeat(s) \/ AbortRun(s) \/ Raise(s)

DispatchStep ==
    \/ \E n \in Node : LoopStep(n) \/ ReapOrphans(n)
    \/ \E s \in Slot : RunStep(s)

Next == DispatchStep \/ (\E n \in Node : Crash(n) \/ Restart(n)) \/ Tick

Spec == Init /\ [][Next]_vars

(***************************************************************************)
(* Fairness: the loop of a node that is up polls for ever and awaits       *)
(* nothing that does not end; a run ends (wait_for bounds it); time goes   *)
(* on.  Nothing is assumed of crashes, restarts, reaping or failures.      *)
(***************************************************************************)
FairSpec ==
    /\ Spec
    /\ \A n \in Node : WF_vars(LoopStep(n))
    /\ \A s \in Slot : WF_vars(Advance(s))
    /\ WF_vars(Tick)

-----------------------------------------------------------------------------
TypeOK ==
    /\ task \in [Task -> Row]
    /\ run \in [Slot -> LiveRun \cup {Idle}]
    /\ loop \in [Node -> {"sleeping", "claiming", "gathering", "down"}]
    /\ cand \in [Node -> SUBSET Task]
    /\ active \in [Node -> SUBSET Task]
    /\ succeeded \subseteq Task

(***************************************************************************)
(* No task is executed by two coroutines at once, on one node or on two:   *)
(* the promise of the lease (docs/guides/tasks.md, distributed mode).      *)
(***************************************************************************)
ExclusiveRuns ==
    \A s1, s2 \in Slot :
        Working(s1) /\ Working(s2) /\ run[s1].task = run[s2].task => s1 = s2

\* The heartbeat outruns the lease, whatever delays the nodes' steps suffer.
Timely == HeartbeatInterval + 3 * Slack <= LeaseTTL /\ "extend" \notin Faults

(***************************************************************************)
(* What makes the lease exclusive, step by step: from the claim to the     *)
(* final write a coroutine owns the row of its task, and the lease lasts   *)
(* until the next step that the coroutine owes.  The hardest moment is the *)
(* end of a run: the heartbeat is cancelled and the write is still to come.*)
(***************************************************************************)
Cover(r) ==
    IF r.pc \in {"claimed", "checking"} THEN LeaseTTL - Slack + r.wait
    ELSE IF r.pc \in {"executing", "recorded"} THEN r.wait + Slack
    ELSE r.wait

CoveredBy(r, row) ==
    /\ row.state = "active" /\ row.owner = r.node
    /\ r.wait # NULL /\ row.left # NULL /\ row.left >= Cover(r)

Live(s) == run[s].pc # "idle"

LeaseInv ==
    /\ \A s \in Slot : Live(s) => CoveredBy(run[s], task[run[s].task])
    /\ \A s1, s2 \in Slot :
          Live(s1) /\ Live(s2) /\ run[s1].task = run[s2].task => s1 = s2
    /\ \A s \in Slot : Live(s) => run[s].task \notin cand[run[s].node]

\* The types, and a lease for every coroutine that lasts until its next step.
DispatcherInv == TypeOK /\ LeaseInv

(***************************************************************************)
(* The abstract promise that the lease is to keep: a coroutine has its     *)
(* task in hand from the claim to the final write.                         *)
(***************************************************************************)
PhaseOf(pc) ==
    IF pc \in {"claimed", "checking"} THEN "taken"
    ELSE IF pc \in {"executing", "recorded"} THEN "executing" ELSE "ended"

InHand(r) ==
    IF r.pc = "idle" THEN [phase |-> "free"]
    ELSE [task |-> r.task, phase |-> PhaseOf(r.pc)]

Execution == INSTANCE ExclusiveExecution
    WITH Worker <- Slot, holds <- [s \in Slot |-> InHand(run[s])]

\* The dispatcher implements it: claims, heartbeats, retries, crashes and take-overs
\* never put one task into two hands, and whoever takes a task executes it once.
OneHandAtATime == Execution!Spec

(***************************************************************************)
(* A node never works on more tasks at once than max_concurrent, though    *)
(* its loop goes on while coroutines of an earlier batch still run (gather *)
(* returns at the first exception).                                        *)
(***************************************************************************)
CapacityBound ==
    \A n \in Node :
        Cardinality({s \in Slot : run[s].node = n /\ Working(s)}) <= MaxConcurrent

(***************************************************************************)
(* While a lease lasts, only the run it was taken for gives it up: not a   *)
(* run of the same task whose node stalled past an earlier lease and ends  *)
(* at last, on another node or on this one (complete_lease and the claim   *)
(* look at the node's id only), nor a reaper or a claim elsewhere.         *)
(***************************************************************************)
LeaseEndsWithItsRun ==
    [][\A s \in Slot :
         LET t == run[s].task IN
         /\ Live(s) /\ task[t].owner = run[s].node
         /\ task[t].left # NULL /\ ~Expired(task[t])
         => task'[t].owner = run[s].node \/ run'[s].pc = "idle"]_vars

(***************************************************************************)
(* max_retries: no task is declared failed while the runs recorded for it  *)
(* leave it a retry (an unrecorded run counts as the first).               *)
(***************************************************************************)
FailedOnlyAfterBudget ==
    \A t \in Task : task[t].state = "failed" => Attempts(t) > MaxRetries

(***************************************************************************)
(* A task with an idempotency key that has been executed successfully is   *)
(* never executed again, whatever happens to the node that executed it.    *)
(***************************************************************************)
CompletedKeyNeverReruns ==
    [][\A s \in Slot :
         LET t == run[s].task IN
         run[s].pc = "checking" /\ run'[s].pc = "executing" /\ t \in Keyed
           => t \notin succeeded]_vars

(***************************************************************************)
(* No task is forgotten: a row that may still run has a time to run at.    *)
(***************************************************************************)
ActiveIsScheduled ==
    \A t \in Task : task[t].state = "active" => task[t].next # NULL

(***************************************************************************)
(* A due task is eventually served by some node, also when the node that   *)
(* leased it dies: its lease expires and another node takes it.  (Served:  *)
(* past the claim and the idempotency check.)                              *)
(***************************************************************************)
DueTaskServed ==
    \A t \in Task :
        task[t].state = "active" /\ task[t].next = 0
          ~> \E s \in Slot : /\ run[s].task = t
                             /\ run[s].pc \in {"executing", "recorded",
                                              "finished", "writing"}

(***************************************************************************)
(* The lease of a node that is gone does not last for ever.                *)
(***************************************************************************)
DeadLeaseFreed ==
    \A n \in Node, t \in Task :
        loop[n] = "down" /\ task[t].owner = n ~> task[t].owner # n
=============================================================================
