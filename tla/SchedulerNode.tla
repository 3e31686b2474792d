---------------------------- MODULE SchedulerNode ----------------------------
(***************************************************************************)
(* A runtime node as start_scheduler (cognix/api/state.py) builds it: the  *)
(* dispatcher of TaskDispatcher, and in the same process a SchedulerEngine *)
(* (cognix/scheduler/engine.py) whose APScheduler jobs run the same tasks  *)
(* under the same node id.                                                 *)
(*                                                                         *)
(* APScheduler itself is external: a job has a timer, fires when it runs   *)
(* out, runs at most one instance at a time (max_instances = 1) and may    *)
(* miss a fire when the event loop is late (misfire_grace_time = 1s).      *)
(***************************************************************************)
EXTENDS TaskDispatcher

CONSTANT Jobs     \* the <<node, task>> pairs whose job is there at the start

\* Jobs are those of recurring tasks: a one-shot job leaves the engine when it
\* fires, and what it writes then is in TaskDispatcher (NextFire).
ASSUME JobsAssumption == Jobs \subseteq Node \X Task /\ OneShot = {}

VARIABLES
    timer,   \* timer[n][t]: time to the next fire of the job; NULL: no job,
             \* or a paused one
    erun     \* erun[n][t]: the _execute_task coroutine of that job

engineVars == <<timer, erun>>

nodeVars == <<vars, engineVars>>

(***************************************************************************)
(* Records of coroutines as in TaskDispatcher, without wait and awaited:   *)
(* nothing bounds an engine run but wait_for.  pc is one of                *)
(*   leased (about to read the row), checking, executing, recorded,        *)
(*   finished, writing, releasing (about to release_lease).                *)
(***************************************************************************)
EngineIdle == [pc |-> "idle", task |-> NULL, out |-> NULL, next |-> NULL,
               fail |-> FALSE]

EngineRun == [pc : {"leased", "checking", "executing", "recorded", "finished",
                    "writing", "releasing"},
              task : Task, out : {"success", "failure", "skipped", NULL},
              next : Nat \cup {NULL}, fail : BOOLEAN]

Up(n) == loop[n] # "down"

\* Coroutine (n, t) of the engine moves to the record r.
Moves(n, t, r) == erun' = [erun EXCEPT ![n][t] = r]

-----------------------------------------------------------------------------
NodeInit ==
    /\ Init
    /\ timer = [n \in Node |-> [t \in Task |->
                   IF <<n, t>> \in Jobs THEN Period ELSE NULL]]
    /\ erun = [n \in Node |-> [t \in Task |-> EngineIdle]]

(***************************************************************************)
(* The job fires and _execute_task tries acquire_lease, with the node's id *)
(* as the owner; it gives up if another node has the lease.  The fire is   *)
(* lost when the job still runs, or when it is late.                       *)
(***************************************************************************)
EngineFire(n, t) ==
    /\ Up(n) /\ timer[n][t] = 0
    /\ timer' = [timer EXCEPT ![n][t] = Period]
    /\ \/ /\ erun[n][t].pc = "idle" /\ CanAcquire(task[t], n)
          /\ task' = [task EXCEPT ![t] = Acquired(@, n)]
          /\ Moves(n, t, [EngineIdle EXCEPT !.pc = "leased", !.task = t])
       \/ UNCHANGED <<task, erun>>
    /\ UNCHANGED <<run, loop, cand, active, succeeded>>

\* The row is read: a canceled task is let go.
EngineRead(n, t) ==
    /\ erun[n][t].pc = "leased"
    /\ Moves(n, t, [erun[n][t] EXCEPT
         !.pc = IF task[t].state = "canceled" THEN "releasing" ELSE "checking"])
    /\ UNCHANGED <<vars, timer>>

\* The key has been executed: the schedule advances without a run.
EngineSkip(n, t) ==
    /\ erun[n][t].pc = "checking" /\ HasKey(t) /\ KeySeen(task[t])
    /\ Moves(n, t, [erun[n][t] EXCEPT !.pc = "writing", !.out = "skipped",
                                      !.next = NextFire(t)])
    /\ UNCHANGED <<vars, timer>>

\* The key is stored and the executor starts; there is no heartbeat.
EngineStart(n, t) ==
    /\ erun[n][t].pc = "checking" /\ ~(HasKey(t) /\ KeySeen(task[t]))
    /\ task' = [task EXCEPT ![t] = IF HasKey(t) THEN KeyStored(@) ELSE @]
    /\ Moves(n, t, [erun[n][t] EXCEPT !.pc = "executing"])
    /\ UNCHANGED <<run, loop, cand, active, succeeded, timer>>

\* The work ends and _persist_run commits, or fails and is only logged.
EngineRecord(n, t, out) ==
    /\ erun[n][t].pc = "executing"
    /\ \/ task' = [task EXCEPT ![t] = RunRecorded(@)]
       \/ "persist" \in Faults /\ UNCHANGED task
    /\ Moves(n, t, [erun[n][t] EXCEPT !.pc = "recorded", !.out = out])
    /\ Outcome(t, out)
    /\ UNCHANGED <<run, loop, cand, active, timer>>

EngineReturn(n, t) ==
    /\ erun[n][t].pc = "recorded"
    /\ Moves(n, t, [erun[n][t] EXCEPT !.pc = "finished"])
    /\ UNCHANGED <<vars, timer>>

\* wait_for cancels the executor, or execute raises.
EngineAbort(n, t) ==
    /\ "abort" \in Faults
    /\ erun[n][t].pc \in {"executing", "recorded"}
    /\ Moves(n, t, [erun[n][t] EXCEPT !.pc = "finished", !.out = "failure"])
    /\ UNCHANGED <<vars, timer>>

(***************************************************************************)
(* The row is read again.  After a success next_run becomes that of this   *)
(* node's job, or NULL if the job is gone.                                 *)
(***************************************************************************)
EngineJudge(n, t) ==
    LET r == erun[n][t] IN
    /\ r.pc = "finished"
    /\ IF task[t].state = "canceled"
       THEN Moves(n, t, [r EXCEPT !.pc = "releasing"])
       ELSE Moves(n, t, [r EXCEPT !.pc = "writing",
                                  !.next = ScheduleAfter(r, timer[n][t]),
                                  !.fail = GivesUp(r)])
    /\ UNCHANGED <<vars, timer>>

\* complete_lease, or release_lease of a canceled task: the coroutine ends.
EngineEnd(n, t) ==
    LET r == erun[n][t] IN
    /\ r.pc \in {"writing", "releasing"}
    /\ task' = [task EXCEPT ![t] =
          IF r.pc = "releasing" THEN Released(@, n)
          ELSE Completed(@, n, r.next, IF r.fail THEN "failed" ELSE NULL)]
    /\ Moves(n, t, EngineIdle)
    /\ UNCHANGED <<run, loop, cand, active, succeeded, timer>>

\* A statement of the coroutine raises: the job ends, the lease stays.
EngineRaise(n, t) ==
    /\ "raise" \in Faults
    /\ erun[n][t].pc \in {"leased", "checking", "finished", "writing", "releasing"}
    /\ Moves(n, t, EngineIdle)
    /\ UNCHANGED <<vars, timer>>

\* The jobs are in memory: they die with the node.
NodeCrash(n) ==
    /\ Crash(n)
    /\ timer' = [timer EXCEPT ![n] = [t \in Task |-> NULL]]
    /\ erun' = [erun EXCEPT ![n] = [t \in Task |-> EngineIdle]]

\* restore_active_tasks: a job for every active task.
NodeRestart(n) ==
    /\ Restart(n)
    /\ timer' = [timer EXCEPT ![n] = [t \in Task |->
                    IF task[t].state = "active" THEN Period ELSE NULL]]
    /\ UNCHANGED erun

NodeTick ==
    /\ Tick
    /\ timer' = [n \in Node |-> [t \in Task |-> Sooner(timer[n][t])]]
    /\ erun' = [n \in Node |-> [t \in Task |->
                  IF erun[n][t].pc = "idle" THEN EngineIdle
                  ELSE [erun[n][t] EXCEPT !.next = Sooner(@)]]]

-----------------------------------------------------------------------------
EngineAdvance(n, t) ==
    \/ EngineRead(n, t) \/ EngineSkip(n, t) \/ EngineStart(n, t)
    \/ EngineRecord(n, t, "success") \/ EngineRecord(n, t, "failure")
    \/ EngineReturn(n, t) \/ EngineJudge(n, t) \/ EngineEnd(n, t)

EngineStep(n, t) ==
    EngineFire(n, t) \/ EngineAdvance(n, t) \/ EngineAbort(n, t) \/ EngineRaise(n, t)

NodeNext ==
    \/ DispatchStep /\ UNCHANGED engineVars
    \/ \E n \in Node : NodeCrash(n) \/ NodeRestart(n)
    \/ \E n \in Node, t \in Task : EngineStep(n, t)
    \/ NodeTick

NodeSpec == NodeInit /\ [][NodeNext]_nodeVars

-----------------------------------------------------------------------------
NodeTypeOK ==
    /\ TypeOK
    /\ timer \in [Node -> [Task -> Nat \cup {NULL}]]
    /\ erun \in [Node -> [Task -> EngineRun \cup {EngineIdle}]]

\* A coroutine of n, of the dispatcher or the engine, answers for task t.
Attended(n, t) ==
    \/ erun[n][t].pc # "idle"
    \/ \E s \in Slot : run[s].node = n /\ run[s].task = t

(***************************************************************************)
(* No lease is forgotten: if a node that is up owns the lease of a task    *)
(* then one of its coroutines still has to give it up (dispatcher or       *)
(* engine, on every early return of either).                               *)
(***************************************************************************)
NoForgottenLease ==
    \A n \in Node, t \in Task : Up(n) /\ task[t].owner = n => Attended(n, t)

(***************************************************************************)
(* When a statement raises its coroutine does leave a lease behind; nobody *)
(* renews such a lease (no heartbeat of another run of the task, on this   *)
(* node or elsewhere), so it runs out and the task is free again.          *)
(***************************************************************************)
ForgottenLeaseRunsOut ==
    [][\A n \in Node, t \in Task :
         /\ Up(n) /\ task[t].owner = n /\ ~Attended(n, t)
         /\ task'[t].owner = n /\ ~Attended(n, t)'
         => task'[t].left <= task[t].left]_nodeVars
=============================================================================
