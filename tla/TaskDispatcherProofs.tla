------------------------ MODULE TaskDispatcherProofs ------------------------
(***************************************************************************)
(* What holds of TaskDispatcher for every set of nodes, tasks and          *)
(* coroutines and every setting: type correctness; when the heartbeat is   *)
(* timely, that a task is never executed twice at once, as the abstract    *)
(* ExclusiveExecution says; however late it is, that an active task keeps  *)
(* a time to run at, no task fails before its retries are used up, a run   *)
(* that has lost its lease changes nothing, and a key that succeeded is    *)
(* not executed again; and, with a finite table and timely heartbeats,     *)
(* that no node works on more tasks than max_concurrent, though coroutines *)
(* that gather no longer awaits overlap the batches that follow.           *)
(***************************************************************************)
EXTENDS TaskDispatcher, FiniteSetTheorems, TLAPS

-----------------------------------------------------------------------------
(* The statements of the store map rows to rows.                           *)

\* The settings are natural numbers, and so are the delays computed from them.
LEMMA SettingsType ==
    /\ LeaseTTL \in Nat /\ LeaseTTL \in Int \cup {NULL} /\ Slack \in Nat
    /\ MaxRetries \in Nat /\ HeartbeatInterval \in Nat
    /\ \A a \in Nat : RetryDelay(a) \in Nat
    /\ \A t \in Task : NextFire(t) \in Nat
BY StoreAssumption, DispatcherAssumption
   DEF HeartbeatInterval, RetryDelay, NextFire

\* Taking, extending and giving up a lease keep a row a row.
LEMMA LeaseOpsType ==
    ASSUME NEW row \in Row, NEW n \in Node
    PROVE  /\ Unleased(row) \in Row /\ Acquired(row, n) \in Row
           /\ Extended(row) \in Row /\ Reaped(row) \in Row
<1>1. Unleased(row) \in Row /\ Acquired(row, n) \in Row /\ Extended(row) \in Row
  BY SettingsType DEF Row, Unleased, Acquired, Extended
<1> QED BY <1>1 DEF Reaped

\* Completing a run writes a schedule and maybe a state.
LEMMA CompletedType ==
    ASSUME NEW row \in Row, NEW n \in Node, NEW next \in Nat \cup {NULL},
           NEW state \in TaskState \cup {NULL}
    PROVE  Completed(row, n, next, state) \in Row
<1> DEFINE st == IF state = NULL THEN row.state ELSE state
<1>1. st \in TaskState \cup {"deleted"}
  BY DEF Row
<1>2. [Unleased(row) EXCEPT !.next = next, !.state = st] \in Row
  <2> DEFINE u == Unleased(row)
  <2>1. u \in Row
    BY LeaseOpsType
  <2> HIDE DEF u, st
  <2>2. [u EXCEPT !.next = next, !.state = st] \in Row
    BY <1>1, <2>1 DEF Row
  <2> QED  BY <2>2 DEF u
<1> QED BY <1>2 DEF Completed

\* Recording a run, storing a key and the passing of time keep a row a row.
LEMMA OtherOpsType ==
    ASSUME NEW row \in Row
    PROVE  RunRecorded(row) \in Row /\ KeyStored(row) \in Row /\ Aged(row) \in Row
<1> DEFINE runs == IF row.runs < RunCap THEN row.runs + 1 ELSE row.runs
           next == Sooner(row.next)
           left == IF row.left = NULL \/ row.left < 0 THEN row.left ELSE row.left - 1
<1>1. runs \in Nat /\ next \in Nat \cup {NULL} /\ left \in Int \cup {NULL}
  BY DEF Row, Sooner
<1>2. [row EXCEPT !.runs = runs, !.ran = TRUE] \in Row
  BY <1>1 DEF Row
<1>3. [row EXCEPT !.next = next, !.left = left] \in Row
  BY <1>1 DEF Row
<1>4. KeyStored(row) \in Row
  BY DEF KeyStored, Row
<1> QED BY <1>2, <1>3, <1>4 DEF RunRecorded, Aged

-----------------------------------------------------------------------------
(* Type correctness.                                                       *)

Step == {"checking", "executing", "recorded", "finished", "writing"}

Result == {"success", "failure", "skipped"}

\* The moves of a coroutine keep its record a record.
LEMMA RunMovesType ==
    ASSUME NEW r \in LiveRun
    PROVE  /\ \A pc \in Step :
                  [r EXCEPT !.pc = pc] \in LiveRun
           /\ \A pc \in Step, out \in Result :
                  [r EXCEPT !.pc = pc, !.out = out] \in LiveRun
           /\ \A pc \in Step, wait \in Nat \cup {NULL} :
                  [r EXCEPT !.pc = pc, !.wait = wait] \in LiveRun
           /\ \A pc \in Step, out \in Result, wait \in Nat \cup {NULL} :
                  [r EXCEPT !.pc = pc, !.out = out, !.wait = wait] \in LiveRun
           /\ \A pc \in Step, next \in Nat \cup {NULL}, fail \in BOOLEAN :
                  [r EXCEPT !.pc = pc, !.next = next, !.fail = fail] \in LiveRun
           /\ \A wait \in Nat \cup {NULL} :
                  [r EXCEPT !.wait = wait] \in LiveRun
           /\ \A wait \in Nat \cup {NULL}, next \in Nat \cup {NULL} :
                  [r EXCEPT !.wait = wait, !.next = next] \in LiveRun
           /\ [r EXCEPT !.awaited = FALSE] \in LiveRun
<1>1. \A pc \in Step :
       [r EXCEPT !.pc = pc] \in LiveRun
  BY DEF LiveRun, Step, Result
<1>2. \A pc \in Step, out \in Result :
       [r EXCEPT !.pc = pc, !.out = out] \in LiveRun
  BY DEF LiveRun, Step, Result
<1>3. \A pc \in Step, wait \in Nat \cup {NULL} :
       [r EXCEPT !.pc = pc, !.wait = wait] \in LiveRun
  BY DEF LiveRun, Step, Result
<1>4. \A pc \in Step, out \in Result, wait \in Nat \cup {NULL} :
       [r EXCEPT !.pc = pc, !.out = out, !.wait = wait] \in LiveRun
  BY DEF LiveRun, Step, Result
<1>5. \A pc \in Step, next \in Nat \cup {NULL}, fail \in BOOLEAN :
       [r EXCEPT !.pc = pc, !.next = next, !.fail = fail] \in LiveRun
  BY DEF LiveRun, Step, Result
<1>6. \A wait \in Nat \cup {NULL} :
       [r EXCEPT !.wait = wait] \in LiveRun
  BY DEF LiveRun, Step, Result
<1>7. \A wait \in Nat \cup {NULL}, next \in Nat \cup {NULL} :
       [r EXCEPT !.wait = wait, !.next = next] \in LiveRun
  BY DEF LiveRun, Step, Result
<1>8. [r EXCEPT !.awaited = FALSE] \in LiveRun
  BY DEF LiveRun, Step, Result
<1> QED BY <1>1, <1>2, <1>3, <1>4, <1>5, <1>6, <1>7, <1>8

\* A claim puts a record into a free slot.
LEMMA ClaimedType ==
    ASSUME NEW n \in Node, NEW t \in Task
    PROVE  [Idle EXCEPT !.pc = "claimed", !.node = n, !.task = t,
                        !.wait = Slack, !.awaited = TRUE] \in LiveRun
BY SettingsType DEF LiveRun, Idle

\* A slot whose pc is not "idle" holds a coroutine, with a node and a task.
LEMMA LiveType ==
    ASSUME TypeOK, NEW s \in Slot, run[s].pc # "idle"
    PROVE  run[s] \in LiveRun
BY DEF TypeOK, Idle

\* Only tasks are recorded as successful.
LEMMA OutcomeType ==
    ASSUME TypeOK, NEW t \in Task, NEW out, Outcome(t, out)
    PROVE  succeeded' \subseteq Task
BY DEF Outcome, TypeOK

-----------------------------------------------------------------------------
\* Every step keeps every variable within its type.
LEMMA TypeStep == TypeOK /\ [Next]_vars => TypeOK'
<1> SUFFICES ASSUME TypeOK, [Next]_vars PROVE TypeOK'
  OBVIOUS
<1>1. ASSUME NEW n \in Node, SelectDue(n) PROVE TypeOK'
  BY <1>1 DEF SelectDue, TypeOK
<1>2. ASSUME NEW n \in Node, NEW t \in Task, Claim(n, t) PROVE TypeOK'
  <2>1. cand' \in [Node -> SUBSET Task]
    BY <1>2 DEF Claim, TypeOK
  <2>2. Acquired(task[t], n) \in Row
    BY LeaseOpsType DEF TypeOK
  <2>3. task' \in [Task -> Row]
    BY <1>2, <2>2 DEF Claim, TypeOK
  <2>4. run' \in [Slot -> LiveRun \cup {Idle}]
    <3> DEFINE new == [Idle EXCEPT !.pc = "claimed", !.node = n, !.task = t,
                                   !.wait = Slack, !.awaited = TRUE]
    <3>1. CASE CanAcquire(task[t], n)
      <4>1. \E s \in Slot : run' = [run EXCEPT ![s] = new]
        BY <1>2, <3>1 DEF Claim
      <4>2. new \in LiveRun
        BY ClaimedType
      <4> HIDE DEF new
      <4> QED BY <4>1, <4>2 DEF TypeOK
    <3>2. CASE ~CanAcquire(task[t], n)
      BY <1>2, <3>2 DEF Claim, TypeOK
    <3> QED BY <3>1, <3>2
  <2> QED BY <1>2, <2>1, <2>3, <2>4 DEF Claim, TypeOK
<1>3. ASSUME NEW n \in Node, ClaimRaises(n) PROVE TypeOK'
  BY <1>3 DEF ClaimRaises, TypeOK
<1>4. ASSUME NEW n \in Node, StartBatch(n) PROVE TypeOK'
  <2>1. ASSUME NEW s \in Slot, run[s].pc = "claimed"
        PROVE  run[s].task \in Task /\ [run[s] EXCEPT !.pc = "checking"] \in LiveRun
    <3>1. run[s] \in LiveRun
      BY <2>1, LiveType
    <3>2. run[s].task \in Task
      BY <3>1 DEF LiveRun
    <3> QED BY <3>1, <3>2, RunMovesType DEF Step
  <2>2. run' \in [Slot -> LiveRun \cup {Idle}]
    BY <1>4, <2>1 DEF StartBatch, TypeOK
  <2> DEFINE new == {run[s].task : s \in {x \in Slot : /\ run[x].node = n
                                                       /\ run[x].pc = "claimed"}}
  <2>3. new \subseteq Task
    BY <2>1
  <2>4. active' \in [Node -> SUBSET Task]
    BY <1>4, <2>3 DEF StartBatch, TypeOK
  <2> QED BY <1>4, <2>2, <2>4 DEF StartBatch, TypeOK
<1>5. ASSUME NEW n \in Node, EndBatch(n) PROVE TypeOK'
  BY <1>5 DEF EndBatch, TypeOK
<1>6. ASSUME NEW n \in Node, ReapOrphans(n) PROVE TypeOK'
  BY <1>6, LeaseOpsType DEF ReapOrphans, TypeOK
<1>7. ASSUME NEW s \in Slot, SkipSeenKey(s) PROVE TypeOK'
  <2>1. [run[s] EXCEPT !.pc = "finished", !.out = "skipped"] \in LiveRun
    BY <1>7, LiveType, RunMovesType DEF Step, Result, SkipSeenKey
  <2> QED BY <1>7, <2>1 DEF SkipSeenKey, Discard, TypeOK
<1>8. ASSUME NEW s \in Slot, StartExecution(s) PROVE TypeOK'
  <2>1. [run[s] EXCEPT !.pc = "executing", !.wait = HeartbeatInterval + Slack]
          \in LiveRun
    <3>1. HeartbeatInterval + Slack \in Nat \cup {NULL}
      BY SettingsType
    <3>2. run[s] \in LiveRun
      BY <1>8, LiveType DEF StartExecution
    <3> QED BY <3>1, <3>2, RunMovesType DEF Step
  <2>2. \A t \in Task : KeyStored(task[t]) \in Row
    BY OtherOpsType DEF TypeOK
  <2> QED BY <1>8, <2>1, <2>2 DEF StartExecution, TypeOK
<1>9. ASSUME NEW s \in Slot, Heartbeat(s) PROVE TypeOK'
  <2>1. /\ [run[s] EXCEPT !.wait = HeartbeatInterval + Slack] \in LiveRun
        /\ [run[s] EXCEPT !.wait = NULL] \in LiveRun
        /\ run[s].node \in Node
    <3>1. run[s] \in LiveRun
      BY <1>9, LiveType DEF Heartbeat, Working
    <3>2. HeartbeatInterval + Slack \in Nat \cup {NULL}
      BY SettingsType
    <3>3. run[s].node \in Node
      BY <3>1 DEF LiveRun
    <3> QED BY <3>1, <3>2, <3>3, RunMovesType
  <2>2. \A t \in Task : Extended(task[t]) \in Row
    BY <2>1, LeaseOpsType DEF TypeOK
  <2> QED BY <1>9, <2>1, <2>2 DEF Heartbeat, TypeOK
<1>10. ASSUME NEW s \in Slot, NEW out \in {"success", "failure"}, RecordRun(s, out)
       PROVE  TypeOK'
  <2>1. [run[s] EXCEPT !.pc = "recorded", !.out = out] \in LiveRun
    BY <1>10, LiveType, RunMovesType DEF Step, Result, RecordRun
  <2>2. \A t \in Task : RunRecorded(task[t]) \in Row
    BY OtherOpsType DEF TypeOK
  <2>3. succeeded' \subseteq Task
    BY <1>10, LiveType, OutcomeType DEF RecordRun, LiveRun
  <2> QED BY <1>10, <2>1, <2>2, <2>3 DEF RecordRun, TypeOK
<1>11. ASSUME NEW s \in Slot, ReturnRun(s) PROVE TypeOK'
  <2>1. [run[s] EXCEPT !.pc = "finished", !.wait = Slack] \in LiveRun
    BY <1>11, LiveType, RunMovesType, SettingsType DEF Step, Result, ReturnRun
  <2> QED BY <1>11, <2>1 DEF ReturnRun, Discard, TypeOK
<1>12. ASSUME NEW s \in Slot, AbortRun(s) PROVE TypeOK'
  <2>1. [run[s] EXCEPT !.pc = "finished", !.out = "failure", !.wait = Slack]
          \in LiveRun
    BY <1>12, LiveType, RunMovesType, SettingsType DEF Step, Result, AbortRun, Working
  <2> QED BY <1>12, <2>1 DEF AbortRun, Discard, TypeOK
<1>13. ASSUME NEW s \in Slot, Judge(s) PROVE TypeOK'
  <2>1. run[s] \in LiveRun
    BY <1>13, LiveType DEF Judge
  <2>2. GivesUp(run[s]) \in BOOLEAN
    BY DEF GivesUp, Failed, Exhausted
  <2>3. ScheduleAfter(run[s], NextFire(run[s].task)) \in Nat \cup {NULL}
    <3>1. Attempts(run[s].task) \in Nat
      BY <2>1 DEF Attempts, TypeOK, Row, LiveRun
    <3> QED BY <2>1, <3>1, SettingsType DEF ScheduleAfter, LiveRun
  <2>4. [run[s] EXCEPT !.pc = "writing",
                       !.next = ScheduleAfter(run[s], NextFire(run[s].task)),
                       !.fail = GivesUp(run[s])] \in LiveRun
    BY <2>1, <2>2, <2>3, RunMovesType DEF Step, Result
  <2> QED BY <1>13, <2>4 DEF Judge, TypeOK
<1>14. ASSUME NEW s \in Slot, WriteBack(s) PROVE TypeOK'
  <2>1. run[s] \in LiveRun
    BY <1>14, LiveType DEF WriteBack
  <2> DEFINE st == IF run[s].fail THEN "failed" ELSE NULL
             row == task[run[s].task]
  <2>2. Completed(row, run[s].node, run[s].next, st) \in Row
    <3>1. st \in TaskState \cup {NULL}
      BY DEF TaskState
    <3>2. row \in Row /\ run[s].node \in Node /\ run[s].next \in Nat \cup {NULL}
      BY <2>1 DEF LiveRun, TypeOK
    <3> HIDE DEF st, row
    <3> QED BY <3>1, <3>2, CompletedType
  <2> QED BY <1>14, <2>2 DEF WriteBack, TypeOK
<1>15. ASSUME NEW s \in Slot, Raise(s) PROVE TypeOK'
  <2>1. ASSUME NEW x \in Slot, run[x].node = run[s].node
        PROVE  [run[x] EXCEPT !.awaited = FALSE] \in LiveRun
    <3>1. run[s] \in LiveRun
      BY <1>15, LiveType DEF Raise
    <3>2. run[x].pc # "idle"
      BY <3>1, <2>1, StoreAssumption DEF LiveRun, Idle, TypeOK
    <3> QED BY <3>2, LiveType, RunMovesType DEF Step, Result
  <2>2. run' \in [Slot -> LiveRun \cup {Idle}]
    BY <1>15, <2>1 DEF Raise, TypeOK
  <2>3. active' \in [Node -> SUBSET Task]
    BY <1>15 DEF Raise, Discard, TypeOK
  <2> QED BY <1>15, <2>2, <2>3 DEF Raise, TypeOK
<1>16. ASSUME NEW n \in Node, Crash(n) PROVE TypeOK'
  BY <1>16 DEF Crash, TypeOK
<1>17. ASSUME NEW n \in Node, Restart(n) PROVE TypeOK'
  BY <1>17 DEF Restart, TypeOK
<1>18. CASE Tick
  <2>1. \A t \in Task : Aged(task[t]) \in Row
    BY OtherOpsType DEF TypeOK
  <2>2. ASSUME NEW s \in Slot, run[s].pc # "idle", run[s].wait # NULL
        PROVE  [run[s] EXCEPT !.wait = run[s].wait - 1,
                              !.next = Sooner(run[s].next)] \in LiveRun
    <3>1. run[s] \in LiveRun
      BY <2>2, LiveType
    <3>2. run[s].wait - 1 \in Nat
      <4>1. run[s].wait > 0
        BY <1>18, <2>2 DEF Tick
      <4>2. run[s].wait \in Nat
        BY <2>2, <3>1 DEF LiveRun
      <4> QED BY <4>1, <4>2
    <3>3. Sooner(run[s].next) \in Nat \cup {NULL}
      BY <3>1 DEF Sooner, LiveRun
    <3> QED BY <3>1, <3>2, <3>3, RunMovesType DEF Step, Result
  <2>3. run' \in [Slot -> LiveRun \cup {Idle}]
    BY <1>18, <2>2 DEF Tick, TypeOK
  <2> QED BY <1>18, <2>1, <2>3 DEF Tick, TypeOK
<1>19. CASE UNCHANGED vars
  BY <1>19 DEF vars, TypeOK
<1> QED
  BY <1>1, <1>2, <1>3, <1>4, <1>5, <1>6, <1>7, <1>8, <1>9, <1>10, <1>11, <1>12,
     <1>13, <1>14, <1>15, <1>16, <1>17, <1>18, <1>19
     DEF Next, DispatchStep, LoopStep, RunStep, Advance

(***************************************************************************)
(* Every variable keeps its type: in particular no countdown of a schedule *)
(* or of a step that is owed ever becomes negative.                        *)
(***************************************************************************)
THEOREM TypeCorrect == Spec => []TypeOK
<1>1. Init => TypeOK
  BY SettingsType, DispatcherAssumption
     DEF Init, TypeOK, Created, Row, TaskState
<1> QED BY <1>1, TypeStep, PTL DEF Spec

-----------------------------------------------------------------------------
(* Exclusion.  Assuming a timely heartbeat, LeaseInv is inductive.         *)

\* A row that covers a coroutine is out of reach: it is not selected, not
\* reaped, and no other node can acquire it.
LEMMA HeldRow ==
    ASSUME Timely, NEW r \in LiveRun, NEW row \in Row, CoveredBy(r, row)
    PROVE  /\ row.left \in Nat /\ r.wait \in Nat
           /\ ~Claimable(row) /\ Reaped(row) = row
           /\ \A n \in Node : CanAcquire(row, n) => n = r.node
<1>1. r.wait \in Nat /\ row.left \in Int /\ row.owner = r.node
  BY DEF CoveredBy, LiveRun, Row
<1>2. Cover(r) >= 0
  BY <1>1, SettingsType DEF Cover, Timely
<1>3. row.left >= 0 /\ row.left # NULL
  BY <1>1, <1>2, SettingsType DEF CoveredBy, Cover
<1>4. row.owner # NULL
  BY <1>1, StoreAssumption DEF LiveRun
<1>5. ~Expired(row)
  BY <1>1, <1>3 DEF Expired
<1> QED BY <1>1, <1>3, <1>4, <1>5 DEF Claimable, Reaped, CanAcquire

\* One coroutine moves on, and changes at most the row of its task.
LEMMA OneMoves ==
    ASSUME TypeOK, LeaseInv, NEW s \in Slot, Live(s), NEW r, NEW row,
           r.node = run[s].node, r.task = run[s].task, CoveredBy(r, row),
           run' = [run EXCEPT ![s] = r],
           task' = [task EXCEPT ![run[s].task] = row], UNCHANGED cand
    PROVE  LeaseInv'
<1>1. run[s].task \in Task
  BY LiveType DEF LiveRun, Live
<1>2. \A x \in Slot : x # s => run'[x] = run[x]
  BY DEF TypeOK
<1>3. run'[s] = r /\ task'[run[s].task] = row
  BY <1>1 DEF TypeOK
<1>4. \A x \in Slot : Live(x)' => Live(x) /\ run'[x].task = run[x].task
                                          /\ run'[x].node = run[x].node
  BY <1>2, <1>3 DEF Live
<1>5. ASSUME NEW x \in Slot, Live(x)'
      PROVE  CoveredBy(run'[x], task'[run'[x].task])
  <2>1. CASE x = s
    BY <1>3, <2>1
  <2>2. CASE x # s
    <3>1. run[x].task \in Task /\ run[x].task # run[s].task
      BY <1>4, <1>5, <2>2, LiveType DEF LeaseInv, LiveRun, Live
    <3>2. task'[run[x].task] = task[run[x].task]
      BY <3>1 DEF TypeOK
    <3> QED BY <1>2, <1>4, <1>5, <2>2, <3>2 DEF LeaseInv
  <2> QED BY <2>1, <2>2
<1> QED BY <1>4, <1>5 DEF LeaseInv

\* Coroutines end, and no row that covers another one changes.
LEMMA SomeEnd ==
    ASSUME TypeOK, LeaseInv,
           \A x \in Slot : \/ run'[x].pc = "idle"
                           \/ /\ run'[x] = run[x]
                              /\ task'[run[x].task] = task[run[x].task],
           \A n \in Node : cand'[n] \subseteq cand[n]
    PROVE  LeaseInv'
<1>1. \A x \in Slot : Live(x)' =>
          /\ Live(x) /\ run'[x] = run[x]
          /\ task'[run[x].task] = task[run[x].task] /\ run[x].node \in Node
  BY LiveType DEF Live, LiveRun
<1> QED BY <1>1 DEF LeaseInv

\* Claiming, selecting and reaping do not disturb the coroutines at work.
LEMMA LoopKeepsLeaseInv ==
    ASSUME Timely, TypeOK, LeaseInv, NEW n \in Node,
           LoopStep(n) \/ ReapOrphans(n)
    PROVE  LeaseInv'
<1>1. \A x \in Slot : Live(x) => run[x] \in LiveRun /\ task[run[x].task] \in Row
  BY LiveType DEF Live, LiveRun, TypeOK
<1>2. \A x \in Slot : Live(x) =>
          /\ ~Claimable(task[run[x].task])
          /\ Reaped(task[run[x].task]) = task[run[x].task]
          /\ \A m \in Node : CanAcquire(task[run[x].task], m) => m = run[x].node
  BY <1>1, HeldRow DEF LeaseInv
<1>3. CASE SelectDue(n)
  <2>1. \A t \in cand'[n] : Claimable(task[t])
    BY <1>3 DEF SelectDue, TypeOK
  <2>2. \A m \in Node : m # n => cand'[m] = cand[m]
    BY <1>3 DEF SelectDue, TypeOK
  <2>3. \A x \in Slot : Live(x) => run[x].node \in Node
    BY <1>1 DEF LiveRun
  <2> QED BY <1>2, <1>3, <2>1, <2>2, <2>3 DEF SelectDue, LeaseInv, Live
<1>4. ASSUME NEW t \in Task, Claim(n, t) PROVE LeaseInv'
  <2>1. cand' = [cand EXCEPT ![n] = @ \ {t}] /\ t \in cand[n]
    BY <1>4 DEF Claim
  <2>2. \A m \in Node : cand'[m] \subseteq cand[m]
    BY <2>1 DEF TypeOK
  <2>3. CASE ~CanAcquire(task[t], n)
    BY <1>4, <2>2, <2>3, SomeEnd DEF Claim
  <2>4. CASE CanAcquire(task[t], n)
    <3> DEFINE new == [Idle EXCEPT !.pc = "claimed", !.node = n, !.task = t,
                                   !.wait = Slack, !.awaited = TRUE]
    <3>1. PICK s \in Slot : run[s].pc = "idle" /\ run' = [run EXCEPT ![s] = new]
      BY <1>4, <2>4 DEF Claim
    <3>2. task' = [task EXCEPT ![t] = Acquired(@, n)]
      BY <1>4, <2>4 DEF Claim
    <3>3. \A x \in Slot : Live(x) => run[x].task # t
      BY <1>2, <2>1, <2>4 DEF LeaseInv
    <3>4. /\ new.pc = "claimed" /\ new.node = n /\ new.task = t
          /\ new.wait = Slack
      BY DEF Idle
    <3>5. CoveredBy(new, Acquired(task[t], n))
      <4>1. /\ Acquired(task[t], n).state = "active"
            /\ Acquired(task[t], n).owner = n
            /\ Acquired(task[t], n).left = LeaseTTL
        BY <2>4 DEF Acquired, CanAcquire, TypeOK, Row
      <4>2. LeaseTTL # NULL /\ Slack # NULL
        BY StoreAssumption, SettingsType
      <4> HIDE DEF new
      <4> QED BY <3>4, <4>1, <4>2, SettingsType DEF CoveredBy, Cover
    <3> HIDE DEF new
    <3>6. run'[s] = new /\ task'[t] = Acquired(task[t], n)
      BY <3>1, <3>2 DEF TypeOK
    <3>7. \A x \in Slot : x # s => run'[x] = run[x]
      BY <3>1 DEF TypeOK
    <3>8. \A u \in Task : u # t => task'[u] = task[u]
      BY <3>2 DEF TypeOK
    <3>9. \A x \in Slot : Live(x)' /\ x # s =>
             /\ Live(x) /\ run'[x] = run[x] /\ run[x].task # t
             /\ task'[run[x].task] = task[run[x].task] /\ run[x].node \in Node
      BY <1>1, <3>3, <3>7, <3>8 DEF Live, LiveRun
    <3>10. t \notin cand'[n]
      BY <2>1 DEF TypeOK
    <3>11. \A x \in Slot : Live(x)' => CoveredBy(run'[x], task'[run'[x].task])
      BY <3>4, <3>5, <3>6, <3>9 DEF LeaseInv
    <3>12. \A x \in Slot : Live(x)' => run'[x].task \notin cand'[run'[x].node]
      BY <2>2, <3>4, <3>6, <3>9, <3>10 DEF LeaseInv
    <3>13. \A x, y \in Slot :
              Live(x)' /\ Live(y)' /\ run'[x].task = run'[y].task => x = y
      BY <3>4, <3>6, <3>9 DEF LeaseInv
    <3> QED BY <3>11, <3>12, <3>13 DEF LeaseInv
  <2> QED BY <2>3, <2>4
<1>5. CASE ClaimRaises(n)
  <2>1. \A x \in Slot : run'[x].pc = "idle" \/ run'[x] = run[x]
    BY <1>5 DEF ClaimRaises, Idle
  <2>2. \A m \in Node : cand'[m] \subseteq cand[m]
    BY <1>5 DEF ClaimRaises, TypeOK
  <2> QED BY <1>5, <2>1, <2>2, SomeEnd DEF ClaimRaises
<1>6. CASE StartBatch(n)
  <2>1. \A x \in Slot : Live(x)' =>
           /\ Live(x) /\ run'[x].task = run[x].task /\ run'[x].node = run[x].node
           /\ run'[x].wait = run[x].wait
           /\ \/ run'[x].pc = run[x].pc
              \/ run[x].pc = "claimed" /\ run'[x].pc = "checking"
    BY <1>1, <1>6 DEF StartBatch, Live, LiveRun
  <2>2. \A x \in Slot : Live(x)' /\ CoveredBy(run[x], task[run[x].task])
                          => CoveredBy(run'[x], task[run[x].task])
    BY <2>1 DEF CoveredBy, Cover
  <2> QED BY <1>6, <2>1, <2>2 DEF StartBatch, LeaseInv
<1>7. CASE EndBatch(n)
  BY <1>7 DEF EndBatch, LeaseInv, Live
<1>8. CASE ReapOrphans(n)
  <2>1. \A x \in Slot : Live(x) => task'[run[x].task] = task[run[x].task]
    BY <1>1, <1>2, <1>8 DEF ReapOrphans, LiveRun
  <2> QED BY <1>8, <2>1 DEF ReapOrphans, LeaseInv, Live
<1> QED BY <1>3, <1>4, <1>5, <1>6, <1>7, <1>8 DEF LoopStep

\* A coroutine that ends, whatever it writes to the row of its task.
LEMMA OneEnds ==
    ASSUME TypeOK, LeaseInv, NEW s \in Slot, Live(s), NEW row,
           run' = [run EXCEPT ![s] = Idle],
           task' = [task EXCEPT ![run[s].task] = row], UNCHANGED cand
    PROVE  LeaseInv'
<1>1. \A x \in Slot : x # s /\ Live(x) => run[x].task # run[s].task
  BY DEF LeaseInv
<1>2. \A x \in Slot : x # s /\ Live(x) => task'[run[x].task] = task[run[x].task]
  <2>1. \A x \in Slot : Live(x) => run[x].task \in Task
    BY LiveType DEF Live, LiveRun
  <2> QED BY <1>1, <2>1 DEF TypeOK
<1>3. run'[s].pc = "idle" /\ \A x \in Slot : x # s => run'[x] = run[x]
  BY DEF TypeOK, Idle
<1>4. \A x \in Slot : \/ run'[x].pc = "idle"
                      \/ /\ run'[x] = run[x]
                         /\ task'[run[x].task] = task[run[x].task]
  BY <1>2, <1>3 DEF Live
<1> QED BY <1>4, SomeEnd

\* The fields of the records that a coroutine moves through.
LEMMA RunFields ==
    ASSUME NEW r \in LiveRun, NEW pc, NEW wait, NEW out, NEW next, NEW fail
    PROVE  /\ LET q == [r EXCEPT !.pc = pc, !.out = out]
              IN  q.pc = pc /\ q.wait = r.wait /\ q.node = r.node /\ q.task = r.task
           /\ LET q == [r EXCEPT !.pc = pc, !.wait = wait]
              IN  q.pc = pc /\ q.wait = wait /\ q.node = r.node /\ q.task = r.task
           /\ LET q == [r EXCEPT !.pc = pc, !.out = out, !.wait = wait]
              IN  q.pc = pc /\ q.wait = wait /\ q.node = r.node /\ q.task = r.task
           /\ LET q == [r EXCEPT !.wait = wait]
              IN  q.pc = r.pc /\ q.wait = wait /\ q.node = r.node /\ q.task = r.task
           /\ LET q == [r EXCEPT !.pc = pc, !.next = next, !.fail = fail]
              IN  q.pc = pc /\ q.wait = r.wait /\ q.node = r.node /\ q.task = r.task
BY DEF LiveRun

\* Every step of a coroutine keeps LeaseInv: until its last write it stays
\* covered, and its last write touches no other coroutine's row.
LEMMA RunKeepsLeaseInv ==
    ASSUME Timely, TypeOK, LeaseInv, NEW s \in Slot, RunStep(s)
    PROVE  LeaseInv'
<1> DEFINE r == run[s]
           t == run[s].task
           row == task[t]
<1>1. Live(s) /\ r \in LiveRun /\ t \in Task /\ row \in Row /\ r.node \in Node
  <2>1. Live(s)
    BY DEF RunStep, Advance, SkipSeenKey, StartExecution, RecordRun, ReturnRun,
           Judge, WriteBack, Heartbeat, AbortRun, Raise, Working, Live
  <2> QED BY <2>1, LiveType DEF Live, LiveRun, TypeOK
<1>2. CoveredBy(r, row) /\ r.wait \in Nat /\ row.left \in Nat
  BY <1>1, HeldRow DEF LeaseInv
<1>3. task = [task EXCEPT ![t] = row]
  BY <1>1 DEF TypeOK
<1>4. HeartbeatInterval + 3 * Slack <= LeaseTTL
  BY DEF Timely
<1> HIDE DEF row
<1>5. CASE SkipSeenKey(s)
  <2> DEFINE q == [r EXCEPT !.pc = "finished", !.out = "skipped"]
  <2>1. q.pc = "finished" /\ q.wait = r.wait /\ q.node = r.node /\ q.task = r.task
    BY <1>1, RunFields
  <2>2. r.pc = "checking" /\ run' = [run EXCEPT ![s] = q]
    BY <1>5 DEF SkipSeenKey
  <2> HIDE DEF q
  <2>3. CoveredBy(q, row)
    BY <1>1, <1>2, <1>4, <2>1, <2>2, SettingsType DEF CoveredBy, Cover, Row
  <2> QED BY <1>1, <1>3, <1>5, <2>1, <2>2, <2>3, OneMoves DEF SkipSeenKey
<1>6. CASE StartExecution(s)
  <2> DEFINE q == [r EXCEPT !.pc = "executing", !.wait = HeartbeatInterval + Slack]
             new == IF HasKey(t) THEN KeyStored(row) ELSE row
  <2>1. /\ q.pc = "executing" /\ q.wait = HeartbeatInterval + Slack
        /\ q.node = r.node /\ q.task = r.task
    BY <1>1, RunFields
  <2>2. r.pc = "checking" /\ run' = [run EXCEPT ![s] = q]
    BY <1>6 DEF StartExecution
  <2>3. task' = [task EXCEPT ![t] = new]
    BY <1>6 DEF StartExecution, row
  <2>4. new.state = row.state /\ new.owner = row.owner /\ new.left = row.left
    BY <1>1 DEF KeyStored, Row
  <2>5. q.wait # NULL
    BY <2>1, SettingsType, StoreAssumption
  <2> HIDE DEF q, new
  <2>6. CoveredBy(q, new)
    BY <1>1, <1>2, <1>4, <2>1, <2>2, <2>4, <2>5, SettingsType DEF CoveredBy, Cover
  <2> QED BY <1>1, <1>6, <2>1, <2>2, <2>3, <2>6, OneMoves DEF StartExecution
<1>7. CASE Heartbeat(s)
  <2> DEFINE q == [r EXCEPT !.wait = HeartbeatInterval + Slack]
  <2>1. q.pc = r.pc /\ q.wait = HeartbeatInterval + Slack
        /\ q.node = r.node /\ q.task = r.task
    BY <1>1, RunFields
  <2>2. CanExtend(row, r.node)
    BY <1>2 DEF CoveredBy, CanExtend
  <2>3. run' = [run EXCEPT ![s] = q] /\ task' = [task EXCEPT ![t] = Extended(row)]
    BY <1>7, <2>2 DEF Heartbeat, row, Timely
  <2>4. /\ Extended(row).state = row.state /\ Extended(row).owner = row.owner
        /\ Extended(row).left = LeaseTTL
    BY <1>1 DEF Extended, Row
  <2>5. q.wait # NULL /\ LeaseTTL # NULL
    BY <2>1, SettingsType, StoreAssumption
  <2>6. r.pc \in {"executing", "recorded"}
    BY <1>7 DEF Heartbeat, Working
  <2> HIDE DEF q
  <2>7. CoveredBy(q, Extended(row))
    BY <1>2, <1>4, <2>1, <2>4, <2>5, <2>6, SettingsType DEF CoveredBy, Cover
  <2> QED BY <1>1, <1>7, <2>1, <2>3, <2>7, OneMoves DEF Heartbeat
<1>8. ASSUME NEW out \in {"success", "failure"}, RecordRun(s, out) PROVE LeaseInv'
  <2> DEFINE q == [r EXCEPT !.pc = "recorded", !.out = out]
  <2>1. q.pc = "recorded" /\ q.wait = r.wait /\ q.node = r.node /\ q.task = r.task
    BY <1>1, RunFields
  <2>2. r.pc = "executing" /\ run' = [run EXCEPT ![s] = q]
    BY <1>8 DEF RecordRun
  <2>3. PICK new \in {row, RunRecorded(row)} : task' = [task EXCEPT ![t] = new]
    BY <1>3, <1>8 DEF RecordRun, row
  <2>4. new.state = row.state /\ new.owner = row.owner /\ new.left = row.left
    BY <1>1 DEF RunRecorded, Row
  <2> HIDE DEF q
  <2>5. CoveredBy(q, new)
    BY <1>2, <2>1, <2>2, <2>4 DEF CoveredBy, Cover
  <2> QED BY <1>1, <1>8, <2>1, <2>2, <2>3, <2>5, OneMoves DEF RecordRun
<1>9. CASE ReturnRun(s)
  <2> DEFINE q == [r EXCEPT !.pc = "finished", !.wait = Slack]
  <2>1. q.pc = "finished" /\ q.wait = Slack /\ q.node = r.node /\ q.task = r.task
    BY <1>1, RunFields
  <2>2. r.pc = "recorded" /\ run' = [run EXCEPT ![s] = q]
    BY <1>9 DEF ReturnRun
  <2>3. q.wait # NULL
    BY <2>1, SettingsType, StoreAssumption
  <2> HIDE DEF q
  <2>4. CoveredBy(q, row)
    BY <1>2, <2>1, <2>2, <2>3, SettingsType DEF CoveredBy, Cover
  <2> QED BY <1>1, <1>3, <1>9, <2>1, <2>2, <2>4, OneMoves DEF ReturnRun
<1>10. CASE AbortRun(s)
  <2> DEFINE q == [r EXCEPT !.pc = "finished", !.out = "failure", !.wait = Slack]
  <2>1. q.pc = "finished" /\ q.wait = Slack /\ q.node = r.node /\ q.task = r.task
    BY <1>1, RunFields
  <2>2. r.pc \in {"executing", "recorded"} /\ run' = [run EXCEPT ![s] = q]
    BY <1>10 DEF AbortRun, Working
  <2>3. q.wait # NULL
    BY <2>1, SettingsType, StoreAssumption
  <2> HIDE DEF q
  <2>4. CoveredBy(q, row)
    BY <1>2, <2>1, <2>2, <2>3, SettingsType DEF CoveredBy, Cover
  <2> QED BY <1>1, <1>3, <1>10, <2>1, <2>2, <2>4, OneMoves DEF AbortRun
<1>11. CASE Judge(s)
  <2> DEFINE q == [r EXCEPT !.pc = "writing", !.next = ScheduleAfter(r, NextFire(t)),
                            !.fail = GivesUp(r)]
  <2>1. q.pc = "writing" /\ q.wait = r.wait /\ q.node = r.node /\ q.task = r.task
    BY <1>1, RunFields
  <2>2. row.state = "active"
    BY <1>2 DEF CoveredBy
  <2>3. r.pc = "finished" /\ run' = [run EXCEPT ![s] = q]
    BY <1>11, <2>2 DEF Judge, row
  <2> HIDE DEF q
  <2>4. CoveredBy(q, row)
    BY <1>2, <2>1, <2>3 DEF CoveredBy, Cover
  <2> QED BY <1>1, <1>3, <1>11, <2>1, <2>3, <2>4, OneMoves DEF Judge
<1>12. CASE WriteBack(s)
  BY <1>1, <1>12, OneEnds DEF WriteBack
<1>13. CASE Raise(s)
  <2>1. \A x \in Slot : Live(x)' =>
           /\ Live(x) /\ run'[x].pc = run[x].pc /\ run'[x].wait = run[x].wait
           /\ run'[x].node = run[x].node /\ run'[x].task = run[x].task
    <3>1. \A x \in Slot : Live(x) => run[x] \in LiveRun
      BY LiveType DEF Live
    <3>2. ASSUME NEW x \in Slot, Live(x)'
          PROVE  Live(x)
      BY <1>1, <1>13, <3>2, StoreAssumption DEF Raise, Live, Idle, TypeOK, LiveRun
    <3> QED BY <1>13, <3>1, <3>2 DEF Raise, Live, LiveRun, Idle
  <2>2. \A x \in Slot : Live(x)' /\ CoveredBy(run[x], task[run[x].task])
                          => CoveredBy(run'[x], task[run[x].task])
    BY <2>1 DEF CoveredBy, Cover
  <2> QED BY <1>13, <2>1, <2>2 DEF Raise, LeaseInv
<1> QED BY <1>5, <1>6, <1>7, <1>8, <1>9, <1>10, <1>11, <1>12, <1>13
        DEF RunStep, Advance

\* Time passes for the lease and for the coroutine's next step alike.
LEMMA TickKeepsLeaseInv ==
    ASSUME Timely, TypeOK, LeaseInv, Tick
    PROVE  LeaseInv'
<1>1. ASSUME NEW x \in Slot, Live(x)
      PROVE  /\ run'[x].pc = run[x].pc /\ run'[x].node = run[x].node
             /\ run'[x].task = run[x].task
             /\ CoveredBy(run'[x], task'[run[x].task])
  <2> DEFINE r == run[x]
             row == task[r.task]
             q == [r EXCEPT !.wait = r.wait - 1, !.next = Sooner(r.next)]
  <2>1. r \in LiveRun /\ row \in Row /\ r.task \in Task
    BY <1>1, LiveType DEF Live, LiveRun, TypeOK
  <2>2. CoveredBy(r, row) /\ r.wait \in Nat /\ row.left \in Nat
    BY <1>1, <2>1, HeldRow DEF LeaseInv
  <2>3. r.wait > 0 /\ r.wait # NULL
    BY <1>1, <2>2 DEF Tick, Live, CoveredBy
  <2>4. run'[x] = q
    BY <1>1, <2>3 DEF Tick, Live
  <2>5. /\ q.pc = r.pc /\ q.node = r.node /\ q.task = r.task
        /\ q.wait = r.wait - 1
    BY <2>1 DEF LiveRun
  <2>6. task'[r.task] = Aged(row)
    BY <2>1 DEF Tick
  <2>7. row.left # NULL /\ ~(row.left < 0)
    BY <2>2 DEF CoveredBy
  <2>8. /\ Aged(row).state = row.state /\ Aged(row).owner = row.owner
        /\ Aged(row).left = row.left - 1
    BY <2>1, <2>7 DEF Aged, Row
  <2>9. r.wait - 1 # NULL /\ row.left - 1 # NULL
    <3>1. r.wait - 1 \in Int /\ row.left - 1 \in Int
      BY <2>2
    <3> QED BY <3>1, StoreAssumption
  <2> HIDE DEF r, row, q
  <2>10. CoveredBy(q, Aged(row))
    BY <2>2, <2>5, <2>8, <2>9, SettingsType DEF CoveredBy, Cover
  <2> QED BY <2>4, <2>5, <2>6, <2>10 DEF r
<1>2. \A x \in Slot : Live(x)' => Live(x)
  BY DEF Tick, Live
<1> QED BY <1>1, <1>2 DEF LeaseInv, Tick

(***************************************************************************)
(* The heart of the argument: with a timely heartbeat every live coroutine *)
(* holds a lease that lasts until its next step, in every reachable state, *)
(* whatever nodes crash, restart, time out or fail.                        *)
(***************************************************************************)
THEOREM LeaseCovers ==
    ASSUME Timely
    PROVE  Spec => []LeaseInv
<1>1. Init => LeaseInv
  BY DEF Init, LeaseInv, Live, Idle
<1>2. ASSUME TypeOK, LeaseInv, [Next]_vars PROVE LeaseInv'
  <2>1. ASSUME NEW n \in Node, Crash(n) PROVE LeaseInv'
    <3>1. \A x \in Slot : run'[x].pc = "idle" \/ run'[x] = run[x]
      BY <2>1 DEF Crash, Idle
    <3>2. \A m \in Node : cand'[m] \subseteq cand[m]
      BY <1>2, <2>1 DEF Crash, TypeOK
    <3> QED BY <1>2, <2>1, <3>1, <3>2, SomeEnd DEF Crash
  <2>2. ASSUME NEW n \in Node, Restart(n) PROVE LeaseInv'
    BY <1>2, <2>2 DEF Restart, LeaseInv, Live
  <2>3. CASE UNCHANGED vars
    BY <1>2, <2>3 DEF vars, LeaseInv, Live
  <2> QED BY <1>2, <2>1, <2>2, <2>3, LoopKeepsLeaseInv, RunKeepsLeaseInv,
             TickKeepsLeaseInv DEF Next, DispatchStep
<1>3. TypeOK /\ LeaseInv /\ [Next]_vars => LeaseInv'
  BY <1>2
<1> QED BY <1>1, <1>3, TypeCorrect, PTL DEF Spec

(***************************************************************************)
(* Both together are inductive: what a timely dispatcher keeps of its      *)
(* rows, leases and coroutines, on any number of nodes.                    *)
(***************************************************************************)
THEOREM DispatcherKept ==
    ASSUME Timely
    PROVE  Spec => []DispatcherInv
<1>1. TypeOK /\ LeaseInv => DispatcherInv
  BY DEF DispatcherInv
<1> QED BY <1>1, TypeCorrect, LeaseCovers, PTL

(***************************************************************************)
(* A task is never executed by two coroutines at once.                     *)
(***************************************************************************)
THEOREM Exclusive ==
    ASSUME Timely
    PROVE  Spec => []ExclusiveRuns
<1>1. LeaseInv => ExclusiveRuns
  BY DEF LeaseInv, ExclusiveRuns, Live, Working
<1> QED BY <1>1, LeaseCovers, PTL

-----------------------------------------------------------------------------
(* The dispatcher implements ExclusiveExecution.                           *)

\* Steps that move no task from hand to hand: some coroutines end, the others
\* keep what they have in hand.
LEMMA SomeLetGo ==
    ASSUME \A x \in Slot : \/ run'[x].pc = "idle"
                           \/ InHand(run'[x]) = InHand(run[x])
    PROVE  Execution!Next
<1> DEFINE W == {x \in Slot : run'[x].pc = "idle"}
<1>1. \A x \in W : InHand(run'[x]) = [phase |-> "free"]
  BY DEF InHand
<1>2. Execution!LetGo(W)
  BY <1>1 DEF Execution!LetGo, Execution!Free
<1> QED BY <1>2 DEF Execution!Next

\* A step of one coroutine changes what this one has in hand.
LEMMA OneHandMoves ==
    ASSUME TypeOK, NEW s \in Slot, NEW r, run' = [run EXCEPT ![s] = r]
    PROVE  [x \in Slot |-> InHand(run'[x])]
             = [[x \in Slot |-> InHand(run[x])] EXCEPT ![s] = InHand(r)]
BY DEF TypeOK

\* Past its claim a coroutine begins or ends the task that it has in hand.
LEMMA HandStep ==
    ASSUME TypeOK, NEW s \in Slot, run[s].pc # "idle", NEW r,
           r.task = run[s].task, run' = [run EXCEPT ![s] = r],
           \/ run[s].pc = "checking" /\ r.pc \in {"executing", "finished"}
           \/ run[s].pc \in {"executing", "recorded"} /\ r.pc = "finished"
    PROVE  Execution!Next
<1> DEFINE t == run[s].task
<1>1. t \in Task
  BY LiveType DEF LiveRun
<1>2. [x \in Slot |-> InHand(run'[x])]
        = [[x \in Slot |-> InHand(run[x])] EXCEPT ![s] = InHand(r)]
  BY OneHandMoves
<1>3. CASE run[s].pc = "checking" /\ r.pc = "executing"
  <2>1. InHand(run[s]) = [task |-> t, phase |-> "taken"]
    BY <1>3 DEF InHand, PhaseOf
  <2>2. InHand(r) = [task |-> t, phase |-> "executing"]
    BY <1>3 DEF InHand, PhaseOf
  <2>3. Execution!Begin(s, t)
    BY <1>2, <2>1, <2>2 DEF Execution!Begin, Execution!Hold
  <2> QED BY <1>1, <2>3 DEF Execution!Next
<1>4. CASE r.pc = "finished"
  <2>1. InHand(run[s]) \in {[task |-> t, phase |-> "taken"],
                            [task |-> t, phase |-> "executing"]}
    BY <1>4 DEF InHand, PhaseOf
  <2>2. InHand(r) = [task |-> t, phase |-> "ended"]
    BY <1>4 DEF InHand, PhaseOf
  <2>3. Execution!End(s, t)
    BY <1>2, <2>1, <2>2 DEF Execution!End, Execution!Hold
  <2> QED BY <1>1, <2>3 DEF Execution!Next
<1> QED BY <1>3, <1>4

\* A claim takes a task that no coroutine has in hand.
LEMMA ClaimTakes ==
    ASSUME Timely, TypeOK, LeaseInv, NEW n \in Node, NEW t \in Task, Claim(n, t)
    PROVE  Execution!Next
<1>1. CASE ~CanAcquire(task[t], n)
  <2>1. run' = run
    BY <1>1 DEF Claim
  <2> QED BY <2>1, SomeLetGo
<1>2. CASE CanAcquire(task[t], n)
  <2> DEFINE r == [Idle EXCEPT !.pc = "claimed", !.node = n, !.task = t,
                               !.wait = Slack, !.awaited = TRUE]
  <2>1. PICK s \in Slot : run[s].pc = "idle" /\ run' = [run EXCEPT ![s] = r]
    BY <1>2 DEF Claim
  <2>2. \A x \in Slot : Live(x) => run[x].task # t
    <3> SUFFICES ASSUME NEW x \in Slot, Live(x), run[x].task = t PROVE FALSE
      OBVIOUS
    <3>1. run[x] \in LiveRun /\ task[t] \in Row /\ CoveredBy(run[x], task[t])
      BY LiveType DEF Live, TypeOK, LeaseInv
    <3>2. n = run[x].node
      BY <1>2, <3>1, HeldRow
    <3>3. t \in cand[n]
      BY DEF Claim
    <3> QED BY <3>2, <3>3 DEF LeaseInv
  <2>3. InHand(r) = [task |-> t, phase |-> "taken"]
    BY DEF InHand, PhaseOf, Idle
  <2>4. InHand(run[s]) = [phase |-> "free"]
    BY <2>1 DEF InHand
  <2>5. \A x \in Slot : InHand(run[x]).phase = "free" \/ InHand(run[x]).task # t
    BY <2>2 DEF InHand, Live
  <2>6. [x \in Slot |-> InHand(run'[x])]
          = [[x \in Slot |-> InHand(run[x])] EXCEPT ![s] = InHand(r)]
    BY <2>1, OneHandMoves
  <2>7. Execution!Take(s, t)
    BY <2>3, <2>4, <2>5, <2>6
       DEF Execution!Take, Execution!Hold, Execution!Free, Execution!HasInHand
  <2> QED BY <2>7 DEF Execution!Next
<1> QED BY <1>1, <1>2

\* Every step of the dispatcher is a step of the abstract specification or a stutter.
LEMMA StepImplements ==
    ASSUME Timely, TypeOK, LeaseInv, [Next]_vars
    PROVE  Execution!Next
<1>1. ASSUME NEW n \in Node, SelectDue(n) \/ EndBatch(n) \/ ReapOrphans(n) \/ Restart(n)
      PROVE  Execution!Next
  <2>1. run' = run
    BY <1>1 DEF SelectDue, EndBatch, ReapOrphans, Restart
  <2> QED BY <2>1, SomeLetGo
<1>2. ASSUME NEW n \in Node, NEW t \in Task, Claim(n, t) PROVE Execution!Next
  BY <1>2, ClaimTakes
<1>3. ASSUME NEW n \in Node, ClaimRaises(n) \/ Crash(n) PROVE Execution!Next
  <2>1. \A x \in Slot : run'[x].pc = "idle" \/ run'[x] = run[x]
    BY <1>3 DEF ClaimRaises, Crash, Idle
  <2> QED BY <2>1, SomeLetGo
<1>4. ASSUME NEW n \in Node, StartBatch(n) PROVE Execution!Next
  <2>1. ASSUME NEW x \in Slot, run[x].pc = "claimed", run[x].node = n
        PROVE  InHand(run'[x]) = InHand(run[x])
    <3>1. run[x] \in LiveRun
      BY <2>1, LiveType
    <3>2. run'[x] = [run[x] EXCEPT !.pc = "checking"]
      BY <1>4, <2>1 DEF StartBatch
    <3>3. run'[x].pc = "checking" /\ run'[x].task = run[x].task
      BY <3>1, <3>2 DEF LiveRun
    <3> QED BY <2>1, <3>3 DEF InHand, PhaseOf
  <2>2. ASSUME NEW x \in Slot, ~(run[x].pc = "claimed" /\ run[x].node = n)
        PROVE  run'[x] = run[x]
    BY <1>4, <2>2 DEF StartBatch
  <2> QED BY <2>1, <2>2, SomeLetGo
<1>5. ASSUME NEW s \in Slot, SkipSeenKey(s) \/ StartExecution(s) \/ ReturnRun(s) \/ AbortRun(s)
      PROVE  Execution!Next
  <2>1. run[s].pc \in {"checking", "executing", "recorded"}
    BY <1>5 DEF SkipSeenKey, StartExecution, ReturnRun, AbortRun, Working
  <2>2. run[s] \in LiveRun
    BY <2>1, LiveType
  <2>3. CASE SkipSeenKey(s)
    <3> DEFINE r == [run[s] EXCEPT !.pc = "finished", !.out = "skipped"]
    <3>1. r.pc = "finished" /\ r.task = run[s].task
      BY <2>2, RunFields
    <3>2. run' = [run EXCEPT ![s] = r] /\ run[s].pc = "checking"
      BY <2>3 DEF SkipSeenKey
    <3> HIDE DEF r
    <3> QED BY <3>1, <3>2, HandStep
  <2>4. CASE StartExecution(s)
    <3> DEFINE r == [run[s] EXCEPT !.pc = "executing", !.wait = HeartbeatInterval + Slack]
    <3>1. r.pc = "executing" /\ r.task = run[s].task
      BY <2>2, RunFields
    <3>2. run' = [run EXCEPT ![s] = r] /\ run[s].pc = "checking"
      BY <2>4 DEF StartExecution
    <3> HIDE DEF r
    <3> QED BY <3>1, <3>2, HandStep
  <2>5. CASE ReturnRun(s)
    <3> DEFINE r == [run[s] EXCEPT !.pc = "finished", !.wait = Slack]
    <3>1. r.pc = "finished" /\ r.task = run[s].task
      BY <2>2, RunFields
    <3>2. run' = [run EXCEPT ![s] = r] /\ run[s].pc = "recorded"
      BY <2>5 DEF ReturnRun
    <3> HIDE DEF r
    <3> QED BY <3>1, <3>2, HandStep
  <2>6. CASE AbortRun(s)
    <3> DEFINE r == [run[s] EXCEPT !.pc = "finished", !.out = "failure", !.wait = Slack]
    <3>1. r.pc = "finished" /\ r.task = run[s].task
      BY <2>2, RunFields
    <3>2. run' = [run EXCEPT ![s] = r] /\ run[s].pc \in {"executing", "recorded"}
      BY <2>6 DEF AbortRun, Working
    <3> HIDE DEF r
    <3> QED BY <3>1, <3>2, HandStep
  <2> QED BY <1>5, <2>3, <2>4, <2>5, <2>6
<1>6. ASSUME NEW s \in Slot, Heartbeat(s) PROVE Execution!Next
  <2>1. run[s].pc # "idle" /\ run[s] \in LiveRun
    BY <1>6, LiveType DEF Heartbeat, Working
  <2>2. PICK wait : run' = [run EXCEPT ![s] = [run[s] EXCEPT !.wait = wait]]
    BY <1>6 DEF Heartbeat
  <2>3. run'[s].pc = run[s].pc /\ run'[s].task = run[s].task
    BY <2>1, <2>2, RunFields DEF TypeOK
  <2>4. \A x \in Slot : x # s => run'[x] = run[x]
    BY <2>2 DEF TypeOK
  <2> QED BY <2>3, <2>4, SomeLetGo DEF InHand
<1>7. ASSUME NEW s \in Slot, NEW out, RecordRun(s, out) PROVE Execution!Next
  <2>1. run[s].pc = "executing" /\ run[s] \in LiveRun
    BY <1>7, LiveType DEF RecordRun
  <2>2. run' = [run EXCEPT ![s] = [run[s] EXCEPT !.pc = "recorded", !.out = out]]
    BY <1>7 DEF RecordRun
  <2>3. run'[s].pc = "recorded" /\ run'[s].task = run[s].task
    BY <2>1, <2>2, RunFields DEF TypeOK
  <2>4. InHand(run'[s]) = InHand(run[s])
    BY <2>1, <2>3 DEF InHand, PhaseOf
  <2>5. \A x \in Slot : x # s => run'[x] = run[x]
    BY <2>2 DEF TypeOK
  <2> QED BY <2>4, <2>5, SomeLetGo
<1>8. ASSUME NEW s \in Slot, Judge(s) PROVE Execution!Next
  <2>1. run[s].pc = "finished" /\ run[s] \in LiveRun
    BY <1>8, LiveType DEF Judge
  <2>2. \A x \in Slot : x # s => run'[x] = run[x]
    BY <1>8 DEF Judge, TypeOK
  <2>3. CASE run' = [run EXCEPT ![s] = Idle]
    <3>1. run'[s].pc = "idle"
      BY <2>3 DEF TypeOK, Idle
    <3> QED BY <2>2, <3>1, SomeLetGo
  <2>4. CASE task[run[s].task].state # "canceled"
    <3> DEFINE q == [run[s] EXCEPT !.pc = "writing",
                                   !.next = ScheduleAfter(run[s], NextFire(run[s].task)),
                                   !.fail = GivesUp(run[s])]
    <3>1. q.pc = "writing" /\ q.task = run[s].task
      BY <2>1, RunFields
    <3>2. run' = [run EXCEPT ![s] = q]
      BY <1>8, <2>4 DEF Judge
    <3> HIDE DEF q
    <3>3. run'[s] = q
      BY <3>2 DEF TypeOK
    <3>4. InHand(run'[s]) = InHand(run[s])
      BY <2>1, <3>1, <3>3 DEF InHand, PhaseOf
    <3> QED BY <2>2, <3>4, SomeLetGo
  <2> QED BY <1>8, <2>3, <2>4 DEF Judge
<1>9. ASSUME NEW s \in Slot, WriteBack(s) PROVE Execution!Next
  <2>1. \A x \in Slot : run'[x].pc = "idle" \/ run'[x] = run[x]
    BY <1>9 DEF WriteBack, TypeOK, Idle
  <2> QED BY <2>1, SomeLetGo
<1>10. ASSUME NEW s \in Slot, Raise(s) PROVE Execution!Next
  <2>1. ASSUME NEW x \in Slot, x # s PROVE InHand(run'[x]) = InHand(run[x])
    <3>1. CASE run'[x] = run[x]
      BY <3>1
    <3>2. CASE run[x].node = run[s].node /\ run'[x] = [run[x] EXCEPT !.awaited = FALSE]
      <4>1. run[x] \in LiveRun \cup {Idle}
        BY DEF TypeOK
      <4>2. run'[x].pc = run[x].pc /\ run'[x].task = run[x].task
        BY <3>2, <4>1 DEF LiveRun, Idle
      <4> QED BY <4>2 DEF InHand
    <3> QED BY <1>10, <2>1, <3>1, <3>2 DEF Raise
  <2>2. run'[s] = Idle
    BY <1>10 DEF Raise
  <2>3. run'[s].pc = "idle"
    BY <2>2 DEF Idle
  <2> QED BY <2>1, <2>3, SomeLetGo
<1>11. ASSUME Tick PROVE Execution!Next
  <2>1. ASSUME NEW x \in Slot PROVE InHand(run'[x]) = InHand(run[x])
    <3> DEFINE r == run[x]
               q == [r EXCEPT !.wait = r.wait - 1, !.next = Sooner(r.next)]
    <3>1. run'[x] = IF r.pc = "idle" \/ r.wait = NULL THEN r ELSE q
      BY <1>11, Zenon DEF Tick
    <3>2. CASE r.pc # "idle"
      <4>1. r \in LiveRun
        BY <3>2, LiveType
      <4>2. q.pc = r.pc /\ q.task = r.task
        BY <4>1, RunFields
      <4> HIDE DEF q, r
      <4>3. run'[x].pc = r.pc /\ run'[x].task = r.task
        BY <3>1, <4>2
      <4> QED BY <4>3 DEF InHand, r
    <3>3. CASE r.pc = "idle"
      BY <3>1, <3>3
    <3> QED BY <3>2, <3>3
  <2> QED BY <2>1, SomeLetGo
<1>12. CASE UNCHANGED vars
  <2>1. run' = run
    BY <1>12 DEF vars
  <2> QED BY <2>1, SomeLetGo
<1> QED BY <1>1, <1>2, <1>3, <1>4, <1>5, <1>6, <1>7, <1>8, <1>9, <1>10, <1>11, <1>12
        DEF Next, DispatchStep, LoopStep, RunStep, Advance

\* When the heartbeat is timely the dispatcher keeps the abstract promise: a task is in
\* one coroutine's hands at most, which executes it at most once before it lets go.
THEOREM Implements ==
    ASSUME Timely
    PROVE  Spec => OneHandAtATime
<1>1. Init => Execution!Init
  BY DEF Init, Execution!Init, Execution!Free, InHand, Idle
<1>2. ASSUME TypeOK, LeaseInv, [Next]_vars PROVE Execution!Next
  BY <1>2, StepImplements
<1> QED BY <1>1, <1>2, TypeCorrect, LeaseCovers, PTL
        DEF Spec, OneHandAtATime, Execution!Spec


-----------------------------------------------------------------------------
(* What happens to a row between two completions.                          *)

\* The state stays, a schedule is not lost, and neither are the records of runs.
Kept(r, q) ==
    /\ q.state = r.state
    /\ r.next # NULL => q.next # NULL
    /\ q.runs >= r.runs
    /\ r.ran => q.ran
    /\ r.keyed => q.keyed

\* Every statement but complete_lease keeps a row, in this sense.
LEMMA OpsKeep ==
    ASSUME NEW row \in Row
    PROVE  /\ Kept(row, row) /\ \A n \in Node : Kept(row, Acquired(row, n))
           /\ Kept(row, Extended(row)) /\ Kept(row, Reaped(row))
           /\ Kept(row, KeyStored(row)) /\ Kept(row, RunRecorded(row))
           /\ Kept(row, Aged(row))
<1>1. Kept(row, row)
  BY DEF Kept, Row
<1>2. \A n \in Node : Kept(row, Acquired(row, n))
  BY DEF Kept, Row, Acquired
<1>3. Kept(row, Extended(row)) /\ Kept(row, Reaped(row))
  BY DEF Kept, Row, Extended, Reaped, Unleased
<1>4. Kept(row, KeyStored(row))
  BY DEF Kept, Row, KeyStored
<1>5. Kept(row, RunRecorded(row))
  BY DEF Kept, Row, RunRecorded
<1>6. Kept(row, Aged(row))
  <2>1. row.next # NULL => Sooner(row.next) # NULL
    BY StoreAssumption DEF Row, Sooner
  <2> QED BY <2>1 DEF Kept, Row, Aged
<1> QED BY <1>1, <1>2, <1>3, <1>4, <1>5, <1>6

\* A step keeps every row, but the one that a coroutine completes.
LEMMA RowsKept ==
    ASSUME TypeOK, [Next]_vars, NEW t \in Task,
           \A s \in Slot : WriteBack(s) => run[s].task # t
    PROVE  Kept(task[t], task'[t])
<1>1. task[t] \in Row
  BY DEF TypeOK
<1>2. CASE task' = task
  BY <1>1, <1>2, OpsKeep
<1>3. ASSUME NEW u \in Task, NEW row, task' = [task EXCEPT ![u] = row],
             u = t => Kept(task[t], row)
      PROVE  Kept(task[t], task'[t])
  BY <1>1, <1>3, OpsKeep DEF TypeOK
<1>4. ASSUME NEW n \in Node, NEW u \in Task, Claim(n, u)
      PROVE  Kept(task[t], task'[t])
  <2>1. CASE CanAcquire(task[u], n)
    BY <1>1, <1>3, <1>4, <2>1, OpsKeep DEF Claim
  <2> QED BY <1>2, <1>4, <2>1 DEF Claim
<1>5. ASSUME NEW n \in Node, ReapOrphans(n) PROVE Kept(task[t], task'[t])
  BY <1>1, <1>5, OpsKeep DEF ReapOrphans
<1>6. ASSUME NEW s \in Slot, NEW row, run[s].pc # "idle",
             task' = [task EXCEPT ![run[s].task] = row],
             run[s].task = t => Kept(task[t], row)
      PROVE  Kept(task[t], task'[t])
  <2>1. run[s].task \in Task
    BY <1>6, LiveType DEF LiveRun
  <2> QED BY <1>3, <1>6, <2>1
<1>7. ASSUME NEW s \in Slot, StartExecution(s) PROVE Kept(task[t], task'[t])
  BY <1>1, <1>6, <1>7, OpsKeep DEF StartExecution
<1>8. ASSUME NEW s \in Slot, Heartbeat(s) PROVE Kept(task[t], task'[t])
  BY <1>1, <1>2, <1>6, <1>8, OpsKeep DEF Heartbeat, Working
<1>9. ASSUME NEW s \in Slot, NEW out \in {"success", "failure"}, RecordRun(s, out)
      PROVE  Kept(task[t], task'[t])
  BY <1>1, <1>2, <1>6, <1>9, OpsKeep DEF RecordRun
<1>10. ASSUME NEW s \in Slot, WriteBack(s) PROVE Kept(task[t], task'[t])
  BY <1>1, <1>6, <1>10, OpsKeep DEF WriteBack
<1>11. CASE Tick
  BY <1>1, <1>11, OpsKeep DEF Tick
<1>12. CASE UNCHANGED task
  BY <1>2, <1>12
<1> QED
  BY <1>4, <1>5, <1>7, <1>8, <1>9, <1>10, <1>11, <1>12
     DEF Next, DispatchStep, LoopStep, RunStep, Advance, SelectDue, ClaimRaises,
         StartBatch, EndBatch, SkipSeenKey, ReturnRun, AbortRun, Judge, Raise,
         Crash, Restart, vars

-----------------------------------------------------------------------------
(* Schedules and retries.                                                  *)

\* What a coroutine is about to write: a failure whose retries are used up, or
\* a time for the next run.
WritesWell(r) ==
    r.pc = "writing" =>
        /\ r.fail => Attempts(r.task) > MaxRetries
        /\ ~r.fail => r.next # NULL

\* A row never fails early, never stays active without a schedule, and no
\* coroutine is about to make it so.
ScheduleInv ==
    /\ \A s \in Slot : WritesWell(run[s])
    /\ FailedOnlyAfterBudget
    /\ ActiveIsScheduled

\* A coroutine that is about to write has just judged its run, or has been
\* about to write the same (a schedule only draws nearer).
LEMMA WritingStays ==
    ASSUME TypeOK, [Next]_vars, NEW s \in Slot, run'[s].pc = "writing"
    PROVE  \/ Judge(s)
           \/ /\ run[s].pc = "writing" /\ run'[s].task = run[s].task
              /\ run'[s].fail = run[s].fail
              /\ run[s].next # NULL => run'[s].next # NULL
<1> DEFINE Same == /\ run[s].pc = "writing" /\ run'[s].task = run[s].task
                   /\ run'[s].fail = run[s].fail
                   /\ run[s].next # NULL => run'[s].next # NULL
<1>1. run[s] \in LiveRun \cup {Idle}
  BY DEF TypeOK
<1>2. ASSUME run'[s] = run[s] PROVE Same
  BY <1>2
<1>3. ASSUME NEW x \in Slot, NEW r, run' = [run EXCEPT ![x] = r],
             x = s => r.pc # "writing"
      PROVE  Same
  BY <1>3 DEF TypeOK
<1>4. ASSUME NEW n \in Node, NEW t \in Task, Claim(n, t) PROVE Same
  <2>1. CASE CanAcquire(task[t], n)
    BY <1>3, <1>4, <2>1 DEF Claim, Idle
  <2> QED BY <1>2, <1>4, <2>1 DEF Claim
<1>5. ASSUME NEW n \in Node, ClaimRaises(n) PROVE Same
  BY <1>5 DEF ClaimRaises, Idle
<1>6. ASSUME NEW n \in Node, StartBatch(n) PROVE Same
  BY <1>1, <1>6 DEF StartBatch, LiveRun, Idle
<1>7. ASSUME NEW x \in Slot, run[x].pc # "idle",
             \/ SkipSeenKey(x) \/ StartExecution(x) \/ ReturnRun(x)
             \/ \E out \in {"success", "failure"} : RecordRun(x, out)
             \/ AbortRun(x)
      PROVE  Same
  <2>1. run[x] \in LiveRun
    BY <1>7, LiveType
  <2> QED BY <1>3, <1>7, <2>1
          DEF SkipSeenKey, StartExecution, ReturnRun, RecordRun, AbortRun, LiveRun
<1>8. ASSUME NEW x \in Slot, Heartbeat(x) PROVE Same
  <2>1. run[x] \in LiveRun /\ run[x].pc # "writing"
    BY <1>8, LiveType DEF Heartbeat, Working
  <2> QED BY <1>3, <1>8, <2>1 DEF Heartbeat, LiveRun
<1>9. ASSUME NEW x \in Slot, Judge(x) PROVE Judge(s) \/ Same
  <2>1. CASE x = s
    BY <1>9, <2>1
  <2> QED BY <1>2, <1>9, <2>1 DEF Judge, TypeOK
<1>10. ASSUME NEW x \in Slot, WriteBack(x) PROVE Same
  BY <1>3, <1>10 DEF WriteBack, Idle
<1>11. ASSUME NEW x \in Slot, Raise(x) PROVE Same
  BY <1>1, <1>11 DEF Raise, LiveRun, Idle
<1>12. ASSUME NEW n \in Node, Crash(n) PROVE Same
  BY <1>12 DEF Crash, Idle
<1>13. CASE Tick
  <2> DEFINE later == [run[s] EXCEPT !.wait = run[s].wait - 1,
                                     !.next = Sooner(run[s].next)]
  <2>1. run[s].next # NULL => Sooner(run[s].next) # NULL
    BY <1>1, StoreAssumption DEF LiveRun, Idle, Sooner
  <2>2. CASE run[s].pc = "idle" \/ run[s].wait = NULL
    BY <1>2, <1>13, <2>2 DEF Tick
  <2>3. CASE ~(run[s].pc = "idle" \/ run[s].wait = NULL)
    <3>1. run'[s] = later /\ run[s] \in LiveRun
      <4>1. run[s] \in LiveRun
        BY <2>3, LiveType
      <4>2. run'[s] = later
        BY <1>13, <2>3 DEF Tick
      <4> QED BY <4>1, <4>2
    <3>2. /\ later.pc = run[s].pc /\ later.task = run[s].task
          /\ later.fail = run[s].fail /\ later.next = Sooner(run[s].next)
      BY <3>1 DEF LiveRun
    <3> QED BY <2>1, <3>1, <3>2
  <2> QED BY <2>2, <2>3
<1>14. CASE UNCHANGED run
  BY <1>2, <1>14
<1> QED
  BY <1>4, <1>5, <1>6, <1>7, <1>8, <1>9, <1>10, <1>11, <1>12, <1>13, <1>14
     DEF Next, DispatchStep, LoopStep, RunStep, Advance, SelectDue, EndBatch,
         ReapOrphans, SkipSeenKey, StartExecution, ReturnRun, RecordRun, AbortRun,
         Working, Restart, vars

\* The attempts counted for a task never become fewer.
LEMMA AttemptsGrow ==
    ASSUME TypeOK, TypeOK', NEW t \in Task, Kept(task[t], task'[t])
    PROVE  Attempts(t)' >= Attempts(t) /\ Attempts(t) \in Nat
BY DEF TypeOK, Row, Kept, Attempts

\* Completing a run writes what the coroutine has judged.
LEMMA CompletedKeeps ==
    ASSUME TypeOK, NEW s \in Slot, WriteBack(s)
    PROVE  LET t == run[s].task IN
           /\ t \in Task /\ run[s].pc = "writing"
           /\ \A u \in Task \ {t} : task'[u] = task[u]
           /\ task[t].owner # run[s].node => task'[t] = task[t]
           /\ task'[t].runs = task[t].runs
           /\ task'[t].ran = task[t].ran /\ task'[t].keyed = task[t].keyed
           /\ \/ task'[t] = task[t]
              \/ run[s].fail /\ task'[t].state = "failed"
              \/ ~run[s].fail /\ task'[t].state = task[t].state
                              /\ task'[t].next = run[s].next
<1> DEFINE t == run[s].task
           row == task[t]
           st == IF run[s].fail THEN "failed" ELSE NULL
           done == [Unleased(row) EXCEPT !.next = run[s].next,
                       !.state = IF st = NULL THEN row.state ELSE st]
<1>1. run[s] \in LiveRun /\ t \in Task /\ row \in Row /\ run[s].pc = "writing"
  BY LiveType DEF WriteBack, LiveRun, TypeOK
<1>2. /\ task'[t] = row \/ task'[t] = done
      /\ row.owner # run[s].node => task'[t] = row
      /\ \A u \in Task \ {t} : task'[u] = task[u]
  BY <1>1 DEF WriteBack, Completed, TypeOK
<1>3. /\ done.runs = row.runs /\ done.ran = row.ran /\ done.keyed = row.keyed
      /\ done.next = run[s].next
      /\ done.state = IF st = NULL THEN row.state ELSE st
  BY <1>1 DEF Row, Unleased
<1>4. run[s].fail => done.state = "failed"
  BY <1>3, StoreAssumption DEF TaskState
<1>5. ~run[s].fail => done.state = row.state
  BY <1>3
<1> HIDE DEF done
<1> QED BY <1>1, <1>2, <1>3, <1>4, <1>5

\* What a coroutine judges is worth writing.
LEMMA JudgesWell ==
    ASSUME TypeOK, NEW s \in Slot, Judge(s)
    PROVE  WritesWell(run[s])'
<1> DEFINE r == run[s]
           next == ScheduleAfter(r, NextFire(r.task))
           q == [r EXCEPT !.pc = "writing", !.next = next, !.fail = GivesUp(r)]
<1>1. r \in LiveRun /\ r.task \in Task
  BY LiveType DEF Judge, LiveRun
<1>2. Attempts(r.task) \in Nat
  BY <1>1 DEF Attempts, TypeOK, Row
<1>3. GivesUp(r) => Attempts(r.task) > MaxRetries
  BY DEF GivesUp, Exhausted
<1>4. ~GivesUp(r) => next # NULL
  BY <1>1, <1>2, SettingsType, StoreAssumption DEF ScheduleAfter
<1>5. q.pc = "writing" /\ q.task = r.task /\ q.next = next /\ q.fail = GivesUp(r)
  BY <1>1 DEF LiveRun
<1> HIDE DEF q, next
<1>6. WritesWell(q)
  BY <1>3, <1>4, <1>5 DEF WritesWell
<1>7. task' = task
  BY DEF Judge
<1>8. run'[s] = Idle \/ run'[s] = q
  BY DEF Judge, TypeOK, q, next
<1> QED BY <1>6, <1>7, <1>8 DEF WritesWell, Idle, Attempts

\* Every step keeps ScheduleInv.
LEMMA ScheduleStep == TypeOK /\ TypeOK' /\ ScheduleInv /\ [Next]_vars => ScheduleInv'
<1> SUFFICES ASSUME TypeOK, TypeOK', ScheduleInv, [Next]_vars PROVE ScheduleInv'
  OBVIOUS
<1>1. ASSUME NEW t \in Task
      PROVE  /\ task[t] \in Row /\ task'[t] \in Row /\ Attempts(t) \in Nat
             /\ Attempts(t)' \in Nat /\ Attempts(t)' >= Attempts(t)
  <2>1. task[t] \in Row /\ task'[t] \in Row
    BY DEF TypeOK
  <2>2. task'[t].runs >= task[t].runs
    <3>1. CASE \A s \in Slot : WriteBack(s) => run[s].task # t
      BY <3>1, RowsKept DEF Kept
    <3>2. ASSUME NEW s \in Slot, WriteBack(s), run[s].task = t
          PROVE  task'[t].runs >= task[t].runs
      BY <2>1, <3>2, CompletedKeeps DEF Row
    <3> QED BY <3>1, <3>2
  <2> QED BY <2>1, <2>2 DEF Row, Attempts
<1>2. ASSUME NEW s \in Slot PROVE WritesWell(run[s])'
  <2>1. CASE Judge(s)
    BY <2>1, JudgesWell
  <2>2. CASE run'[s].pc = "writing" /\ ~Judge(s)
    <3>1. /\ run[s].pc = "writing" /\ run'[s].task = run[s].task
          /\ run'[s].fail = run[s].fail
          /\ run[s].next # NULL => run'[s].next # NULL
      BY <2>2, WritingStays
    <3>2. run[s].task \in Task
      BY <3>1, LiveType DEF LiveRun
    <3>3. WritesWell(run[s])
      BY DEF ScheduleInv
    <3>4. run[s].fail => Attempts(run[s].task)' > MaxRetries
      BY <1>1, <3>1, <3>2, <3>3, SettingsType DEF WritesWell
    <3> QED BY <3>1, <3>3, <3>4 DEF WritesWell, Attempts
  <2> QED BY <2>1, <2>2 DEF WritesWell
<1>3. ASSUME NEW t \in Task
      PROVE  /\ task'[t].state = "failed" => Attempts(t)' > MaxRetries
             /\ task'[t].state = "active" => task'[t].next # NULL
  <2>1. /\ task[t].state = "failed" => Attempts(t) > MaxRetries
        /\ task[t].state = "active" => task[t].next # NULL
    BY DEF ScheduleInv, FailedOnlyAfterBudget, ActiveIsScheduled
  <2>2. CASE \A s \in Slot : WriteBack(s) => run[s].task # t
    BY <1>1, <2>1, <2>2, RowsKept, SettingsType DEF Kept
  <2>3. ASSUME NEW s \in Slot, WriteBack(s), run[s].task = t
        PROVE  /\ task'[t].state = "failed" => Attempts(t)' > MaxRetries
               /\ task'[t].state = "active" => task'[t].next # NULL
    <3>1. WritesWell(run[s]) /\ run[s].pc = "writing"
      BY <2>3, CompletedKeeps DEF ScheduleInv
    <3>2. \/ task'[t] = task[t]
          \/ run[s].fail /\ task'[t].state = "failed"
          \/ ~run[s].fail /\ task'[t].state = task[t].state
                          /\ task'[t].next = run[s].next
      BY <2>3, CompletedKeeps
    <3> QED BY <1>1, <2>1, <2>3, <3>1, <3>2, SettingsType DEF WritesWell
  <2> QED BY <2>2, <2>3
<1>4. FailedOnlyAfterBudget'
  BY <1>3 DEF FailedOnlyAfterBudget, Attempts
<1>5. ActiveIsScheduled'
  BY <1>3 DEF ActiveIsScheduled
<1> QED BY <1>2, <1>4, <1>5 DEF ScheduleInv

\* What is written, what has failed and what is active stay in order, always.
LEMMA ScheduleKept == Spec => []ScheduleInv
<1>1. Init => ScheduleInv
  BY DispatcherAssumption, StoreAssumption
     DEF Init, ScheduleInv, WritesWell, Idle, FailedOnlyAfterBudget,
         ActiveIsScheduled, Created
<1> QED BY <1>1, ScheduleStep, TypeCorrect, PTL DEF Spec

(***************************************************************************)
(* max_retries: whatever fails, stalls or crashes, no task is declared     *)
(* failed while the runs recorded for it leave it a retry.                 *)
(***************************************************************************)
THEOREM RetriesUsedUp == Spec => []FailedOnlyAfterBudget
<1>1. ScheduleInv => FailedOnlyAfterBudget
  BY DEF ScheduleInv
<1> QED BY <1>1, ScheduleKept, PTL

(***************************************************************************)
(* No task is forgotten: every write of the dispatcher leaves an active    *)
(* row a time to run at.                                                   *)
(***************************************************************************)
THEOREM NoTaskForgotten == Spec => []ActiveIsScheduled
<1>1. ScheduleInv => ActiveIsScheduled
  BY DEF ScheduleInv
<1> QED BY <1>1, ScheduleKept, PTL

-----------------------------------------------------------------------------
(* Who lost the lease, and what has succeeded.                             *)

\* A started coroutine moves by a step of its own, or ends with its node.
LEMMA OwnMoves ==
    ASSUME TypeOK, [Next]_vars, NEW s \in Slot, run'[s].pc # run[s].pc,
           run[s].pc \notin {"idle", "claimed"}
    PROVE  \/ Advance(s) \/ AbortRun(s) \/ Raise(s)
           \/ run'[s].pc = "idle" /\ UNCHANGED task
<1> DEFINE Own == \/ Advance(s) \/ AbortRun(s) \/ Raise(s)
                  \/ run'[s].pc = "idle" /\ UNCHANGED task
<1>1. run[s] \in LiveRun
  BY LiveType
<1>2. run'[s] # run[s]
  OBVIOUS
<1>3. ASSUME NEW x \in Slot, NEW r, run' = [run EXCEPT ![x] = r] PROVE x = s
  BY <1>2, <1>3 DEF TypeOK
<1>4. ASSUME NEW n \in Node, NEW t \in Task, Claim(n, t) PROVE FALSE
  BY <1>2, <1>4 DEF Claim, TypeOK
<1>5. ASSUME NEW n \in Node, ClaimRaises(n) \/ StartBatch(n) PROVE FALSE
  BY <1>2, <1>5 DEF ClaimRaises, StartBatch
<1>6. ASSUME NEW x \in Slot, Advance(x) PROVE x = s
  BY <1>3, <1>6
     DEF Advance, SkipSeenKey, StartExecution, RecordRun, ReturnRun, Judge, WriteBack
<1>7. ASSUME NEW x \in Slot, Heartbeat(x) PROVE FALSE
  <2>1. x = s
    BY <1>3, <1>7 DEF Heartbeat
  <2> QED BY <1>1, <1>7, <2>1 DEF Heartbeat, LiveRun, TypeOK
<1>8. ASSUME NEW x \in Slot, AbortRun(x) PROVE x = s
  BY <1>3, <1>8 DEF AbortRun
<1>9. ASSUME NEW x \in Slot, Raise(x) PROVE x = s
  BY <1>1, <1>2, <1>9 DEF Raise, LiveRun
<1>10. ASSUME NEW n \in Node, Crash(n) PROVE Own
  BY <1>2, <1>10 DEF Crash, Idle
<1>11. ASSUME Tick PROVE FALSE
  <2> DEFINE later == [run[s] EXCEPT !.wait = run[s].wait - 1,
                                     !.next = Sooner(run[s].next)]
  <2>1. later.pc = run[s].pc
    BY <1>1 DEF LiveRun
  <2>2. run'[s] = run[s] \/ run'[s] = later
    BY <1>11 DEF Tick
  <2> QED BY <2>1, <2>2
<1>12. ~UNCHANGED run
  BY <1>2
<1> QED
  BY <1>4, <1>5, <1>6, <1>7, <1>8, <1>9, <1>10, <1>11, <1>12
     DEF Next, DispatchStep, LoopStep, RunStep, SelectDue, EndBatch, ReapOrphans,
         Restart, vars

-----------------------------------------------------------------------------
(* Leases and the runs that they were taken for.                           *)

\* While nothing raises, a node claims while none of its coroutines is at work,
\* and so has at most one coroutine for a task.
LoneInv ==
    /\ \A s \in Slot : Live(s) =>
          /\ run[s].awaited
          /\ loop[run[s].node] = IF run[s].pc = "claimed" THEN "claiming" ELSE "gathering"
    /\ \A n \in Node : loop[n] # "claiming" => cand[n] = {}
    /\ \A s \in Slot : Live(s) => run[s].task \notin cand[run[s].node]
    /\ \A s1, s2 \in Slot :
          /\ Live(s1) /\ Live(s2)
          /\ run[s1].node = run[s2].node /\ run[s1].task = run[s2].task
          => s1 = s2

\* A slot does not change what it works on, though it may end.
SameRun(r, q) ==
    \/ q.pc = "idle"
    \/ /\ r.pc # "idle" /\ q.node = r.node /\ q.task = r.task
       /\ q.awaited = r.awaited /\ (q.pc = "claimed" <=> r.pc = "claimed")

\* Coroutines that move on, or end, stay alone.
LEMMA LoneMoves ==
    ASSUME TypeOK, LoneInv, \A s \in Slot : SameRun(run[s], run'[s]),
           \A s \in Slot : Live(s)' => loop'[run[s].node] = loop[run[s].node],
           \A n \in Node : cand'[n] \subseteq cand[n]
                           /\ (loop'[n] # "claiming" => cand'[n] = {})
    PROVE  LoneInv'
<1>1. \A s \in Slot : Live(s)' =>
         /\ Live(s) /\ run'[s].node = run[s].node /\ run'[s].task = run[s].task
         /\ run'[s].awaited = run[s].awaited /\ run[s].node \in Node
         /\ run'[s].pc = "claimed" <=> run[s].pc = "claimed"
  BY LiveType DEF Live, SameRun, LiveRun
<1> QED BY <1>1 DEF LoneInv

\* One coroutine moves on, or ends.
LEMMA OneMovesAlone ==
    ASSUME TypeOK, LoneInv, NEW s \in Slot, NEW r, run' = [run EXCEPT ![s] = r],
           SameRun(run[s], r), UNCHANGED <<loop, cand>>
    PROVE  LoneInv'
<1>1. \A x \in Slot : SameRun(run[x], run'[x])
  BY DEF TypeOK, SameRun
<1> QED BY <1>1, LoneMoves DEF LoneInv

\* The loops claim for, start and await coroutines of their own only.
LEMMA LoopsKeepAlone ==
    ASSUME TypeOK, LoneInv, "raise" \notin Faults, NEW n \in Node, LoopStep(n)
    PROVE  LoneInv'
<1>1. \A x \in Slot : Live(x) => run[x] \in LiveRun /\ run[x].node \in Node
  BY LiveType DEF Live, LiveRun
<1>2. CASE SelectDue(n)
  <2>1. \A x \in Slot : Live(x) => run[x].node # n
    BY <1>2 DEF SelectDue, LoneInv
  <2>2. \A m \in Node : m # n => cand'[m] = cand[m] /\ loop'[m] = loop[m]
    BY <1>2 DEF SelectDue, TypeOK
  <2>3. loop'[n] = "claiming" /\ run' = run
    BY <1>2 DEF SelectDue, TypeOK
  <2> QED BY <1>1, <2>1, <2>2, <2>3 DEF LoneInv, Live
<1>3. ASSUME NEW t \in Task, Claim(n, t) PROVE LoneInv'
  <2>1. /\ cand' = [cand EXCEPT ![n] = @ \ {t}] /\ t \in cand[n]
        /\ loop' = loop /\ loop[n] = "claiming"
    BY <1>3 DEF Claim
  <2>2. \A m \in Node : cand'[m] \subseteq cand[m] /\ t \notin cand'[n]
    BY <2>1 DEF TypeOK
  <2>3. CASE UNCHANGED run
    <3>1. \A x \in Slot : SameRun(run[x], run'[x])
      BY <2>3 DEF SameRun
    <3>2. \A m \in Node : loop'[m] # "claiming" => cand'[m] = {}
      BY <2>1, <2>2 DEF LoneInv
    <3> QED BY <2>1, <2>2, <3>1, <3>2, LoneMoves
  <2>4. CASE ~UNCHANGED run
    <3> DEFINE new == [Idle EXCEPT !.pc = "claimed", !.node = n, !.task = t,
                                   !.wait = Slack, !.awaited = TRUE]
    <3>1. PICK s \in Slot : run[s].pc = "idle" /\ run' = [run EXCEPT ![s] = new]
      BY <1>3, <2>4 DEF Claim
    <3>2. new.pc = "claimed" /\ new.node = n /\ new.task = t /\ new.awaited
      BY DEF Idle
    <3> HIDE DEF new
    <3>3. run'[s] = new /\ \A x \in Slot : x # s => run'[x] = run[x]
      BY <3>1 DEF TypeOK
    <3>4. \A x \in Slot : Live(x) /\ run[x].node = n => run[x].task # t
      BY <2>1 DEF LoneInv
    <3>5. \A x \in Slot : x # s /\ Live(x)' => Live(x) /\ run'[x] = run[x]
      BY <3>3 DEF Live
    <3>6. ASSUME NEW x \in Slot, Live(x)'
          PROVE  /\ run'[x].awaited
                 /\ loop'[run'[x].node] = IF run'[x].pc = "claimed" THEN "claiming"
                                          ELSE "gathering"
                 /\ run'[x].task \notin cand'[run'[x].node]
      BY <1>1, <2>1, <2>2, <3>2, <3>3, <3>5, <3>6 DEF LoneInv
    <3>7. ASSUME NEW x \in Slot, NEW y \in Slot, Live(x)', Live(y)',
                 run'[x].node = run'[y].node, run'[x].task = run'[y].task
          PROVE  x = y
      BY <3>2, <3>3, <3>4, <3>5, <3>7 DEF LoneInv
    <3>8. \A m \in Node : loop'[m] # "claiming" => cand'[m] = {}
      BY <2>1, <2>2 DEF LoneInv
    <3> QED BY <3>6, <3>7, <3>8 DEF LoneInv
  <2> QED BY <2>3, <2>4
<1>4. CASE StartBatch(n)
  <2>1. /\ loop'[n] = "gathering" /\ loop[n] = "claiming" /\ cand[n] = {} /\ cand' = cand
        /\ \A m \in Node : m # n => loop'[m] = loop[m]
    BY <1>4 DEF StartBatch, TypeOK
  <2>2. ASSUME NEW x \in Slot, Live(x)'
        PROVE  /\ Live(x) /\ run'[x].node = run[x].node /\ run'[x].task = run[x].task
               /\ run'[x].awaited = run[x].awaited
               /\ run'[x].pc = IF run[x].node = n /\ run[x].pc = "claimed"
                                THEN "checking" ELSE run[x].pc
    BY <1>1, <1>4, <2>2 DEF StartBatch, Live, LiveRun
  <2>3. \A x \in Slot : Live(x) /\ run[x].node = n => run[x].pc = "claimed"
    BY <2>1 DEF LoneInv
  <2>4. ASSUME NEW x \in Slot, Live(x)'
        PROVE  /\ run'[x].awaited
               /\ loop'[run'[x].node] = IF run'[x].pc = "claimed" THEN "claiming"
                                        ELSE "gathering"
               /\ run'[x].task \notin cand'[run'[x].node]
    BY <1>1, <2>1, <2>2, <2>3, <2>4 DEF LoneInv
  <2> QED BY <2>1, <2>2, <2>4 DEF LoneInv
<1>5. CASE EndBatch(n)
  <2>1. \A x \in Slot : Live(x) => run[x].node # n
    BY <1>5 DEF EndBatch, LoneInv
  <2>2. /\ UNCHANGED <<run, cand>> /\ loop[n] = "gathering"
        /\ \A m \in Node : m # n => loop'[m] = loop[m]
    BY <1>5 DEF EndBatch, TypeOK
  <2> QED BY <1>1, <2>1, <2>2 DEF LoneInv, Live
<1>6. ~ClaimRaises(n)
  BY DEF ClaimRaises
<1> QED BY <1>2, <1>3, <1>4, <1>5, <1>6 DEF LoopStep

\* While nothing raises, every step leaves the coroutines alone.
LEMMA LoneStep ==
    ASSUME TypeOK, LoneInv, "raise" \notin Faults, [Next]_vars
    PROVE  LoneInv'
<1>1. ASSUME NEW s \in Slot, RunStep(s) PROVE LoneInv'
  <2>1. ~Raise(s)
    BY DEF Raise
  <2>2. run[s] \in LiveRun /\ run[s].pc \notin {"idle", "claimed"}
    <3>1. run[s].pc \in {"checking", "executing", "recorded", "finished", "writing"}
      BY <1>1, <2>1 DEF RunStep, Advance, SkipSeenKey, StartExecution, RecordRun, ReturnRun,
                        Judge, WriteBack, Heartbeat, AbortRun, Working
    <3> QED BY <3>1, LiveType
  <2>3. ASSUME NEW r, run' = [run EXCEPT ![s] = r], SameRun(run[s], r), UNCHANGED <<loop, cand>>
        PROVE  LoneInv'
    BY <2>3, OneMovesAlone
  <2> DEFINE old == run[s]
  <2>4. /\ \A pc \in Step : SameRun(old, [old EXCEPT !.pc = pc])
        /\ \A pc \in Step, out \in Result : SameRun(old, [old EXCEPT !.pc = pc, !.out = out])
        /\ \A pc \in Step : \A wait : SameRun(old, [old EXCEPT !.pc = pc, !.wait = wait])
        /\ \A pc \in Step, out \in Result : \A wait :
              SameRun(old, [old EXCEPT !.pc = pc, !.out = out, !.wait = wait])
        /\ \A pc \in Step : \A next, fail :
              SameRun(old, [old EXCEPT !.pc = pc, !.next = next, !.fail = fail])
        /\ \A wait : SameRun(old, [old EXCEPT !.wait = wait])
        /\ SameRun(old, Idle)
    BY <2>2 DEF SameRun, LiveRun, Step, Idle
  <2> HIDE DEF old
  <2>5. CASE SkipSeenKey(s)
    BY <2>3, <2>4, <2>5 DEF SkipSeenKey, old, Step, Result
  <2>6. CASE StartExecution(s)
    BY <2>3, <2>4, <2>6 DEF StartExecution, old, Step
  <2>7. ASSUME NEW out \in {"success", "failure"}, RecordRun(s, out) PROVE LoneInv'
    BY <2>3, <2>4, <2>7 DEF RecordRun, old, Step, Result
  <2>8. CASE ReturnRun(s)
    BY <2>3, <2>4, <2>8 DEF ReturnRun, old, Step
  <2>9. CASE Judge(s)
    <3>1. CASE run' = [run EXCEPT ![s] = Idle] /\ UNCHANGED <<loop, cand>>
      BY <2>3, <2>4, <3>1 DEF old
    <3>2. ASSUME NEW next, NEW fail, UNCHANGED <<loop, cand>>,
                 run' = [run EXCEPT ![s] = [old EXCEPT !.pc = "writing", !.next = next,
                                                       !.fail = fail]]
          PROVE  LoneInv'
      <4>1. SameRun(old, [old EXCEPT !.pc = "writing", !.next = next, !.fail = fail])
        BY <2>4 DEF Step
      <4> QED BY <2>3, <3>2, <4>1 DEF old
    <3> QED BY <2>9, <3>1, <3>2 DEF Judge, old
  <2>10. CASE WriteBack(s)
    BY <2>3, <2>4, <2>10 DEF WriteBack, old
  <2>11. CASE Heartbeat(s)
    BY <2>3, <2>4, <2>11 DEF Heartbeat, old
  <2>12. CASE AbortRun(s)
    BY <2>3, <2>4, <2>12 DEF AbortRun, old, Step, Result
  <2> QED BY <1>1, <2>1, <2>5, <2>6, <2>7, <2>8, <2>9, <2>10, <2>11, <2>12 DEF RunStep, Advance
<1>2. ASSUME NEW n \in Node, Crash(n) PROVE LoneInv'
  <2>1. \A x \in Slot : SameRun(run[x], run'[x]) /\ (Live(x)' => run[x].node # n)
    BY <1>2 DEF Crash, SameRun, Idle, Live
  <2>2. \A m \in Node : /\ cand'[m] \subseteq cand[m] /\ (loop'[m] # "claiming" => cand'[m] = {})
                        /\ m # n => loop'[m] = loop[m]
    BY <1>2 DEF Crash, TypeOK, LoneInv
  <2>3. \A x \in Slot : Live(x)' => Live(x) /\ run[x].node \in Node
    BY <2>1, LiveType DEF SameRun, Live, LiveRun
  <2> QED BY <2>1, <2>2, <2>3, LoneMoves
<1>3. ASSUME NEW n \in Node, Restart(n) PROVE LoneInv'
  <2>1. \A x \in Slot : SameRun(run[x], run'[x]) /\ (Live(x)' => run[x].node # n)
    BY <1>3 DEF Restart, SameRun, Live, LoneInv
  <2>2. \A m \in Node : /\ cand'[m] \subseteq cand[m] /\ (loop'[m] # "claiming" => cand'[m] = {})
                        /\ m # n => loop'[m] = loop[m]
    BY <1>3 DEF Restart, TypeOK, LoneInv
  <2>3. \A x \in Slot : Live(x)' => Live(x) /\ run[x].node \in Node
    BY <2>1, LiveType DEF SameRun, Live, LiveRun
  <2> QED BY <2>1, <2>2, <2>3, LoneMoves
<1>4. CASE Tick
  <2>1. ASSUME NEW x \in Slot PROVE SameRun(run[x], run'[x])
    <3> DEFINE later == [run[x] EXCEPT !.wait = run[x].wait - 1,
                                       !.next = Sooner(run[x].next)]
    <3>1. run'[x] = run[x] \/ (Live(x) /\ run'[x] = later)
      BY <1>4 DEF Tick, Live
    <3>2. Live(x) => run[x] \in LiveRun
      BY LiveType DEF Live
    <3>3. Live(x) => /\ later.pc = run[x].pc /\ later.node = run[x].node
                     /\ later.task = run[x].task /\ later.awaited = run[x].awaited
      BY <3>2 DEF LiveRun
    <3> HIDE DEF later
    <3> QED BY <3>1, <3>3 DEF SameRun, Live
  <2> QED BY <1>4, <2>1, LoneMoves DEF Tick, LoneInv
<1>5. CASE UNCHANGED <<run, loop, cand>>
  BY <1>5 DEF LoneInv, Live
<1> QED BY <1>1, <1>2, <1>3, <1>4, <1>5, LoopsKeepAlone
        DEF Next, DispatchStep, ReapOrphans, vars

(***************************************************************************)
(* While no statement raises, a lease that lasts is given up by the run it *)
(* was taken for, whatever stalls, crashes, retries and take-overs happen. *)
(***************************************************************************)
THEOREM LeasesEndWithTheirRuns ==
    ASSUME "raise" \notin Faults
    PROVE  Spec => LeaseEndsWithItsRun
<1> DEFINE Lasts(s) ==
      LET t == run[s].task IN
      /\ Live(s) /\ task[t].owner = run[s].node
      /\ task[t].left # NULL /\ ~Expired(task[t])
      => task'[t].owner = run[s].node \/ run'[s].pc = "idle"
<1>1. ASSUME TypeOK, LoneInv, [Next]_vars, NEW s \in Slot PROVE Lasts(s)
  <2> DEFINE t == run[s].task
  <2> SUFFICES ASSUME Live(s), task[t].owner = run[s].node,
                      task[t].left # NULL, ~Expired(task[t]), run'[s].pc # "idle"
               PROVE  task'[t].owner = run[s].node
    OBVIOUS
  <2>1. /\ run[s] \in LiveRun /\ t \in Task /\ run[s].node \in Node
        /\ run[s].node # NULL /\ task[t] \in Row
    BY <1>1, LiveType, StoreAssumption DEF Live, LiveRun, TypeOK
  <2> DEFINE row == task[t]
  <2>2. /\ \A n \in Node : CanAcquire(row, n) => n = run[s].node
        /\ Reaped(row) = row
    BY <2>1 DEF CanAcquire, Reaped
  <2>3. /\ \A n \in Node : Acquired(row, n).owner = n
        /\ \A r \in {Extended(row), KeyStored(row), RunRecorded(row), Aged(row)} :
              r.owner = row.owner
    BY <2>1 DEF Row, Acquired, Extended, KeyStored, RunRecorded, Aged
  <2>4. ASSUME NEW n \in Node, NEW u \in Task, Claim(n, u) PROVE task'[t].owner = run[s].node
    BY <1>1, <2>1, <2>2, <2>3, <2>4 DEF Claim, TypeOK
  <2>5. ASSUME NEW x \in Slot, WriteBack(x) PROVE task'[t].owner = run[s].node
    <3>1. x # s
      BY <1>1, <2>5 DEF WriteBack, TypeOK, Idle
    <3>2. run[x].task # t \/ run[x].node # run[s].node
      BY <1>1, <2>5, <3>1 DEF LoneInv, Live, WriteBack
    <3> QED BY <1>1, <2>1, <2>5, <3>2, CompletedKeeps
  <2>6. ASSUME NEW x \in Slot, NEW q, task' = [task EXCEPT ![run[x].task] = q],
               q \in {Extended(task[run[x].task]), KeyStored(task[run[x].task]),
                      RunRecorded(task[run[x].task]), task[run[x].task]}
        PROVE  task'[t].owner = run[s].node
    BY <1>1, <2>1, <2>3, <2>6 DEF TypeOK
  <2>7. ASSUME NEW x \in Slot, StartExecution(x) PROVE task'[t].owner = run[s].node
    BY <2>6, <2>7 DEF StartExecution
  <2>8. ASSUME NEW x \in Slot, Heartbeat(x) PROVE task'[t].owner = run[s].node
    BY <2>6, <2>8 DEF Heartbeat
  <2>9. ASSUME NEW x \in Slot, NEW out \in {"success", "failure"}, RecordRun(x, out)
        PROVE  task'[t].owner = run[s].node
    BY <2>6, <2>9 DEF RecordRun
  <2>10. ASSUME NEW n \in Node, ReapOrphans(n) PROVE task'[t].owner = run[s].node
    BY <2>1, <2>2, <2>10 DEF ReapOrphans
  <2>11. ASSUME Tick PROVE task'[t].owner = run[s].node
    BY <2>1, <2>3, <2>11 DEF Tick
  <2>12. ASSUME UNCHANGED task PROVE task'[t].owner = run[s].node
    BY <2>12
  <2> QED
    BY <1>1, <2>4, <2>5, <2>7, <2>8, <2>9, <2>10, <2>11, <2>12
       DEF Next, DispatchStep, LoopStep, RunStep, Advance, SelectDue, ClaimRaises,
           StartBatch, EndBatch, SkipSeenKey, ReturnRun, AbortRun, Judge, Raise,
           Crash, Restart, vars
<1>2. Init => LoneInv
  BY DEF Init, LoneInv, Live, Idle
<1>3. TypeOK /\ LoneInv /\ [Next]_vars => LoneInv'
  BY LoneStep
<1>4. TypeOK /\ LoneInv /\ [Next]_vars => [\A s \in Slot : Lasts(s)]_vars
  BY <1>1
<1> QED BY <1>2, <1>3, <1>4, TypeCorrect, PTL DEF Spec, LeaseEndsWithItsRun

\* The key of a keyed task stays stored, a success stays on record, and no row
\* is deleted by the dispatcher.
KeyInv ==
    /\ \A t \in Task : task[t].state # "deleted"
    /\ \A t \in Keyed : task[t].keyed
    /\ \A t \in succeeded : task[t].ran

\* Every step keeps KeyInv, unless a record of a run is lost.
LEMMA KeyStep ==
    ASSUME "persist" \notin Faults, TypeOK, KeyInv, [Next]_vars
    PROVE  KeyInv'
<1>1. ASSUME NEW t \in Task
      PROVE  /\ task'[t].state # "deleted"
             /\ task[t].keyed => task'[t].keyed
             /\ task[t].ran => task'[t].ran
  <2>1. CASE \A s \in Slot : WriteBack(s) => run[s].task # t
    BY <2>1, RowsKept DEF Kept, KeyInv
  <2>2. ASSUME NEW s \in Slot, WriteBack(s), run[s].task = t
        PROVE  /\ task'[t].state # "deleted"
               /\ task[t].keyed => task'[t].keyed
               /\ task[t].ran => task'[t].ran
    BY <2>2, CompletedKeeps DEF KeyInv
  <2> QED BY <2>1, <2>2
<1>2. ASSUME NEW t \in succeeded' PROVE task'[t].ran
  <2>1. CASE t \in succeeded
    BY <1>1, <2>1 DEF KeyInv, TypeOK
  <2>2. CASE t \notin succeeded
    <3>1. PICK s \in Slot : RecordRun(s, "success") /\ run[s].task = t
      BY <2>2
         DEF Next, DispatchStep, LoopStep, RunStep, Advance, SelectDue, Claim,
             ClaimRaises, StartBatch, EndBatch, ReapOrphans, SkipSeenKey,
             StartExecution, Heartbeat, RecordRun, Outcome, ReturnRun, AbortRun,
             Judge, WriteBack, Raise, Crash, Restart, Tick, vars
    <3>2. t \in Task /\ task[t] \in Row
      BY <3>1, LiveType DEF RecordRun, LiveRun, TypeOK
    <3>3. task'[t] = RunRecorded(task[t])
      BY <3>1, <3>2 DEF RecordRun, TypeOK
    <3> QED BY <3>2, <3>3 DEF RunRecorded, Row, KeyInv
  <2> QED BY <2>1, <2>2
<1> QED BY <1>1, <1>2, DispatcherAssumption DEF KeyInv

(***************************************************************************)
(* Idempotency: when no record of a run is lost, a keyed task that has     *)
(* succeeded is not executed again, on any node, after any crash and with  *)
(* any delay.                                                              *)
(***************************************************************************)
THEOREM KeysHold == ASSUME "persist" \notin Faults PROVE Spec => CompletedKeyNeverReruns
<1> DEFINE Fresh(s) ==
      LET t == run[s].task IN
      run[s].pc = "checking" /\ run'[s].pc = "executing" /\ t \in Keyed
        => t \notin succeeded
<1>1. Init => KeyInv
  <2> SUFFICES ASSUME Init PROVE KeyInv
    OBVIOUS
  <2>1. \A t \in Task : task[t] = Created(Period, t \in Keyed)
    BY DEF Init
  <2>2. \A t \in Task : task[t].state # "deleted"
    <3>1. \A b : Created(Period, b).state = "active"
      BY DEF Created
    <3>2. \A t \in Task : task[t].state = "active"
      BY <2>1, <3>1, Zenon
    <3> QED BY <3>2
  <2>3. ASSUME NEW t \in Keyed PROVE task[t].keyed
    <3>1. \A b : Created(Period, b).keyed = b
      BY DEF Created
    <3>2. t \in Task /\ (t \in Keyed) = TRUE
      BY DispatcherAssumption
    <3>3. task[t].keyed = (t \in Keyed)
      BY <2>1, <3>1, <3>2, Zenon
    <3> QED BY <3>3
  <2>4. succeeded = {}
    BY DEF Init
  <2> QED BY <2>2, <2>3, <2>4 DEF KeyInv
<1>2. ASSUME TypeOK, KeyInv, [Next]_vars, NEW s \in Slot PROVE Fresh(s)
  <2> SUFFICES ASSUME run[s].pc = "checking", run'[s].pc = "executing",
                      run[s].task \in Keyed
               PROVE  run[s].task \notin succeeded
    OBVIOUS
  <2>1. StartExecution(s)
    <3>1. run[s] \in LiveRun
      BY <1>2, LiveType
    <3>2. ~SkipSeenKey(s)
      BY <1>2, <3>1 DEF SkipSeenKey, LiveRun, TypeOK
    <3>3. ~Raise(s)
      BY <3>1 DEF Raise, Idle
    <3> QED BY <1>2, <3>2, <3>3, OwnMoves
            DEF Advance, RecordRun, ReturnRun, Judge, WriteBack, AbortRun, Working
  <2> QED BY <1>2, <2>1 DEF StartExecution, HasKey, KeySeen, KeyInv
<1>3. TypeOK /\ KeyInv /\ [Next]_vars => [\A s \in Slot : Fresh(s)]_vars
  BY <1>2
<1>4. TypeOK /\ KeyInv /\ [Next]_vars => KeyInv'
  BY KeyStep
<1> QED BY <1>1, <1>3, <1>4, TypeCorrect, PTL DEF Spec, CompletedKeyNeverReruns

-----------------------------------------------------------------------------
(* The capacity of a node.                                                 *)

\* The tasks that a node has leased in the batch that it is claiming.
ClaimedTasks(n) ==
    {t \in Task : \E s \in Slot : /\ run[s].pc = "claimed"
                                  /\ run[s].node = n /\ run[s].task = t}

\* What a node is busy with, or may be at the end of its batch.
Load(n) == active[n] \cup cand[n] \cup ClaimedTasks(n)

\* Between batches nothing is being claimed.
QuietBetween ==
    \A n \in Node : loop[n] # "claiming" => cand[n] = {} /\ ClaimedTasks(n) = {}

\* Only a gather awaits coroutines that have been started.
AwaitedByGather ==
    \A s \in Slot : run[s].pc \notin {"idle", "claimed"} /\ run[s].awaited
                        => loop[run[s].node] = "gathering"

\* A coroutine is counted among the active tasks of its node while it works.
Counting == {"checking", "executing", "recorded"}

WorkersCounted ==
    \A s \in Slot : run[s].pc \in Counting => run[s].task \in active[run[s].node]

LoadBound == \A n \in Node : Cardinality(Load(n)) <= MaxConcurrent

CapacityInv == QuietBetween /\ AwaitedByGather /\ WorkersCounted /\ LoadBound

-----------------------------------------------------------------------------
\* A load that has not grown keeps its bound.
LEMMA LoadShrinks ==
    ASSUME IsFiniteSet(Task), TypeOK, NEW n \in Node, NEW S, S \subseteq Load(n),
           Cardinality(Load(n)) <= MaxConcurrent
    PROVE  Cardinality(S) <= MaxConcurrent
<1>1. Load(n) \subseteq Task
  BY DEF Load, ClaimedTasks, TypeOK
<1>2. IsFiniteSet(Load(n))
  BY <1>1, FS_Subset
<1>3. IsFiniteSet(S) /\ Cardinality(S) <= Cardinality(Load(n))
  BY <1>2, FS_Subset
<1>4. Cardinality(S) \in Nat /\ Cardinality(Load(n)) \in Nat
  BY <1>2, <1>3, FS_CardinalityType
<1> QED BY <1>3, <1>4, DispatcherAssumption

\* A started coroutine moves on, or ends; at most its own task stops being active.
LEMMA SlotMoves ==
    ASSUME IsFiniteSet(Task), TypeOK, LeaseInv, CapacityInv,
           NEW s \in Slot, run[s].pc \notin {"idle", "claimed"}, NEW r,
           run' = [run EXCEPT ![s] = r],
           \/ r = Idle
           \/ /\ r.node = run[s].node /\ r.task = run[s].task
              /\ r.awaited = run[s].awaited /\ r.pc \notin {"idle", "claimed"},
           r.pc \in Counting => run[s].pc \in Counting,
           UNCHANGED <<loop, cand>>,
           active' = active \/ (Discard(s) /\ r.pc \notin Counting)
    PROVE  CapacityInv'
<1>1. run[s] \in LiveRun /\ run[s].node \in Node /\ run[s].task \in Task
  BY LiveType DEF LiveRun
<1>2. run'[s] = r /\ \A x \in Slot : x # s => run'[x] = run[x]
  BY DEF TypeOK
<1>3. ASSUME NEW n \in Node
      PROVE  ClaimedTasks(n)' \subseteq ClaimedTasks(n) /\ active'[n] \subseteq active[n]
  <2>1. ClaimedTasks(n)' \subseteq ClaimedTasks(n)
    BY <1>2 DEF ClaimedTasks, Idle
  <2>2. active'[n] \subseteq active[n]
    BY <1>1 DEF Discard, TypeOK
  <2> QED BY <2>1, <2>2
<1>4. QuietBetween'
  BY <1>3 DEF CapacityInv, QuietBetween
<1>5. AwaitedByGather'
  BY <1>2 DEF CapacityInv, AwaitedByGather, Idle
<1>6. WorkersCounted'
  <2>1. ASSUME NEW x \in Slot, run'[x].pc \in Counting
        PROVE  run'[x].task \in active'[run'[x].node]
    <3>1. /\ run[x].pc \in Counting /\ run'[x].task = run[x].task
          /\ run'[x].node = run[x].node
      BY <1>2, <2>1 DEF Idle, Counting
    <3>2. run[x].task \in active[run[x].node]
      BY <3>1 DEF CapacityInv, WorkersCounted
    <3>3. CASE active' = active
      BY <3>1, <3>2, <3>3
    <3>4. CASE Discard(s) /\ r.pc \notin Counting
      <4>1. x # s
        BY <1>2, <2>1, <3>4
      <4>2. run[x].task # run[s].task
        BY <3>1, <4>1 DEF LeaseInv, Live, Counting
      <4>3. run[x].node \in Node
        BY <3>1, LiveType DEF Counting, LiveRun
      <4> QED BY <1>1, <3>1, <3>2, <3>4, <4>2, <4>3 DEF Discard, TypeOK
    <3> QED BY <3>3, <3>4
  <2> QED BY <2>1 DEF WorkersCounted
<1>7. LoadBound'
  <2>1. ASSUME NEW n \in Node PROVE Cardinality(Load(n)') <= MaxConcurrent
    <3>1. Load(n)' \subseteq Load(n)
      BY <1>3 DEF Load
    <3> QED BY <3>1, LoadShrinks DEF CapacityInv, LoadBound
  <2> QED BY <2>1 DEF LoadBound
<1> QED BY <1>4, <1>5, <1>6, <1>7 DEF CapacityInv

-----------------------------------------------------------------------------
\* What the loop of a node does to its own load: a batch fills at most the free
\* slots, a claim moves a task within the load, and so does the start of a batch.
LEMMA LoopKeepsCapacity ==
    ASSUME IsFiniteSet(Task), TypeOK, CapacityInv, NEW n \in Node,
           LoopStep(n) \/ ReapOrphans(n)
    PROVE  CapacityInv'
<1>1. CASE SelectDue(n)
  <2>1. PICK batch \in SUBSET Task : /\ Cardinality(batch) <= FreeSlots(n)
                                     /\ FreeSlots(n) > 0
                                     /\ cand' = [cand EXCEPT ![n] = batch]
    <3> DEFINE due == {t \in Task : Claimable(task[t])}
               limit == IF BatchSize < FreeSlots(n) THEN BatchSize ELSE FreeSlots(n)
               size == IF Cardinality(due) < limit THEN Cardinality(due) ELSE limit
    <3>1. IsFiniteSet(due) /\ IsFiniteSet(active[n])
      BY FS_Subset DEF TypeOK
    <3>2. Cardinality(due) \in Nat /\ Cardinality(active[n]) \in Nat
      BY <3>1, FS_CardinalityType
    <3>3. FreeSlots(n) \in Nat
      BY <3>2, DispatcherAssumption DEF FreeSlots
    <3>4. PICK batch \in SUBSET due : /\ Cardinality(batch) = size /\ size > 0
                                      /\ cand' = [cand EXCEPT ![n] = batch]
      BY <1>1 DEF SelectDue
    <3>5. size <= FreeSlots(n) /\ FreeSlots(n) > 0
      BY <3>2, <3>3, <3>4, DispatcherAssumption
    <3>6. batch \in SUBSET Task
      BY <3>4
    <3> HIDE DEF size
    <3> QED BY <3>4, <3>5, <3>6
  <2>2. \A m \in Node : /\ loop'[m] = IF m = n THEN "claiming" ELSE loop[m]
                        /\ cand'[m] = IF m = n THEN batch ELSE cand[m]
    BY <1>1, <2>1 DEF SelectDue, TypeOK
  <2>3. UNCHANGED <<run, active>> /\ loop[n] = "sleeping"
    BY <1>1 DEF SelectDue
  <2>4. \A m \in Node : ClaimedTasks(m)' = ClaimedTasks(m)
    BY <2>3 DEF ClaimedTasks
  <2>5. QuietBetween'
    BY <2>2, <2>4 DEF CapacityInv, QuietBetween
  <2>6. AwaitedByGather'
    <3>1. ASSUME NEW s \in Slot, run[s].pc \notin {"idle", "claimed"}, run[s].awaited
          PROVE  loop'[run[s].node] = "gathering"
      <4>1. run[s].node \in Node
        BY <3>1, LiveType DEF LiveRun
      <4>2. loop[run[s].node] = "gathering"
        BY <3>1 DEF CapacityInv, AwaitedByGather
      <4> QED BY <2>2, <2>3, <4>1, <4>2
    <3> QED BY <2>3, <3>1 DEF AwaitedByGather
  <2>7. WorkersCounted'
    BY <2>3 DEF CapacityInv, WorkersCounted
  <2>8. ASSUME NEW m \in Node PROVE Cardinality(Load(m)') <= MaxConcurrent
    <3>1. CASE m # n
      BY <2>2, <2>3, <2>4, <3>1 DEF Load, CapacityInv, LoadBound
    <3>2. CASE m = n
      <4>1. Load(n)' = active[n] \cup batch
        BY <2>2, <2>3, <2>4 DEF Load, CapacityInv, QuietBetween
      <4>2. IsFiniteSet(active[n]) /\ IsFiniteSet(batch)
        BY <2>1, FS_Subset DEF TypeOK
      <4>3. /\ Cardinality(active[n]) \in Nat /\ Cardinality(batch) \in Nat
            /\ Cardinality(active[n] \cap batch) \in Nat
        BY <4>2, FS_CardinalityType, FS_Intersection
      <4>4. Cardinality(active[n] \cup batch)
              = Cardinality(active[n]) + Cardinality(batch)
                - Cardinality(active[n] \cap batch)
        BY <4>2, FS_Union
      <4>5. FreeSlots(n) = MaxConcurrent - Cardinality(active[n])
        BY <2>1, <4>3, DispatcherAssumption DEF FreeSlots
      <4> QED BY <2>1, <3>2, <4>1, <4>3, <4>4, <4>5, DispatcherAssumption
    <3> QED BY <3>1, <3>2
  <2> QED BY <2>5, <2>6, <2>7, <2>8 DEF CapacityInv, LoadBound
<1>2. ASSUME NEW t \in Task, Claim(n, t) PROVE CapacityInv'
  <2>1. /\ loop[n] = "claiming" /\ t \in cand[n] /\ UNCHANGED <<loop, active>>
        /\ cand' = [cand EXCEPT ![n] = cand[n] \ {t}]
    BY <1>2 DEF Claim
  <2>2. \A m \in Node : cand'[m] = IF m = n THEN cand[n] \ {t} ELSE cand[m]
    BY <2>1 DEF TypeOK
  <2>3. \A x \in Slot :
            \/ run'[x] = run[x]
            \/ run'[x].pc = "claimed" /\ run'[x].node = n /\ run'[x].task = t
    <3> DEFINE new == [Idle EXCEPT !.pc = "claimed", !.node = n, !.task = t,
                                   !.wait = Slack, !.awaited = TRUE]
    <3>1. new.pc = "claimed" /\ new.node = n /\ new.task = t
      BY DEF Idle
    <3>2. run' = run \/ \E s \in Slot : run' = [run EXCEPT ![s] = new]
      BY <1>2 DEF Claim
    <3> HIDE DEF new
    <3> QED BY <3>1, <3>2 DEF TypeOK
  <2>4. \A m \in Node : ClaimedTasks(m)' \subseteq
                            ClaimedTasks(m) \cup (IF m = n THEN {t} ELSE {})
    BY <2>3 DEF ClaimedTasks
  <2>5. \A m \in Node : Load(m)' \subseteq Load(m)
    BY <2>1, <2>2, <2>4 DEF Load
  <2>6. QuietBetween'
    BY <2>1, <2>2, <2>4 DEF CapacityInv, QuietBetween
  <2>7. AwaitedByGather' /\ WorkersCounted'
    BY <2>1, <2>3 DEF CapacityInv, AwaitedByGather, WorkersCounted, Counting
  <2>8. LoadBound'
    BY <2>5, LoadShrinks DEF CapacityInv, LoadBound
  <2> QED BY <2>6, <2>7, <2>8 DEF CapacityInv
<1>3. CASE ClaimRaises(n)
  <2>1. \A m \in Node : /\ loop'[m] = IF m = n THEN "sleeping" ELSE loop[m]
                        /\ cand'[m] = IF m = n THEN {} ELSE cand[m]
                        /\ active'[m] = active[m]
    BY <1>3 DEF ClaimRaises, TypeOK
  <2>2. \A x \in Slot :
            /\ run'[x] = run[x] \/ run'[x].pc = "idle"
            /\ run[x].node = n /\ run[x].pc = "claimed" => run'[x].pc = "idle"
    BY <1>3 DEF ClaimRaises, Idle
  <2>3. \A m \in Node : ClaimedTasks(m)' \subseteq
                            IF m = n THEN {} ELSE ClaimedTasks(m)
    BY <2>2 DEF ClaimedTasks
  <2>4. \A m \in Node : Load(m)' \subseteq Load(m)
    BY <2>1, <2>3 DEF Load
  <2>5. QuietBetween'
    BY <2>1, <2>3 DEF CapacityInv, QuietBetween
  <2>6. AwaitedByGather'
    <3>1. ASSUME NEW s \in Slot, run'[s].pc \notin {"idle", "claimed"},
                 run'[s].awaited
          PROVE  loop'[run'[s].node] = "gathering"
      <4>1. run'[s] = run[s]
        BY <2>2, <3>1
      <4>2. run[s].node \in Node
        BY <3>1, <4>1, LiveType DEF LiveRun
      <4>3. loop[run[s].node] = "gathering" /\ loop[n] = "claiming"
        BY <1>3, <3>1, <4>1 DEF CapacityInv, AwaitedByGather, ClaimRaises
      <4> QED BY <2>1, <4>1, <4>2, <4>3
    <3> QED BY <3>1 DEF AwaitedByGather
  <2>7. WorkersCounted'
    BY <1>3, <2>2 DEF CapacityInv, WorkersCounted, Counting, ClaimRaises
  <2>8. LoadBound'
    BY <2>4, LoadShrinks DEF CapacityInv, LoadBound
  <2> QED BY <2>5, <2>6, <2>7, <2>8 DEF CapacityInv
<1>4. CASE StartBatch(n)
  <2> DEFINE new == {run[s].task : s \in {x \in Slot : /\ run[x].node = n
                                                       /\ run[x].pc = "claimed"}}
  <2>1. \A m \in Node : /\ loop'[m] = IF m = n THEN "gathering" ELSE loop[m]
                        /\ cand'[m] = cand[m]
                        /\ active'[m] = IF m = n THEN active[n] \cup new ELSE active[m]
    BY <1>4 DEF StartBatch, TypeOK
  <2>2. \A x \in Slot :
            \/ /\ run'[x] = run[x]
               /\ ~(run[x].pc = "claimed" /\ run[x].node = n)
            \/ /\ run[x].pc = "claimed" /\ run[x].node = n
               /\ run'[x].pc = "checking" /\ run'[x].node = n
               /\ run'[x].task = run[x].task
    <3>1. ASSUME NEW x \in Slot, run[x].node = n, run[x].pc = "claimed"
          PROVE  /\ run'[x].pc = "checking" /\ run'[x].node = n
                 /\ run'[x].task = run[x].task
      <4>1. run'[x] = [run[x] EXCEPT !.pc = "checking"]
        BY <1>4, <3>1 DEF StartBatch
      <4>2. run[x] \in LiveRun
        BY <3>1, LiveType
      <4> QED BY <3>1, <4>1, <4>2 DEF LiveRun
    <3> QED BY <1>4, <3>1 DEF StartBatch
  <2>3. \A m \in Node : ClaimedTasks(m)' \subseteq
                            IF m = n THEN {} ELSE ClaimedTasks(m)
    BY <2>2 DEF ClaimedTasks
  <2>4. new \subseteq ClaimedTasks(n)
    BY LiveType DEF ClaimedTasks, LiveRun
  <2>5. \A m \in Node : Load(m)' \subseteq Load(m)
    BY <2>1, <2>3, <2>4 DEF Load
  <2>6. QuietBetween'
    BY <1>4, <2>1, <2>3 DEF CapacityInv, QuietBetween, StartBatch
  <2>7. AwaitedByGather'
    <3>1. ASSUME NEW s \in Slot, run'[s].pc \notin {"idle", "claimed"},
                 run'[s].awaited
          PROVE  loop'[run'[s].node] = "gathering"
      <4>1. CASE run'[s].node = n
        BY <2>1, <4>1
      <4>2. CASE run'[s].node # n
        <5>1. run'[s] = run[s]
          BY <2>2, <4>2
        <5>2. run[s].node \in Node
          BY <3>1, <5>1, LiveType DEF LiveRun
        <5>3. loop[run[s].node] = "gathering"
          BY <3>1, <5>1 DEF CapacityInv, AwaitedByGather
        <5> QED BY <2>1, <4>2, <5>1, <5>2, <5>3
      <4> QED BY <4>1, <4>2
    <3> QED BY <3>1 DEF AwaitedByGather
  <2>8. WorkersCounted'
    <3>1. ASSUME NEW s \in Slot, run'[s].pc \in Counting
          PROVE  run'[s].task \in active'[run'[s].node]
      <4>1. CASE run[s].pc = "claimed" /\ run[s].node = n
        <5>1. run'[s].task \in new /\ run'[s].node = n
          BY <2>2, <4>1
        <5> QED BY <2>1, <5>1
      <4>2. CASE ~(run[s].pc = "claimed" /\ run[s].node = n)
        <5>1. run'[s] = run[s]
          BY <2>2, <4>2
        <5>2. run[s].node \in Node
          BY <3>1, <5>1, LiveType DEF LiveRun, Counting
        <5>3. run[s].task \in active[run[s].node]
          BY <3>1, <5>1 DEF CapacityInv, WorkersCounted
        <5> QED BY <2>1, <5>1, <5>2, <5>3
      <4> QED BY <4>1, <4>2
    <3> QED BY <3>1 DEF WorkersCounted
  <2>9. LoadBound'
    BY <2>5, LoadShrinks DEF CapacityInv, LoadBound
  <2> QED BY <2>6, <2>7, <2>8, <2>9 DEF CapacityInv
<1>5. CASE EndBatch(n)
  <2>1. /\ \A m \in Node : loop'[m] = IF m = n THEN "sleeping" ELSE loop[m]
        /\ UNCHANGED <<run, cand, active>> /\ loop[n] = "gathering"
        /\ \A s \in Slot : run[s].node = n => ~run[s].awaited
    BY <1>5 DEF EndBatch, TypeOK
  <2>2. \A m \in Node : ClaimedTasks(m)' = ClaimedTasks(m) /\ Load(m)' = Load(m)
    BY <2>1 DEF ClaimedTasks, Load
  <2>3. AwaitedByGather'
    <3>1. ASSUME NEW s \in Slot, run[s].pc \notin {"idle", "claimed"}, run[s].awaited
          PROVE  loop'[run[s].node] = "gathering"
      <4>1. run[s].node \in Node
        BY <3>1, LiveType DEF LiveRun
      <4>2. loop[run[s].node] = "gathering"
        BY <3>1 DEF CapacityInv, AwaitedByGather
      <4> QED BY <2>1, <3>1, <4>1, <4>2
    <3> QED BY <2>1, <3>1 DEF AwaitedByGather
  <2> QED BY <2>1, <2>2, <2>3
          DEF CapacityInv, QuietBetween, WorkersCounted, LoadBound
<1>6. CASE ReapOrphans(n)
  <2>1. UNCHANGED <<run, loop, cand, active>>
    BY <1>6 DEF ReapOrphans
  <2>2. \A m \in Node : ClaimedTasks(m)' = ClaimedTasks(m) /\ Load(m)' = Load(m)
    BY <2>1 DEF ClaimedTasks, Load
  <2> QED BY <2>1, <2>2
          DEF CapacityInv, QuietBetween, AwaitedByGather, WorkersCounted, LoadBound
<1> QED BY <1>1, <1>2, <1>3, <1>4, <1>5, <1>6 DEF LoopStep

-----------------------------------------------------------------------------
\* A raise makes gather return, and no coroutine of the node is awaited then.
LEMMA RaiseKeepsCapacity ==
    ASSUME IsFiniteSet(Task), TypeOK, LeaseInv, CapacityInv,
           NEW s \in Slot, Raise(s)
    PROVE  CapacityInv'
<1> DEFINE n == run[s].node
           ends == run[s].awaited
<1>1. /\ run[s] \in LiveRun /\ n \in Node /\ run[s].task \in Task
      /\ run[s].pc \in {"checking", "finished", "writing"}
  BY LiveType DEF Raise, LiveRun
<1>2. ends => loop[n] = "gathering"
  BY <1>1 DEF CapacityInv, AwaitedByGather
<1>3. /\ \A m \in Node : loop'[m] = IF m = n /\ ends THEN "sleeping" ELSE loop[m]
      /\ UNCHANGED cand
  BY DEF Raise, TypeOK
<1>4. \A x \in Slot : x # s => run[x].pc = "idle" \/ run[x] \in LiveRun
  BY LiveType
<1>5. /\ run'[s] = Idle
      /\ \A x \in Slot : x # s =>
            /\ run'[x].pc = run[x].pc /\ run'[x].node = run[x].node
            /\ run'[x].task = run[x].task
            /\ run'[x].awaited => run[x].awaited /\ ~(run[x].node = n /\ ends)
  <2>1. ASSUME NEW x \in Slot, x # s, run[x].node = n, ends
        PROVE  /\ run'[x].pc = run[x].pc /\ run'[x].node = run[x].node
               /\ run'[x].task = run[x].task /\ ~run'[x].awaited
    <3>1. run'[x] = [run[x] EXCEPT !.awaited = FALSE]
      BY <2>1 DEF Raise
    <3>2. run[x] \in LiveRun
      BY <1>1, <2>1, <1>4, StoreAssumption DEF TypeOK, Idle
    <3>3. [run[x] EXCEPT !.awaited = FALSE].awaited = FALSE
      BY <3>2 DEF LiveRun
    <3>4. /\ run'[x].pc = run[x].pc /\ run'[x].node = run[x].node
          /\ run'[x].task = run[x].task
      BY <3>1, <3>2 DEF LiveRun
    <3> QED BY <3>1, <3>3, <3>4
  <2>2. \A x \in Slot : x # s /\ ~(run[x].node = n /\ ends) => run'[x] = run[x]
    BY DEF Raise
  <2>3. run'[s] = Idle
    BY DEF Raise
  <2> QED BY <2>1, <2>2, <2>3
<1>6. Idle.pc = "idle"
  BY DEF Idle
<1>7. \A m \in Node : /\ ClaimedTasks(m)' \subseteq ClaimedTasks(m)
                      /\ active'[m] \subseteq active[m]
  <2>1. \A m \in Node : ClaimedTasks(m)' \subseteq ClaimedTasks(m)
    BY <1>5, <1>6 DEF ClaimedTasks
  <2>2. \A m \in Node : active'[m] \subseteq active[m]
    BY <1>1 DEF Raise, Discard, TypeOK
  <2> QED BY <2>1, <2>2
<1>8. QuietBetween'
  BY <1>2, <1>3, <1>7 DEF CapacityInv, QuietBetween
<1>9. AwaitedByGather'
  <2>1. ASSUME NEW x \in Slot, run'[x].pc \notin {"idle", "claimed"},
               run'[x].awaited
        PROVE  loop'[run'[x].node] = "gathering"
    <3>1. x # s
      BY <1>5, <1>6, <2>1
    <3>2. run[x].node \in Node
      BY <1>4, <1>5, <2>1, <3>1 DEF LiveRun
    <3>3. loop[run[x].node] = "gathering"
      BY <1>5, <2>1, <3>1 DEF CapacityInv, AwaitedByGather
    <3> QED BY <1>3, <1>5, <2>1, <3>1, <3>2, <3>3
  <2> QED BY <2>1 DEF AwaitedByGather
<1>10. WorkersCounted'
  <2>1. ASSUME NEW x \in Slot, run'[x].pc \in Counting
        PROVE  run'[x].task \in active'[run'[x].node]
    <3>1. x # s
      BY <1>5, <1>6, <2>1 DEF Counting
    <3>2. /\ run[x].pc \in Counting /\ run'[x].task = run[x].task
          /\ run'[x].node = run[x].node
      BY <1>5, <2>1, <3>1
    <3>3. run[x].task \in active[run[x].node]
      BY <3>2 DEF CapacityInv, WorkersCounted
    <3>4. run[x].task # run[s].task
      BY <1>1, <3>1, <3>2 DEF LeaseInv, Live, Counting
    <3>5. run[x].node \in Node
      BY <1>4, <3>1, <3>2 DEF Counting, LiveRun
    <3>6. active' = active \/ Discard(s)
      BY DEF Raise
    <3> QED BY <1>1, <3>2, <3>3, <3>4, <3>5, <3>6 DEF Discard, TypeOK
  <2> QED BY <2>1 DEF WorkersCounted
<1>11. LoadBound'
  <2>1. \A m \in Node : Load(m)' \subseteq Load(m)
    BY <1>3, <1>7 DEF Load
  <2> QED BY <2>1, LoadShrinks DEF CapacityInv, LoadBound
<1> QED BY <1>8, <1>9, <1>10, <1>11 DEF CapacityInv

-----------------------------------------------------------------------------
\* Every step keeps the capacity of every node.
LEMMA CapacityStep ==
    ASSUME IsFiniteSet(Task), TypeOK, LeaseInv, CapacityInv, [Next]_vars
    PROVE  CapacityInv'
<1>1. ASSUME NEW n \in Node, LoopStep(n) \/ ReapOrphans(n) PROVE CapacityInv'
  BY <1>1, LoopKeepsCapacity
<1>2. ASSUME NEW s \in Slot, RunStep(s) PROVE CapacityInv'
  <2>1. CASE SkipSeenKey(s)
    <3> DEFINE r == [run[s] EXCEPT !.pc = "finished", !.out = "skipped"]
    <3>1. run[s] \in LiveRun /\ run[s].pc = "checking"
      BY <2>1, LiveType DEF SkipSeenKey
    <3>2. /\ r.node = run[s].node /\ r.task = run[s].task
          /\ r.awaited = run[s].awaited /\ r.pc = "finished"
      BY <3>1 DEF LiveRun
    <3>3. run' = [run EXCEPT ![s] = r] /\ UNCHANGED <<loop, cand>> /\ Discard(s)
      BY <2>1 DEF SkipSeenKey
    <3> HIDE DEF r
    <3> QED BY <3>1, <3>2, <3>3, SlotMoves DEF Counting
  <2>2. CASE StartExecution(s)
    <3> DEFINE r == [run[s] EXCEPT !.pc = "executing",
                                   !.wait = HeartbeatInterval + Slack]
    <3>1. run[s] \in LiveRun /\ run[s].pc = "checking"
      BY <2>2, LiveType DEF StartExecution
    <3>2. /\ r.node = run[s].node /\ r.task = run[s].task
          /\ r.awaited = run[s].awaited /\ r.pc = "executing"
      BY <3>1 DEF LiveRun
    <3>3. run' = [run EXCEPT ![s] = r] /\ UNCHANGED <<loop, cand, active>>
      BY <2>2 DEF StartExecution
    <3> HIDE DEF r
    <3> QED BY <3>1, <3>2, <3>3, SlotMoves DEF Counting
  <2>3. CASE Heartbeat(s)
    <3>1. run[s] \in LiveRun /\ run[s].pc \in {"executing", "recorded"}
      BY <2>3, LiveType DEF Heartbeat, Working
    <3>2. PICK wait \in {HeartbeatInterval + Slack, NULL} :
             run' = [run EXCEPT ![s] = [run[s] EXCEPT !.wait = wait]]
      BY <2>3 DEF Heartbeat
    <3> DEFINE r == [run[s] EXCEPT !.wait = wait]
    <3>3. /\ r.node = run[s].node /\ r.task = run[s].task
          /\ r.awaited = run[s].awaited /\ r.pc = run[s].pc
      BY <3>1 DEF LiveRun
    <3>4. run' = [run EXCEPT ![s] = r] /\ UNCHANGED <<loop, cand, active>>
      BY <2>3, <3>2 DEF Heartbeat
    <3> HIDE DEF r
    <3> QED BY <3>1, <3>3, <3>4, SlotMoves
  <2>4. ASSUME NEW out \in {"success", "failure"}, RecordRun(s, out)
        PROVE  CapacityInv'
    <3> DEFINE r == [run[s] EXCEPT !.pc = "recorded", !.out = out]
    <3>1. run[s] \in LiveRun /\ run[s].pc = "executing"
      BY <2>4, LiveType DEF RecordRun
    <3>2. /\ r.node = run[s].node /\ r.task = run[s].task
          /\ r.awaited = run[s].awaited /\ r.pc = "recorded"
      BY <3>1 DEF LiveRun
    <3>3. run' = [run EXCEPT ![s] = r] /\ UNCHANGED <<loop, cand, active>>
      BY <2>4 DEF RecordRun
    <3> HIDE DEF r
    <3> QED BY <3>1, <3>2, <3>3, SlotMoves DEF Counting
  <2>5. CASE ReturnRun(s)
    <3> DEFINE r == [run[s] EXCEPT !.pc = "finished", !.wait = Slack]
    <3>1. run[s] \in LiveRun /\ run[s].pc = "recorded"
      BY <2>5, LiveType DEF ReturnRun
    <3>2. /\ r.node = run[s].node /\ r.task = run[s].task
          /\ r.awaited = run[s].awaited /\ r.pc = "finished"
      BY <3>1 DEF LiveRun
    <3>3. run' = [run EXCEPT ![s] = r] /\ UNCHANGED <<loop, cand>> /\ Discard(s)
      BY <2>5 DEF ReturnRun
    <3> HIDE DEF r
    <3> QED BY <3>1, <3>2, <3>3, SlotMoves DEF Counting
  <2>6. CASE AbortRun(s)
    <3> DEFINE r == [run[s] EXCEPT !.pc = "finished", !.out = "failure",
                                   !.wait = Slack]
    <3>1. run[s] \in LiveRun /\ run[s].pc \in {"executing", "recorded"}
      BY <2>6, LiveType DEF AbortRun, Working
    <3>2. /\ r.node = run[s].node /\ r.task = run[s].task
          /\ r.awaited = run[s].awaited /\ r.pc = "finished"
      BY <3>1 DEF LiveRun
    <3>3. run' = [run EXCEPT ![s] = r] /\ UNCHANGED <<loop, cand>> /\ Discard(s)
      BY <2>6 DEF AbortRun
    <3> HIDE DEF r
    <3> QED BY <3>1, <3>2, <3>3, SlotMoves DEF Counting
  <2>7. CASE Judge(s)
    <3> DEFINE w == [run[s] EXCEPT !.pc = "writing",
                                   !.next = ScheduleAfter(run[s],
                                                          NextFire(run[s].task)),
                                   !.fail = GivesUp(run[s])]
    <3>1. run[s] \in LiveRun /\ run[s].pc = "finished"
      BY <2>7, LiveType DEF Judge
    <3>2. /\ w.node = run[s].node /\ w.task = run[s].task
          /\ w.awaited = run[s].awaited /\ w.pc = "writing"
      BY <3>1 DEF LiveRun
    <3>3. /\ run' = [run EXCEPT ![s] = w] \/ run' = [run EXCEPT ![s] = Idle]
          /\ UNCHANGED <<loop, cand, active>>
      BY <2>7 DEF Judge
    <3>4. Idle.pc \notin Counting
      BY DEF Idle, Counting
    <3> HIDE DEF w
    <3>5. CASE run' = [run EXCEPT ![s] = w]
      BY <3>1, <3>2, <3>3, <3>5, SlotMoves DEF Counting
    <3>6. CASE run' = [run EXCEPT ![s] = Idle]
      BY <3>1, <3>3, <3>4, <3>6, SlotMoves
    <3> QED BY <3>3, <3>5, <3>6
  <2>8. CASE WriteBack(s)
    <3>1. /\ run[s].pc = "writing" /\ run' = [run EXCEPT ![s] = Idle]
          /\ UNCHANGED <<loop, cand, active>>
      BY <2>8 DEF WriteBack
    <3>2. Idle.pc \notin Counting
      BY DEF Idle, Counting
    <3> QED BY <3>1, <3>2, SlotMoves
  <2>9. CASE Raise(s)
    BY <2>9, RaiseKeepsCapacity
  <2> QED BY <1>2, <2>1, <2>2, <2>3, <2>4, <2>5, <2>6, <2>7, <2>8, <2>9
          DEF RunStep, Advance
<1>3. ASSUME NEW n \in Node, Crash(n) PROVE CapacityInv'
  <2>1. \A m \in Node :
            /\ loop'[m] = IF m = n THEN "down" ELSE loop[m]
            /\ cand'[m] = IF m = n THEN {} ELSE cand[m]
            /\ active'[m] = IF m = n THEN {} ELSE active[m]
    BY <1>3 DEF Crash, TypeOK
  <2>2. \A x \in Slot : run'[x] = IF run[x].node = n THEN Idle ELSE run[x]
    BY <1>3 DEF Crash
  <2>3. Idle.pc = "idle"
    BY DEF Idle
  <2>4. \A m \in Node : ClaimedTasks(m)' \subseteq
                            IF m = n THEN {} ELSE ClaimedTasks(m)
    BY <2>2, <2>3 DEF ClaimedTasks
  <2>5. \A m \in Node : Load(m)' \subseteq Load(m)
    BY <2>1, <2>4 DEF Load
  <2>6. QuietBetween'
    BY <2>1, <2>4 DEF CapacityInv, QuietBetween
  <2>7. \A x \in Slot : run'[x].pc # "idle" =>
            run'[x] = run[x] /\ run[x].node \in Node /\ run[x].node # n
    BY <2>2, <2>3, LiveType DEF LiveRun
  <2>8. AwaitedByGather'
    BY <2>1, <2>7 DEF CapacityInv, AwaitedByGather
  <2>9. WorkersCounted'
    BY <2>1, <2>7 DEF CapacityInv, WorkersCounted, Counting
  <2>10. LoadBound'
    BY <2>5, LoadShrinks DEF CapacityInv, LoadBound
  <2> QED BY <2>6, <2>8, <2>9, <2>10 DEF CapacityInv
<1>4. ASSUME NEW n \in Node, Restart(n) PROVE CapacityInv'
  <2>1. /\ \A m \in Node : loop'[m] = IF m = n THEN "sleeping" ELSE loop[m]
        /\ UNCHANGED <<run, cand, active>> /\ loop[n] = "down"
    BY <1>4 DEF Restart, TypeOK
  <2>2. \A m \in Node : ClaimedTasks(m)' = ClaimedTasks(m) /\ Load(m)' = Load(m)
    BY <2>1 DEF ClaimedTasks, Load
  <2>3. AwaitedByGather'
    <3>1. ASSUME NEW s \in Slot, run[s].pc \notin {"idle", "claimed"}, run[s].awaited
          PROVE  loop'[run[s].node] = "gathering"
      <4>1. run[s].node \in Node
        BY <3>1, LiveType DEF LiveRun
      <4>2. loop[run[s].node] = "gathering"
        BY <3>1 DEF CapacityInv, AwaitedByGather
      <4> QED BY <2>1, <4>1, <4>2
    <3> QED BY <2>1, <3>1 DEF AwaitedByGather
  <2> QED BY <2>1, <2>2, <2>3
          DEF CapacityInv, QuietBetween, WorkersCounted, LoadBound
<1>5. CASE Tick
  <2>1. UNCHANGED <<loop, cand, active>>
    BY <1>5 DEF Tick
  <2>2. ASSUME NEW x \in Slot
        PROVE  /\ run'[x].pc = run[x].pc /\ run'[x].node = run[x].node
               /\ run'[x].task = run[x].task /\ run'[x].awaited = run[x].awaited
    <3>1. CASE run[x].pc = "idle" \/ run[x].wait = NULL
      BY <1>5, <3>1 DEF Tick
    <3>2. CASE ~(run[x].pc = "idle" \/ run[x].wait = NULL)
      <4>1. run'[x] = [run[x] EXCEPT !.wait = run[x].wait - 1,
                                     !.next = Sooner(run[x].next)]
        BY <1>5, <3>2 DEF Tick
      <4>2. run[x] \in LiveRun
        BY <3>2, LiveType
      <4> QED BY <4>1, <4>2 DEF LiveRun
    <3> QED BY <3>1, <3>2
  <2>3. \A m \in Node : ClaimedTasks(m)' = ClaimedTasks(m)
    BY <2>2 DEF ClaimedTasks
  <2>4. \A m \in Node : Load(m)' = Load(m)
    BY <2>1, <2>3 DEF Load
  <2> QED BY <2>1, <2>2, <2>3, <2>4
          DEF CapacityInv, QuietBetween, AwaitedByGather, WorkersCounted, LoadBound
<1>6. CASE UNCHANGED vars
  <2>1. UNCHANGED <<run, loop, cand, active>>
    BY <1>6 DEF vars
  <2>2. \A m \in Node : ClaimedTasks(m)' = ClaimedTasks(m) /\ Load(m)' = Load(m)
    BY <2>1 DEF ClaimedTasks, Load
  <2> QED BY <2>1, <2>2
          DEF CapacityInv, QuietBetween, AwaitedByGather, WorkersCounted, LoadBound
<1> QED BY <1>1, <1>2, <1>3, <1>4, <1>5, <1>6 DEF Next, DispatchStep

\* The coroutines of a node work on different tasks, and all of them are in its load.
LEMMA WorkersWithinLoad ==
    ASSUME IsFiniteSet(Task), TypeOK, LeaseInv, CapacityInv
    PROVE  CapacityBound
<1>1. ASSUME NEW n \in Node
      PROVE  Cardinality({s \in Slot : run[s].node = n /\ Working(s)}) <= MaxConcurrent
  <2> DEFINE W == {s \in Slot : run[s].node = n /\ Working(s)}
             f == [s \in W |-> run[s].task]
  <2>1. \A s \in W : f[s] \in Load(n)
    BY DEF CapacityInv, WorkersCounted, Working, Counting, Load
  <2>2. \A s1, s2 \in W : f[s1] = f[s2] => s1 = s2
    BY DEF LeaseInv, Live, Working
  <2>3. f \in Injection(W, Load(n))
    BY <2>1, <2>2 DEF Injection, IsInjective
  <2>4. IsFiniteSet(Load(n))
    <3>1. Load(n) \subseteq Task
      BY DEF Load, ClaimedTasks, TypeOK
    <3> QED BY <3>1, FS_Subset
  <2> HIDE DEF W, f
  <2>5. IsFiniteSet(W) /\ Cardinality(W) <= Cardinality(Load(n))
    BY <2>3, <2>4, FS_Injection
  <2>6. Cardinality(W) \in Nat /\ Cardinality(Load(n)) \in Nat
    BY <2>4, <2>5, FS_CardinalityType
  <2>7. Cardinality(W) <= MaxConcurrent
    BY <2>5, <2>6, DispatcherAssumption DEF CapacityInv, LoadBound
  <2> QED BY <2>7 DEF W
<1> QED BY <1>1 DEF CapacityBound

(***************************************************************************)
(* No node works on more tasks at once than max_concurrent, whatever       *)
(* raises, crashes or is aborted: also while the coroutines of a gather    *)
(* that returned early overlap the batches after it.  The heartbeat must   *)
(* be timely: a node that lets its own lease expire may lease the task     *)
(* again, and then counts one task for two coroutines.                     *)
(***************************************************************************)
THEOREM CapacityHolds ==
    ASSUME Timely, IsFiniteSet(Task)
    PROVE  Spec => []CapacityBound
<1>1. Init => CapacityInv
  <2> SUFFICES ASSUME Init PROVE CapacityInv
    OBVIOUS
  <2>1. \A s \in Slot : run[s].pc = "idle"
    BY DEF Init, Idle
  <2>2. \A n \in Node : ClaimedTasks(n) = {}
    BY <2>1 DEF ClaimedTasks
  <2>3. \A n \in Node : Load(n) = {}
    BY <2>2 DEF Load, Init
  <2>4. LoadBound
    <3>1. Cardinality({}) = 0
      BY FS_EmptySet
    <3>2. 0 <= MaxConcurrent
      BY DispatcherAssumption
    <3> QED BY <2>3, <3>1, <3>2 DEF LoadBound
  <2> QED BY <2>1, <2>2, <2>4
          DEF CapacityInv, QuietBetween, AwaitedByGather, WorkersCounted, Counting, Init
<1>2. TypeOK /\ LeaseInv /\ CapacityInv /\ [Next]_vars => CapacityInv'
  BY CapacityStep
<1>3. TypeOK /\ LeaseInv /\ CapacityInv => CapacityBound
  BY WorkersWithinLoad
<1> QED BY <1>1, <1>2, <1>3, TypeCorrect, LeaseCovers, PTL DEF Spec

=============================================================================
