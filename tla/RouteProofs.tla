---------------------------- MODULE RouteProofs ----------------------------
(***************************************************************************)
(* What holds of a runtime node and of the task endpoints over it, for     *)
(* every set of nodes, tasks, coroutines and clients and every setting:    *)
(* type correctness, that a cancel and a failure are final, that no active *)
(* task is stranded, and that no lease is forgotten.                       *)
(***************************************************************************)
EXTENDS TaskRoutes, TaskDispatcherProofs

-----------------------------------------------------------------------------
(* The types of a node.                                                    *)

EnginePc == {"leased", "checking", "executing", "recorded", "finished", "writing", "releasing"}

\* The moves of an engine coroutine keep its record a record.
LEMMA EngineMovesType ==
    ASSUME NEW r \in EngineRun
    PROVE  /\ r.task \in Task /\ r.pc # "idle"
           /\ \A pc \in EnginePc : [r EXCEPT !.pc = pc] \in EngineRun
           /\ \A pc \in EnginePc, out \in Result :
                 [r EXCEPT !.pc = pc, !.out = out] \in EngineRun
           /\ \A pc \in EnginePc, out \in Result, next \in Nat \cup {NULL} :
                 [r EXCEPT !.pc = pc, !.out = out, !.next = next] \in EngineRun
           /\ \A pc \in EnginePc, next \in Nat \cup {NULL}, fail \in BOOLEAN :
                 [r EXCEPT !.pc = pc, !.next = next, !.fail = fail] \in EngineRun
           /\ \A next \in Nat \cup {NULL} :
                 /\ [r EXCEPT !.next = next] \in EngineRun
                 /\ [r EXCEPT !.next = next].pc = r.pc
<1>1. r.task \in Task /\ r.pc # "idle"
  BY DEF EngineRun
<1>2. \A pc \in EnginePc : [r EXCEPT !.pc = pc] \in EngineRun
  BY DEF EngineRun, EnginePc
<1>3. \A pc \in EnginePc, out \in Result : [r EXCEPT !.pc = pc, !.out = out] \in EngineRun
  BY DEF EngineRun, EnginePc, Result
<1>4. \A pc \in EnginePc, out \in Result, next \in Nat \cup {NULL} :
         [r EXCEPT !.pc = pc, !.out = out, !.next = next] \in EngineRun
  BY DEF EngineRun, EnginePc, Result
<1>5. \A pc \in EnginePc, next \in Nat \cup {NULL}, fail \in BOOLEAN :
         [r EXCEPT !.pc = pc, !.next = next, !.fail = fail] \in EngineRun
  BY DEF EngineRun, EnginePc
<1>6. \A next \in Nat \cup {NULL} :
         /\ [r EXCEPT !.next = next] \in EngineRun
         /\ [r EXCEPT !.next = next].pc = r.pc
  BY DEF EngineRun
<1> QED BY <1>1, <1>2, <1>3, <1>4, <1>5, <1>6

\* A coroutine of the engine that is not idle has a record.
LEMMA EngineLive ==
    ASSUME NodeTypeOK, NEW n \in Node, NEW t \in Task, erun[n][t].pc # "idle"
    PROVE  erun[n][t] \in EngineRun
BY DEF NodeTypeOK, EngineIdle

\* A move of one engine coroutine.
LEMMA MovesType ==
    ASSUME NodeTypeOK, NEW n \in Node, NEW t \in Task, NEW r \in EngineRun \cup {EngineIdle},
           Moves(n, t, r)
    PROVE  /\ erun' \in [Node -> [Task -> EngineRun \cup {EngineIdle}]]
           /\ erun'[n][t] = r
           /\ \A m \in Node, u \in Task : m # n \/ u # t => erun'[m][u] = erun[m][u]
BY DEF NodeTypeOK, Moves

\* Writing one row keeps the table a table.
LEMMA RowWritten ==
    ASSUME task \in [Task -> Row], NEW t \in Task, NEW row \in Row,
           task' = [task EXCEPT ![t] = row]
    PROVE  /\ task' \in [Task -> Row] /\ task'[t] = row
           /\ \A u \in Task : u # t => task'[u] = task[u]
OBVIOUS

\* What the engine writes, when it judges a run.
LEMMA EngineJudgeType ==
    ASSUME NodeTypeOK, NEW n \in Node, NEW t \in Task, erun[n][t] \in EngineRun
    PROVE  /\ ScheduleAfter(erun[n][t], timer[n][t]) \in Nat \cup {NULL}
           /\ GivesUp(erun[n][t]) \in BOOLEAN
<1> DEFINE r == erun[n][t]
<1>1. r.task \in Task /\ timer[n][t] \in Nat \cup {NULL}
  BY EngineMovesType DEF NodeTypeOK
<1>2. Attempts(r.task) \in Nat
  BY <1>1 DEF NodeTypeOK, TypeOK, Row, Attempts
<1> QED BY <1>1, <1>2, SettingsType DEF ScheduleAfter, GivesUp, Failed, Exhausted

-----------------------------------------------------------------------------
(* What the dispatcher and the engine do to a row.                         *)

\* The statements of store.py that a run or the passing of time brings about.
Statement(r, q) ==
    \/ q \in {r, Reaped(r), KeyStored(r), RunRecorded(r), Aged(r)}
    \/ \E n \in Node : CanAcquire(r, n) /\ q = Acquired(r, n)
    \/ \E n \in Node : CanExtend(r, n) /\ q = Extended(r)
    \/ \E n \in Node : q = Released(r, n)
    \/ \E n \in Node, next \in Nat \cup {NULL}, state \in {"failed", NULL} :
          q = Completed(r, n, next, state)

\* The row of a task that neither is due nor has a lease.
Inert(r) == r.next = NULL /\ r.owner = NULL /\ r.left = NULL

\* A statement of a run changes no state but to "failed", as the owner of the lease; it
\* disturbs no inert row but an active one; and a lease has an end.
Runs(r, q) ==
    /\ q.state # r.state => q.state = "failed" /\ r.owner # NULL
    /\ r.state # "active" /\ Inert(r) => Inert(q)
    /\ (r.owner # NULL => r.left # NULL) => (q.owner # NULL => q.left # NULL)

\* Every statement maps rows to rows.
LEMMA StatementType ==
    ASSUME NEW r \in Row, NEW q, Statement(r, q)
    PROVE  q \in Row
<1>1. \A n \in Node : Released(r, n) \in Row
  BY LeaseOpsType DEF Released
<1>2. \A n \in Node, next \in Nat \cup {NULL}, state \in {"failed", NULL} :
         Completed(r, n, next, state) \in Row
  BY CompletedType DEF TaskState
<1>3. \A n \in Node : Acquired(r, n) \in Row
  BY LeaseOpsType
<1>4. q \in {r, Reaped(r), KeyStored(r), RunRecorded(r), Aged(r)} => q \in Row
  <2>1. Unleased(r) \in Row
    BY DEF Row, Unleased
  <2> QED BY <2>1, OtherOpsType DEF Reaped
<1>5. Extended(r) \in Row
  BY SettingsType DEF Row, Extended
<1>6. ASSUME \/ \E n \in Node : CanAcquire(r, n) /\ q = Acquired(r, n)
             \/ \E n \in Node : CanExtend(r, n) /\ q = Extended(r)
             \/ \E n \in Node : q = Released(r, n)
             \/ \E n \in Node, next \in Nat \cup {NULL}, state \in {"failed", NULL} :
                   q = Completed(r, n, next, state)
      PROVE  q \in Row
  BY <1>1, <1>2, <1>3, <1>5, <1>6
<1> QED BY <1>4, <1>6 DEF Statement

\* No statement of a run does more than Runs allows.
LEMMA StatementRuns ==
    ASSUME NEW r \in Row, NEW q, Statement(r, q)
    PROVE  Runs(r, q)
<1>1. Runs(r, r)
  BY DEF Runs
<1>2. Runs(r, Reaped(r))
  <2>1. Unleased(r).state = r.state /\ Unleased(r).next = r.next /\ Unleased(r).owner = NULL
    BY DEF Row, Unleased
  <2> QED BY <2>1, <1>1 DEF Runs, Reaped
<1>3. Runs(r, KeyStored(r)) /\ Runs(r, RunRecorded(r))
  BY DEF Runs, Inert, Row, KeyStored, RunRecorded
<1>4. Runs(r, Aged(r))
  <2>1. /\ Aged(r).state = r.state /\ Aged(r).owner = r.owner
        /\ Aged(r).next = Sooner(r.next)
        /\ Aged(r).left = IF r.left = NULL \/ r.left < 0 THEN r.left ELSE r.left - 1
    BY DEF Row, Aged
  <2>2. r.left # NULL => r.left - 1 # NULL
    BY StoreAssumption DEF Row
  <2>3. Aged(r).left = NULL <=> r.left = NULL
    BY <2>1, <2>2
  <2>4. r.next = NULL => Aged(r).next = NULL
    BY <2>1 DEF Sooner
  <2> QED BY <2>1, <2>3, <2>4 DEF Runs, Inert
<1>5. ASSUME NEW n \in Node, CanAcquire(r, n) PROVE Runs(r, Acquired(r, n))
  <2>1. /\ Acquired(r, n).state = r.state /\ Acquired(r, n).left = LeaseTTL
        /\ r.state = "active"
    BY <1>5 DEF Row, Acquired, CanAcquire
  <2>2. LeaseTTL # NULL
    BY SettingsType, StoreAssumption
  <2> QED BY <2>1, <2>2 DEF Runs
<1>6. ASSUME NEW n \in Node, CanExtend(r, n) PROVE Runs(r, Extended(r))
  <2>1. /\ Extended(r).state = r.state /\ Extended(r).left = LeaseTTL
        /\ r.state = "active"
    BY <1>6 DEF Row, Extended, CanExtend
  <2>2. LeaseTTL # NULL
    BY SettingsType, StoreAssumption
  <2> QED BY <2>1, <2>2 DEF Runs
<1>7. ASSUME NEW n \in Node PROVE Runs(r, Released(r, n))
  <2>1. /\ Unleased(r).state = r.state /\ Unleased(r).next = r.next
        /\ Unleased(r).owner = NULL /\ Unleased(r).left = NULL
    BY DEF Row, Unleased
  <2> QED BY <2>1, <1>1 DEF Runs, Inert, Released
<1>8. ASSUME NEW n \in Node, NEW next \in Nat \cup {NULL}, NEW state \in {"failed", NULL}
      PROVE  Runs(r, Completed(r, n, next, state))
  <2>1. CASE r.owner = n
    <3> DEFINE q1 == [Unleased(r) EXCEPT !.next = next,
                        !.state = IF state = NULL THEN r.state ELSE state]
    <3>1. q1.state \in {r.state, "failed"} /\ r.owner # NULL
      BY <2>1, StoreAssumption DEF Row, Unleased
    <3>2. q1.owner = NULL
      BY DEF Row, Unleased
    <3>3. Completed(r, n, next, state) = q1
      BY <2>1 DEF Completed
    <3> HIDE DEF q1
    <3> QED BY <3>1, <3>2, <3>3 DEF Runs, Inert
  <2> QED BY <2>1, <1>1 DEF Completed
<1> QED BY <1>1, <1>2, <1>3, <1>4, <1>5, <1>6, <1>7, <1>8, Zenon DEF Statement

-----------------------------------------------------------------------------
(* The steps of the engine.                                                *)

\* What a step of one engine coroutine leaves alone.
EngineEffect(n, t) ==
    /\ NodeTypeOK'
    /\ UNCHANGED <<run, loop, cand, active>>
    /\ Statement(task[t], task'[t])
    /\ \A u \in Task : u # t => task'[u] = task[u]
    /\ \A m \in Node, u \in Task : m # n \/ u # t => erun'[m][u] = erun[m][u]
    /\ \A m \in Node, u \in Task : timer'[m][u] = NULL <=> timer[m][u] = NULL

\* A coroutine that moves and writes at most its own row has that effect.
LEMMA OneEngineMoves ==
    ASSUME NodeTypeOK, NEW n \in Node, NEW t \in Task,
           NEW row, Statement(task[t], row),
           task' = [task EXCEPT ![t] = row],
           NEW r \in EngineRun \cup {EngineIdle}, Moves(n, t, r),
           succeeded' \subseteq Task, UNCHANGED <<run, loop, cand, active, timer>>
    PROVE  EngineEffect(n, t)
<1>1. task \in [Task -> Row] /\ task[t] \in Row
  BY DEF NodeTypeOK, TypeOK
<1>2. row \in Row
  BY <1>1, StatementType
<1>3. task' \in [Task -> Row] /\ task'[t] = row /\ \A u \in Task : u # t => task'[u] = task[u]
  BY <1>1, <1>2
<1>4. NodeTypeOK'
  BY <1>3, MovesType DEF NodeTypeOK, TypeOK
<1>5. \A m \in Node, u \in Task : m # n \/ u # t => erun'[m][u] = erun[m][u]
  BY MovesType
<1> QED BY <1>3, <1>4, <1>5 DEF EngineEffect

\* And so has every step of the engine.
LEMMA EngineStepEffect ==
    ASSUME NodeTypeOK, NEW n \in Node, NEW t \in Task, EngineStep(n, t)
    PROVE  EngineEffect(n, t)
<1> DEFINE r == erun[n][t]
           row == task[t]
<1>1. row \in Row /\ task = [task EXCEPT ![t] = row] /\ succeeded \subseteq Task
  BY DEF NodeTypeOK, TypeOK
<1>2. r.pc # "idle" => r \in EngineRun
  BY EngineLive
<1>3. \A q \in {row, KeyStored(row), RunRecorded(row)} : Statement(row, q)
  BY DEF Statement
<1>4. CASE EngineFire(n, t)
  <2>1. timer' \in [Node -> [Task -> Nat \cup {NULL}]]
    BY <1>4, DispatcherAssumption DEF EngineFire, NodeTypeOK
  <2>2. \A m \in Node, u \in Task : timer'[m][u] = NULL <=> timer[m][u] = NULL
    <3>1. Period # NULL /\ timer[n][t] # NULL
      BY <1>4, DispatcherAssumption, StoreAssumption DEF EngineFire
    <3>2. timer' = [timer EXCEPT ![n][t] = Period]
      BY <1>4 DEF EngineFire
    <3> QED BY <3>1, <3>2 DEF NodeTypeOK
  <2>3. CASE UNCHANGED <<task, erun>>
    BY <1>1, <1>3, <1>4, <2>1, <2>2, <2>3 DEF EngineFire, EngineEffect, NodeTypeOK, TypeOK
  <2>4. CASE ~UNCHANGED <<task, erun>>
    <3> DEFINE new == [EngineIdle EXCEPT !.pc = "leased", !.task = t]
               q == Acquired(row, n)
    <3>1. /\ CanAcquire(row, n) /\ task' = [task EXCEPT ![t] = q]
          /\ Moves(n, t, new) /\ UNCHANGED <<run, loop, cand, active, succeeded>>
      BY <1>4, <2>4 DEF EngineFire
    <3>2. new \in EngineRun
      BY DEF EngineRun, EngineIdle
    <3>3. Statement(row, q)
      BY <3>1 DEF Statement
    <3>4. q \in Row
      BY <1>1, LeaseOpsType
    <3> HIDE DEF new, q
    <3>5. task' \in [Task -> Row] /\ task'[t] = q /\ \A u \in Task : u # t => task'[u] = task[u]
      BY <3>1, <3>4 DEF NodeTypeOK, TypeOK
    <3>6. /\ erun' \in [Node -> [Task -> EngineRun \cup {EngineIdle}]]
          /\ \A m \in Node, u \in Task : m # n \/ u # t => erun'[m][u] = erun[m][u]
      BY <3>1, <3>2, MovesType
    <3>7. NodeTypeOK'
      BY <2>1, <3>1, <3>5, <3>6 DEF NodeTypeOK, TypeOK
    <3> QED BY <2>2, <3>1, <3>3, <3>5, <3>6, <3>7 DEF EngineEffect
  <2> QED BY <2>3, <2>4
<1>5. CASE EngineRead(n, t)
  <2> DEFINE q == [r EXCEPT !.pc = IF row.state = "canceled" THEN "releasing" ELSE "checking"]
  <2>1. r \in EngineRun /\ Moves(n, t, q) /\ UNCHANGED <<vars, timer>>
    BY <1>2, <1>5 DEF EngineRead
  <2>2. q \in EngineRun
    BY <2>1, EngineMovesType DEF EnginePc
  <2> HIDE DEF q
  <2>3. task' = [task EXCEPT ![t] = row] /\ UNCHANGED <<run, loop, cand, active, timer, succeeded>>
    BY <1>1, <2>1 DEF vars
  <2> QED BY <1>1, <1>3, <2>1, <2>2, <2>3, OneEngineMoves
<1>6. CASE EngineSkip(n, t)
  <2> DEFINE q == [r EXCEPT !.pc = "writing", !.out = "skipped", !.next = NextFire(t)]
  <2>1. r \in EngineRun /\ Moves(n, t, q) /\ UNCHANGED <<vars, timer>>
    BY <1>2, <1>6 DEF EngineSkip
  <2>2. q \in EngineRun
    BY <2>1, EngineMovesType, SettingsType DEF EnginePc, Result
  <2> HIDE DEF q
  <2>3. task' = [task EXCEPT ![t] = row] /\ UNCHANGED <<run, loop, cand, active, timer, succeeded>>
    BY <1>1, <2>1 DEF vars
  <2> QED BY <1>1, <1>3, <2>1, <2>2, <2>3, OneEngineMoves
<1>7. CASE EngineStart(n, t)
  <2> DEFINE q == [r EXCEPT !.pc = "executing"]
             p == IF HasKey(t) THEN KeyStored(row) ELSE row
  <2>1. r \in EngineRun /\ Moves(n, t, q) /\ task' = [task EXCEPT ![t] = p]
        /\ UNCHANGED <<run, loop, cand, active, succeeded, timer>>
    BY <1>2, <1>7 DEF EngineStart
  <2>2. q \in EngineRun /\ Statement(row, p)
    BY <1>3, <2>1, EngineMovesType DEF EnginePc
  <2> HIDE DEF q, p
  <2> QED BY <1>1, <2>1, <2>2, OneEngineMoves
<1>8. ASSUME NEW out \in {"success", "failure"}, EngineRecord(n, t, out)
      PROVE  EngineEffect(n, t)
  <2> DEFINE q == [r EXCEPT !.pc = "recorded", !.out = out]
  <2>1. r \in EngineRun /\ Moves(n, t, q)
        /\ UNCHANGED <<run, loop, cand, active, timer>>
    BY <1>2, <1>8 DEF EngineRecord
  <2>2. q \in EngineRun /\ succeeded' \subseteq Task
    BY <1>8, <2>1, EngineMovesType, OutcomeType DEF EnginePc, Result, EngineRecord, NodeTypeOK
  <2> HIDE DEF q
  <2>3. PICK p \in {row, RunRecorded(row)} : task' = [task EXCEPT ![t] = p]
    BY <1>1, <1>8 DEF EngineRecord
  <2>4. Statement(row, p)
    BY <1>3
  <2> QED BY <2>1, <2>2, <2>3, <2>4, OneEngineMoves
<1>9. CASE EngineReturn(n, t)
  <2> DEFINE q == [r EXCEPT !.pc = "finished"]
  <2>1. r \in EngineRun /\ Moves(n, t, q) /\ UNCHANGED <<vars, timer>>
    BY <1>2, <1>9 DEF EngineReturn
  <2>2. q \in EngineRun
    BY <2>1, EngineMovesType DEF EnginePc
  <2> HIDE DEF q
  <2>3. task' = [task EXCEPT ![t] = row] /\ UNCHANGED <<run, loop, cand, active, timer, succeeded>>
    BY <1>1, <2>1 DEF vars
  <2> QED BY <1>1, <1>3, <2>1, <2>2, <2>3, OneEngineMoves
<1>10. CASE EngineAbort(n, t)
  <2> DEFINE q == [r EXCEPT !.pc = "finished", !.out = "failure"]
  <2>1. r \in EngineRun /\ Moves(n, t, q) /\ UNCHANGED <<vars, timer>>
    BY <1>2, <1>10 DEF EngineAbort
  <2>2. q \in EngineRun
    BY <2>1, EngineMovesType DEF EnginePc, Result
  <2> HIDE DEF q
  <2>3. task' = [task EXCEPT ![t] = row] /\ UNCHANGED <<run, loop, cand, active, timer, succeeded>>
    BY <1>1, <2>1 DEF vars
  <2> QED BY <1>1, <1>3, <2>1, <2>2, <2>3, OneEngineMoves
<1>11. CASE EngineJudge(n, t)
  <2>1. r \in EngineRun /\ UNCHANGED <<vars, timer>>
    BY <1>2, <1>11 DEF EngineJudge
  <2>2. PICK q \in EngineRun : Moves(n, t, q)
    <3>1. [r EXCEPT !.pc = "releasing"] \in EngineRun
      BY <2>1, EngineMovesType DEF EnginePc
    <3>2. [r EXCEPT !.pc = "writing", !.next = ScheduleAfter(r, timer[n][t]),
                    !.fail = GivesUp(r)] \in EngineRun
      BY <2>1, EngineMovesType, EngineJudgeType DEF EnginePc
    <3> QED BY <1>11, <3>1, <3>2 DEF EngineJudge
  <2>3. task' = [task EXCEPT ![t] = row] /\ UNCHANGED <<run, loop, cand, active, timer, succeeded>>
    BY <1>1, <2>1 DEF vars
  <2> QED BY <1>1, <1>3, <2>1, <2>2, <2>3, OneEngineMoves
<1>12. CASE EngineEnd(n, t)
  <2> DEFINE st == IF r.fail THEN "failed" ELSE NULL
             p == IF r.pc = "releasing" THEN Released(row, n)
                  ELSE Completed(row, n, r.next, st)
  <2>1. r \in EngineRun /\ Moves(n, t, EngineIdle) /\ task' = [task EXCEPT ![t] = p]
        /\ UNCHANGED <<run, loop, cand, active, succeeded, timer>>
    BY <1>2, <1>12 DEF EngineEnd
  <2>2. r.next \in Nat \cup {NULL} /\ st \in {"failed", NULL}
    BY <2>1 DEF EngineRun
  <2>3. Statement(row, p)
    <3> HIDE DEF row, st, r
    <3> QED BY <2>2 DEF Statement
  <2> HIDE DEF p
  <2> QED BY <1>1, <2>1, <2>3, OneEngineMoves
<1>13. CASE EngineRaise(n, t)
  <2>1. Moves(n, t, EngineIdle) /\ UNCHANGED <<vars, timer>>
    BY <1>13 DEF EngineRaise
  <2>2. task' = [task EXCEPT ![t] = row] /\ UNCHANGED <<run, loop, cand, active, timer, succeeded>>
    BY <1>1, <2>1 DEF vars
  <2> QED BY <1>1, <1>3, <2>1, <2>2, OneEngineMoves
<1> QED
  BY <1>4, <1>5, <1>6, <1>7, <1>8, <1>9, <1>10, <1>11, <1>12, <1>13
     DEF EngineStep, EngineAdvance

-----------------------------------------------------------------------------
(* The steps of the dispatcher and of a whole node.                        *)

\* Every step of the dispatcher runs at most one statement on a row.
LEMMA DispatcherRows ==
    ASSUME TypeOK, [Next]_vars, NEW t \in Task
    PROVE  Statement(task[t], task'[t])
<1>1. /\ Statement(task[t], task[t]) /\ Statement(task[t], Reaped(task[t]))
      /\ Statement(task[t], KeyStored(task[t])) /\ Statement(task[t], RunRecorded(task[t]))
      /\ Statement(task[t], Aged(task[t]))
  BY DEF Statement
<1>2. CASE task' = task
  BY <1>1, <1>2
<1>3. ASSUME NEW u \in Task, NEW row, task' = [task EXCEPT ![u] = row],
             u = t => Statement(task[t], row)
      PROVE  Statement(task[t], task'[t])
  BY <1>1, <1>3 DEF TypeOK
<1>4. ASSUME NEW n \in Node, NEW u \in Task, Claim(n, u)
      PROVE  Statement(task[t], task'[t])
  <2>1. CASE CanAcquire(task[u], n)
    <3>1. u = t => Statement(task[t], Acquired(task[u], n))
      BY <2>1 DEF Statement
    <3> QED BY <1>3, <1>4, <2>1, <3>1 DEF Claim
  <2> QED BY <1>2, <1>4, <2>1 DEF Claim
<1>5. ASSUME NEW n \in Node, ReapOrphans(n) PROVE Statement(task[t], task'[t])
  BY <1>1, <1>5 DEF ReapOrphans
<1>6. ASSUME NEW s \in Slot, NEW row, run[s].pc # "idle",
             task' = [task EXCEPT ![run[s].task] = row],
             run[s].task = t => Statement(task[t], row)
      PROVE  Statement(task[t], task'[t])
  <2>1. run[s].task \in Task
    BY <1>6, LiveType DEF LiveRun
  <2> QED BY <1>3, <1>6, <2>1
<1>7. ASSUME NEW s \in Slot, StartExecution(s) PROVE Statement(task[t], task'[t])
  BY <1>1, <1>6, <1>7 DEF StartExecution
<1>8. ASSUME NEW s \in Slot, Heartbeat(s) PROVE Statement(task[t], task'[t])
  <2>1. run[s].pc # "idle" /\ run[s].node \in Node
    BY <1>8, LiveType DEF Heartbeat, Working, LiveRun
  <2>2. CASE CanExtend(task[run[s].task], run[s].node)
    <3>1. run[s].task = t => Statement(task[t], Extended(task[t]))
      BY <2>1, <2>2 DEF Statement
    <3> QED BY <1>2, <1>6, <1>8, <2>1, <3>1 DEF Heartbeat
  <2> QED BY <1>2, <1>8, <2>2 DEF Heartbeat
<1>9. ASSUME NEW s \in Slot, NEW out \in {"success", "failure"}, RecordRun(s, out)
      PROVE  Statement(task[t], task'[t])
  BY <1>1, <1>2, <1>6, <1>9 DEF RecordRun
<1>10. ASSUME NEW s \in Slot, WriteBack(s) PROVE Statement(task[t], task'[t])
  <2> DEFINE r == run[s]
             st == IF r.fail THEN "failed" ELSE NULL
             row == Completed(task[r.task], r.node, r.next, st)
  <2>1. r \in LiveRun /\ r.pc # "idle"
    BY <1>10, LiveType DEF WriteBack
  <2>2. r.node \in Node /\ r.next \in Nat \cup {NULL} /\ st \in {"failed", NULL}
    BY <2>1 DEF LiveRun
  <2>3. r.task = t => Statement(task[t], row)
    <3> HIDE DEF r, st
    <3> QED BY <2>2 DEF Statement
  <2>4. task' = [task EXCEPT ![r.task] = row]
    BY <1>10 DEF WriteBack
  <2> HIDE DEF row
  <2> QED BY <1>6, <2>1, <2>3, <2>4
<1>11. CASE Tick
  BY <1>1, <1>11 DEF Tick
<1>12. CASE UNCHANGED task
  BY <1>2, <1>12
<1> QED
  BY <1>4, <1>5, <1>7, <1>8, <1>9, <1>10, <1>11, <1>12
     DEF Next, DispatchStep, LoopStep, RunStep, Advance, SelectDue, ClaimRaises,
         StartBatch, EndBatch, SkipSeenKey, ReturnRun, AbortRun, Judge, Raise,
         Crash, Restart, vars

\* Time passes for the engine: what is absent stays absent, what runs goes on.
LEMMA EngineAged ==
    ASSUME NodeTypeOK, NodeTick
    PROVE  /\ timer' \in [Node -> [Task -> Nat \cup {NULL}]]
           /\ erun' \in [Node -> [Task -> EngineRun \cup {EngineIdle}]]
           /\ \A n \in Node, t \in Task :
                 /\ timer'[n][t] = NULL <=> timer[n][t] = NULL
                 /\ erun'[n][t].pc = erun[n][t].pc
<1>1. ASSUME NEW n \in Node, NEW t \in Task
      PROVE  /\ timer'[n][t] \in Nat \cup {NULL}
             /\ timer'[n][t] = NULL <=> timer[n][t] = NULL
  <2>1. timer[n][t] \in Nat \cup {NULL} /\ timer'[n][t] = Sooner(timer[n][t])
    BY DEF NodeTypeOK, NodeTick
  <2> QED BY <2>1, StoreAssumption DEF Sooner
<1>2. ASSUME NEW n \in Node, NEW t \in Task
      PROVE  /\ erun'[n][t] \in EngineRun \cup {EngineIdle}
             /\ erun'[n][t].pc = erun[n][t].pc
  <2> DEFINE r == erun[n][t]
             later == [r EXCEPT !.next = Sooner(r.next)]
  <2>1. r \in EngineRun \cup {EngineIdle}
    BY DEF NodeTypeOK
  <2>2. CASE r.pc # "idle"
    <3>1. r \in EngineRun /\ erun'[n][t] = later
      BY <2>2, EngineLive DEF NodeTick
    <3>2. Sooner(r.next) \in Nat \cup {NULL}
      BY <3>1 DEF EngineRun, Sooner
    <3>3. later \in EngineRun /\ later.pc = r.pc
      BY <3>1, <3>2, EngineMovesType
    <3> QED BY <3>1, <3>3
  <2>3. CASE r.pc = "idle"
    BY <2>1, <2>3 DEF NodeTick, EngineIdle
  <2> QED BY <2>2, <2>3
<1>3. timer' \in [Node -> [Task -> Nat \cup {NULL}]]
  BY <1>1 DEF NodeTick
<1>4. erun' \in [Node -> [Task -> EngineRun \cup {EngineIdle}]]
  BY <1>2 DEF NodeTick
<1> QED BY <1>1, <1>2, <1>3, <1>4

\* A step of the node is a step of its dispatcher, or one of its engine.
LEMMA NodeSteps ==
    ASSUME [NodeNext]_nodeVars
    PROVE  [Next]_vars \/ \E n \in Node, t \in Task : EngineStep(n, t)
BY DEF NodeNext, Next, NodeCrash, NodeRestart, NodeTick, nodeVars

\* Every step of a node keeps every variable within its type and every row in order.
LEMMA NodeStepType ==
    ASSUME NodeTypeOK, [NodeNext]_nodeVars
    PROVE  NodeTypeOK' /\ \A t \in Task : Statement(task[t], task'[t])
<1>1. ASSUME NEW n \in Node, NEW t \in Task, EngineStep(n, t)
      PROVE  NodeTypeOK' /\ \A u \in Task : Statement(task[u], task'[u])
  <2>1. EngineEffect(n, t)
    BY <1>1, EngineStepEffect
  <2>2. \A u \in Task : Statement(task[u], task[u])
    BY DEF Statement
  <2> QED BY <2>1, <2>2 DEF EngineEffect
<1>2. ASSUME [Next]_vars PROVE TypeOK' /\ \A u \in Task : Statement(task[u], task'[u])
  BY <1>2, TypeStep, DispatcherRows DEF NodeTypeOK
<1>3. ASSUME NEW n \in Node, NodeCrash(n) PROVE NodeTypeOK'
  <2>1. TypeOK'
    BY <1>2, <1>3 DEF Next, NodeCrash
  <2> QED BY <1>3, <2>1 DEF NodeTypeOK, NodeCrash
<1>4. ASSUME NEW n \in Node, NodeRestart(n) PROVE NodeTypeOK'
  <2>1. TypeOK'
    BY <1>2, <1>4 DEF Next, NodeRestart
  <2> QED BY <1>4, <2>1, DispatcherAssumption DEF NodeTypeOK, NodeRestart
<1>5. ASSUME NodeTick PROVE NodeTypeOK'
  <2>1. TypeOK'
    BY <1>2, <1>5 DEF Next, NodeTick
  <2> QED BY <1>5, <2>1, EngineAged DEF NodeTypeOK
<1>6. ASSUME [Next]_vars, UNCHANGED engineVars PROVE NodeTypeOK'
  BY <1>2, <1>6 DEF NodeTypeOK, engineVars
<1>7. NodeTypeOK'
  BY <1>1, <1>3, <1>4, <1>5, <1>6 DEF NodeNext, Next, nodeVars
<1> QED BY <1>1, <1>2, <1>7, NodeSteps

-----------------------------------------------------------------------------
(* The steps of the endpoints.                                             *)

\* What the endpoints write is a row.
LEMMA WrittenType ==
    ASSUME NEW row \in Row
    PROVE  /\ \A state \in TaskState : StateSet(row, state) \in Row
           /\ Canceled(row) \in Row /\ Replayed(row) \in Row /\ Deleted(row) \in Row
<1>1. \A state \in TaskState : StateSet(row, state) \in Row
  BY DEF StateSet, Row
<1>2. Unleased(row) \in Row
  BY DEF Unleased, Row
<1> DEFINE bare == Unleased(row)
<1>3. Canceled(row) \in Row
  <2>1. [bare EXCEPT !.state = "canceled", !.next = NULL] \in Row
    BY <1>2 DEF Row, TaskState
  <2> QED BY <2>1 DEF Canceled
<1>4. Replayed(row) \in Row
  <2>1. [bare EXCEPT !.state = "active", !.runs = 0, !.next = 0, !.keyed = FALSE] \in Row
    BY <1>2 DEF Row, TaskState
  <2> QED BY <2>1 DEF Replayed
<1>5. Deleted(row) \in Row
  <2>1. [bare EXCEPT !.state = "deleted", !.next = NULL, !.runs = 0,
                     !.ran = FALSE, !.keyed = FALSE] \in Row
    BY <1>2 DEF Row
  <2> QED BY <2>1 DEF Deleted
<1> QED BY <1>1, <1>3, <1>4, <1>5

\* What the endpoints do to a row, field by field.
LEMMA WrittenRows ==
    ASSUME NEW row \in Row
    PROVE  /\ \A state \in TaskState :
                 row.state # "deleted" =>
                    /\ StateSet(row, state).state = state
                    /\ StateSet(row, state).owner = row.owner
                    /\ StateSet(row, state).left = row.left
           /\ Canceled(row).state \in {"canceled", "deleted"}
           /\ row.state # "deleted" => Inert(Canceled(row))
           /\ row.state = "failed" =>
                 /\ Replayed(row).state = "active" /\ Replayed(row).owner = NULL
                 /\ Replayed(row).left = NULL
                 /\ Replayed(row).runs = 0 /\ Replayed(row).next = 0
           /\ Deleted(row).state = "deleted" /\ Inert(Deleted(row))
<1>1. \A state \in TaskState :
         row.state # "deleted" =>
            /\ StateSet(row, state).state = state
            /\ StateSet(row, state).owner = row.owner
            /\ StateSet(row, state).left = row.left
  BY DEF StateSet, Row
<1>2. Unleased(row) \in Row /\ Unleased(row).owner = NULL /\ Unleased(row).left = NULL
  BY DEF Unleased, Row
<1>3. /\ Canceled(row).state \in {"canceled", "deleted"}
      /\ row.state # "deleted" => Inert(Canceled(row))
  BY <1>2 DEF Canceled, Row, Inert
<1>4. row.state = "failed" =>
         /\ Replayed(row).state = "active" /\ Replayed(row).owner = NULL
         /\ Replayed(row).left = NULL
         /\ Replayed(row).runs = 0 /\ Replayed(row).next = 0
  BY <1>2 DEF Replayed, Row
<1>5. Deleted(row).state = "deleted" /\ Inert(Deleted(row))
  BY <1>2 DEF Deleted, Row, Inert
<1> QED BY <1>1, <1>3, <1>4, <1>5

\* The jobs of a node, with one more or less.
LEMMA JobsType ==
    ASSUME NodeTypeOK, NEW n \in Node, NEW t \in Task
    PROVE  /\ WithJob(n, t) \in [Node -> [Task -> Nat \cup {NULL}]]
           /\ WithoutJob(n, t) \in [Node -> [Task -> Nat \cup {NULL}]]
           /\ WithJob(n, t)[n][t] # NULL
           /\ \A m \in Node, u \in Task : timer[m][u] # NULL => WithJob(n, t)[m][u] # NULL
           /\ \A m \in Node, u \in Task : u # t => WithoutJob(n, t)[m][u] = timer[m][u]
<1>1. Period \in Nat /\ Period # NULL
  BY DispatcherAssumption, StoreAssumption
<1> QED BY <1>1 DEF NodeTypeOK, WithJob, WithoutJob

\* An accepted request, of an endpoint, names a node and a task.
LEMMA RequestType ==
    ASSUME RouteTypeOK, NEW c \in Client, req[c].op \in Endpoint
    PROVE  req[c].node \in Node /\ req[c].task \in Task /\ req[c] \in Request
BY RoutesAssumption DEF RouteTypeOK, Request, NoRequest

\* Only an accepted pause, resume or replay has written and is not done.
LEMMA WroteType ==
    ASSUME RouteTypeOK, NEW c \in Client, req[c].wrote
    PROVE  /\ req[c].node \in Node /\ req[c].task \in Task
           /\ req[c].op \in {"pause", "resume", "replay"}
<1>1. req[c].op \in Endpoint
  BY DEF RouteTypeOK, Endpoint
<1> QED BY <1>1, RequestType DEF RouteTypeOK

\* The request c, an op, has written row, and goes on to the engine or is done.
WroteOne(c, op, row, ahead) ==
    /\ RouteTypeOK'
    /\ UNCHANGED <<run, loop, cand, active, timer, erun, jobless>>
    /\ req[c].op = op /\ req[c].task \in Task /\ ~req[c].wrote
    /\ task'[req[c].task] = row
    /\ \A u \in Task : u # req[c].task => task'[u] = task[u]
    /\ req'[c] = IF ahead THEN [req[c] EXCEPT !.wrote = TRUE] ELSE NoRequest
    /\ \A d \in Client : d # c => req'[d] = req[d]

\* A request that writes writes one row.
LEMMA WriteEffect ==
    ASSUME RouteTypeOK, NEW c \in Client, NEW op \in Endpoint, NEW row \in Row,
           NEW ahead \in BOOLEAN, ahead => op \in {"pause", "resume", "replay"},
           Write(c, op, row, ahead), succeeded' \subseteq Task
    PROVE  WroteOne(c, op, row, ahead)
<1>1. req[c].op = op /\ req[c].task \in Task /\ req[c] \in Request /\ ~req[c].wrote
  BY RequestType DEF Write
<1>2. /\ task' \in [Task -> Row] /\ task'[req[c].task] = row
      /\ \A u \in Task : u # req[c].task => task'[u] = task[u]
  BY <1>1 DEF Write, RouteTypeOK, NodeTypeOK, TypeOK
<1> DEFINE new == IF ahead THEN [req[c] EXCEPT !.wrote = TRUE] ELSE NoRequest
<1>3. /\ new \in Request \cup {NoRequest}
      /\ new.wrote => new.op \in {"pause", "resume", "replay"}
  BY <1>1 DEF Request, NoRequest
<1>4. req' = [req EXCEPT ![c] = new]
  BY DEF Write
<1> HIDE DEF new
<1>5. /\ req' \in [Client -> Request \cup {NoRequest}]
      /\ req'[c] = new /\ \A d \in Client : d # c => req'[d] = req[d]
  BY <1>3, <1>4 DEF RouteTypeOK
<1>6. \A d \in Client : req'[d].wrote => req'[d].op \in {"pause", "resume", "replay"}
  BY <1>3, <1>5 DEF RouteTypeOK
<1>7. RouteTypeOK'
  BY <1>2, <1>5, <1>6 DEF Write, RouteTypeOK, NodeTypeOK, TypeOK
<1> QED BY <1>1, <1>2, <1>5, <1>7 DEF Write, WroteOne, new

\* The row that a request writes, and whether it goes on.
Written(c) ==
    LET row == task[req[c].task] IN
    \/ WroteOne(c, "pause", StateSet(row, "paused"), row.state # "deleted")
    \/ WroteOne(c, "resume", StateSet(row, "active"), row.state # "deleted")
    \/ WroteOne(c, "cancel", Canceled(row), FALSE)
    \/ WroteOne(c, "replay", Replayed(row), row.state = "failed")
    \/ WroteOne(c, "trigger", RunRecorded(row), FALSE)
    \/ WroteOne(c, "delete", Deleted(row), FALSE)

\* A request that writes is one of these.
LEMMA WrittenEffect ==
    ASSUME RouteTypeOK, NEW c \in Client,
           \/ Pause(c) \/ Cancel(c) \/ Resume(c) \/ Replay(c) \/ Trigger(c) \/ Delete(c)
    PROVE  Written(c)
<1> DEFINE t == req[c].task
           row == task[t]
<1>1. req[c].op \in Endpoint
  BY DEF Pause, Cancel, Resume, Replay, Trigger, Delete, Write, Endpoint
<1>2. t \in Task
  BY <1>1, RequestType
<1>3. row \in Row /\ succeeded \subseteq Task
  BY <1>2 DEF RouteTypeOK, NodeTypeOK, TypeOK
<1> HIDE DEF row
<1>4. {"pause", "cancel", "resume", "replay", "trigger", "delete"} = Endpoint
  BY DEF Endpoint
<1>5. /\ StateSet(row, "paused") \in Row /\ StateSet(row, "active") \in Row
      /\ Canceled(row) \in Row /\ Replayed(row) \in Row /\ RunRecorded(row) \in Row
      /\ Deleted(row) \in Row
  BY <1>3, WrittenType, OtherOpsType DEF TaskState
<1>6. CASE Pause(c)
  <2>1. Write(c, "pause", StateSet(row, "paused"), row.state # "deleted")
        /\ UNCHANGED succeeded
    BY <1>6 DEF Pause, row
  <2>2. WroteOne(c, "pause", StateSet(row, "paused"), row.state # "deleted")
    BY <1>3, <1>4, <1>5, <2>1, WriteEffect
  <2> QED BY <2>2 DEF Written, row
<1>7. CASE Resume(c)
  <2>1. Write(c, "resume", StateSet(row, "active"), row.state # "deleted")
        /\ UNCHANGED succeeded
    BY <1>7 DEF Resume, row
  <2>2. WroteOne(c, "resume", StateSet(row, "active"), row.state # "deleted")
    BY <1>3, <1>4, <1>5, <2>1, WriteEffect
  <2> QED BY <2>2 DEF Written, row
<1>8. CASE Cancel(c)
  <2>1. Write(c, "cancel", Canceled(row), FALSE) /\ UNCHANGED succeeded
    BY <1>8 DEF Cancel, row
  <2>2. WroteOne(c, "cancel", Canceled(row), FALSE)
    BY <1>3, <1>4, <1>5, <2>1, WriteEffect
  <2> QED BY <2>2 DEF Written, row
<1>9. CASE Replay(c)
  <2>1. Write(c, "replay", Replayed(row), row.state = "failed") /\ UNCHANGED succeeded
    BY <1>9 DEF Replay, row
  <2>2. WroteOne(c, "replay", Replayed(row), row.state = "failed")
    BY <1>3, <1>4, <1>5, <2>1, WriteEffect
  <2> QED BY <2>2 DEF Written, row
<1>10. CASE Trigger(c)
  <2>1. Write(c, "trigger", RunRecorded(row), FALSE)
    BY <1>10 DEF Trigger, row
  <2>2. succeeded' \subseteq Task
    BY <1>2, <1>10, OutcomeType DEF Trigger, RouteTypeOK, NodeTypeOK
  <2>3. WroteOne(c, "trigger", RunRecorded(row), FALSE)
    BY <1>4, <1>5, <2>1, <2>2, WriteEffect
  <2> QED BY <2>3 DEF Written, row
<1>11. CASE Delete(c)
  <2>1. Write(c, "delete", Deleted(row), FALSE) /\ UNCHANGED succeeded
    BY <1>11 DEF Delete, row
  <2>2. WroteOne(c, "delete", Deleted(row), FALSE)
    BY <1>3, <1>4, <1>5, <2>1, WriteEffect
  <2> QED BY <2>2 DEF Written, row
<1> QED BY <1>6, <1>7, <1>8, <1>9, <1>10, <1>11

\* A step of the nodes, as the requests see it.
NodeMoves ==
    /\ [NodeNext]_nodeVars
    /\ UNCHANGED <<req, jobless>> \/ \E n \in Node : RouteCrash(n) \/ RouteRestart(n)

\* A step is one of the nodes, with which requests may die, or one of an endpoint.
LEMMA RouteSteps ==
    ASSUME [RouteNext]_routeVars
    PROVE  \/ NodeMoves
           \/ \E c \in Client, op \in Op, n \in Node, t \in Task : Accept(c, op, n, t)
           \/ \E c \in Client :
                 \/ Pause(c) \/ Cancel(c) \/ Resume(c) \/ Replay(c) \/ Trigger(c) \/ Delete(c)
           \/ \E c \in Client : TurnToEngine(c) \/ RequestFails(c)
BY DEF RouteNext, RouteStep, RouteCrash, RouteRestart, NodeNext, NodeMoves, nodeVars,
       routeVars, engineVars

\* A request that is accepted, and the job that a cancel or delete drops.
LEMMA AcceptEffect ==
    ASSUME RouteTypeOK, NEW c \in Client, NEW op \in Op, NEW n \in Node, NEW t \in Task,
           Accept(c, op, n, t)
    PROVE  /\ RouteTypeOK' /\ UNCHANGED <<vars, erun, jobless>>
           /\ req[c] = NoRequest /\ req'[c].op = op /\ req'[c].task = t
           /\ \A d \in Client : d # c => req'[d] = req[d]
           /\ timer' = IF op \in {"cancel", "delete"} THEN WithoutJob(n, t) ELSE timer
<1>1. op \in Endpoint
  BY RoutesAssumption
<1> DEFINE new == [op |-> op, node |-> n, task |-> t, wrote |-> FALSE]
<1>2. new \in Request /\ new.op = op /\ new.task = t /\ ~new.wrote
  BY <1>1 DEF Request
<1>3. req' = [req EXCEPT ![c] = new]
  BY DEF Accept
<1> HIDE DEF new
<1>4. /\ req' \in [Client -> Request \cup {NoRequest}] /\ req'[c] = new
      /\ \A d \in Client : d # c => req'[d] = req[d]
  BY <1>2, <1>3 DEF RouteTypeOK
<1>5. timer' \in [Node -> [Task -> Nat \cup {NULL}]]
  BY JobsType DEF Accept, RouteTypeOK, NodeTypeOK
<1>6. \A d \in Client : req'[d].wrote => req'[d].op \in {"pause", "resume", "replay"}
  BY <1>2, <1>4 DEF RouteTypeOK
<1>7. RouteTypeOK'
  BY <1>4, <1>5, <1>6 DEF Accept, vars, RouteTypeOK, NodeTypeOK, TypeOK
<1> QED BY <1>2, <1>4, <1>7 DEF Accept

\* A request that ends after its write, or fails, leaves every row alone.
LEMMA RequestEnds ==
    ASSUME RouteTypeOK, NEW c \in Client, TurnToEngine(c) \/ RequestFails(c)
    PROVE  /\ RouteTypeOK' /\ UNCHANGED <<vars, erun>>
           /\ req'[c] = NoRequest /\ \A d \in Client : d # c => req'[d] = req[d]
<1>1. /\ req' \in [Client -> Request \cup {NoRequest}]
      /\ req'[c] = NoRequest /\ \A d \in Client : d # c => req'[d] = req[d]
  BY DEF TurnToEngine, RequestFails, RouteTypeOK
<1>2. \A d \in Client : req'[d].wrote => req'[d].op \in {"pause", "resume", "replay"}
  BY <1>1 DEF RouteTypeOK, NoRequest
<1>3. CASE TurnToEngine(c)
  <2>1. req[c].node \in Node /\ req[c].task \in Task
    BY <1>3, WroteType DEF TurnToEngine
  <2>2. timer' \in [Node -> [Task -> Nat \cup {NULL}]]
    BY <1>3, <2>1, JobsType DEF TurnToEngine, RouteTypeOK
  <2>3. jobless' \subseteq Task
    BY <1>3, <2>1 DEF TurnToEngine, RouteTypeOK
  <2> QED BY <1>1, <1>2, <1>3, <2>2, <2>3
          DEF TurnToEngine, vars, RouteTypeOK, NodeTypeOK, TypeOK
<1>4. CASE RequestFails(c)
  <2>1. req[c].task \in Task
    BY <1>4 DEF RequestFails, RouteTypeOK, Request
  <2>2. jobless' \subseteq Task
    BY <1>4, <2>1 DEF RequestFails, RouteTypeOK
  <2> QED BY <1>1, <1>2, <1>4, <2>2
          DEF RequestFails, nodeVars, engineVars, vars, RouteTypeOK, NodeTypeOK, TypeOK
<1> QED BY <1>3, <1>4

\* Every step keeps every variable within its type.
LEMMA RouteTypeStep == RouteTypeOK /\ [RouteNext]_routeVars => RouteTypeOK'
<1> SUFFICES ASSUME RouteTypeOK, [RouteNext]_routeVars PROVE RouteTypeOK'
  OBVIOUS
<1>1. ASSUME NodeMoves PROVE RouteTypeOK'
  <2>1. NodeTypeOK'
    BY <1>1, NodeStepType DEF RouteTypeOK, NodeMoves
  <2>2. /\ req' \in [Client -> Request \cup {NoRequest}]
        /\ \A d \in Client : req'[d] \in {req[d], NoRequest}
    BY <1>1 DEF RouteTypeOK, RouteCrash, RouteRestart, NodeMoves
  <2>3. \A d \in Client : req'[d].wrote => req'[d].op \in {"pause", "resume", "replay"}
    BY <2>2 DEF RouteTypeOK, NoRequest
  <2>4. jobless' \subseteq Task
    BY <1>1 DEF RouteTypeOK, RouteCrash, RouteRestart, NodeMoves
  <2> QED BY <2>1, <2>2, <2>3, <2>4 DEF RouteTypeOK
<1>2. ASSUME NEW c \in Client,
             \/ Pause(c) \/ Cancel(c) \/ Resume(c) \/ Replay(c) \/ Trigger(c) \/ Delete(c)
      PROVE  RouteTypeOK'
  BY <1>2, WrittenEffect DEF Written, WroteOne
<1> QED BY <1>1, <1>2, AcceptEffect, RequestEnds, RouteSteps

-----------------------------------------------------------------------------
(* Coroutines live on nodes that are up.                                   *)

LiveIsUp == \A s \in Slot : run[s].pc # "idle" => Up(run[s].node)

\* What is about to be written, if not a failure, has a time for the next run.
SlotWrites == \A s \in Slot : run[s].pc = "writing" /\ ~run[s].fail => run[s].next # NULL

\* A coroutine stays what it is till it ends; a new one is a claim's.
LEMMA SlotStays ==
    ASSUME TypeOK, [Next]_vars, NEW s \in Slot, run'[s].pc # "idle"
    PROVE  \/ /\ run[s].pc # "idle" /\ run'[s].node = run[s].node
              /\ run'[s].task = run[s].task
           \/ \E n \in Node, t \in Task :
                 /\ Claim(n, t) /\ run'[s].node = n /\ run'[s].task = t
<1> DEFINE Same == /\ run[s].pc # "idle" /\ run'[s].node = run[s].node
                   /\ run'[s].task = run[s].task
<1>1. run[s] \in LiveRun \cup {Idle}
  BY DEF TypeOK
<1>2. ASSUME run'[s] = run[s] PROVE Same
  BY <1>2
<1>3. ASSUME NEW x \in Slot, NEW r, run' = [run EXCEPT ![x] = r],
             x = s /\ r.pc # "idle" =>
                /\ run[s].pc # "idle" /\ r.node = run[s].node /\ r.task = run[s].task
      PROVE  Same
  BY <1>3 DEF TypeOK
<1>4. ASSUME NEW n \in Node, NEW t \in Task, Claim(n, t)
      PROVE  Same \/ (run'[s].node = n /\ run'[s].task = t)
  <2>1. CASE CanAcquire(task[t], n)
    <3> DEFINE new == [Idle EXCEPT !.pc = "claimed", !.node = n, !.task = t,
                                   !.wait = Slack, !.awaited = TRUE]
    <3>1. PICK x \in Slot : run' = [run EXCEPT ![x] = new]
      BY <1>4, <2>1 DEF Claim
    <3>2. new.node = n /\ new.task = t
      BY DEF Idle
    <3> HIDE DEF new
    <3> QED BY <1>2, <3>1, <3>2 DEF TypeOK
  <2> QED BY <1>2, <1>4, <2>1 DEF Claim
<1>5. ASSUME NEW n \in Node, ClaimRaises(n) PROVE Same
  BY <1>5 DEF ClaimRaises, Idle
<1>6. ASSUME NEW n \in Node, StartBatch(n) PROVE Same
  BY <1>1, <1>6 DEF StartBatch, LiveRun, Idle
<1>7. ASSUME NEW x \in Slot, run[x].pc # "idle",
             \/ SkipSeenKey(x) \/ StartExecution(x) \/ ReturnRun(x)
             \/ \E out \in {"success", "failure"} : RecordRun(x, out)
             \/ AbortRun(x) \/ Heartbeat(x)
      PROVE  Same
  <2>1. run[x] \in LiveRun
    BY <1>7, LiveType
  <2> QED BY <1>3, <1>7, <2>1
          DEF SkipSeenKey, StartExecution, ReturnRun, RecordRun, AbortRun, Heartbeat, LiveRun
<1>8. ASSUME NEW x \in Slot, Judge(x) PROVE Same
  <2>1. run[x] \in LiveRun /\ run[x].pc # "idle"
    BY <1>8, LiveType DEF Judge
  <2> QED BY <1>3, <1>8, <2>1 DEF Judge, LiveRun, Idle
<1>9. ASSUME NEW x \in Slot, WriteBack(x) PROVE Same
  BY <1>3, <1>9 DEF WriteBack, Idle
<1>10. ASSUME NEW x \in Slot, Raise(x) PROVE Same
  BY <1>1, <1>10 DEF Raise, LiveRun, Idle
<1>11. ASSUME NEW n \in Node, Crash(n) PROVE Same
  BY <1>11 DEF Crash, Idle
<1>12. CASE Tick
  <2> DEFINE later == [run[s] EXCEPT !.wait = run[s].wait - 1,
                                     !.next = Sooner(run[s].next)]
  <2>1. CASE run[s].pc = "idle" \/ run[s].wait = NULL
    BY <1>2, <1>12, <2>1 DEF Tick
  <2>2. CASE ~(run[s].pc = "idle" \/ run[s].wait = NULL)
    <3>1. run[s] \in LiveRun
      BY <2>2, LiveType
    <3>2. run'[s] = later
      BY <1>12, <2>2 DEF Tick
    <3>3. later.node = run[s].node /\ later.task = run[s].task
      BY <3>1 DEF LiveRun
    <3> QED BY <2>2, <3>2, <3>3
  <2> QED BY <2>1, <2>2
<1>13. CASE UNCHANGED run
  BY <1>2, <1>13
<1> QED
  BY <1>4, <1>5, <1>6, <1>7, <1>8, <1>9, <1>10, <1>11, <1>12, <1>13
     DEF Next, DispatchStep, LoopStep, RunStep, Advance, SelectDue, EndBatch,
         ReapOrphans, SkipSeenKey, StartExecution, ReturnRun, RecordRun, AbortRun,
         Heartbeat, Working, Restart, vars

\* A node goes down by a crash, and comes up by a restart.
LEMMA LoopStays ==
    ASSUME TypeOK, LiveIsUp, [Next]_vars, NEW n \in Node
    PROVE  \/ Up(n)' = Up(n)
           \/ Crash(n) /\ ~Up(n)'
           \/ Restart(n) /\ Up(n)'
<1>1. loop \in [Node -> {"sleeping", "claiming", "gathering", "down"}]
  BY DEF TypeOK
<1>2. CASE loop' = loop
  BY <1>2 DEF Up
<1>3. ASSUME NEW m \in Node, NEW l, l # "down", loop[m] # "down",
             loop' = [loop EXCEPT ![m] = l]
      PROVE  Up(n)' = Up(n)
  BY <1>1, <1>3 DEF Up
<1>4. ASSUME NEW m \in Node,
             SelectDue(m) \/ ClaimRaises(m) \/ StartBatch(m) \/ EndBatch(m)
      PROVE  Up(n)' = Up(n)
  BY <1>3, <1>4 DEF SelectDue, ClaimRaises, StartBatch, EndBatch
<1>5. ASSUME NEW s \in Slot, Raise(s) PROVE Up(n)' = Up(n)
  <2>1. run[s].node \in Node /\ loop[run[s].node] # "down"
    BY <1>5, LiveType DEF Raise, LiveRun, LiveIsUp, Up
  <2> QED BY <1>3, <1>5, <2>1 DEF Raise
<1>6. ASSUME NEW m \in Node, Crash(m)
      PROVE  IF m = n THEN ~Up(n)' ELSE Up(n)' = Up(n)
  BY <1>1, <1>6 DEF Crash, Up
<1>7. ASSUME NEW m \in Node, Restart(m)
      PROVE  IF m = n THEN Up(n)' ELSE Up(n)' = Up(n)
  BY <1>1, <1>7 DEF Restart, Up
<1> QED
  BY <1>2, <1>4, <1>5, <1>6, <1>7
     DEF Next, DispatchStep, LoopStep, RunStep, Advance, Claim, ReapOrphans,
         SkipSeenKey, StartExecution, RecordRun, ReturnRun, AbortRun, Judge,
         WriteBack, Heartbeat, Tick, vars

\* The dispatcher keeps its coroutines on nodes that are up, and what they write sound.
LEMMA SlotsKept ==
    ASSUME TypeOK, LiveIsUp, SlotWrites, [Next]_vars
    PROVE  LiveIsUp' /\ SlotWrites'
<1>1. ASSUME NEW s \in Slot, run'[s].pc # "idle" PROVE loop'[run'[s].node] # "down"
  <2>1. ASSUME NEW n \in Node, NEW t \in Task, Claim(n, t), run'[s].node = n
        PROVE  loop'[run'[s].node] # "down"
    BY <2>1 DEF Claim
  <2>2. ASSUME run[s].pc # "idle", run'[s].node = run[s].node
        PROVE  loop'[run'[s].node] # "down"
    <3>1. PICK n \in Node : n = run[s].node /\ Up(n)
      BY <2>2, LiveType DEF LiveRun, LiveIsUp
    <3>2. ~Crash(n)
      <4>1. Crash(n) => run'[s] = Idle
        BY <3>1 DEF Crash
      <4> QED BY <1>1, <4>1 DEF Idle
    <3>3. Up(n)'
      BY <3>1, <3>2, LoopStays
    <3> QED BY <2>2, <3>1, <3>3 DEF Up
  <2> QED BY <1>1, <2>1, <2>2, SlotStays
<1>2. ASSUME NEW s \in Slot, run'[s].pc = "writing", ~run'[s].fail
      PROVE  run'[s].next # NULL
  <2>1. CASE Judge(s)
    BY <1>2, <2>1, JudgesWell DEF WritesWell
  <2> QED BY <1>2, <2>1, WritingStays DEF SlotWrites
<1> QED BY <1>1, <1>2 DEF LiveIsUp, SlotWrites, Up

-----------------------------------------------------------------------------
(* Canceled tasks.                                                         *)

\* A lease has an end.
LeasesEnd == \A t \in Task : task[t].owner # NULL => task[t].left # NULL

\* A request that writes a row leaves it inert if it is, or becomes, canceled or deleted.
LEMMA WriteKeepsInert ==
    ASSUME RouteTypeOK, CanceledIsInert, LeasesEnd, NEW c \in Client, Written(c), NEW t \in Task
    PROVE  /\ task'[t].state \in {"canceled", "deleted"} => Inert(task'[t])
           /\ task'[t].owner # NULL => task'[t].left # NULL
<1> DEFINE row == task[t]
<1>1. row \in Row
  BY DEF RouteTypeOK, NodeTypeOK, TypeOK
<1>2. /\ row.state \in {"canceled", "deleted"} => Inert(row)
      /\ row.owner # NULL => row.left # NULL
  BY DEF CanceledIsInert, LeasesEnd, Inert
<1>3. CASE task'[t] = row
  BY <1>2, <1>3
<1>4. CASE t = req[c].task /\ task'[t] # row
  <2> HIDE DEF row
  <2>1. \/ \E state \in {"paused", "active"} : task'[t] = StateSet(row, state)
        \/ task'[t] \in {Canceled(row), Replayed(row), RunRecorded(row), Deleted(row)}
    BY <1>4 DEF Written, WroteOne, row
  <2>2. ASSUME NEW state \in {"paused", "active"}, task'[t] = StateSet(row, state)
        PROVE  /\ task'[t].state \notin {"canceled", "deleted"}
               /\ task'[t].owner = row.owner /\ task'[t].left = row.left
    <3>1. state \in TaskState
      BY DEF TaskState
    <3>2. row.state # "deleted"
      BY <1>4, <2>2 DEF StateSet
    <3> QED BY <1>1, <2>2, <3>1, <3>2, WrittenRows
  <2>3. ASSUME task'[t] = Canceled(row) PROVE Inert(task'[t])
    BY <1>1, <1>4, <2>3, WrittenRows DEF Canceled
  <2>4. ASSUME task'[t] = Replayed(row)
        PROVE  task'[t].state = "active" /\ task'[t].owner = NULL
    BY <1>1, <1>4, <2>4, WrittenRows DEF Replayed
  <2>5. ASSUME task'[t] = RunRecorded(row)
        PROVE  /\ task'[t].state = row.state /\ task'[t].next = row.next
               /\ task'[t].owner = row.owner /\ task'[t].left = row.left
    BY <1>1, <2>5 DEF RunRecorded, Row
  <2>6. ASSUME task'[t] = Deleted(row) PROVE Inert(task'[t])
    BY <1>1, <2>6, WrittenRows
  <2> QED BY <1>2, <2>1, <2>2, <2>3, <2>4, <2>5, <2>6 DEF Inert
<1>5. t # req[c].task => task'[t] = row
  BY DEF Written, WroteOne
<1> QED BY <1>3, <1>4, <1>5

\* Every step keeps canceled rows inert and gives every lease an end.
LEMMA InertStep ==
    ASSUME RouteTypeOK, CanceledIsInert, LeasesEnd, [RouteNext]_routeVars
    PROVE  CanceledIsInert' /\ LeasesEnd'
<1> SUFFICES ASSUME NEW t \in Task
             PROVE  /\ task'[t].state \in {"canceled", "deleted"} => Inert(task'[t])
                    /\ task'[t].owner # NULL => task'[t].left # NULL
  BY DEF CanceledIsInert, LeasesEnd, Inert
<1>1. task[t] \in Row
  BY DEF RouteTypeOK, NodeTypeOK, TypeOK
<1>2. /\ task[t].state \in {"canceled", "deleted"} => Inert(task[t])
      /\ task[t].owner # NULL => task[t].left # NULL
  BY DEF CanceledIsInert, LeasesEnd, Inert
<1>3. CASE [NodeNext]_nodeVars
  <2>1. Runs(task[t], task'[t])
    BY <1>1, <1>3, NodeStepType, StatementRuns DEF RouteTypeOK
  <2> QED BY <1>2, <2>1 DEF Runs
<1>4. ASSUME NEW c \in Client, NEW op \in Op, NEW n \in Node, NEW u \in Task,
             Accept(c, op, n, u)
      PROVE  task' = task
  BY <1>4 DEF Accept, vars
<1>5. ASSUME NEW c \in Client,
             \/ Pause(c) \/ Cancel(c) \/ Resume(c) \/ Replay(c) \/ Trigger(c) \/ Delete(c)
      PROVE  /\ task'[t].state \in {"canceled", "deleted"} => Inert(task'[t])
             /\ task'[t].owner # NULL => task'[t].left # NULL
  BY <1>5, WrittenEffect, WriteKeepsInert
<1>6. ASSUME NEW c \in Client, TurnToEngine(c) \/ RequestFails(c) PROVE task' = task
  BY <1>6, RequestEnds DEF vars
<1> QED BY <1>2, <1>3, <1>4, <1>5, <1>6, RouteSteps DEF NodeMoves

-----------------------------------------------------------------------------
(* No task is stranded.                                                    *)

\* The request r is about to cancel or delete t, or to give it a job.
Promises(r, t) ==
    /\ r.task = t
    /\ r.op \in {"cancel", "delete"} \/ (r.wrote /\ r.op # "pause")

\* Some node has a job for t or is down, or a request promises t an end or a job.
Hope(t) ==
    \/ \E n \in Node : timer[n][t] # NULL \/ ~Up(n)
    \/ \E c \in Client : Promises(req[c], t)

\* The engine may be about to write NULL only while there is hope.
Prospect(t) ==
    /\ t \notin jobless
    /\ task[t].state = "active"
    /\ task[t].next = NULL \/ \E n \in Node : erun[n][t].pc # "idle"
    => Hope(t)

\* The nodes lose a job only with the node, and a node that starts makes one.
LEMMA NodeKeepsHope ==
    ASSUME NodeTypeOK, LiveIsUp, [NodeNext]_nodeVars, NEW t \in Task,
           UNCHANGED req \/ \E n \in Node : RouteCrash(n) \/ RouteRestart(n),
           task'[t].state = "active", Hope(t)
    PROVE  Hope(t)'
<1>1. ASSUME NEW n \in Node, NodeCrash(n) PROVE Hope(t)'
  BY <1>1 DEF NodeCrash, Crash, NodeTypeOK, TypeOK, Hope, Up
<1>2. ASSUME NEW n \in Node, timer[n][t] # NULL, ~\E m \in Node : NodeCrash(m)
      PROVE  timer'[n][t] # NULL
  <2>1. ASSUME NEW m \in Node, NodeRestart(m) PROVE timer'[n][t] # NULL
    <3>1. Period # NULL /\ task' = task
      BY <2>1, DispatcherAssumption, StoreAssumption DEF NodeRestart, Restart
    <3> QED BY <1>2, <2>1, <3>1 DEF NodeRestart, NodeTypeOK
  <2>2. ASSUME NEW m \in Node, NEW u \in Task, EngineStep(m, u) PROVE timer'[n][t] # NULL
    BY <1>2, <2>2, EngineStepEffect DEF EngineEffect
  <2>3. ASSUME NodeTick PROVE timer'[n][t] # NULL
    BY <1>2, <2>3, EngineAged
  <2>4. ASSUME UNCHANGED timer PROVE timer'[n][t] # NULL
    BY <1>2, <2>4
  <2> QED BY <1>2, <2>1, <2>2, <2>3, <2>4 DEF NodeNext, nodeVars, engineVars
<1>3. ASSUME NEW n \in Node, ~Up(n) PROVE ~Up(n)' \/ timer'[n][t] # NULL
  <2>1. ASSUME [Next]_vars, ~Restart(n) PROVE ~Up(n)'
    <3>1. Up(n)' = Up(n) \/ ~Up(n)'
      BY <2>1, LoopStays DEF NodeTypeOK
    <3> QED BY <1>3, <3>1
  <2>2. ASSUME NEW m \in Node, NEW u \in Task, EngineStep(m, u) PROVE ~Up(n)'
    BY <1>3, <2>2, EngineStepEffect DEF EngineEffect, Up
  <2>3. ASSUME Restart(n), [Next]_vars,
               ~\E m \in Node, u \in Task : EngineStep(m, u)
        PROVE  timer'[n][t] # NULL
    <3>1. loop[n] = "down" /\ loop'[n] # "down" /\ task' = task
      BY <2>3 DEF Restart, NodeTypeOK, TypeOK
    <3>2. ~UNCHANGED vars
      BY <3>1 DEF vars
    <3>3. ~Tick /\ (\A m \in Node : ~Crash(m))
      BY <3>1 DEF Tick, Crash, NodeTypeOK, TypeOK
    <3>4. ~DispatchStep
      <4>1. ASSUME NEW m \in Node, LoopStep(m) \/ ReapOrphans(m) PROVE FALSE
        BY <3>1, <4>1 DEF LoopStep, SelectDue, Claim, ClaimRaises, StartBatch, EndBatch,
                          ReapOrphans, NodeTypeOK, TypeOK
      <4>2. ASSUME NEW s \in Slot, RunStep(s) PROVE FALSE
        <5>1. ASSUME Raise(s) PROVE FALSE
          <6>1. run[s].node \in Node /\ loop[run[s].node] # "down"
            BY <5>1, LiveType DEF Raise, LiveRun, NodeTypeOK, LiveIsUp, Up
          <6> QED BY <3>1, <5>1, <6>1 DEF Raise, NodeTypeOK, TypeOK
        <5> QED BY <3>1, <4>2, <5>1
               DEF RunStep, Advance, SkipSeenKey, StartExecution, RecordRun, ReturnRun,
                   AbortRun, Judge, WriteBack, Heartbeat
      <4> QED BY <4>1, <4>2 DEF DispatchStep
    <3>5. PICK m \in Node : NodeRestart(m)
      BY <2>3, <3>2, <3>3, <3>4 DEF NodeNext, NodeCrash, NodeTick, nodeVars
    <3>6. m = n
      BY <3>1, <3>5 DEF NodeRestart, Restart, NodeTypeOK, TypeOK
    <3>7. Period # NULL
      BY DispatcherAssumption, StoreAssumption
    <3> QED BY <3>1, <3>5, <3>6, <3>7 DEF NodeRestart, NodeTypeOK
  <2> QED BY <2>1, <2>2, <2>3, NodeSteps
<1>4. CASE ~\E m \in Node : NodeCrash(m)
  <2>1. UNCHANGED req
    BY <1>4 DEF RouteCrash, RouteRestart
  <2> QED BY <1>2, <1>3, <1>4, <2>1 DEF Hope
<1> QED BY <1>1, <1>4

\* An endpoint drops a job only as it cancels, deletes or pauses the task.
LEMMA EndpointKeepsHope ==
    ASSUME RouteTypeOK, NEW c \in Client, NEW t \in Task,
           task'[t].state = "active", Hope(t),
           \/ \E op \in Op, n \in Node, u \in Task : Accept(c, op, n, u)
           \/ Written(c)
    PROVE  Hope(t)'
<1>1. ASSUME NEW op \in Op, NEW n \in Node, NEW u \in Task, Accept(c, op, n, u)
      PROVE  Hope(t)'
  <2>1. /\ UNCHANGED <<vars, erun>> /\ req[c] = NoRequest
        /\ req'[c].op = op /\ req'[c].task = u
        /\ \A d \in Client : d # c => req'[d] = req[d]
        /\ timer' = IF op \in {"cancel", "delete"} THEN WithoutJob(n, u) ELSE timer
    BY <1>1, AcceptEffect
  <2>2. \A d \in Client : Promises(req[d], t) => req'[d] = req[d]
    BY <2>1, RoutesAssumption DEF NoRequest, Endpoint, Promises
  <2>3. loop' = loop
    BY <2>1 DEF vars
  <2>4. CASE op \in {"cancel", "delete"} /\ u = t
    BY <2>1, <2>4 DEF Hope, Promises
  <2>5. CASE ~(op \in {"cancel", "delete"} /\ u = t)
    <3>1. \A m \in Node : timer'[m][t] = timer[m][t]
      BY <2>1, <2>5, JobsType DEF RouteTypeOK
    <3> QED BY <2>2, <2>3, <3>1 DEF Hope, Up
  <2> QED BY <2>4, <2>5
<1>2. ASSUME Written(c) PROVE Hope(t)'
  <2> DEFINE u == req[c].task
             row == task[u]
  <2>1. /\ u \in Task /\ UNCHANGED <<loop, timer>> /\ ~req[c].wrote
        /\ \A d \in Client : d # c => req'[d] = req[d]
    BY <1>2 DEF Written, WroteOne
  <2>2. row \in Row
    BY <2>1 DEF RouteTypeOK, NodeTypeOK, TypeOK
  <2>3. ASSUME req[c].op \in {"cancel", "delete"} PROVE u # t
    <3>1. task'[u] \in {Canceled(row), Deleted(row)}
      BY <1>2, <2>3 DEF Written, WroteOne
    <3>2. task'[u].state \in {"canceled", "deleted"}
      BY <2>2, <3>1, WrittenRows
    <3> QED BY <3>2
  <2>4. \A d \in Client : Promises(req[d], t) => d # c
    BY <2>1, <2>3 DEF Promises
  <2> QED BY <2>1, <2>4 DEF Hope, Up
<1> QED BY <1>1, <1>2

\* A request that ends keeps its promise, or the task is known to lack a job.
LEMMA EndsKeepHope ==
    ASSUME RouteTypeOK, NEW c \in Client, TurnToEngine(c) \/ RequestFails(c), NEW t \in Task,
           task[t].state = "active", t \notin jobless', t \in jobless \/ Hope(t)
    PROVE  Hope(t)'
<1>1. /\ UNCHANGED loop /\ \A d \in Client : d # c => req'[d] = req[d]
  BY RequestEnds DEF vars
<1>2. CASE TurnToEngine(c)
  <2>1. req[c].node \in Node /\ req[c].task \in Task /\ req[c].wrote
        /\ req[c].op \in {"pause", "resume", "replay"}
    BY <1>2, WroteType DEF TurnToEngine
  <2>2. CASE req[c].op # "pause"
    <3>1. /\ timer'[req[c].node][req[c].task] # NULL
          /\ \A m \in Node : timer[m][t] # NULL => timer'[m][t] # NULL
      BY <1>2, <2>1, <2>2, JobsType DEF TurnToEngine, RouteTypeOK
    <3>2. t = req[c].task => Hope(t)'
      BY <2>1, <3>1 DEF Hope
    <3>3. t # req[c].task => t \notin jobless /\ ~Promises(req[c], t)
      BY <1>2, <2>2 DEF TurnToEngine, Promises
    <3> QED BY <1>1, <3>1, <3>2, <3>3 DEF Hope, Up
  <2>3. CASE req[c].op = "pause"
    <3>1. t # req[c].task /\ t \notin jobless
      BY <1>2, <2>3 DEF TurnToEngine
    <3>2. ~Promises(req[c], t)
      BY <3>1 DEF Promises
    <3>3. \A m \in Node : timer'[m][t] = timer[m][t]
      BY <1>2, <2>1, <2>3, <3>1, JobsType DEF TurnToEngine, RouteTypeOK
    <3> QED BY <1>1, <3>1, <3>2, <3>3 DEF Hope, Up
  <2> QED BY <2>2, <2>3
<1>3. CASE RequestFails(c)
  <2>1. t \notin jobless /\ ~Promises(req[c], t)
    BY <1>3 DEF RequestFails, Promises
  <2>2. UNCHANGED timer
    BY <1>3 DEF RequestFails, nodeVars, engineVars
  <2> QED BY <1>1, <2>1, <2>2 DEF Hope, Up
<1> QED BY <1>2, <1>3

\* A run of the engine begins where there is a job.
LEMMA EngineBegins ==
    ASSUME NodeTypeOK, [NodeNext]_nodeVars, NEW n \in Node, NEW t \in Task,
           erun[n][t].pc = "idle", erun'[n][t].pc # "idle"
    PROVE  timer'[n][t] # NULL
<1>1. ASSUME NEW m \in Node, NEW u \in Task, EngineStep(m, u) PROVE timer'[n][t] # NULL
  <2>1. m = n /\ u = t
    BY <1>1, EngineStepEffect DEF EngineEffect
  <2>2. EngineFire(n, t)
    BY <1>1, <2>1 DEF EngineStep, EngineAdvance, EngineRead, EngineSkip, EngineStart,
                      EngineRecord, EngineReturn, EngineAbort, EngineJudge, EngineEnd,
                      EngineRaise
  <2>3. timer' = [timer EXCEPT ![n][t] = Period] /\ Period # NULL
    BY <2>2, DispatcherAssumption, StoreAssumption DEF EngineFire
  <2> QED BY <2>3 DEF NodeTypeOK
<1>2. ~NodeTick
  BY EngineAged
<1>3. ASSUME NEW m \in Node, NodeCrash(m) PROVE FALSE
  BY <1>3 DEF NodeCrash, EngineIdle, NodeTypeOK
<1>4. ~UNCHANGED erun
  OBVIOUS
<1> QED BY <1>1, <1>2, <1>3, <1>4 DEF NodeNext, NodeRestart, nodeVars, engineVars

\* The nodes write NULL into an active row only at the end of a run of the engine.
LEMMA ScheduleLost ==
    ASSUME NodeTypeOK, SlotWrites, [NodeNext]_nodeVars, NEW t \in Task,
           task[t].state = "active", task'[t].state = "active",
           task[t].next # NULL, task'[t].next = NULL
    PROVE  \E n \in Node : erun[n][t].pc # "idle"
<1>1. ASSUME [Next]_vars PROVE FALSE
  <2>1. TypeOK
    BY DEF NodeTypeOK
  <2>2. PICK s \in Slot : WriteBack(s) /\ run[s].task = t
    BY <1>1, <2>1, RowsKept DEF Kept
  <2>3. /\ run[s].pc = "writing"
        /\ \/ task'[t] = task[t]
           \/ run[s].fail /\ task'[t].state = "failed"
           \/ ~run[s].fail /\ task'[t].state = task[t].state
                           /\ task'[t].next = run[s].next
    BY <2>1, <2>2, CompletedKeeps
  <2> QED BY <2>3 DEF SlotWrites
<1>2. ASSUME NEW n \in Node, NEW u \in Task, EngineStep(n, u)
      PROVE  erun[n][t].pc # "idle"
  <2>1. u = t
    BY <1>2, EngineStepEffect DEF EngineEffect
  <2>2. task[t] \in Row
    BY DEF NodeTypeOK, TypeOK
  <2>3. ~EngineFire(n, t)
    <3>1. Acquired(task[t], n).next = task[t].next
      BY <2>2 DEF Acquired, Row
    <3>2. EngineFire(n, t) => task' = task \/ task' = [task EXCEPT ![t] = Acquired(task[t], n)]
      BY DEF EngineFire
    <3>3. ASSUME task' = [task EXCEPT ![t] = Acquired(task[t], n)] PROVE FALSE
      BY <3>1, <3>3 DEF NodeTypeOK, TypeOK
    <3> QED BY <3>2, <3>3
  <2> QED BY <1>2, <2>1, <2>3
          DEF EngineStep, EngineAdvance, EngineRead, EngineSkip, EngineStart,
              EngineRecord, EngineReturn, EngineAbort, EngineJudge, EngineEnd, EngineRaise
<1> QED BY <1>1, <1>2, NodeSteps

\* Every step keeps the prospects of every task.
LEMMA ProspectStep ==
    ASSUME RouteTypeOK, LiveIsUp, SlotWrites, [RouteNext]_routeVars, NEW t \in Task, Prospect(t)
    PROVE  Prospect(t)'
<1> SUFFICES ASSUME task'[t].state = "active", t \notin jobless',
                    task'[t].next = NULL \/ \E n \in Node : erun'[n][t].pc # "idle"
             PROVE  Hope(t)'
  BY DEF Prospect
<1>1. task[t] \in Row
  BY DEF RouteTypeOK, NodeTypeOK, TypeOK
<1>2. ASSUME NodeMoves, t \notin jobless PROVE Hope(t)'
  <2>1. task[t].state = "active"
    <3>1. Runs(task[t], task'[t])
      BY <1>1, <1>2, NodeStepType, StatementRuns DEF RouteTypeOK, NodeMoves
    <3> QED BY <3>1 DEF Runs
  <2>2. CASE task[t].next = NULL \/ \E n \in Node : erun[n][t].pc # "idle"
    <3>1. Hope(t)
      BY <1>2, <2>1, <2>2 DEF Prospect
    <3> QED BY <1>2, <3>1, NodeKeepsHope DEF RouteTypeOK, NodeMoves
  <2>3. CASE ~(task[t].next = NULL \/ \E n \in Node : erun[n][t].pc # "idle")
    <3>1. task'[t].next # NULL
      BY <1>2, <2>1, <2>3, ScheduleLost DEF RouteTypeOK, NodeMoves
    <3>2. PICK n \in Node : erun'[n][t].pc # "idle"
      BY <3>1
    <3>3. timer'[n][t] # NULL
      BY <1>2, <2>3, <3>2, EngineBegins DEF RouteTypeOK, NodeMoves
    <3> QED BY <3>3 DEF Hope
  <2> QED BY <2>2, <2>3
<1>6. ASSUME NodeMoves, t \in jobless PROVE Hope(t)'
  <2>1. PICK m \in Node : RouteRestart(m)
    BY <1>6 DEF NodeMoves, RouteCrash
  <2>2. /\ task' = task /\ Period # NULL
        /\ timer' = [timer EXCEPT ![m] = [u \in Task |->
                       IF task[u].state = "active" THEN Period ELSE NULL]]
    BY <2>1, DispatcherAssumption, StoreAssumption DEF RouteRestart, NodeRestart, Restart
  <2>3. timer'[m][t] # NULL
    BY <2>2 DEF RouteTypeOK, NodeTypeOK
  <2> QED BY <2>3 DEF Hope
<1>3. ASSUME NEW c \in Client, NEW op \in Op, NEW n \in Node, NEW u \in Task,
             Accept(c, op, n, u)
      PROVE  Hope(t)'
  <2>1. task' = task /\ erun' = erun /\ jobless' = jobless
    BY <1>3 DEF Accept, vars
  <2>2. Hope(t)
    BY <2>1 DEF Prospect
  <2> QED BY <1>3, <2>2, EndpointKeepsHope
<1>4. ASSUME NEW c \in Client, Written(c) PROVE Hope(t)'
  <2>1. /\ UNCHANGED <<erun, jobless>> /\ req[c].task \in Task
        /\ req[c].task # t => task'[t] = task[t]
    BY <1>4 DEF Written, WroteOne
  <2>2. CASE task[t].state = "active" /\ task'[t].next = task[t].next
    <3>1. Hope(t)
      BY <2>1, <2>2 DEF Prospect
    <3> QED BY <1>4, <3>1, EndpointKeepsHope
  <2>3. CASE req[c].task = t /\ ~(task[t].state = "active" /\ task'[t].next = task[t].next)
    <3>1. ASSUME task'[t] = StateSet(task[t], "paused") PROVE FALSE
      BY <1>1, <3>1, WrittenRows DEF StateSet, TaskState
    <3>2. ASSUME task'[t] \in {Canceled(task[t]), Deleted(task[t])} PROVE FALSE
      BY <1>1, <3>2, WrittenRows
    <3>3. ASSUME task'[t] = RunRecorded(task[t]) PROVE FALSE
      BY <1>1, <2>3, <3>3 DEF RunRecorded, Row
    <3>4. ASSUME task'[t] = StateSet(task[t], "active") PROVE task[t].state # "deleted"
      BY <3>4 DEF StateSet
    <3>5. ASSUME task'[t] = Replayed(task[t]) PROVE task[t].state = "failed"
      BY <2>3, <3>5 DEF Replayed
    <3>6. req[c].op \in {"resume", "replay"} /\ req'[c] = [req[c] EXCEPT !.wrote = TRUE]
      BY <1>4, <2>3, <3>1, <3>2, <3>3, <3>4, <3>5 DEF Written, WroteOne
    <3>7. req[c] \in Request
      BY <3>6, RequestType DEF Endpoint
    <3>8. Promises(req'[c], t)
      BY <2>3, <3>6, <3>7 DEF Promises, Request
    <3> QED BY <3>8 DEF Hope
  <2> QED BY <2>1, <2>2, <2>3
<1>5. ASSUME NEW c \in Client,
             \/ Pause(c) \/ Cancel(c) \/ Resume(c) \/ Replay(c) \/ Trigger(c) \/ Delete(c)
      PROVE  Hope(t)'
  BY <1>4, <1>5, WrittenEffect
<1>7. ASSUME NEW c \in Client, TurnToEngine(c) \/ RequestFails(c) PROVE Hope(t)'
  <2>1. task' = task /\ erun' = erun
    BY <1>7, RequestEnds DEF vars
  <2>2. t \in jobless \/ Hope(t)
    BY <2>1 DEF Prospect
  <2> QED BY <1>7, <2>1, <2>2, EndsKeepHope
<1> QED BY <1>2, <1>3, <1>5, <1>6, <1>7, RouteSteps

-----------------------------------------------------------------------------
(* The invariant of the endpoints over running nodes.                      *)

RouteKept ==
    /\ RouteInv
    /\ LiveIsUp /\ SlotWrites /\ LeasesEnd
    /\ \A t \in Task : Prospect(t)

\* The initial states.
LEMMA RouteStart == RouteInit => RouteKept
<1> SUFFICES ASSUME RouteInit PROVE RouteKept
  OBVIOUS
<1>1. Period \in Nat /\ Period # NULL
  BY DispatcherAssumption, StoreAssumption
<1>2. ASSUME NEW t \in Task
      PROVE  /\ task[t] \in Row /\ task[t].state = "active" /\ task[t].next # NULL
             /\ task[t].owner = NULL
  <2>1. task[t] = Created(Period, t \in Keyed)
    BY DEF RouteInit, NodeInit, Init
  <2> QED BY <1>1, <2>1 DEF Created, Row, TaskState
<1>3. TypeOK
  BY <1>2 DEF RouteInit, NodeInit, Init, TypeOK
<1>4. RouteTypeOK
  BY <1>1, <1>3 DEF RouteInit, NodeInit, RouteTypeOK, NodeTypeOK, NoRequest
<1>5. CanceledIsInert /\ LeasesEnd
  BY <1>2 DEF CanceledIsInert, LeasesEnd
<1>6. LiveIsUp /\ SlotWrites
  BY DEF RouteInit, NodeInit, Init, LiveIsUp, SlotWrites, Idle
<1>7. \A t \in Task : Prospect(t)
  BY <1>2 DEF RouteInit, NodeInit, Prospect, EngineIdle
<1> QED BY <1>4, <1>5, <1>6, <1>7 DEF RouteKept, RouteInv

\* Every step.
LEMMA RouteKeptStep == RouteKept /\ [RouteNext]_routeVars => RouteKept'
<1> SUFFICES ASSUME RouteKept, [RouteNext]_routeVars PROVE RouteKept'
  OBVIOUS
<1>1. RouteTypeOK /\ CanceledIsInert /\ LiveIsUp /\ SlotWrites /\ LeasesEnd
  BY DEF RouteKept, RouteInv
<1>2. RouteTypeOK' /\ CanceledIsInert' /\ LeasesEnd'
  BY <1>1, RouteTypeStep, InertStep
<1>3. LiveIsUp' /\ SlotWrites'
  <2>1. ASSUME [Next]_vars PROVE LiveIsUp' /\ SlotWrites'
    BY <1>1, <2>1, SlotsKept DEF RouteTypeOK, NodeTypeOK
  <2>2. ASSUME UNCHANGED <<run, loop>> PROVE LiveIsUp' /\ SlotWrites'
    BY <1>1, <2>2 DEF LiveIsUp, SlotWrites, Up
  <2>3. ASSUME NEW n \in Node, NEW t \in Task, EngineStep(n, t) PROVE UNCHANGED <<run, loop>>
    BY <1>1, <2>3, EngineStepEffect DEF RouteTypeOK, EngineEffect
  <2>4. ASSUME NEW c \in Client, Written(c) PROVE UNCHANGED <<run, loop>>
    BY <2>4 DEF Written, WroteOne
  <2>5. ASSUME NEW c \in Client, NEW op \in Op, NEW n \in Node, NEW t \in Task,
               Accept(c, op, n, t)
        PROVE  UNCHANGED <<run, loop>>
    BY <2>5 DEF Accept, vars
  <2>6. ASSUME NEW c \in Client, TurnToEngine(c) \/ RequestFails(c)
        PROVE  UNCHANGED <<run, loop>>
    BY <1>1, <2>6, RequestEnds DEF vars
  <2> QED BY <1>1, <2>1, <2>2, <2>3, <2>4, <2>5, <2>6, RouteSteps, NodeSteps, WrittenEffect
          DEF NodeMoves
<1>4. \A t \in Task : Prospect(t)'
  BY <1>1, ProspectStep DEF RouteKept
<1> QED BY <1>2, <1>3, <1>4 DEF RouteKept, RouteInv

\* Every reachable state.
LEMMA RouteInvariance == RouteSpec => []RouteKept
BY RouteStart, RouteKeptStep, PTL DEF RouteSpec

(***************************************************************************)
(* Every variable keeps its type, whatever nodes and clients do, and a     *)
(* canceled or deleted row has neither a schedule nor a lease: no run or   *)
(* request that was in progress when it was canceled gives it one.         *)
(***************************************************************************)
THEOREM CanceledStaysInert == RouteSpec => []RouteInv
<1>1. RouteKept => RouteInv
  BY DEF RouteKept
<1> QED BY <1>1, RouteInvariance, PTL

(***************************************************************************)
(* No active task is stranded without a schedule, a job, a run of the      *)
(* engine, a request or a node to come back, though an engine run whose    *)
(* job has gone writes NULL for the next run: but in the two windows that  *)
(* jobless records.                                                        *)
(***************************************************************************)
THEOREM NoneStranded == RouteSpec => []NeverStranded
<1>1. RouteKept => NeverStranded
  BY DEF RouteKept, NeverStranded, Prospect, Hope, Promises
<1> QED BY <1>1, RouteInvariance, PTL

-----------------------------------------------------------------------------
(* Cancel and failure are final.                                           *)

\* How the state of a row may change in one step.
LEMMA StateChanges ==
    ASSUME RouteTypeOK, CanceledIsInert, [RouteNext]_routeVars, NEW t \in Task,
           task'[t].state # task[t].state, ~OwnerWrites(t)
    PROVE  \/ task'[t].state = "failed" /\ task[t].owner # NULL
           \/ task'[t].state \in {"canceled", "deleted"}
           \/ /\ task[t].state = "failed" /\ task'[t].state = "active"
              /\ task'[t].runs = 0 /\ task'[t].next = 0
<1>1. task[t] \in Row
  BY DEF RouteTypeOK, NodeTypeOK, TypeOK
<1>2. CASE [NodeNext]_nodeVars
  <2>1. Runs(task[t], task'[t])
    BY <1>1, <1>2, NodeStepType, StatementRuns DEF RouteTypeOK
  <2> QED BY <2>1 DEF Runs
<1>3. ASSUME NEW c \in Client, NEW op \in Op, NEW n \in Node, NEW u \in Task,
             Accept(c, op, n, u)
      PROVE  FALSE
  BY <1>3 DEF Accept, vars
<1>4. ASSUME NEW c \in Client, Written(c)
      PROVE  \/ task'[t].state \in {"canceled", "deleted"}
             \/ /\ task[t].state = "failed" /\ task'[t].state = "active"
                /\ task'[t].runs = 0 /\ task'[t].next = 0
  <2>1. req[c].task = t /\ ~req[c].wrote
    BY <1>4 DEF Written, WroteOne
  <2>2. req[c].op \notin {"pause", "resume"}
    <3>1. ASSUME req[c].op \in {"pause", "resume"} PROVE req'[c].wrote \/ req'[c] = NoRequest
      <4>1. req[c] \in Request
        BY <3>1, RequestType DEF Endpoint
      <4> QED BY <1>4, <4>1 DEF Written, WroteOne, Request
    <3>2. ASSUME req[c].op \in {"pause", "resume"} PROVE req'[c] # req[c]
      BY <2>1, <3>1, <3>2, RoutesAssumption DEF NoRequest, Endpoint
    <3> QED BY <2>1, <3>2 DEF OwnerWrites
  <2>3. task'[t] \in {Canceled(task[t]), Replayed(task[t]), RunRecorded(task[t]),
                      Deleted(task[t])}
    BY <1>4, <2>1, <2>2 DEF Written, WroteOne
  <2>4. RunRecorded(task[t]).state = task[t].state
    BY <1>1 DEF RunRecorded, Row
  <2>5. task'[t] = Replayed(task[t]) => task[t].state = "failed"
    BY DEF Replayed
  <2> QED BY <1>1, <2>3, <2>4, <2>5, WrittenRows
<1>5. ASSUME NEW c \in Client, TurnToEngine(c) \/ RequestFails(c) PROVE FALSE
  BY <1>5, RequestEnds DEF vars
<1> QED BY <1>2, <1>3, <1>4, <1>5, RouteSteps, WrittenEffect DEF NodeMoves

(***************************************************************************)
(* Cancel is final: the end of a run, a heartbeat, a restart, a trigger or *)
(* a replay never brings a canceled task back; only a pause or resume can  *)
(* that was accepted before the cancel was written.                        *)
(***************************************************************************)
THEOREM CancelsHold == RouteSpec => CancelIsFinal
<1> DEFINE Final(t) == task[t].state = "canceled"
                         => task'[t].state \in {"canceled", "deleted"} \/ OwnerWrites(t)
<1>1. ASSUME RouteKept, [RouteNext]_routeVars, NEW t \in Task PROVE Final(t)
  <2>1. task[t].state = "canceled" => task[t].owner = NULL
    BY <1>1 DEF RouteKept, RouteInv, CanceledIsInert
  <2> QED BY <1>1, <2>1, StateChanges DEF RouteKept, RouteInv
<1>2. RouteKept /\ [RouteNext]_routeVars => [\A t \in Task : Final(t)]_routeVars
  BY <1>1
<1> QED BY <1>2, RouteInvariance, PTL DEF RouteSpec, CancelIsFinal

(***************************************************************************)
(* A failed task becomes active only by a resume or a pause, or by a       *)
(* replay, which starts its run_count anew and makes it due.               *)
(***************************************************************************)
THEOREM FailuresHold == RouteSpec => FailedIsFinal
<1> DEFINE Final(t) == task[t].state = "failed" /\ task'[t].state = "active"
                         => OwnerWrites(t) \/ (task'[t].runs = 0 /\ task'[t].next = 0)
<1>1. ASSUME RouteKept, [RouteNext]_routeVars, NEW t \in Task PROVE Final(t)
  BY <1>1, StateChanges DEF RouteKept, RouteInv
<1>2. RouteKept /\ [RouteNext]_routeVars => [\A t \in Task : Final(t)]_routeVars
  BY <1>1
<1> QED BY <1>2, RouteInvariance, PTL DEF RouteSpec, FailedIsFinal

-----------------------------------------------------------------------------
(* Leases and the coroutines that answer for them.                         *)

\* The lease is given up, or stays with its owner and comes nearer to its end.
Loosened(r, q) ==
    \/ q.owner = NULL
    \/ q.owner = r.owner /\ (q.left = r.left \/ (r.left \in Int /\ q.left = r.left - 1))

\* Only taking and extending a lease do more than loosen it.
LEMMA Loosening ==
    ASSUME NEW r \in Row
    PROVE  /\ Loosened(r, r) /\ Loosened(r, Reaped(r)) /\ Loosened(r, KeyStored(r))
           /\ Loosened(r, RunRecorded(r)) /\ Loosened(r, Aged(r))
           /\ \A n \in Node : Loosened(r, Released(r, n))
           /\ \A n, next, state : Loosened(r, Completed(r, n, next, state))
           /\ \A n \in Node : Acquired(r, n).owner = n
           /\ Extended(r).owner = r.owner
<1>1. Loosened(r, r)
  BY DEF Loosened
<1>2. Unleased(r).owner = NULL /\ Unleased(r) \in Row
  BY DEF Row, Unleased
<1>3. Loosened(r, Reaped(r)) /\ \A n \in Node : Loosened(r, Released(r, n))
  BY <1>1, <1>2 DEF Reaped, Released, Loosened
<1>4. Loosened(r, KeyStored(r)) /\ Loosened(r, RunRecorded(r))
  BY DEF Row, KeyStored, RunRecorded, Loosened
<1>5. Loosened(r, Aged(r))
  BY DEF Row, Aged, Loosened
<1>6. \A n, next, state : Loosened(r, Completed(r, n, next, state))
  BY <1>1, <1>2 DEF Completed, Row, Loosened
<1>7. (\A n \in Node : Acquired(r, n).owner = n) /\ Extended(r).owner = r.owner
  BY DEF Row, Acquired, Extended
<1> QED BY <1>1, <1>3, <1>4, <1>5, <1>6, <1>7

\* Who takes or extends a lease is a coroutine of the owner.
LEMMA LeaseSteps ==
    ASSUME NodeTypeOK, [NodeNext]_nodeVars, NEW t \in Task
    PROVE  \/ Loosened(task[t], task'[t])
           \/ \E n \in Node : task'[t].owner = n /\ Attended(n, t)'
           \/ task'[t].owner = task[t].owner /\ Attended(task[t].owner, t)
<1> DEFINE Loose == Loosened(task[t], task'[t])
<1>1. task \in [Task -> Row] /\ task[t] \in Row /\ TypeOK
  BY DEF NodeTypeOK, TypeOK
<1>2. ASSUME task' = task PROVE Loose
  BY <1>1, <1>2, Loosening
<1>3. ASSUME NEW u \in Task, NEW row, task' = [task EXCEPT ![u] = row],
             u = t => Loosened(task[t], row)
      PROVE  Loose
  BY <1>1, <1>3, Loosening
<1>4. ASSUME NEW n \in Node, NEW u \in Task, Claim(n, u)
      PROVE  Loose \/ (task'[t].owner = n /\ Attended(n, t)')
  <2>1. CASE CanAcquire(task[u], n) /\ u = t
    <3> DEFINE new == [Idle EXCEPT !.pc = "claimed", !.node = n, !.task = t,
                                   !.wait = Slack, !.awaited = TRUE]
    <3>1. PICK s \in Slot : run' = [run EXCEPT ![s] = new]
      BY <1>4, <2>1 DEF Claim
    <3>2. new.node = n /\ new.task = t
      BY DEF Idle
    <3> HIDE DEF new
    <3>3. run'[s].node = n /\ run'[s].task = t
      BY <1>1, <3>1, <3>2 DEF TypeOK
    <3>4. task'[t] = Acquired(task[t], n)
      BY <1>1, <1>4, <2>1 DEF Claim
    <3> QED BY <1>1, <3>3, <3>4, Loosening DEF Attended
  <2>2. CASE CanAcquire(task[u], n) /\ u # t
    BY <1>3, <1>4, <2>2 DEF Claim
  <2> QED BY <1>2, <1>4, <2>1, <2>2 DEF Claim
<1>5. ASSUME NEW n \in Node, ReapOrphans(n) PROVE Loose
  BY <1>1, <1>5, Loosening DEF ReapOrphans
<1>6. ASSUME NEW s \in Slot, NEW row, run[s].pc # "idle",
             task' = [task EXCEPT ![run[s].task] = row],
             run[s].task = t => Loosened(task[t], row)
      PROVE  Loose
  <2>1. run[s].task \in Task
    BY <1>1, <1>6, LiveType DEF LiveRun
  <2> QED BY <1>3, <1>6, <2>1
<1>7. ASSUME NEW s \in Slot, StartExecution(s) PROVE Loose
  BY <1>1, <1>6, <1>7, Loosening DEF StartExecution
<1>8. ASSUME NEW s \in Slot, Heartbeat(s)
      PROVE  Loose \/ (task'[t].owner = task[t].owner /\ Attended(task[t].owner, t))
  <2>1. run[s].pc # "idle" /\ run[s].task \in Task
    BY <1>1, <1>8, LiveType DEF Heartbeat, Working, LiveRun
  <2>2. CASE run[s].task = t /\ task' # task
    <3>1. task'[t] = Extended(task[t]) /\ run[s].node = task[t].owner
      BY <1>1, <1>8, <2>2 DEF Heartbeat, CanExtend
    <3> QED BY <1>1, <2>2, <3>1, Loosening DEF Attended
  <2>3. CASE run[s].task # t
    BY <1>2, <1>6, <1>8, <2>1, <2>3 DEF Heartbeat
  <2> QED BY <1>2, <2>2, <2>3
<1>9. ASSUME NEW s \in Slot, NEW out \in {"success", "failure"}, RecordRun(s, out)
      PROVE  Loose
  BY <1>1, <1>2, <1>6, <1>9, Loosening DEF RecordRun
<1>10. ASSUME NEW s \in Slot, WriteBack(s) PROVE Loose
  BY <1>1, <1>6, <1>10, Loosening DEF WriteBack
<1>11. CASE Tick
  BY <1>1, <1>11, Loosening DEF Tick
<1>12. ASSUME NEW n \in Node, NEW u \in Task, EngineFire(n, u)
       PROVE  Loose \/ (task'[t].owner = n /\ Attended(n, t)')
  <2> DEFINE new == [EngineIdle EXCEPT !.pc = "leased", !.task = u]
  <2>1. CASE u = t /\ task' = [task EXCEPT ![u] = Acquired(task[u], n)] /\ Moves(n, u, new)
    <3>1. new \in EngineRun /\ new.pc = "leased"
      BY DEF EngineRun, EngineIdle
    <3> HIDE DEF new
    <3>2. erun'[n][t] = new
      BY <2>1, <3>1, MovesType
    <3>3. task'[t] = Acquired(task[t], n)
      BY <1>1, <2>1
    <3> QED BY <1>1, <3>1, <3>2, <3>3, Loosening DEF Attended
  <2>2. CASE u # t
    BY <1>2, <1>3, <1>12, <2>2 DEF EngineFire
  <2> QED BY <1>2, <1>12, <2>1, <2>2 DEF EngineFire
<1>13. ASSUME NEW n \in Node, NEW u \in Task, EngineEnd(n, u) PROVE Loose
  <2>1. u = t => /\ Loosened(task[t], Released(task[u], n))
                 /\ \A next, state : Loosened(task[t], Completed(task[u], n, next, state))
    BY <1>1, Loosening
  <2> QED BY <1>3, <1>13, <2>1 DEF EngineEnd
<1>14. ASSUME NEW n \in Node, NEW u \in Task, EngineStart(n, u) PROVE Loose
  <2>1. u = t => Loosened(task[t], KeyStored(task[u])) /\ Loosened(task[t], task[u])
    BY <1>1, Loosening
  <2> QED BY <1>3, <1>14, <2>1 DEF EngineStart
<1>15. ASSUME NEW n \in Node, NEW u \in Task, NEW out, EngineRecord(n, u, out) PROVE Loose
  <2>1. u = t => Loosened(task[t], RunRecorded(task[u]))
    BY <1>1, Loosening
  <2> QED BY <1>2, <1>3, <1>15, <2>1 DEF EngineRecord
<1>16. ASSUME NEW n \in Node, NEW u \in Task, EngineStep(n, u)
       PROVE  Loose \/ (task'[t].owner = n /\ Attended(n, t)')
  BY <1>2, <1>12, <1>13, <1>14, <1>15, <1>16
     DEF EngineStep, EngineAdvance, EngineRead, EngineSkip, EngineReturn, EngineAbort,
         EngineJudge, EngineRaise, vars
<1>17. ASSUME NEW s \in Slot, RunStep(s)
       PROVE  Loose \/ (task'[t].owner = task[t].owner /\ Attended(task[t].owner, t))
  BY <1>2, <1>7, <1>8, <1>9, <1>10, <1>17
     DEF RunStep, Advance, SkipSeenKey, ReturnRun, AbortRun, Judge, Raise
<1>18. ASSUME NEW n \in Node, LoopStep(n) \/ ReapOrphans(n)
       PROVE  Loose \/ \E m \in Node : task'[t].owner = m /\ Attended(m, t)'
  BY <1>2, <1>4, <1>5, <1>18 DEF LoopStep, SelectDue, ClaimRaises, StartBatch, EndBatch
<1>19. CASE UNCHANGED task
  BY <1>2, <1>19
<1> QED
  BY <1>11, <1>16, <1>17, <1>18, <1>19, NodeSteps
     DEF Next, DispatchStep, Crash, Restart, vars

\* Unless a statement raises, a coroutine ends with its node, as it finds its task
\* canceled, or as it completes its lease.
LEMMA SlotEnds ==
    ASSUME "raise" \notin Faults, TypeOK, [Next]_vars, NEW s \in Slot, run[s].pc # "idle"
    PROVE  \/ run'[s].node = run[s].node /\ run'[s].task = run[s].task
           \/ Crash(run[s].node)
           \/ Judge(s) /\ task[run[s].task].state = "canceled"
           \/ WriteBack(s)
<1> DEFINE Same == run'[s].node = run[s].node /\ run'[s].task = run[s].task
           Ends == \/ Crash(run[s].node)
                   \/ Judge(s) /\ task[run[s].task].state = "canceled"
                   \/ WriteBack(s)
<1>1. run[s] \in LiveRun
  BY LiveType
<1>2. ASSUME run'[s] = run[s] PROVE Same
  BY <1>2
<1>3. ASSUME NEW x \in Slot, NEW r, run' = [run EXCEPT ![x] = r],
             x = s => r.node = run[s].node /\ r.task = run[s].task
      PROVE  Same
  BY <1>3 DEF TypeOK
<1>4. ASSUME NEW n \in Node, NEW t \in Task, Claim(n, t) PROVE Same
  <2>1. run'[s] = run[s]
    BY <1>4 DEF Claim, TypeOK
  <2> QED BY <1>2, <2>1
<1>5. ASSUME NEW n \in Node, StartBatch(n) PROVE Same
  BY <1>1, <1>5 DEF StartBatch, LiveRun
<1>6. ASSUME NEW x \in Slot,
             \/ SkipSeenKey(x) \/ StartExecution(x) \/ ReturnRun(x)
             \/ \E out \in {"success", "failure"} : RecordRun(x, out)
             \/ AbortRun(x) \/ Heartbeat(x)
      PROVE  Same
  BY <1>1, <1>3, <1>6
     DEF SkipSeenKey, StartExecution, ReturnRun, RecordRun, AbortRun, Heartbeat, LiveRun
<1>7. ASSUME NEW x \in Slot, Judge(x) PROVE Same \/ Ends
  <2>1. CASE x = s /\ task[run[s].task].state # "canceled"
    BY <1>1, <1>3, <1>7, <2>1 DEF Judge, LiveRun
  <2>2. CASE x # s
    BY <1>3, <1>7, <2>2 DEF Judge
  <2> QED BY <1>7, <2>1, <2>2
<1>8. ASSUME NEW x \in Slot, WriteBack(x) PROVE Same \/ Ends
  <2>1. CASE x # s
    BY <1>3, <1>8, <2>1 DEF WriteBack
  <2> QED BY <1>8, <2>1
<1>9. ASSUME NEW n \in Node, Crash(n) PROVE Same \/ Ends
  BY <1>9 DEF Crash
<1>10. CASE Tick
  <2> DEFINE later == [run[s] EXCEPT !.wait = run[s].wait - 1,
                                     !.next = Sooner(run[s].next)]
  <2>1. run'[s] = run[s] \/ run'[s] = later
    BY <1>10 DEF Tick
  <2>2. later.node = run[s].node /\ later.task = run[s].task
    BY <1>1 DEF LiveRun
  <2> QED BY <2>1, <2>2
<1>11. ASSUME UNCHANGED run PROVE Same
  BY <1>2, <1>11
<1>12. (\A n \in Node : ~ClaimRaises(n)) /\ (\A x \in Slot : ~Raise(x))
  BY DEF ClaimRaises, Raise
<1> QED
  BY <1>4, <1>5, <1>6, <1>7, <1>8, <1>9, <1>10, <1>11, <1>12
     DEF Next, DispatchStep, LoopStep, RunStep, Advance, SelectDue, EndBatch,
         ReapOrphans, Restart, vars

\* Unless a statement raises, a coroutine answers for a lease till it is given up or
\* its node goes down.
LEMMA AttendanceStays ==
    ASSUME "raise" \notin Faults, NodeTypeOK, CanceledIsInert, [NodeNext]_nodeVars,
           NEW n \in Node, NEW t \in Task, Attended(n, t),
           task[t].owner = n, task'[t].owner = n
    PROVE  Attended(n, t)' \/ ~Up(n)'
<1>1. n # NULL /\ task[t] \in Row /\ TypeOK
  BY StoreAssumption DEF NodeTypeOK, TypeOK
<1>2. ASSUME NEW m \in Node, Crash(m) PROVE m = n => ~Up(n)'
  BY <1>1, <1>2 DEF Crash, Up, TypeOK
<1>3. Unleased(task[t]).owner = NULL /\ Unleased(task[t]) \in Row
  BY <1>1 DEF Row, Unleased
<1>4. CASE erun[n][t].pc # "idle"
  <2>1. ASSUME EngineStep(n, t) PROVE erun'[n][t].pc # "idle"
    <3>1. erun[n][t] \in EngineRun
      BY <1>4, EngineLive
    <3>2. ~EngineEnd(n, t)
      <4>1. ASSUME EngineEnd(n, t) PROVE FALSE
        <5>1. task'[t].owner = NULL
          <6>1. Released(task[t], n).owner = NULL
            BY <1>3 DEF Released
          <6>2. \A next, state : Completed(task[t], n, next, state).owner = NULL
            BY <1>3 DEF Completed, Row
          <6> QED BY <1>1, <4>1, <6>1, <6>2 DEF EngineEnd, TypeOK
        <5> QED BY <1>1, <5>1
      <4> QED BY <4>1
    <3>4. ASSUME NEW r, r.pc # "idle", Moves(n, t, r) PROVE erun'[n][t].pc # "idle"
      BY <3>4 DEF Moves, NodeTypeOK
    <3>5. UNCHANGED erun => erun'[n][t].pc # "idle"
      BY <1>4
    <3>6. EngineFire(n, t) => UNCHANGED erun
      BY <1>4 DEF EngineFire
    <3>7. ASSUME \/ EngineStart(n, t) \/ EngineReturn(n, t) \/ EngineAbort(n, t)
                 \/ EngineRead(n, t) \/ EngineSkip(n, t)
                 \/ \E out \in {"success", "failure"} : EngineRecord(n, t, out)
          PROVE  erun'[n][t].pc # "idle"
      <4>1. CASE EngineStart(n, t) \/ EngineReturn(n, t) \/ EngineRead(n, t)
        <5>1. PICK pc \in EnginePc : Moves(n, t, [erun[n][t] EXCEPT !.pc = pc])
          BY <4>1 DEF EngineStart, EngineReturn, EngineRead, EnginePc
        <5> DEFINE r == [erun[n][t] EXCEPT !.pc = pc]
        <5>2. Moves(n, t, r) /\ r.pc # "idle"
          BY <3>1, <5>1 DEF EnginePc, EngineRun
        <5> HIDE DEF r
        <5> QED BY <3>4, <5>2
      <4>2. CASE EngineAbort(n, t) \/ \E out \in {"success", "failure"} : EngineRecord(n, t, out)
        <5>1. PICK pc \in EnginePc, out \in Result :
                 Moves(n, t, [erun[n][t] EXCEPT !.pc = pc, !.out = out])
          BY <4>2 DEF EngineAbort, EngineRecord, EnginePc, Result
        <5> DEFINE r == [erun[n][t] EXCEPT !.pc = pc, !.out = out]
        <5>2. Moves(n, t, r) /\ r.pc # "idle"
          BY <3>1, <5>1 DEF EnginePc, EngineRun
        <5> HIDE DEF r
        <5> QED BY <3>4, <5>2
      <4>3. CASE EngineSkip(n, t)
        <5> DEFINE r == [erun[n][t] EXCEPT !.pc = "writing", !.out = "skipped",
                                           !.next = NextFire(t)]
        <5>1. Moves(n, t, r) /\ r.pc # "idle"
          BY <3>1, <4>3 DEF EngineSkip, EngineRun
        <5> HIDE DEF r
        <5> QED BY <3>4, <5>1
      <4> QED BY <3>7, <4>1, <4>2, <4>3
    <3>8. ASSUME EngineJudge(n, t) PROVE erun'[n][t].pc # "idle"
      <4>1. PICK r : Moves(n, t, r) /\ r.pc # "idle"
        <5> DEFINE r1 == [erun[n][t] EXCEPT !.pc = "releasing"]
                   r2 == [erun[n][t] EXCEPT !.pc = "writing",
                            !.next = ScheduleAfter(erun[n][t], timer[n][t]),
                            !.fail = GivesUp(erun[n][t])]
        <5>1. Moves(n, t, r1) \/ Moves(n, t, r2)
          BY <3>8 DEF EngineJudge
        <5>2. r1.pc # "idle" /\ r2.pc # "idle"
          BY <3>1 DEF EngineRun
        <5> HIDE DEF r1, r2
        <5> QED BY <5>1, <5>2
      <4> QED BY <3>4, <4>1
    <3>9. ~EngineRaise(n, t)
      BY DEF EngineRaise
    <3> QED BY <2>1, <3>2, <3>5, <3>6, <3>7, <3>8, <3>9 DEF EngineStep, EngineAdvance
  <2>2. ASSUME NEW m \in Node, NEW u \in Task, EngineStep(m, u)
        PROVE  erun'[n][t].pc # "idle"
    BY <1>4, <2>1, <2>2, EngineStepEffect DEF EngineEffect
  <2>3. ASSUME NEW m \in Node, NodeCrash(m)
        PROVE  erun'[n][t].pc # "idle" \/ ~Up(n)'
    BY <1>2, <1>4, <2>3 DEF NodeCrash, NodeTypeOK
  <2>4. NodeTick => erun'[n][t].pc # "idle"
    BY <1>4, EngineAged
  <2>5. UNCHANGED erun => erun'[n][t].pc # "idle"
    BY <1>4
  <2> QED BY <2>2, <2>3, <2>4, <2>5 DEF NodeNext, NodeRestart, nodeVars, engineVars, Attended
<1>5. ASSUME NEW s \in Slot, run[s].node = n, run[s].task = t
      PROVE  Attended(n, t)' \/ ~Up(n)'
  <2>1. run[s].pc # "idle"
    BY <1>1, <1>5 DEF TypeOK, LiveRun, Idle
  <2>2. ASSUME [Next]_vars PROVE Attended(n, t)' \/ ~Up(n)'
    <3>1. ~(Judge(s) /\ task[run[s].task].state = "canceled")
      BY <1>1, <1>5 DEF CanceledIsInert
    <3>2. ~WriteBack(s)
      <4>1. \A next, state : Completed(task[t], n, next, state).owner = NULL
        BY <1>3 DEF Completed, Row
      <4>2. WriteBack(s) => task'[t].owner = NULL
        BY <1>1, <1>5, <4>1 DEF WriteBack, TypeOK
      <4> QED BY <1>1, <4>2
    <3>3. (run'[s].node = n /\ run'[s].task = t) \/ Crash(n)
      BY <1>1, <1>5, <2>1, <2>2, <3>1, <3>2, SlotEnds
    <3> QED BY <1>2, <3>3 DEF Attended
  <2>3. ASSUME NEW m \in Node, NEW u \in Task, EngineStep(m, u) PROVE Attended(n, t)'
    BY <1>5, <2>3, EngineStepEffect DEF EngineEffect, Attended
  <2> QED BY <2>2, <2>3, NodeSteps
<1> QED BY <1>4, <1>5 DEF Attended

\* Unless a statement raises, every step accounts for the leases of the nodes.
LEMMA LeasesKept ==
    ASSUME "raise" \notin Faults
    PROVE  RouteKept /\ NoForgottenLease /\ [RouteNext]_routeVars => NoForgottenLease'
<1> SUFFICES ASSUME RouteKept, NoForgottenLease, [RouteNext]_routeVars,
                    NEW n \in Node, NEW t \in Task, Up(n)', task'[t].owner = n
             PROVE  Attended(n, t)'
  BY DEF NoForgottenLease
<1>1. NodeTypeOK /\ TypeOK /\ RouteTypeOK /\ CanceledIsInert /\ LiveIsUp /\ LeasesEnd
  BY DEF RouteKept, RouteInv, RouteTypeOK, NodeTypeOK
<1>2. n # NULL /\ task[t] \in Row
  BY <1>1, StoreAssumption DEF TypeOK
<1>3. ASSUME [NodeNext]_nodeVars PROVE Attended(n, t)'
  <2>1. CASE task[t].owner = n
    <3>1. Up(n)
      <4>1. ASSUME [Next]_vars PROVE Up(n)
        <5>1. Up(n)' = Up(n) \/ Restart(n)
          BY <1>1, <4>1, LoopStays
        <5> QED BY <2>1, <5>1 DEF Restart
      <4>2. ASSUME NEW m \in Node, NEW u \in Task, EngineStep(m, u) PROVE Up(n)
        BY <1>1, <4>2, EngineStepEffect DEF EngineEffect, Up
      <4> QED BY <1>3, <4>1, <4>2, NodeSteps
    <3>2. Attended(n, t)
      BY <2>1, <3>1 DEF NoForgottenLease
    <3> QED BY <1>1, <1>3, <2>1, <3>2, AttendanceStays
  <2>2. CASE task[t].owner # n
    <3>1. ~Loosened(task[t], task'[t])
      BY <1>2, <2>2 DEF Loosened
    <3>2. PICK m \in Node : task'[t].owner = m /\ Attended(m, t)'
      BY <1>1, <1>3, <2>2, <3>1, LeaseSteps
    <3>3. m = n
      BY <3>2
    <3> QED BY <3>2, <3>3
  <2> QED BY <2>1, <2>2
<1>4. ASSUME UNCHANGED <<run, loop, erun>>, task[t].owner = n PROVE Attended(n, t)'
  BY <1>4 DEF NoForgottenLease, Attended, Up
<1>5. ASSUME NEW c \in Client, NEW op \in Op, NEW m \in Node, NEW u \in Task,
             Accept(c, op, m, u)
      PROVE  Attended(n, t)'
  BY <1>4, <1>5 DEF Accept, vars
<1>6. ASSUME NEW c \in Client, Written(c) PROVE Attended(n, t)'
  <2>1. UNCHANGED <<run, loop, erun>>
    BY <1>6 DEF Written, WroteOne
  <2>2. req[c].task # t => task'[t] = task[t]
    BY <1>6 DEF Written, WroteOne
  <2>3. CASE req[c].task = t
    <3> DEFINE row == task[t]
    <3> HIDE DEF row
    <3>1. \/ \E state \in {"paused", "active"} : task'[t] = StateSet(row, state)
          \/ task'[t] \in {Canceled(row), Replayed(row), RunRecorded(row), Deleted(row)}
      BY <1>6, <2>3 DEF Written, WroteOne, row
    <3>2. \A state \in {"paused", "active"} : StateSet(row, state).owner = row.owner
      BY <1>2 DEF StateSet, Row, row
    <3>3. Unleased(row).owner = NULL /\ Unleased(row) \in Row
      BY <1>2 DEF Row, Unleased, row
    <3>4. /\ Canceled(row).owner \in {row.owner, NULL}
          /\ Replayed(row).owner \in {row.owner, NULL}
          /\ Deleted(row).owner = NULL
      BY <3>3 DEF Canceled, Replayed, Deleted, Row
    <3>5. RunRecorded(row).owner = row.owner
      BY <1>2 DEF RunRecorded, Row, row
    <3>6. task'[t].owner \in {row.owner, NULL}
      BY <3>1, <3>2, <3>4, <3>5
    <3> QED BY <1>2, <1>4, <2>1, <3>6 DEF row
  <2> QED BY <1>4, <2>1, <2>2, <2>3
<1>7. ASSUME NEW c \in Client, TurnToEngine(c) \/ RequestFails(c) PROVE Attended(n, t)'
  BY <1>1, <1>4, <1>7, RequestEnds DEF vars
<1> QED BY <1>1, <1>3, <1>5, <1>6, <1>7, RouteSteps, WrittenEffect DEF NodeMoves

(***************************************************************************)
(* While no statement of a coroutine raises, no lease is forgotten: on     *)
(* every early return of the dispatcher and the engine, and whatever the   *)
(* endpoints do meanwhile, the lease of a node that is up has a coroutine  *)
(* of that node which is still to give it up.                              *)
(***************************************************************************)
THEOREM LeasesAnsweredFor ==
    ASSUME "raise" \notin Faults
    PROVE  RouteSpec => []NoForgottenLease
<1>1. RouteInit => NoForgottenLease
  BY RouteStart, StoreAssumption
     DEF RouteInit, NodeInit, Init, NoForgottenLease, Created
<1>2. RouteKept /\ NoForgottenLease /\ [RouteNext]_routeVars => NoForgottenLease'
  BY LeasesKept
<1> QED BY <1>1, <1>2, RouteInvariance, PTL DEF RouteSpec

\* What a node alone keeps of the above.
NodeKept == NodeTypeOK /\ LeasesEnd

\* Every reachable state of a node without endpoints.
LEMMA NodeInvariance == NodeSpec => []NodeKept
<1>1. NodeInit => NodeKept
  <2> SUFFICES ASSUME NodeInit PROVE NodeKept
    OBVIOUS
  <2>1. Period \in Nat
    BY DispatcherAssumption
  <2>2. ASSUME NEW t \in Task PROVE task[t] \in Row /\ task[t].owner = NULL
    <3>1. task[t] = Created(Period, t \in Keyed)
      BY DEF NodeInit, Init
    <3> QED BY <2>1, <3>1 DEF Created, Row, TaskState
  <2>3. TypeOK
    BY <2>2 DEF NodeInit, Init, TypeOK
  <2> QED BY <2>1, <2>2, <2>3 DEF NodeInit, NodeTypeOK, LeasesEnd, NodeKept
<1>2. ASSUME NodeKept, [NodeNext]_nodeVars PROVE NodeKept'
  <2>1. NodeTypeOK' /\ \A t \in Task : Statement(task[t], task'[t])
    BY <1>2, NodeStepType DEF NodeKept
  <2>2. \A t \in Task : Runs(task[t], task'[t])
    BY <1>2, <2>1, StatementRuns DEF NodeKept, NodeTypeOK, TypeOK
  <2>3. LeasesEnd'
    BY <1>2, <2>2 DEF NodeKept, LeasesEnd, Runs
  <2> QED BY <2>1, <2>3 DEF NodeKept
<1>3. NodeKept /\ [NodeNext]_nodeVars => NodeKept'
  BY <1>2
<1> QED BY <1>1, <1>3, PTL DEF NodeSpec

(***************************************************************************)
(* A lease that a raising statement leaves behind is put off by nobody: no *)
(* heartbeat of another coroutine extends it, so time frees the task.      *)
(***************************************************************************)
THEOREM ForgottenLeasesRunOut == NodeSpec => ForgottenLeaseRunsOut
<1> DEFINE RunsDown(n, t) ==
      /\ Up(n) /\ task[t].owner = n /\ ~Attended(n, t)
      /\ task'[t].owner = n /\ ~Attended(n, t)'
      => task'[t].left <= task[t].left
<1>1. ASSUME NodeKept, [NodeNext]_nodeVars, NEW n \in Node, NEW t \in Task
      PROVE  RunsDown(n, t)
  <2> SUFFICES ASSUME task[t].owner = n, ~Attended(n, t), task'[t].owner = n, ~Attended(n, t)'
               PROVE  task'[t].left <= task[t].left
    OBVIOUS
  <2>1. n # NULL /\ task[t] \in Row
    BY <1>1, StoreAssumption DEF NodeKept, NodeTypeOK, TypeOK
  <2>2. task[t].left \in Int
    BY <1>1, <2>1 DEF NodeKept, LeasesEnd, Row
  <2>3. ASSUME NEW m \in Node, task'[t].owner = m, Attended(m, t)' PROVE FALSE
    <3>1. m = n
      BY <2>3
    <3> QED BY <2>3, <3>1
  <2>4. Loosened(task[t], task'[t])
    BY <1>1, <2>3, LeaseSteps DEF NodeKept
  <2> QED BY <2>1, <2>2, <2>4 DEF Loosened
<1>2. NodeKept /\ [NodeNext]_nodeVars
        => [\A n \in Node, t \in Task : RunsDown(n, t)]_nodeVars
  BY <1>1
<1> QED BY <1>2, NodeInvariance, PTL DEF NodeSpec, ForgottenLeaseRunsOut
=============================================================================
