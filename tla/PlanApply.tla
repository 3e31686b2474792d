----------------------------- MODULE PlanApply -----------------------------
(***************************************************************************)
(* Applying a plan (cognix/planner/service.py): PlannerService executes    *)
(* the steps of a confirmed plan in dependency order, triggers the tasks   *)
(* that run once, asks a human where input is missing, and goes on when    *)
(* the answer comes.                                                       *)
(*                                                                         *)
(* The plan is a JSON file.  Every operation loads the whole plan, works   *)
(* on its own copy and writes the whole copy back, so two operations that  *)
(* overlap overwrite each other.  Code between two awaits is atomic: an    *)
(* actor whose pc is in Sync has not reached its next await, and nobody    *)
(* else moves (MayRun).                                                    *)
(*                                                                         *)
(* Step kinds: "config" (install_skill, configure_mcp), "create"           *)
(* (create_agent, code projects, a recurring create_task), "once" (a task  *)
(* or a browser run that is executed at once), "ask" (request_input).      *)
(***************************************************************************)
EXTENDS Approvals, Sequences, FiniteSets

CONSTANTS
    Actor,        \* HTTP requests being served
    Steps,        \* the steps of the plan, in the order of the plan
    Planned,      \* [step -> kind] that the model proposes
    Graphs,       \* dependency relations: [step -> sequence of steps]
    MaxConfirms,  \* bound: confirm_plan is called this often
    MaxFaults     \* bound: crashes and failures of the database

Step == {Steps[i] : i \in DOMAIN Steps}

StepStatus == {"pending", "executing", "completed", "failed", "needs_input"}

PlanStatus ==
    {"proposed", "confirmed", "rejected", "executing", "applied", "needs_input", "failed"}

ActionName == {"config", "create", "once", "ask"}

Plan == [status : PlanStatus, steps : [Step -> StepStatus], actions : [Step -> ActionName]]

ASSUME PlanAssumption ==
    /\ NULL \notin Step /\ NULL \notin Plan /\ Steps \in Seq(Step)
    /\ Planned \in [Step -> ActionName \cup {"browser without url"}]
    /\ Graphs \subseteq [Step -> Seq(Step)]
    /\ MaxConfirms \in Nat /\ MaxFaults \in Nat

VARIABLES
    dependsOn,    \* [Step -> Seq(Step)], the depends_on of the plan's steps
    plan,         \* the file: [status, steps, actions], steps = step_statuses
    request,      \* the approvals file
    answered,     \* requests whose response is not empty
    row,          \* [Step -> state of the scheduled task of the step]
    actor,        \* [Actor -> coroutine]
    confirms,     \* history: calls of confirm_plan ...
    applies,      \* ... and apply_plans that began
    unsettled,    \* history: steps of which a row could not be finalised
    broken        \* history: a crash, or an exception nobody caught

vars == <<dependsOn, plan, request, answered, row, actor, confirms, applies, unsettled, broken>>

Idle == [pc |-> "idle", plan |-> NULL, visited |-> {}, stack |-> <<>>, todo |-> <<>>,
         tasks |-> <<>>, failed |-> {}, asked |-> FALSE, req |-> NULL]

\* _normalize_plan_json: a browser run that has no URL asks for one.
Proposed ==
    [s \in Step |-> IF Planned[s] = "browser without url" THEN "ask" ELSE Planned[s]]

Sync == {"sorting", "stepping", "dispatching"}

MayRun(a) == \A b \in Actor \ {a} : actor[b].pc \notin Sync

\* A call of _visit on the stack of _sort_steps, with the ids that it still has to visit;
\* the loop over all steps stands at the bottom, as the call that is for no step.
Frame(s, ids) == [step |-> s, ids |-> ids]

Init ==
    /\ dependsOn \in Graphs
    /\ plan = [status |-> "proposed", steps |-> [s \in Step |-> "pending"],
                actions |-> Proposed]
    /\ request = [q \in Req |-> NoRequest] /\ answered = {}
    /\ row = [s \in Step |-> "none"]
    /\ actor = [a \in Actor |-> Idle]
    /\ confirms = 0 /\ applies = 0 /\ unsettled = {} /\ broken = FALSE

(***************************************************************************)
(* confirm_plan and reject_plan write over any status.                     *)
(***************************************************************************)
ConfirmPlan(a) ==
    /\ MayRun(a) /\ actor[a] = Idle /\ confirms < MaxConfirms
    /\ plan' = [plan EXCEPT !.status = "confirmed"]
    /\ confirms' = confirms + 1
    /\ UNCHANGED <<dependsOn, request, answered, row, actor, applies, unsettled, broken>>

RejectPlan(a) ==
    /\ MayRun(a) /\ actor[a] = Idle
    /\ plan' = [plan EXCEPT !.status = "rejected"]
    /\ UNCHANGED <<dependsOn, request, answered, row, actor, confirms, applies, unsettled, broken>>

(***************************************************************************)
(* apply_plan: load, check, sort, and save the plan as executing, without  *)
(* an await in between.                                                    *)
(***************************************************************************)
ApplicableAgain(p) == p.status \in {"confirmed", "failed"}  \* a wrong form

Applicable(p) == p.status = "confirmed"

ApplyBegins(a) ==
    /\ MayRun(a) /\ actor[a] = Idle /\ Applicable(plan)
    /\ actor' = [actor EXCEPT ![a] =
                    [Idle EXCEPT !.pc = "sorting", !.stack = <<Frame(NULL, Steps)>>]]
    /\ UNCHANGED <<dependsOn, plan, request, answered, row, confirms, applies, unsettled, broken>>

(***************************************************************************)
(* _sort_steps: depth first along depends_on.  A step is put into the      *)
(* result, which is "todo", when the call for it returns.  The last loop   *)
(* of _sort_steps finds no step that has not been visited.  An id that no  *)
(* step has is visited, but neither sorted nor ever failed, and is left    *)
(* out of the graphs.                                                      *)
(***************************************************************************)
VisitedFlat(c, s) ==                                        \* a wrong form
    [c EXCEPT !.visited = @ \cup {s}, !.stack = Append(@, Frame(s, <<>>))]

Visited(c, s) ==
    [c EXCEPT !.visited = @ \cup {s}, !.stack = Append(@, Frame(s, dependsOn[s]))]

Top(c) == c.stack[Len(c.stack)]

Visit(a) ==
    LET c == actor[a]  s == Head(Top(c).ids)
        next == [c EXCEPT !.stack[Len(c.stack)].ids = Tail(@)]
    IN  /\ c.pc = "sorting" /\ c.stack # <<>> /\ Top(c).ids # <<>>
        /\ actor' = [actor EXCEPT ![a] = IF s \in c.visited THEN next ELSE Visited(next, s)]
        /\ UNCHANGED <<dependsOn, plan, request, answered, row, confirms, applies, unsettled, broken>>

VisitReturns(a) ==
    LET c == actor[a]
    IN  /\ c.pc = "sorting" /\ c.stack # <<>> /\ Top(c).ids = <<>>
        /\ actor' = [actor EXCEPT ![a] =
              [c EXCEPT !.stack = SubSeq(@, 1, Len(@) - 1),
                        !.todo = IF Top(c).step = NULL THEN @ ELSE Append(@, Top(c).step)]]
        /\ UNCHANGED <<dependsOn, plan, request, answered, row, confirms, applies, unsettled, broken>>

StepsSorted(a) ==
    LET c == actor[a]
    IN  /\ c.pc = "sorting" /\ c.stack = <<>>
        /\ plan' = [plan EXCEPT !.status = "executing", !.steps = [s \in Step |-> "pending"]]
        /\ actor' = [actor EXCEPT ![a] =
              [c EXCEPT !.pc = "stepping", !.plan = plan', !.visited = {}]]
        /\ applies' = applies + 1
        /\ UNCHANGED <<dependsOn, request, answered, row, confirms, unsettled, broken>>

SetStep(p, s, status) == [p EXCEPT !.steps[s] = status]

\* _apply_create_task: the row of a task that runs once has no next run.
TaskCreated(c, s) == IF c.plan.actions[s] = "once" THEN [row EXCEPT ![s] = "active"] ELSE row

\* A step that failed, in the copy and in the list of failed steps.
Failing(c, s) == [c EXCEPT !.plan = SetStep(@, s, "failed"), !.failed = @ \cup {s}]

FailedDepsIgnored(c, s) == {}                               \* a wrong form

FailedDeps(c, s) == {i \in DOMAIN dependsOn[s] : dependsOn[s][i] \in c.failed}

\* A dependency has failed: so does the step.
SkipStep(a) ==
    LET c == actor[a]  s == Head(c.todo)  next == Failing(c, s)
    IN  /\ c.pc = "stepping" /\ c.todo # <<>> /\ FailedDeps(c, s) # {}
        /\ actor' = [actor EXCEPT ![a] = [next EXCEPT !.todo = Tail(@)]]
        /\ plan' = next.plan
        /\ UNCHANGED <<dependsOn, request, answered, row, confirms, applies, unsettled, broken>>

\* A step whose work is awaited is saved as executing first.
BeginStep(a) ==
    LET c == actor[a]  s == Head(c.todo)
    IN  /\ c.pc = "stepping" /\ c.todo # <<>> /\ FailedDeps(c, s) = {}
        /\ c.plan.actions[s] \in {"create", "once"}
        /\ plan' = SetStep(c.plan, s, "executing")
        /\ actor' = [actor EXCEPT ![a] = [c EXCEPT !.pc = "acting", !.plan = plan']]
        /\ UNCHANGED <<dependsOn, request, answered, row, confirms, applies, unsettled, broken>>

(***************************************************************************)
(* The await returns, or raises: the row is there, and the task remembered *)
(* to be triggered.                                                        *)
(***************************************************************************)
EndStep(a) ==
    LET c == actor[a]  s == Head(c.todo)
        done == [c EXCEPT !.plan = SetStep(@, s, "completed"),
                          !.tasks = IF c.plan.actions[s] = "once" THEN Append(@, s) ELSE @]
        next(d) == [d EXCEPT !.pc = "stepping", !.todo = Tail(@)]
    IN  /\ MayRun(a) /\ c.pc = "acting"
        /\ \/ /\ actor' = [actor EXCEPT ![a] = next(done)]
              /\ row' = TaskCreated(c, s)
           \/ actor' = [actor EXCEPT ![a] = next(Failing(c, s))] /\ UNCHANGED row
        /\ plan' = actor'[a].plan
        /\ UNCHANGED <<dependsOn, request, answered, confirms, applies, unsettled, broken>>

\* install_skill and configure_mcp only write the workspace's files.
ConfigStep(a) ==
    LET c == actor[a]  s == Head(c.todo)
    IN  /\ c.pc = "stepping" /\ c.todo # <<>> /\ FailedDeps(c, s) = {}
        /\ c.plan.actions[s] = "config"
        /\ \E next \in {Failing(c, s), [c EXCEPT !.plan = SetStep(@, s, "completed")]} :
              /\ actor' = [actor EXCEPT ![a] = [next EXCEPT !.todo = Tail(@)]]
              /\ plan' = next.plan
        /\ UNCHANGED <<dependsOn, request, answered, row, confirms, applies, unsettled, broken>>

\* The id of a request that is filed: which of the free ones it is makes no difference.
Fresh == {CHOOSE q \in Unused(request) : TRUE}

(***************************************************************************)
(* request_input: _create_plan_input_approval; the loop goes on without a  *)
(* save.  What depends on the answer is not held back.                     *)
(***************************************************************************)
AskStep(a) ==
    LET c == actor[a]  s == Head(c.todo)
    IN  /\ c.pc = "stepping" /\ c.todo # <<>> /\ FailedDeps(c, s) = {}
        /\ c.plan.actions[s] = "ask"
        /\ IF Unused(request) = {}
             THEN /\ actor' = [actor EXCEPT ![a] = [Failing(c, s) EXCEPT !.todo = Tail(@)]]
                  /\ plan' = Failing(c, s).plan /\ UNCHANGED request
             ELSE /\ \E q \in Fresh :
                        request' = [request EXCEPT ![q] =
                            Created("plan_apply", [step |-> s, asks |-> "input"])]
                  /\ plan' = SetStep(c.plan, s, "executing")
                  /\ actor' = [actor EXCEPT ![a] =
                        [c EXCEPT !.plan = SetStep(@, s, "needs_input"), !.asked = TRUE,
                                  !.todo = Tail(@)]]
        /\ UNCHANGED <<dependsOn, answered, row, confirms, applies, unsettled, broken>>

StepsDone(a) ==
    /\ actor[a].pc = "stepping" /\ actor[a].todo = <<>>
    /\ actor' = [actor EXCEPT ![a].pc = "dispatching"]
    /\ UNCHANGED <<dependsOn, plan, request, answered, row, confirms, applies, unsettled, broken>>

(***************************************************************************)
(* The tasks that run once are triggered and awaited one by one.           *)
(***************************************************************************)
TriggerTask(a) ==
    LET c == actor[a]
    IN  /\ c.pc = "dispatching" /\ c.tasks # <<>>
        /\ plan' = SetStep(c.plan, Head(c.tasks), "executing")
        /\ actor' = [actor EXCEPT ![a] = [c EXCEPT !.pc = "triggering", !.plan = plan']]
        /\ UNCHANGED <<dependsOn, request, answered, row, confirms, applies, unsettled, broken>>

(***************************************************************************)
(* _finalize_once_task: the row will not be scheduled again - unless the   *)
(* database fails: the exception is logged and dropped, and the row stays  *)
(* active.                                                                 *)
(***************************************************************************)
FinalizedNot(outcome) == "active"                           \* a wrong form

Finalized(outcome) == IF outcome = "failed" THEN "failed" ELSE "completed"

MayFail == Cardinality(unsettled) + (IF broken THEN 1 ELSE 0) < MaxFaults

FinalizeTask(s, outcome) ==
    \/ row' = [row EXCEPT ![s] = Finalized(outcome)] /\ UNCHANGED unsettled
    \/ MayFail /\ unsettled' = unsettled \cup {s} /\ UNCHANGED row

\* _create_question_approval; no question is filed if the file cannot be written.
Asking(s) ==
    IF Unused(request) = {} THEN UNCHANGED request
    ELSE \E q \in Fresh :
            request' = [request EXCEPT ![q] =
                Created("plan_apply", [step |-> s, asks |-> "followup"])]

Outcome == {"failed", "ok", "asks", "blocked"}

Bad(outcome) == outcome \in {"failed", "blocked"}

TaskEnds(a, outcome) ==
    LET c == actor[a]  s == Head(c.tasks)
        next == IF Bad(outcome) THEN Failing(c, s)
                ELSE [c EXCEPT !.plan = SetStep(@, s, "completed"),
                               !.asked = @ \/ (outcome = "asks" /\ Unused(request) # {})]
    IN  /\ MayRun(a) /\ c.pc = "triggering"
        /\ FinalizeTask(s, outcome)
        /\ IF outcome = "asks" THEN Asking(s) ELSE UNCHANGED request
        /\ actor' = [actor EXCEPT ![a] = [next EXCEPT !.pc = "dispatching", !.tasks = Tail(@)]]
        /\ plan' = next.plan
        /\ UNCHANGED <<dependsOn, answered, confirms, applies, broken>>

VerdictHopeful(c) == IF c.asked THEN "needs_input" ELSE "applied"   \* a wrong form

VerdictKept(c) == c.plan.status                             \* a wrong form

Verdict(c) ==
    IF c.failed # {} THEN "failed" ELSE IF c.asked THEN "needs_input" ELSE "applied"

ApplyEnds(a) ==
    LET c == actor[a]
    IN  /\ c.pc = "dispatching" /\ c.tasks = <<>>
        /\ plan' = [c.plan EXCEPT !.status = Verdict(c)]
        /\ actor' = [actor EXCEPT ![a] = Idle]
        /\ UNCHANGED <<dependsOn, request, answered, row, confirms, applies, unsettled, broken>>

(***************************************************************************)
(* Answers.  Approving says nothing; respond carries the text that the     *)
(* planner needs.  A rejection is not a step of its own: all it does is to *)
(* keep a request from being resumed until it is answered again, and here  *)
(* an answered request may always be resumed later, or never.  The list    *)
(* endpoint closes questions that are really about a missing browser       *)
(* (complete_capability_blocked_questions).                                *)
(***************************************************************************)
Answer(q) ==
    /\ \A b \in Actor : actor[b].pc \notin Sync
    /\ q \in Stored(request) /\ answered' = answered \cup {q}
    /\ request' = [request EXCEPT ![q] = Responded(@)]
    /\ UNCHANGED <<dependsOn, plan, row, actor, confirms, applies, unsettled, broken>>

CloseBlocked(q) ==
    /\ \A b \in Actor : actor[b].pc \notin Sync
    /\ request[q].status = "pending"
    /\ request' = [request EXCEPT ![q] = Completed(@)]
    /\ UNCHANGED <<dependsOn, plan, answered, row, actor, confirms, applies, unsettled, broken>>

(***************************************************************************)
(* resume_plan_approval: an answered request that is approved, or even     *)
(* completed.  Of a follow-up, the plan is loaded, the row is made active  *)
(* in a transaction that is awaited, and only then the plan is saved.      *)
(***************************************************************************)
Resumes(a, q, asks) ==
    /\ MayRun(a) /\ actor[a] = Idle
    /\ q \in answered /\ request[q].status \in {"approved", "completed"}
    /\ request[q].work.asks = asks

ResumeTask(a, q) ==
    /\ Resumes(a, q, "followup")
    /\ actor' = [actor EXCEPT ![a] = [Idle EXCEPT !.pc = "loaded", !.plan = plan, !.req = q]]
    /\ UNCHANGED <<dependsOn, plan, request, answered, row, confirms, applies, unsettled, broken>>

ResumeTriggers(a) ==
    LET c == actor[a]  s == request[c.req].work.step
    IN  /\ MayRun(a) /\ c.pc = "loaded"
        /\ row' = [row EXCEPT ![s] = "active"]
        /\ plan' = [SetStep(c.plan, s, "executing") EXCEPT !.status = "executing"]
        /\ actor' = [actor EXCEPT ![a] = [c EXCEPT !.pc = "resumed", !.plan = plan']]
        /\ UNCHANGED <<dependsOn, request, answered, confirms, applies, unsettled, broken>>

\* _resume_missing_input_approval: the step becomes a browser run with the URL of the
\* answer, and the plan is saved as executing at once; then the task is created and run.
AsTask(p, s) ==
    [SetStep(p, s, "executing") EXCEPT !.status = "executing", !.actions[s] = "once"]

ResumeInput(a, q) ==
    LET s == request[q].work.step
    IN  /\ Resumes(a, q, "input")
        /\ plan' = AsTask(plan, s)
        /\ actor' = [actor EXCEPT ![a] =
                        [Idle EXCEPT !.pc = "creating", !.plan = plan', !.req = q]]
        /\ UNCHANGED <<dependsOn, request, answered, row, confirms, applies, unsettled, broken>>

ResumeCreates(a) ==
    LET c == actor[a]
    IN  /\ MayRun(a) /\ c.pc = "creating"
        /\ row' = [row EXCEPT ![request[c.req].work.step] = "active"]
        /\ actor' = [actor EXCEPT ![a].pc = "resumed"]
        /\ UNCHANGED <<dependsOn, plan, request, answered, confirms, applies, unsettled, broken>>

\* The resumed task decides the status of the whole plan.
PlanAfter(p, s, outcome) ==
    [SetStep(p, s, IF Bad(outcome) THEN "failed" ELSE "completed") EXCEPT !.status =
        CASE Bad(outcome)      -> "failed"
          [] outcome = "asks"  -> "needs_input"
          [] OTHER             -> "applied"]

ResumeEnds(a, outcome) ==
    LET c == actor[a]  s == request[c.req].work.step
        done(reqs) == [reqs EXCEPT ![c.req] = Completed(@)]
    IN  /\ MayRun(a) /\ c.pc = "resumed"
        /\ FinalizeTask(s, outcome)
        /\ IF outcome = "asks" /\ Unused(request) # {}
             THEN \E q \in Fresh :
                     request' = done([request EXCEPT ![q] =
                         Created("plan_apply", [step |-> s, asks |-> "followup"])])
             ELSE request' = done(request)
        /\ plan' = PlanAfter(c.plan, s, outcome)
        /\ actor' = [actor EXCEPT ![a] = Idle]
        /\ UNCHANGED <<dependsOn, answered, confirms, applies, broken>>

(***************************************************************************)
(* A crash of the server, or an exception that nobody catches: of the      *)
(* database, while a task is looked up, its artifact stored, or the task   *)
(* of an answer read or created.  The row may have been finalised before.  *)
(***************************************************************************)
Running(c) ==
    CASE c.pc = "triggering" -> {Head(c.tasks)}
      [] c.pc = "resumed"    -> {request[c.req].work.step}
      [] OTHER               -> {}

Breaks(a) ==
    /\ actor[a].pc \in {"acting", "triggering", "loaded", "creating", "resumed"}
    /\ MayRun(a) /\ MayFail
    /\ \/ UNCHANGED row
       \/ \E s \in Running(actor[a]), outcome \in Outcome :
             row' = [row EXCEPT ![s] = Finalized(outcome)]
    /\ actor' = [actor EXCEPT ![a] = Idle]
    /\ broken' = TRUE
    /\ UNCHANGED <<dependsOn, plan, request, answered, confirms, applies, unsettled>>

\* What a coroutine does between two awaits ...
RunsOn(a) ==
    \/ Visit(a) \/ VisitReturns(a) \/ StepsSorted(a)
    \/ SkipStep(a) \/ BeginStep(a) \/ ConfigStep(a) \/ AskStep(a)
    \/ StepsDone(a) \/ TriggerTask(a) \/ ApplyEnds(a)

\* ... and when an await has returned.
AwaitReturns(a) ==
    \/ EndStep(a) \/ ResumeTriggers(a) \/ ResumeCreates(a)
    \/ \E outcome \in Outcome : TaskEnds(a, outcome) \/ ResumeEnds(a, outcome)

Next ==
    \/ \E a \in Actor :
          \/ ConfirmPlan(a) \/ RejectPlan(a) \/ ApplyBegins(a)
          \/ RunsOn(a) \/ AwaitReturns(a) \/ Breaks(a)
          \/ \E q \in Req : ResumeTask(a, q) \/ ResumeInput(a, q)
    \/ \E q \in Req : Answer(q) \/ CloseBlocked(q)

Spec == Init /\ [][Next]_vars

(***************************************************************************)
(* The event loop runs a coroutine on to its next await.  Nothing is       *)
(* assumed of the awaits: no time-out stands over the execution of a task  *)
(* that apply_plan or resume_plan_approval triggers, nor over the creation *)
(* of what a step needs.                                                   *)
(***************************************************************************)
FairSpec == Spec /\ \A a \in Actor : WF_vars(RunsOn(a))

-----------------------------------------------------------------------------
(* Every variable has its type; an apply_plan lists the steps that failed. *)
PlanTypeOK ==
    /\ plan \in Plan
    /\ \A q \in Stored(request) :
          /\ request[q].status \in {"pending", "approved", "completed"}
          /\ request[q].work \in [step : Step, asks : {"input", "followup"}]
    /\ answered \subseteq Stored(request)
    /\ row \in [Step -> {"none", "active", "completed", "failed"}] /\ unsettled \subseteq Step
    /\ \A a \in Actor :
          /\ actor[a].plan \in Plan \cup {NULL}
          /\ actor[a].req \in Stored(request) \cup {NULL}
          /\ actor[a].plan # NULL /\ actor[a].req = NULL =>
                actor[a].failed = {s \in Step : actor[a].plan.steps[s] = "failed"}
    /\ \A a, b \in Actor : actor[a].pc \in Sync /\ actor[b].pc \in Sync => a = b

(***************************************************************************)
(* "Topological sort: ensures create_agent runs before create_task that    *)
(* depends on it": while the steps are being executed, one that was        *)
(* executed has only dependencies that were executed before it and did not *)
(* fail, whatever the order of the plan (if its graph has no cycle).       *)
(***************************************************************************)
DepsOf(s) == {dependsOn[s][i] : i \in DOMAIN dependsOn[s]}

Acyclic ==
    \A S \in SUBSET Step : S # {} => \E s \in S : DepsOf(s) \cap S = {}

DependentsFollow ==
    Acyclic => \A a \in Actor : actor[a].pc \in {"stepping", "acting"} /\ actor[a].req = NULL =>
        \A s \in Step : actor[a].plan.steps[s] \in {"executing", "completed", "needs_input"} =>
            \A d \in DepsOf(s) : actor[a].plan.steps[d] \in {"completed", "needs_input"}

(***************************************************************************)
(* apply_plan implements OrderedExecution: a coroutine that goes through   *)
(* the steps and the tasks has the statuses of its own copy of the plan,   *)
(* and the tasks that it is still to trigger.  In a graph that has a cycle *)
(* the order promises nothing.                                             *)
(***************************************************************************)
Applying(c) == c.plan # NULL /\ c.req = NULL

WorkOf(c) ==
    IF Applying(c)
      THEN [status |-> c.plan.steps, due |-> {c.tasks[i] : i \in DOMAIN c.tasks}]
      ELSE [status |-> [s \in Step |-> "pending"], due |-> {}]

Turns == INSTANCE OrderedExecution
    WITH Worker <- Actor,
         needs <- IF Acyclic THEN [s \in Step |-> DepsOf(s)] ELSE [s \in Step |-> {}],
         work <- [a \in Actor |-> WorkOf(actor[a])],
         brokenOff <- broken

\* Whatever other requests confirm, reject, apply and resume meanwhile: each step waits for
\* those that it needs, each task that was created is triggered once, and no coroutine
\* stops half-way without a crash or an exception.
StepsInTurn == Turns!Spec

(***************************************************************************)
(* The verdict of apply_plan is that of all its steps: applied only if     *)
(* each is completed, also when a task fails after its step was completed, *)
(* and waiting for input only if some step has a question on file.         *)
(***************************************************************************)
ApplyVerdict ==
    [][\A a \in Actor : ApplyEnds(a) =>
          /\ plan'.status = "applied" => \A s \in Step : plan'.steps[s] = "completed"
          /\ plan'.status = "failed" <=> \E s \in Step : plan'.steps[s] = "failed"
          /\ plan'.status = "needs_input" => Stored(request) # {}]_vars

\* A plan is applied at most as often as somebody confirmed it.
AppliesCovered == applies <= confirms

(***************************************************************************)
(* "Immediate planner tasks should not be restored as recurring scheduler  *)
(* work": a task that runs once is an active row only while somebody runs  *)
(* it, or after the database failed just when it was to be finalised.      *)
(***************************************************************************)
Handled(s) ==
    \E a \in Actor :
        \/ s \in {actor[a].tasks[i] : i \in DOMAIN actor[a].tasks}
        \/ actor[a].pc = "resumed" /\ request[actor[a].req].work.step = s

OnceSettled ==
    ~broken => \A s \in Step \ unsettled : row[s] = "active" => Handled(s)

(***************************************************************************)
(* A plan that stays "executing" for ever, a status that no endpoint but a *)
(* new confirmation or rejection leads out of, has a coroutine that waits  *)
(* for ever for the same thing: a task, an agent, the database.  However   *)
(* requests overlap, the one that ends last leaves a verdict - unless the  *)
(* server crashed or an exception was not caught.                          *)
(***************************************************************************)
HangsIn(a, pc) == <>[](actor[a].pc = pc)

ExecutingEnds ==
    <>[](plan.status = "executing") =>
        <>broken \/ \E a \in Actor : \E pc \in {"acting", "triggering", "creating", "resumed"} :
                       HangsIn(a, pc)

\* The types, and no task of a plan that stays active with nobody to run it.
PlanInv == PlanTypeOK /\ OnceSettled
=============================================================================
