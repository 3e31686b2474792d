# Cognix: verification project

Cognix (`src/cognix`, Python, asyncio) is a local-first platform for agents: a FastAPI
server keeps agents, workspaces and approvals, a planner turns an intent into agents and
tasks, a scheduler on every node runs the tasks out of one shared database table, and
around them stand memory, MCP servers, connectors, bots, browsers and billing.
This directory holds TLA+ models of it, TLC configurations and TLAPS proofs.
`PROJECT.json` lists components, runs, hazards, findings, theorems, mutants of the code
that each property must catch, and for each definition the source lines it stands for.

To check a run: `tlc -workers 2 -config Lease.cfg MCTaskDispatcher` (the modules of the runs
are in section 3). To check the proofs: `tlapm TaskDispatcherProofs.tla`, and the same for
`RouteProofs`, `ApprovalProofs`, `PlanProofs`, `RecordProofs`, `McpProofs`, `BotProofs` and
`ServiceProofs`.

## 1. Inventory

### Components, their state and their operations

| Component | State it keeps | Operations | What makes it correct | Module |
|---|---|---|---|---|
| Task table, `scheduler/store.py`, `retry.py`, `schedules.py` | rows of `scheduled_tasks`: state, next_run, lease owner and expiry, run_count, last_run, idempotency key | create, claim, acquire, extend, release, complete, reap, cancel, replay, update_state, delete, check_idempotency | a lease has one owner; a row the owner lost is not written by it; canceled rows are inert | `TaskStore` |
| Dispatcher, `scheduler/dispatcher.py` | `_active_task_ids`, one coroutine and one heartbeat per run | poll, claim a batch, run, heartbeat, retry, fail, reap | no task is run twice at once; capacity; retry budget; a due task is served | `TaskDispatcher` |
| Executor, `scheduler/executor.py` | run records | execute, `_persist_run` | each run is recorded once; a key that completed does not run again | `TaskDispatcher` |
| Engine and node, `scheduler/engine.py`, `api/state.py` | APScheduler jobs in memory | fire, run, pause, resume, remove, restore at start | jobs and table agree; leases are given back | `SchedulerNode` |
| Task endpoints, `api/routes/tasks.py` | none of their own | create, pause, cancel, resume, replay, trigger, delete | cancel is final; a failed task comes back by replay only | `TaskRoutes` |
| Worker registry, `scheduler/registry.py`, `local/runtime.py` | node rows, a JSON file | register, heartbeat, mark offline, drain | a live node is not declared dead; draining lasts | - |
| Approvals, `local/approvals.py`, `api/routes/approvals.py` | one JSON file of requests | create, approve, reject, respond, complete, resume | a rejected request never runs; one permission is one run | `Approvals`, `ApprovalRoutes` |
| Agent, `core/agent.py` | messages, `_waiting_snapshot`, `_pending_approval_event` | run, tool calls, gate, resume | each tool call runs once; a resumed conversation is its own | `AgentRun` |
| Claude runtime, `claude/runtime.py` | SDK sessions | run, gate, resume | an approval is for one run | `ApprovalRoutes`, `Policy` |
| Policy, `core/policy*.py`, `permissions.py` | the rules of a workspace | decide, clamp, check | the lists bind; a viewer only reads; no ceiling widens a mode | `Policy` |
| Planner, `planner/service.py` | a JSON file per plan | create, confirm, reject, apply, resume | a plan is applied once per confirmation; a step runs after those it depends on | `PlanApply` |
| Orchestration, `orchestrator/`, `core/mounts.py` | prepared agents, tools of an agent | run a workflow, mount tools | every tool once; steps in order | `WorkflowRuns` |
| Memory, `memory/` | facts, cold records, index, vault | upsert, store, search, compress, build a context | one active fact per key; a summary stays; a context fits its budget | `MemoryStores`, `ContextPack` |
| Billing, `billing/` | subscriptions, processed event ids, usage | webhooks, checkout, entitlement | an event counts once, whatever the order; nobody is entitled without a ground | `Billing` |
| Connectors, `connectors/`, `api/routes/connectors.py` | credentials, configurations | call a tool, authorise, refresh, configure, delete | an approval is for one call | `ConnectorCalls` |
| MCP, `mcp/` | persistent clients, locks, tool caches | call, list, start, invalidate, close | one process per server; answers reach their callers | `McpRuntime` |
| Channels and bots, `channels/`, `bots/` | routes, dead letters | webhook, dispatch, call back, retry | a message is handled once, or is a dead letter | `BotBridge` |
| Browser, `browser/service.py` | pages, artifacts | run, ask, save | a page behind the policy is read by an approval of that page | `BrowserRuns` |
| Code sandbox, `local/code_sandbox.py` | `projects.json`, processes | create, start, stop, list | a running preview can be found | `CodeSandbox` |
| Local stores, `local/` | JSON files | create, update, append | no update is lost | `Chats` (chats and runs) |
| Playbooks, RPC registry, skills, providers, auth, secrets, CLI, web | rows, files | | mostly sequential | - |

### How they interact

    routes/tasks ----- update/cancel/replay ----> scheduled_tasks <---- planner (create_task)
         |                                          ^        ^
         | add/pause/remove job                     | lease  | lease
         v                                          |        |
      engine (jobs in memory) ----------------------+   dispatcher (polls)
         |                                                   |
         +------------> executor <---------------------------+
                           |  agents, workflows, browser; _persist_run -> scheduled_tasks

    routes/approvals --approve/answer/reject--> approvals.json <--create-- agent, planner,
         |                                                                 browser, connectors
         +--resume--> agent loop, plan step, memory write, Claude run

    bots --dispatch--> agent        agent --tools--> MCP runtime, connectors, browser
    chats --run--> agent            agent --context--> memory

Every node runs the first picture over one table. Engine and dispatcher of a node have the
same lease owner. The endpoints work on the table, and on the engine of the node that
serves the request. Agents ask for approvals, which the planner and the endpoints resume.

### What is hard

* Concurrency: every `await` is an interleaving point, and nodes share the table.
* Failure: a node may die with leases in hand; `gather` leaves siblings running; statements
  may raise; `_persist_run` failures are only logged; a request may be cut off at an `await`.
* Time: leases expire while coroutines still work; heartbeats are late; jobs miss fires.
* Ordering: a value read before an `await` and written after it (routes, engine, plans,
  approvals, facts, subscriptions), webhooks out of order or twice, answers that come late.
* Objects that many requests share: one agent object with one snapshot, one client and one
  lock per MCP server, one page of a browser, one list of tools.
* Files that are read, changed and rewritten whole.

The `hazards` of `PROJECT.json` list these at their lines, with the property that would
catch each, or why there is none.

## 2. Modules

| Module | Models | Built on |
|---|---|---|
| `TaskStore` | one row and the statements of `store.py` on it, as guards and functions of the row | |
| `TaskDispatcher` | `dispatcher.py` on every node, with the executor | `TaskStore`; instantiates `ExclusiveExecution` |
| `ExclusiveExecution` | the abstract promise of the dispatcher: a task is in the hands of one worker at most | |
| `SchedulerNode` | the engine of `engine.py` beside the dispatcher, start and restore | `TaskDispatcher` |
| `TaskRoutes` | the endpoints of `routes/tasks.py` over running nodes | `SchedulerNode` |
| `Approvals` | a request and the operations of `local/approvals.py` on it | |
| `AgentRun` | the tool loop of the one agent object that all conversations share | `Approvals` |
| `ApprovalRoutes` | the endpoints of `routes/approvals.py`, memory writes, Claude runs | `AgentRun` |
| `PlanApply` | confirm, reject, apply and resume of one plan file | `Approvals`; instantiates `OrderedExecution` |
| `OrderedExecution` | the abstract promise of `apply_plan`: steps one at a time, after those they need, then each task once | |
| `MemoryStores` | cold records with index and vault, facts of one key | |
| `McpRuntime` | one MCP server, its processes, and the coroutines that use it | |
| `BotBridge` | one bot: webhook, routes, attempts, callbacks, dead letters | |
| `Billing` | subscription rows of a user, webhooks, checkout, entitlement | |
| `Policy` | permission matrix, ceilings of the roles, workspace policy, Claude gate | |
| `BrowserRuns` | runs of the browser service from policy to artifact | `Approvals` |
| `ConnectorCalls` | calls of connector tools, credentials, configurations | `Approvals` |
| `CodeSandbox` | preview processes and `projects.json` | |
| `ContextPack` | router, budget and builder of a context, as functions | |
| `WorkflowRuns` | workflows over one agent, and the mounting of its tools | |
| `Chats` | a chat's message file and the run file beside it | |
| `TaskDispatcherProofs` | theorems: types, exclusion, refinement, retries, schedules, keys, capacity | `TaskDispatcher` |
| `RouteProofs` | theorems: leases of a node; cancel, failure and trigger under the endpoints | `TaskRoutes`, `TaskDispatcherProofs` |
| `ApprovalProofs` | theorems: gating, permissions used once, snapshots | `ApprovalRoutes` |
| `PlanProofs` | theorems: order of steps, confirmations, tasks left, verdict, refinement | `PlanApply` |
| `RecordProofs` | theorems: events of subscriptions, facts, summaries, contexts, tools; lemmas about folds | `Billing`, `MemoryStores`, `ContextPack`, `WorkflowRuns` |
| `McpProofs` | theorems: answers, processes | `McpRuntime` |
| `BotProofs` | theorem: no message is lost | `BotBridge` |
| `ServiceProofs` | theorems: previews, chats, pages, connector calls, policy | `CodeSandbox`, `Chats`, `BrowserRuns`, `ConnectorCalls`, `Policy` |
| `MC...` | the systems for TLC: model values, jobs, graphs, symmetry; `MCServices` runs the last eight modules side by side | |

### The scheduler

**Row.** Times are kept as distances from now: `next` is the time left until `next_run`
(0 means due), `left` is `lease_expires_at - now` (negative means expired). Each SQL
statement is atomic, as it is one transaction in the code; two statements of one function
are two steps. `"deleted"` stands for a row that is gone. A task has at most one
idempotency key, so the stored key is a Boolean.

**Dispatcher.** `loop[n]` is where `_run_loop` stands: sleeping, claiming the candidates
of a batch one by one, gathering, or down. A slot of `run` is one `_run_claimed`
coroutine, and its `pc` is the `await` where it is suspended:

| pc | the coroutine is about to ... |
|---|---|
| claimed | be started, once the batch is claimed (`dispatch_once`) |
| checking | ask `check_idempotency` |
| executing | do the work under `wait_for` and end with `_persist_run` |
| recorded | return from `execute` |
| finished | read the row again |
| writing | write `complete_lease` |

`wait` is the time in which it must take its next step: the heartbeat interval plus
`Slack` while it works, `Slack` otherwise, NULL after its heartbeat has given up. `Tick`
may not pass an overdue step, so `Slack` is the longest delay of a step of a node that is
alive; the runs with a large `Slack` are those where nodes stall beyond their leases.
`succeeded` (the tasks that were once executed with success) is a history variable, which
no guard reads.

**Faults.** The constant `Faults` says what may go wrong in a run: `abort` (time-out, or
`execute` raises), `persist` (`_persist_run` fails), `raise` (a statement of a coroutine
raises, so `gather` returns while siblings run), `extend` (`extend_lease` raises, which is
only logged, so the lease is not extended until the next beat) and `restart`. Crashes and
`stop()` are enabled by `Mortal`.

**Abstract specification.** `ExclusiveExecution` knows neither rows, leases, nodes nor time:
a worker takes a task that nobody has in hand, begins and ends it, and lets it go.
`TaskDispatcher` maps each coroutine to a worker (`InHand`, `PhaseOf`) and claims
`OneHandAtATime`, the abstract specification under this mapping.

**Engine.** `timer[n][t]` is the time to the next fire of the job of task t on node n,
NULL if there is no job or it is paused; `erun[n][t]` is its coroutine. APScheduler is
external: it fires a job once per period, not while its last instance runs, and may miss
a fire. An engine run has no heartbeat and no bound but its time-out.

**Endpoints.** A request is accepted on the row it read (`Accept`, which also drops the
job for cancel and delete) and writes in a later step. pause, resume and replay turn to the
engine's job only after the write, in a third step (`TurnToEngine`); anything may happen in
between, and the request may raise there (`RequestFails`). `jobless` records the active tasks
that lost their job to one of these windows; no guard reads it.

### Approvals, agents and plans

**Requests.** One file holds all requests; an operation reads, changes and rewrites it
without an `await`, so inside the one process that is modelled it is a function of the
request (`Approved`, `Responded`, `Rejected`, `Completed`, `WithSnapshot`). The payload is
the work that waits.

**Agent.** `co[a]` is one HTTP request that runs the agent, `pc` the `await` where it is
suspended: waiting for the model, for a tool, for a listener of an event, for a resumed
call. `waiting` and `gate` are the two fields of the agent object through which a stop for
an approval is handed to the caller, whoever that is. What the model answers is a choice of
`Replies`. A call is known by its conversation, the reply it came with and its place there,
so `ran` can tell whether it is made twice. `grants` and `uses` count the permissions given
for a request and the executions begun on their strength. `Crash` empties the process and
keeps the file; `Abandon` cuts one request off.

**Plans.** An actor is an HTTP request that works on its own copy of the plan file and
writes it back whole. Between two awaits nobody else moves (`Sync`, `MayRun`). The sort of the
steps is `_sort_steps` with the call stack of its inner `_visit` made explicit: while `pc` is
"sorting", `Visit` enters the next id or passes over one already visited, `VisitReturns` ends a
call and puts its step behind those it needs, `StepsSorted` goes on to the first step. There is no
`await` in between, so nobody else moves. An id of `depends_on` that names no step is visited
without effect, and left out of the graphs. `row` are the scheduled tasks that the plan creates to
run once. `Breaks` is an exception that nobody catches, or the death of the process. A failure of
the database in `_finalize_once_task` breaks nothing: it is logged and dropped, and the row
stays active (`FinalizeTask`, which puts the step into `unsettled`). `MaxFaults` bounds both.

`OrderedExecution` is what this comes to without the sort, the file, the other requests and the
awaits: a worker has a status for each step and the set of tasks that are due, takes a step
up when those that it needs are served, passes it over when one of them failed, triggers each
due task once when all steps have ended, and leaves then and not before. `WorkOf` maps the
coroutine of an apply to a worker, by its own copy of the plan and its list of tasks;
requests that confirm, reject, sort or resume show nothing, and `broken` is where a worker may
have broken off. In a graph with a cycle the code promises no order, so nothing is needed.
`StepsInTurn` is the abstract specification under this mapping.

### Services

Each of these modules has the coroutines of its requests, suspended at the awaits of the
code, over the state that they share:

* `MemoryStores`: a SELECT opens no transaction, so an upsert or a compression may write
  what it read before others wrote. `raced` marks overlapping or cut off upserts, `overlapped`
  the records that two compressions had read at a time. A model may answer with no summary.
* `McpRuntime`: `client`, `lock` and `tools` are the manager's dictionaries; the lock is
  popped by an invalidation though somebody holds or awaits it. A server answers requests
  in any order or dies (`Answer`, `Die`); a caller may be cancelled at any `await`.
* `BotBridge`: a coroutine goes from webhook or retry through attempts, back-off and
  callbacks to its end, to a dead letter (`Bury`) or to a reopened one (`Reopen`), and either
  write may fail. An asynchronous webhook is answered first and handled in the `Background`,
  where the route may be gone.
* `Billing`: a handler reads its row and commits later the columns that differ from what it
  read (`Flushed`, as SQLAlchemy does). Stripe delivers what it issued in any order and
  again.
* `Policy`: `Decide` puts every question to the functions of the matrix and the policy,
  under the ceiling of a role where the endpoint clamps. A policy that cannot be read is
  empty, and a URL that cannot be parsed is on no list.
* `BrowserRuns`, `ConnectorCalls`: policy, approval, work, completion, each an `await`; the
  CDP page, the credentials and the configurations are shared. An agent that calls the mounted
  browser tool files requests beside those of the runs (`AgentAsks`).
* `CodeSandbox`: processes outlive the server, end as zombies until somebody reaps them
  (`Reaped`), and their pids are reused; `projects.json` may fail to be written
  (`StartUnwritten`).
* `ContextPack`: `Build` applies the builder to every request of a bounded set.
* `WorkflowRuns`: preparing an agent awaits the MCP servers one by one and then the
  credentials, so several runs mount tools on one agent at once, and a server that fails
  leaves the tools of those before it.
* `Chats`: the history is listed, the question stored at once, the answers after the awaits of
  the models. `get_history` cuts what was listed once more, by count and tokens, so what the
  model is shown (`Shown`) is any end of it.

`MCServices` puts the eight modules that share nothing into one system: the variable
`subject`, chosen at the start, says whose steps a behaviour is about, while the others
stay as they began. It is exploration in one run, not a claim about their composition.

**Wrong forms.** Operators commented `a wrong form` are never used by the model. They are
plausible bugs of the code; put in place of the right form, each must violate the property
that `mutants` of `PROJECT.json` names, which shows that the property can fail.

## 3. What the runs show

| Run | Module | Properties | Shows |
|---|---|---|---|
| `Lease` | `MCTaskDispatcher` | DispatcherInv, ExclusiveRuns, OneHandAtATime | two nodes, two tasks (one of them one-shot), crashes, restarts, time-outs, delays up to Slack: a timely heartbeat keeps the lease to the final write, and the dispatcher implements `ExclusiveExecution` |
| `Retry` | `MCTaskDispatcher` | FailedOnlyAfterBudget, ActiveIsScheduled, CompletedKeyNeverReruns, LeaseEndsWithItsRun, DueTaskServed, DeadLeaseFreed | a task with an idempotency key through retries, time-outs, failing heartbeats, delays beyond the lease and the death of a node: budget, schedule and key survive, a lease is ended by the run it was taken for, a due task is served and a dead node's lease ends |
| `Capacity` | `MCTaskDispatcher` | CapacityBound | three tasks, two at once: coroutines orphaned by `gather` overlap the next batch of their node |
| `Node` | `MCSchedulerNode` | ForgottenLeaseRunsOut | engine and dispatcher in both of two nodes, statements and records that fail, crashes: a lease whose coroutine is gone is renewed by nobody |
| `Routes` | `MCTaskRoutes` | RouteInv, NoForgottenLease, NeverStranded, CancelIsFinal, FailedIsFinal | two clients and six endpoints, each in up to three steps and with failures in between, against everything that runs, fails and crashes: no early return keeps a lease, only a late pause or resume undoes a cancel, only replay and resume revive a failed task, an active task keeps a trigger but in the two windows of `jobless` |
| `Approvals` | `MCApprovals` | ApprovalInv, NoUnapprovedCall, UsesCovered, SnapshotIsOwn | two conversations of one agent, every endpoint, crashes: a gated call runs only by a permission of its own and as often as permissions were given; a saved snapshot is of its own conversation |
| `Plan` | `MCPlanApply` | PlanInv, DependentsFollow, AppliesCovered, ApplyVerdict, StepsInTurn, ExecutingEnds | a plan listed against its dependencies is confirmed, rejected, applied and resumed by overlapping requests: order, verdict, the tasks it leaves, that nothing but a hanging await or a break keeps it "executing", and that `apply_plan` implements `OrderedExecution` |
| `Memory` | `MCMemoryStores` | MemoryInv, SummaryKept | two requests store, search, compress and upsert, and may be cut off: the chain of a key's facts survives, and so do the summaries but for one that overlapping compressions write empty |
| `Mcp` | `MCMcpRuntime` | McpInv, AnswersMatch | two coroutines start, call, list, invalidate and close a server that answers late or dies: answers reach their requests, no process is forgotten |
| `Bots` | `MCBotBridge` | BotInv | a message is delivered twice, waited for or in the background, retried, buried and retried again while routes change, writes fail and the process may crash: lost only where `excused` says so, and not answered too often |
| `Services` | `MCServices` | WebhookEffects, PermissionsHold, PageApprovals, CallsCovered, RunningIsRecorded, PackFits, OneToolPerName, ChatFiles | each of the eight independent services under its overlapping requests and external parties |
| `Remaining` | `MCApprovals` | RemainingOnly (violated) | a resumed batch makes a call again that it had made before it stopped for the approval |

Some invariants are conjunctions, of the types of a component and of what matters about it:

| Invariant | Parts |
|---|---|
| DispatcherInv | TypeOK, LeaseInv |
| RouteInv | RouteTypeOK (with NodeTypeOK and TypeOK), CanceledIsInert |
| ApprovalInv | ApprovalTypeOK, CompletedWasExecuted |
| PlanInv | PlanTypeOK, OnceSettled |
| MemoryInv | MemoryTypeOK, SupersededHasHeir, LatestIsActive |
| McpInv | McpTypeOK, ProcessesOwned |
| BotInv | BotTypeOK, NotLost, RunsAccounted |
| WebhookEffects | AppliedOncePerCache, EntitledHasGround |
| PermissionsHold | ListsBind, ViewerOnlyReads, CeilingNeverWidens |
| PageApprovals | OpenedByLeave, AskedOnce |
| ChatFiles | AnsweredFromBefore, StateIsLogged |

Where a property excepts states (`raced`, `overlapped`, `broken`, `unsettled`, `jobless`,
`disturbed`, `excused`, `unrecorded`, `listening`), the exception is a window that the code leaves
open, and its comment names it; the windows
are listed again below.

### A disagreement of code and comment

`Remaining`: the snapshot keeps all calls of the model's reply except the gated one
(`core/agent.py:134`), also those that stood before it and have been made; on resume they
are made again, where `core/agent.py:781` speaks of the remaining calls.

### Other disagreements and windows met on the way

The models show these too; no run is kept for them.

Scheduler
* A candidate that another node has just completed is leased and run again, though it is not
  due (`store.py:147`, `store.py:118`; README.md:282).
* `run_count` counts successes, so a task that ran well for long has no retry left
  (`dispatcher.py:284`; README.md:284). A time-out is not counted, as the cancelled executor
  never reaches `_persist_run`: a task that always times out is retried for ever.
* The retry of a failed run is skipped as already executed: the key counts as done once
  `last_run` is set, which a failed run does too (`store.py:314`; README.md:289).
* Engine runs have no heartbeat, so another node takes the lease and runs the task beside it
  (`engine.py:226`; docs/guides/tasks.md:140). Engine and dispatcher of a node are one lease
  owner, so the node may run a task twice at once (`api/state.py:168`, `store.py:176`).
* A resume accepted before a cancel undoes it, and a failed task is taken back by `resume`
  without a replay (`routes/tasks.py:204-209`).
* Pause ends the heartbeat, resume lets the lease expire, the task runs twice at once
  (`dispatcher.py:274`).
* A one-shot task stays due after its success, as its date is answered again
  (`schedules.py:53`, against docs/guides/tasks.md:68).
* A resume between the write of a pause and its `engine.pause` (`routes/tasks.py:165`, `:170`)
  leaves an active row whose job is paused; if a run of the engine ends then, it writes NULL for
  `next_run` (`engine.py:277`), and nothing runs the task until a restart. So does a resume or
  replay that raises between the row and the job, or a cancel or delete that raises after it has
  removed the job.
* `complete_lease` knows a lease by its node, so an orphan that `gather` left behind ends the
  lease of a later run of its task on the same node (`dispatcher.py:258`).
* A lease shorter than the least heartbeat interval of 10 s is not kept (`dispatcher.py:206`).

Approvals and agents
* Two resumes of one request that overlap both run the tool, and so does a resume after one
  that was cut off: the request is completed only after the await of the tool.
* With listeners for tool events, a conversation that stops for an approval may find the
  snapshot of another.

Plans
* Every operation writes back its own copy, so the end of an apply overwrites a rejection.
* The resumption of one question sets the whole plan to "applied" though others wait or have
  failed; a completed request can be resumed again.
* Steps that depend on a `request_input` step are not held back by it.
* A task is created as recurring by `cron`, `cron_or_interval` or `schedule`, but triggered and
  finalised as one that runs once by `schedule_type` and `cron`: other spellings run once and
  stay.
* An exception of the database in an apply leaves the plan "executing". So does a step or a task
  that hangs: `_trigger_task` awaits `TaskExecutor.execute` without a time-out
  (`planner/service.py:1180`).
* `_finalize_once_task` logs and drops every exception (`planner/service.py:2026`): the row of a
  task that has run stays active, and the scheduler restores it.

Memory and contexts
* "Facts are the single source of truth" (`memory/facts.py`) does not hold for overlapping
  upserts: two facts of a key stay active. Of two compressions that overlap, the later may write
  an empty summary over the one that was made (`memory/pipeline.py:518`, `:555`).
  A compression that rewrites a stale row loses
  `access_count`.
* In the balanced mode, facts have no ratio of the budget and get nothing unless they come
  first; hot and deep memory are not trimmed; rounding may lose a token.

MCP
* The lock of a server is popped while it is held or awaited, so two coroutines may start a
  process each, of which one is orphaned; a start that is cancelled leaks its process.
* The persistent client is not compared with the configuration that it was started with.
* Two coroutines that read one stdout drop each other's answers, and wait until their time-out.

Bots
* A failed retry buries a second letter and reopens the first; a letter of a bot with several
  routes can never be retried; two overlapping retries of one letter both dispatch it; a crash
  after a letter was marked as retried loses its message, and so does a failure of the last
  UPDATE, which is to make it pending again (`bridge.py:425`).
* An asynchronous webhook answers "queued", and the message is gone if its background task then
  finds no route, no bot or no database (`routes/bots.py:168`).
* The rate limiter is used by nobody. The JSON-RPC methods for tasks lack the guards of the
  REST endpoints.

Billing
* The shipped plans have no Stripe price, and the `stripe_price_*` settings are read by nobody,
  so every checkout is refused (`Prices` is the table an operator would fill).
* The event of a handler that fails stays remembered, so its redelivery is dropped.
* A late `invoice.paid` revives a canceled subscription.
* Two overlapping checkouts insert two rows, after which every handler and checkout raises.
* Nothing in `src/cognix` calls `enforce_quota`, so no quota is modelled.

Policy
* A policy that cannot be read counts as empty (`policy.py:35`), so its lists bind nothing; a URL
  that cannot be parsed passes the list of domains (`policy.py:100`).
* The time limit of `check_command` is never compared: no caller passes a time-out
  (`claude/runtime.py:376`).
* "Ordered from least to most permissive" is not the order of the modes: "ask" and "plan" rank
  above "workspace-write". For the three roles there are, no ceiling widens a mode by it.
* Only the endpoints for pages, connector calls and Claude runs clamp the mode to the role.
* A write of a read-only agent through the Claude gate may be put to a human.
* The hook registry and `policy_adapter` are called by no other code of `src/cognix`.

Browser
* After a rejection a page can never be asked for again; an approval is never used up; a
  named approved request overrides a denial; two runs over CDP share one page. An agent that calls
  the mounted tool files a new request each time (`core/agent.py:935`).
* A database failure when an artifact is saved leaves the "tool_call" of the run running.
* Mounting attaches the browser tool also where it is disabled.

Connectors
* Two users who connect one workspace, or two overlapping callbacks, leave two credentials, and
  resolving one raises for everybody.
* Every callback appends a configuration; a toggle moves the first to the end, so a disabled tool
  can be called again; a deletion that overlaps a callback leaves a configuration dangling.
* On SQLite the expiry has no time zone and cannot be compared.
* A request is completed only after the call, so two calls, or one after a failure, share it.

Code sandbox
* A zombie counts as alive until it is reaped, so a preview that died is not started again before a stop or a
  restart of the server; a stop may signal a reused pid; two starts may pick one port; SIGTERM
  may be ignored; the policy's "requires approval" is not waited for.

Workflows
* The endpoint passes no `workspace_id`, so step events are never emitted; a missing agent is
  skipped without an event; an agent that waits for an approval counts as a success.
* Prepared agents are never forgotten; a disabled browser tool is attached again at the next
  mount; `dispatch_direct` overwrites the workspace of a shared agent.
* The router and the parallel pattern of several agents are used by nobody.

Chats
* `ChatStore` has no `delete`, so the endpoint that deletes a chat raises `AttributeError`.
* The question is stored before the API key is checked; the first exception of one model is
  answered while the others still store their answers; an error in a stream leaves the question
  unanswered; an agent that waits for an approval in a stream stores an empty answer.
* Any state of a run may follow any other. Overlapping requests do not see each other's messages.

### Bounds, and why they are enough

* Nodes: two. Exclusion, takeover and capacity are about a node and one other.
  One node where the question is about a single process (`Capacity`, `Routes`, whose other
  actors are the clients and the engine).
* Tasks: one to three. Rows never refer to each other; two tasks are needed where a batch
  holds more than one (`Lease`), and a third to fill the place of an orphan (`Capacity`).
* `Slot`: coroutines alive at once. Two or three are enough for a coroutine, the one that
  takes its task over, and a sibling. A claim that finds no free slot waits, which only
  removes behaviours with more coroutines; the theorems have no such bound.
* `LeaseTTL`, `Slack`, `Period`, `RetryBase`, `RetryMax`: one to six units; what matters is
  their order (heartbeat before expiry, delay beyond expiry), and each order has a run.
* `RunCap` saturates `run_count` above `MaxRetries`, where it no longer makes a difference.
* `Client`, `Coroutine`, `Actor`, `Caller`, `Worker`, ...: two requests at once, one that reads and
  one that writes in between.
* `Approvals`: two conversations and two requests, so that a snapshot may be somebody else's; one
  turn with tools per run (`MaxIter`), of a free and a gated call or a denied one; one permission
  per request (`MaxGrants`), which a second use would exceed.
* `Plan`: a configuration, a question that depends on it and a task that depends on both, listed
  in the wrong order; two requests on file, one confirmation (`MaxConfirms`), so that a second
  apply is one too many; one fault (`MaxFaults`). Cycles and other graphs
  are left to the guard `Acyclic` and a change of
  `Shapes`.
* `Memory`: two records of which one is compressed while the other is stored, three facts for a
  value, its heir and one that overlaps, three upserts (`MaxUpserts`), `access_count` saturated
  at one.
* `Mcp`: three processes (the client, an orphan and a one-off), two locks (the popped one and its
  successor), two configurations, two requests per process, so that an answer may be another's.
* `Bots`: one message delivered twice, two workspaces (one route, none, or too many), three letters
  (a letter, the second that a failed retry buries, one for the other delivery), two attempts,
  three coroutines.
* `Services`: two of what may overlap (handlers, callers, tabs, clients, credentials, starts,
  flows, askers), two events of one subscription, a cache of event ids that holds one and is
  lost or emptied up to twice (`MaxCache`, `MaxLives`), three pids, token counts 1 and 3 against budgets 2 and 7, so that
  hot memory exceeds one of them, chats of three messages of which one is shown, runs of two
  events. Connectors have one user, one tool and two overlapping clients.
* Symmetry of nodes, slots, tasks, clients, requests, coroutines and tabs is used in safety runs only, and
  for sets that the run's constants treat alike.
* Deadlock is checked for the scheduler, which never stops. The bounded systems (`Approvals`,
  `Plan`, `Memory`, `Mcp`, `Bots`, `Services`, `Remaining`) end when their requests are used up.

### Fairness

`FairSpec` of `TaskDispatcher` assumes that the loop of a node that is up takes its next step
(`_run_loop` is an endless loop whose awaits end), that a coroutine takes its next step
(`wait_for` bounds the work and every statement ends), and that time passes. A coroutine that
dies with its node owes nothing, as its step is no longer enabled. Nothing is assumed of crashes,
restarts, failures or the reaper, so liveness rests on expiry alone. One node of `Retry` may die,
the other may not: with all nodes dead nothing can be promised.

`FairSpec` of `PlanApply` assumes only that the event loop runs a coroutine on to its next await
(`RunsOn`). Nothing is assumed of the awaits (`AwaitReturns`): no time-out stands over what the
planner triggers. So `ExecutingEnds` says what can be said: a plan that stays "executing" for ever
has a coroutine that waits for ever for one and the same thing, unless something broke.

## 4. What is proved

Every theorem below is about every value of the constants (sets of nodes, tasks, requests,
coroutines and steps, limits, dependency graphs, faults), finite or not unless said. The
conditions on constants are the `ASSUME`s of the modules: values that are kept apart from the mark
NULL, numbers that are numbers, and what the code itself guarantees, such as a positive interval or
`MaxAttempts >= 1`. In every module the argument is the same: an inductive invariant, one lemma for
each action that shows the action keeps it, and the property as a consequence.

### The dispatcher (`TaskDispatcherProofs`)

* `TypeCorrect`: `Spec => []TypeOK`.
* `LeaseCovers`: if `Timely`, `Spec => []LeaseInv`, and with the types `DispatcherKept`:
  `Spec => []DispatcherInv`.
* `Exclusive`: if `Timely`, `Spec => []ExclusiveRuns`.
* `Implements`: if `Timely`, `Spec => OneHandAtATime`, the refinement of `ExclusiveExecution`.

`Timely` says that the heartbeat interval and three delays fit into the lease, and that
`extend_lease` does not raise: one delay from the claim to the start, one of the heartbeat
itself, one from the end of the run to the final write. The code guarantees neither
(a lease below 10 s is not `Timely`, and `Retry` runs without it); the defaults, an interval of
40 s and a lease of 120 s, leave each step some 26 s.

`ExclusiveRuns` alone is not inductive: in an arbitrary state a coroutine may work on a
task whose lease is free. `LeaseInv` adds why this never happens: each coroutine owns the
row of its task from the claim to the final write, alone, and the lease lasts at least
until the next step that the coroutine owes (`Cover`). Time cannot pass an overdue step, so
it cannot reach the expiry (`TickKeepsLeaseInv`); while the lease holds, no other claim, no
re-entry by the same owner (the row is not claimable, and a candidate of the node is not
one of its coroutines' tasks) and no reaping can touch the row (`LoopKeepsLeaseInv`); each
step of the coroutine restores the cover (`RunKeepsLeaseInv`). The assumptions are
those on the constants, `StoreAssumption` and `DispatcherAssumption`.

The refinement rests on both invariants. A step of a coroutine other than a claim moves what
one worker has in hand, or nothing (`HandStep`, from `OneHandMoves`); a crash, and a failure
that ends several, lets several go (`SomeLetGo`); a claim takes a task, and `LeaseInv` says that
nobody else has it in hand, since each who has owns the lease that the claim would need
(`ClaimTakes`). `StepImplements` puts these together for `Next`.

With no assumption on the timing, for every fault but the one named:

* `RetriesUsedUp`: `Spec => []FailedOnlyAfterBudget`.
* `NoTaskForgotten`: `Spec => []ActiveIsScheduled`.
* `KeysHold`: if `_persist_run` does not fail (`"persist" \notin Faults`),
  `Spec => CompletedKeyNeverReruns`.
* `LeasesEndWithTheirRuns`: if no statement raises (`"raise" \notin Faults`),
  `Spec => LeaseEndsWithItsRun`.

Here leases may expire and tasks may be taken over, so nothing of the exclusion is used.
A coroutine judges its run by the row and writes in a later step, when the row may have
changed. `ScheduleInv` adds what survives the delay: one that is about to fail its task has seen
a `run_count` beyond the retries, which only grows (`AttemptsGrow`), and one that is not has a
time for the next run (`WritesWell`, from `JudgesWell`). `KeyInv` says that a task that was
executed with success and has a key shows both in its row, the stored key and `last_run`, so
every later check of the key finds it. If `_persist_run` fails, `last_run` stays NULL and the key
is checked in vain. `LoneInv` is what protects a lease: while nothing raises, a node claims only
when none of its coroutines is at work, so it never has two for one task (`LoopsKeepAlone`), and
the owner that `complete_lease` compares tells the run in progress from all that went before. A
statement that raises ends the `gather`, the node claims on, and this is lost.

On the capacity of a node:

* `CapacityHolds`: if `Timely` and the table is finite, `Spec => []CapacityBound`.

The number of workers is not inductive, because a batch is selected against `_active_task_ids`
before its tasks are active. `CapacityInv` bounds the load of a node instead, which is its active
tasks, its candidates and the tasks it has claimed: a batch fills at most the free slots when
nothing else is being claimed (`QuietBetween`), a claim and the start of a batch move tasks
within the load (`LoopKeepsCapacity`), and a coroutine is counted until its work ends
(`WorkersCounted`, `SlotMoves`). A coroutine that raises makes `gather` return, which can happen
only while the loop gathers (`AwaitedByGather`, `RaiseKeepsCapacity`). `LeaseInv` gives the workers
different tasks, so their number is bounded by that load (`WorkersWithinLoad`). Without `Timely`
a node may lease a task again that it still works on, and its set of ids counts it once.

### Nodes and endpoints (`RouteProofs`)

The same rows, now with the engine of each node and the clients' requests. The engine and the
endpoints do not respect the timing of the dispatcher, so nothing is assumed of it.

* `CanceledStaysInert`: `RouteSpec => []RouteInv`.
* `NoneStranded`: `RouteSpec => []NeverStranded`.
* `CancelsHold`: `RouteSpec => CancelIsFinal`.
* `FailuresHold`: `RouteSpec => FailedIsFinal`.
* `LeasesAnsweredFor`: if no statement raises (`"raise" \notin Faults`),
  `RouteSpec => []NoForgottenLease`. A statement that raises does leave a lease behind, so the
  condition is needed.
* `ForgottenLeasesRunOut`: `NodeSpec => ForgottenLeaseRunsOut`, for every fault: such a lease is
  renewed by nobody.

The invariant `RouteKept` has, beside `RouteInv`, that coroutines work on nodes that are up
(`LiveIsUp`), that what a coroutine is about to write has a time for the next run, unless it fails
the task (`SlotWrites`), that a lease with an owner has an end (`LeasesEnd`), and `Prospect`: an
active task without a `next_run`, or with an engine coroutine that may yet write none, has a job,
a node that will make one when it starts, a request still on its way, or is in `jobless`.
`NeverStranded` alone
is not inductive, as it says nothing of a task whose `next_run` is about to be cleared. The two
action properties
except the writes of an endpoint that was accepted earlier, so each write is judged by what the
row was when it was read and what it is now (`WriteEffect`, `WriteKeepsInert`).

### Approvals and agents (`ApprovalProofs`)

* `ApprovalTypes`: `Spec => []ApprovalInv`.
* `UnapprovedNever`: `Spec => []NoUnapprovedCall`.
* `PermissionUsedOnce`: `Spec => []UsesCovered`.
* `OwnSnapshot`: `Spec => []SnapshotIsOwn`.

The invariant `Inv` says what a coroutine holds at each `await` (`Places`), that an approved, used
or completed request has the permission and the use that its status speaks of (`Requests`), that
an approval nobody is using has not been used, and at most one coroutine is using it (`OneUse`),
and that each gated call that was made is the work of a request with a use (`Gating`). `OneUse` is
what makes `UsesCovered` inductive; it excepts the requests in `raced`, which two overlapping
resumes, or a resume after one cut off, have both taken up. `SnapshotIsOwn` is claimed only while
no listener of events suspends the agent between its stop and its caller's reading of the
snapshot.

### Plans (`PlanProofs`)

* `StepsInOrder`: `Spec => []DependentsFollow`, for every acyclic graph.
* `ConfirmationServesOnce`: `Spec => []AppliesCovered`.
* `PlansSettle`: `Spec => []PlanInv`.
* `VerdictsHold`: `Spec => ApplyVerdict`.
* `PlanImplements`: `Spec => StepsInTurn`, the refinement of `OrderedExecution`.

The order of the steps rests on the sort, which is proved as a loop over its stack (`Sorting`):
what is visited is the result and the open calls; each id that an open call needs is visited or
still before it; each call was entered because its caller needs it; and the outermost loop has
every step still to come that is not visited. In an acyclic graph a call therefore finds
none of its needs among the open calls (`NeedsNoneOpen`), so when it returns its needs are in the
result, before it. `Walking` carries the order through the execution: steps before the head have
ended, steps after it have not begun, and a step whose need failed is skipped. `Alone` says that
only one coroutine is between two awaits, and that a plan that is being sorted is confirmed;
`Spent` counts a confirmation that has not been used, so that every apply has used one; `Settled`
says that an active one-shot task has a coroutine that will finalise it, unless something broke or
the finalising itself failed.
The steps of one request disturb the others only by requests for approval, which are added and
never taken off the file (`Grows`, `OthersFit`).

The refinement rests on the same invariant, action by action. At the head of the list a step is
pending, nothing is under way, and what it needs has ended (`HeadIsNext`, from `Walking`); if no
need of it failed it is taken up (`HeadTakenUp`), else passed over (`HeadPassedOver`). When the
await of a step returns, its task was not due before, as each step is in the list once
(`EndStepInTurn`). In the loop over the tasks every step has ended, so a task that is triggered
is due, and a settled one is due no more, as the list names it once (`TriggerTaskInTurn`,
`TaskEndsInTurn`, `ApplyEndsInTurn`). All else shows nothing (`UnseenSteps`), a break aside
(`BreaksOff`).

### Records (`RecordProofs`)

* `EventsHaveEffect`: `BillSpec => []WebhookEffects`. A handler under way counts as committed, an
  event that is remembered has one chance more than the lives of the cache before (`Counts`), and
  a row that counts, a trial included, goes back to a committed event that says so (`Grounds`).
* `FactsHaveHeirs`: `Spec => []MemoryInv`, `SummariesStay`: `Spec => SummaryKept`. A fact that is
  superseded has the one that did it (`Heirs`); while no two upserts have overlapped, the fact that an
  upsert has read is still the active one when it writes (`NoRace`).

* `ContextsFit`: `ContextSpec => []PackFits`, for every limit of the searches, every size and every
  budget. What is taken of a source fits into what is left, and when nothing is taken nothing fits
  (`TakenFits`); the shares, rounded down and with the rest given to the first source, are the
  budget at most (`Allocated`, where the rounding is `SharesFit`).
* `ToolsOnce`: `WorkflowSpec => []OneToolPerName`. Taking a name out of the list, and attaching the
  names of a set one after another, leave a list that names each tool once (`TakenOut`,
  `AllMounted`), so the list and the names of `_tool_map` stay together (`ToolsKept`);
  the servers a run has yet to ask are always among those it was offered (`RunsAsk`).

The last two are about folds over lists of any length. The induction theorems of the library cannot
be used, as they take an operator; the lemmas at the head of that part do without. A fold from
the left is the value, at the set of all places, of a function chosen by an equation that takes the
last place off a set. Numbers have a smallest (`Smallest`), so a set of numbers that has 0 and
with each number the next has them all (`UpTo`); with it a function that satisfies the equation is
built place by place (`FoldExists`), and the fold is the last value of a run through the list
(`FoldRuns`). What holds of the list so far is then again a set of numbers for `UpTo`.

### MCP (`McpProofs`)

* `AnswersAreOwn`: `Spec => []AnswersMatch`.
* `NoProcessForgotten`: `Spec => []McpInv`.

A request has as its id its number, so an answer with the id of a request is the answer to it, and
a caller that waits has asked (`Places`); a list that is cached is of its own configuration
(`Cached`); a lock that is held has exactly the coroutine that starts a process under it (`HeldBy`).
All who await a lock, or start a process under it, have the lock of the server (`OneLock`), so who
starts has no live client to overwrite (`Alone`), and a live process is the client, or with
somebody who will keep or close it (`Owned`). The last three hold until a lock is popped while in
use, or a caller is cut off (`disturbed`), after which the code does forget processes.

### Bots (`BotProofs`)

* `NoMessageLost`: `Spec => []BotInv`. `Accounts` counts an answer that may still come as one that
  came, so no delivery or retry is answered twice. `NoneLost` says where a message is: queued,
  answered, with a coroutine that will take, answer or bury it, or a pending letter. A coroutine that marks
  a letter as retried does not count for its message, as the letter does until then. The excuses
  are those of `excused`.

### Services (`ServiceProofs`)

The services share no state, and each theorem is about the specification of its service alone
(`SandboxSpec`, `ChatSpec`, `BrowserSpec`, `ConnSpec`, `PolicySpec`).

* `PreviewsRecorded`: `SandboxSpec => []RunningIsRecorded`.
* `ChatFilesKept`: `ChatSpec => []ChatFiles`. An answer stands behind its question. What a request
  has listed of the chat is the end of what stands before its question, and what the model is shown
  is an end of that (`Shown`); cutting the log of a run keeps its last state.
* `PagesApproved`: `BrowserSpec => []PageApprovals`. Only a human's yes lets a request be settled,
  and the leave a run or an artifact was given is for its own page (`BrowserKept`). Requests
  are filed in the order of their numbers (`InOrder`), and a run files one only when it has found
  none for its page (`TheMatch`, `Filed`); an agent files without looking.
* `ApprovalsServeOnce`: `ConnSpec => []CallsCovered`. An approved request, or one in use, has a
  consent to spare, and one client at most uses it, unless two have raced for it.
* `NothingGetsAround`: `PolicySpec => []PermissionsHold`. By cases over kinds, modes and levels:
  what a ceiling leaves of a mode (`ClampedModes`) allows no more than the mode (`CeilingNarrows`),
  and so for each check (`VerdictNarrows`); what a viewer may do (`ViewersRead`); what the lists
  deny (`ListsDeny`).

### What stays model-checked

* Liveness (`DueTaskServed`, `DeadLeaseFreed`, `ExecutingEnds`): the prover has neither fairness
  nor ENABLED.
* `RemainingOnly`, which the code violates.

Every other property that a run checks is a theorem. The runs remain the check of what the proofs
take for granted: that the assumptions on the constants have models, that the actions do happen,
and that each property can be violated by a plausible bug.

## 5. What is not modelled

* The work of a task: model calls, tools, browser runs, artifacts and events end in
  success or failure. What a model answers is a choice.
* Time zones, misfire rules beyond a missed fire, and clocks that differ between nodes: all
  nodes and the database read one clock.
* Creation of tasks (rows are there at the start), one-shot jobs of the engine, and an
  engine without a table.
* The order by `next_run` of a batch: any choice of that many due rows.
* A down node in `NeverStranded` counts as a trigger, as its restart gives a job to every
  active task; until then a task whose `next_run` was left NULL depends on the node that
  held its job.
* Several server processes that rewrite one JSON file (approvals, plans, chats, projects): each
  would lose the other's updates. The models have one process.
* Quotas (`billing/usage.py`), the policy hook registry and its adapter, which nothing in
  `src/cognix` calls; the time limit of commands, which no caller passes.
* `Agent.state`, which no other part of what is modelled reads, and `Agent.stream`, which nothing calls.
* Prompts, parsing of a model's answer and creation of a plan; embedding, extraction and
  scores of memories; the providers' APIs, Stripe, the browser and the Claude SDK, which are
  external and may answer anything that the code tells apart.
* Playbooks, the RPC agent registry, the worker registry, the command line, authentication and
  secrets, skills and providers, the database engine and the web interface: `PROJECT.json` gives
  the reason, or the plan, for each component marked `not_modelled`.

## 6. Plan

1. Done: the scheduler, approvals, agent and plans, memory, MCP, bots, the eight services; the
   refinements of `ExclusiveExecution` and `OrderedExecution`; theorems about all safety
   properties.
2. The exclusion once the endpoints change rows that a coroutine has leased: which promise is left
   when a pause lets a lease expire, and its proof.
3. `WorkerRegistry` and playbooks; the create endpoint and one-shot jobs in `TaskRoutes`.

