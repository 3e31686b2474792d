----------------------------- MODULE TaskRoutes -----------------------------
(***************************************************************************)
(* The task endpoints (cognix/api/routes/tasks.py) over running nodes.     *)
(* An endpoint reads the row, decides, only then writes, and pause, resume *)
(* and replay turn to the engine's job only after the write: everything    *)
(* else may come in between.                                               *)
(***************************************************************************)
EXTENDS SchedulerNode

CONSTANTS
    Client,      \* bound: requests in progress at once
    Op           \* endpoints in use, a subset of Endpoint

Endpoint == {"pause", "cancel", "resume", "replay", "trigger", "delete"}

ASSUME RoutesAssumption == Op \subseteq Endpoint /\ NULL \notin Endpoint

VARIABLES
    req,     \* req[c]: the request that c has had accepted, not yet done
    jobless  \* history: the active tasks whose job a request took away, or
             \* failed to give back

routeVars == <<nodeVars, req, jobless>>

\* wrote: the row is written, the engine's job is not yet seen to.
NoRequest == [op |-> NULL, node |-> NULL, task |-> NULL, wrote |-> FALSE]

Request == [op : Endpoint, node : Node, task : Task, wrote : BOOLEAN]

\* The states in which an endpoint goes on.  A row that is gone answers 404,
\* except that delete does not look before it removes the job.
Accepts(op, state) ==
    CASE op \in {"pause", "resume", "trigger"} -> state \notin {"canceled", "deleted"}
      [] op = "cancel" -> state \in {"active", "paused"}
      [] op = "replay" -> state = "failed"
      [] op = "delete" -> TRUE

\* engine.remove or engine.pause: the job no longer fires on this node.
WithoutJob(n, t) == [timer EXCEPT ![n][t] = NULL]

JobLost(n, t) == timer                                      \* a wrong form

\* schedule_task_in_engine: a new job on this node replaces the old one.
WithJob(n, t) == [timer EXCEPT ![n][t] = Period]

-----------------------------------------------------------------------------
RouteInit ==
    NodeInit /\ req = [c \in Client |-> NoRequest] /\ jobless = {}

(***************************************************************************)
(* The row is read and the request accepted.  cancel and delete drop the   *)
(* job of the node that serves the request here, before their write.       *)
(***************************************************************************)
Accept(c, op, n, t) ==
    /\ req[c] = NoRequest /\ Up(n)
    /\ Accepts(op, task[t].state)
    /\ req' = [req EXCEPT ![c] = [op |-> op, node |-> n, task |-> t, wrote |-> FALSE]]
    /\ timer' = IF op \in {"cancel", "delete"} THEN WithoutJob(n, t) ELSE timer
    /\ UNCHANGED <<vars, erun, jobless>>

\* The request c, an op, writes row.  It goes on to the engine, or is done.
Write(c, op, row, ahead) ==
    /\ req[c].op = op /\ ~req[c].wrote
    /\ task' = [task EXCEPT ![req[c].task] = row]
    /\ req' = [req EXCEPT ![c] = IF ahead THEN [@ EXCEPT !.wrote = TRUE]
                                 ELSE NoRequest]
    /\ UNCHANGED <<run, loop, cand, active, timer, erun, jobless>>

\* update_state(PAUSED); the lease is left alone.
Pause(c) ==
    LET t == req[c].task IN
    /\ Write(c, "pause", StateSet(task[t], "paused"), task[t].state # "deleted")
    /\ UNCHANGED succeeded

Cancel(c) ==
    Write(c, "cancel", Canceled(task[req[c].task]), FALSE) /\ UNCHANGED succeeded

\* update_state(ACTIVE).
Resume(c) ==
    LET t == req[c].task IN
    /\ Write(c, "resume", StateSet(task[t], "active"), task[t].state # "deleted")
    /\ UNCHANGED succeeded

\* replay_failed tests the state once more.
Replay(c) ==
    LET t == req[c].task IN
    /\ Write(c, "replay", Replayed(task[t]), task[t].state = "failed")
    /\ UNCHANGED succeeded

\* A run outside any schedule: no lease, no key, no timeout.
Trigger(c) ==
    /\ Write(c, "trigger", RunRecorded(task[req[c].task]), FALSE)
    /\ \E out \in {"success", "failure"} : Outcome(req[c].task, out)

Delete(c) ==
    Write(c, "delete", Deleted(task[req[c].task]), FALSE) /\ UNCHANGED succeeded

(***************************************************************************)
(* After the write engine.pause takes the job, whatever the row says by    *)
(* now; a resume or a replay gives it a new one.                           *)
(***************************************************************************)
TurnToEngine(c) ==
    LET n == req[c].node
        t == req[c].task
        gives == req[c].op # "pause" IN
    /\ req[c].wrote
    /\ timer' = IF gives THEN WithJob(n, t) ELSE WithoutJob(n, t)
    /\ jobless' = IF gives THEN jobless \ {t}
                  ELSE IF task[t].state = "active" THEN jobless \cup {t}
                  ELSE jobless
    /\ req' = [req EXCEPT ![c] = NoRequest]
    /\ UNCHANGED <<vars, erun>>

(***************************************************************************)
(* A statement of the endpoint raises (the storage, or the schedule that   *)
(* is put in the engine; engine.pause never raises): the caller gets a 500 *)
(* and what is done stays.                                                 *)
(***************************************************************************)
RequestFails(c) ==
    /\ req[c] # NoRequest /\ ~(req[c].wrote /\ req[c].op = "pause")
    /\ req' = [req EXCEPT ![c] = NoRequest]
    /\ jobless' = IF req[c].wrote \/ req[c].op \in {"cancel", "delete"}
                  THEN jobless \cup {req[c].task} ELSE jobless
    /\ UNCHANGED nodeVars

\* The requests that a node serves die with it.
RouteCrash(n) ==
    /\ NodeCrash(n)
    /\ req' = [c \in Client |-> IF req[c].node = n THEN NoRequest ELSE req[c]]
    /\ UNCHANGED jobless

\* A node that comes back gives every active task a job.
RouteRestart(n) == NodeRestart(n) /\ jobless' = {} /\ UNCHANGED req

RouteStep(c) ==
    \/ \E op \in Op, n \in Node, t \in Task : Accept(c, op, n, t)
    \/ Pause(c) \/ Cancel(c) \/ Resume(c) \/ Replay(c) \/ Trigger(c) \/ Delete(c)
    \/ TurnToEngine(c) \/ RequestFails(c)

RouteNext ==
    \/ DispatchStep /\ UNCHANGED <<engineVars, req, jobless>>
    \/ \E n \in Node, t \in Task : EngineStep(n, t) /\ UNCHANGED <<req, jobless>>
    \/ \E n \in Node : RouteCrash(n) \/ RouteRestart(n)
    \/ NodeTick /\ UNCHANGED <<req, jobless>>
    \/ \E c \in Client : RouteStep(c)

RouteSpec == RouteInit /\ [][RouteNext]_routeVars

-----------------------------------------------------------------------------
RouteTypeOK ==
    /\ NodeTypeOK
    /\ req \in [Client -> Request \cup {NoRequest}]
    /\ \A c \in Client : req[c].wrote => req[c].op \in {"pause", "resume", "replay"}
    /\ jobless \subseteq Task

\* A pause or resume of t, accepted on an older state of the row, is written.
OwnerWrites(t) ==
    \E c \in Client : /\ req[c].op \in {"pause", "resume"}
                      /\ req[c].task = t /\ ~req[c].wrote /\ req'[c] # req[c]

(***************************************************************************)
(* Cancel is final: a canceled task is never active, paused, completed or  *)
(* failed again, whatever run or request was in progress.  (It may be      *)
(* deleted, and only a pause or resume that read the row before can undo   *)
(* it.)                                                                    *)
(***************************************************************************)
CancelIsFinal ==
    [][\A t \in Task : task[t].state = "canceled"
         => task'[t].state \in {"canceled", "deleted"} \/ OwnerWrites(t)]_routeVars

(***************************************************************************)
(* Cancel clears next_run and the lease, and a run that was in progress    *)
(* neither advances the schedule nor takes the lease back when it ends.    *)
(***************************************************************************)
CanceledIsInert ==
    \A t \in Task : task[t].state \in {"canceled", "deleted"} =>
        task[t].next = NULL /\ task[t].owner = NULL /\ task[t].left = NULL

(***************************************************************************)
(* A failed task is dispatched again only after a replay (run_count starts *)
(* anew) or a resume, which does not look at "failed"; a run that ends     *)
(* late, a trigger, a pause or a restart does not bring it back.           *)
(***************************************************************************)
FailedIsFinal ==
    [][\A t \in Task :
         task[t].state = "failed" /\ task'[t].state = "active"
           => OwnerWrites(t) \/ (task'[t].runs = 0 /\ task'[t].next = 0)]_routeVars

(***************************************************************************)
(* No task is stranded: an active task has a next_run, or a job that will  *)
(* fire on some node, or an engine run or a request that is still to act,  *)
(* or a node that is down and gives it a job when it comes back.  (A run   *)
(* that ends while its job is paused or removed writes NULL.)  Two windows *)
(* break this, and only these: a resume between the write of a pause and   *)
(* its engine.pause, which then pauses the resumed job; and a request that *)
(* raises between the row and the job.                                     *)
(***************************************************************************)
NeverStranded ==
    \A t \in Task \ jobless : task[t].state = "active" =>
        \/ task[t].next # NULL
        \/ \E n \in Node : timer[n][t] # NULL \/ erun[n][t].pc # "idle" \/ ~Up(n)
        \/ \E c \in Client : req[c].task = t

\* The types of the whole node, and a cancel that nothing in progress writes over.
RouteInv == RouteTypeOK /\ CanceledIsInert
=============================================================================
