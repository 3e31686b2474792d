---------------------------- MODULE CodeSandbox ----------------------------
(***************************************************************************)
(* The preview servers of cognix/local/code_sandbox.py.  A start spawns a    *)
(* process and records its pid in projects.json; the process outlives the    *)
(* server that started it.  When it ends first it is a zombie until Python's  *)
(* next Popen, and its pid may be given to somebody else later.              *)
(***************************************************************************)
EXTENDS Naturals, FiniteSets

CONSTANTS Projects, Pids, Starts    \* projects; process ids; HTTP requests that start one

NoPid == 0

ASSUME SandboxAssumption == NoPid \notin Pids

VARIABLES project,     \* projects.json
          process,     \* what the system runs under each pid
          starting,    \* the project that a start request waits to start
          stopped,     \* processes that a stop has signalled
          unrecorded   \* processes that were spawned and never recorded

sandboxVars == <<project, process, starting, stopped, unrecorded>>

Vacant == [as |-> "none", project |-> "none", child |-> FALSE]

SandboxInit ==
  /\ project = [p \in Projects |-> [status |-> "none", pid |-> NoPid]]
  /\ process = [i \in Pids |-> Vacant]
  /\ starting = [s \in Starts |-> "none"]
  /\ stopped = {} /\ unrecorded = {}

\* _pid_alive: any process of the user answers signal 0, a zombie too.
PidAlive(i) == i # NoPid /\ process[i].as # "none"

\* _refresh_status, which list_all applies to every project and saves.
Refreshed(r) ==
  IF r.status = "running" /\ r.pid # NoPid /\ ~PidAlive(r.pid)
  THEN [status |-> "stopped", pid |-> NoPid] ELSE r

ListAll == [p \in Projects |-> Refreshed(project[p])]

CreateProject(p) ==
  /\ project[p].status = "none"
  /\ project' = [project EXCEPT ![p].status = "created"]
  /\ UNCHANGED <<process, starting, stopped, unrecorded>>

\* The endpoint awaits the command policy; an approval it asks for is not waited for.
AskStart(s, p) ==
  /\ starting[s] = "none" /\ project[p].status # "none"
  /\ starting' = [starting EXCEPT ![s] = p]
  /\ UNCHANGED <<project, process, stopped, unrecorded>>

\* A wrong form: the recorded process is not looked at.
MustStartAlways(r) == r.status # "none"

MustStart(r) == ~PidAlive(r.pid)

\* start_project has no await: look, spawn, record.
Start(s) ==
  LET p == starting[s] IN
  /\ p # "none" /\ starting' = [starting EXCEPT ![s] = "none"]
  /\ UNCHANGED unrecorded
  /\ \/ ~MustStart(ListAll[p]) /\ project' = ListAll /\ UNCHANGED <<process, stopped>>
     \/ /\ MustStart(ListAll[p])
        /\ \/ project' = [ListAll EXCEPT ![p].status = "failed"]
              /\ UNCHANGED <<process, stopped>>
           \/ \E i \in Pids :
                /\ process[i] = Vacant
                /\ process' = [process EXCEPT ![i] =
                                 [as |-> "preview", project |-> p, child |-> TRUE]]
                /\ stopped' = stopped \ {i}
                /\ project' = [ListAll EXCEPT ![p] = [status |-> "running", pid |-> i]]

\* The file cannot be written after Popen: the request raises, the preview is running.
StartUnwritten(s) ==
  LET p == starting[s] IN
  /\ p # "none" /\ MustStart(ListAll[p]) /\ starting' = [starting EXCEPT ![s] = "none"]
  /\ \E i \in Pids :
       /\ process[i] = Vacant
       /\ process' = [process EXCEPT ![i] = [as |-> "preview", project |-> p, child |-> TRUE]]
       /\ unrecorded' = unrecorded \cup {i} /\ stopped' = stopped \ {i}
  /\ project' = ListAll

\* The server dies after Popen: the preview is running and no file names it.
StartCrashes(s) ==
  LET p == starting[s] IN
  /\ p # "none" /\ MustStart(ListAll[p])
  /\ \E i \in Pids :
       /\ process[i] = Vacant
       /\ process' = [j \in Pids |->
            IF j = i THEN [as |-> "preview", project |-> p, child |-> FALSE]
            ELSE IF process[j].as = "zombie" THEN Vacant
            ELSE [process[j] EXCEPT !.child = FALSE]]
       /\ unrecorded' = unrecorded \cup {i} /\ stopped' = stopped \ {i}
  /\ project' = ListAll /\ starting' = [x \in Starts |-> "none"]

\* stop_project signals whatever has the recorded pid.
StopProject(p) ==
  /\ project[p].status # "none"
  /\ LET i == ListAll[p].pid IN
       stopped' = stopped \cup {j \in {i} : PidAlive(j)}
  /\ project' = [ListAll EXCEPT ![p] = [status |-> "stopped", pid |-> NoPid]]
  /\ UNCHANGED <<process, starting, unrecorded>>

\* A process ends, of itself or by the signal.
ProcessEnds(i) ==
  /\ process[i].as \in {"preview", "foreign"}
  /\ process' = [process EXCEPT ![i] = IF process[i].child THEN [@ EXCEPT !.as = "zombie"]
                                       ELSE Vacant]
  /\ stopped' = stopped \ {i} /\ unrecorded' = unrecorded \ {i}
  /\ UNCHANGED <<project, starting>>

\* Nobody waits for a preview, but Popen of any module first collects the children that
\* have ended.
Reaped(i) ==
  /\ process[i].as = "zombie" /\ process' = [process EXCEPT ![i] = Vacant]
  /\ UNCHANGED <<project, starting, stopped, unrecorded>>

\* The system gives a vacant pid to a process that is none of ours.
PidReused(i) ==
  /\ process[i] = Vacant
  /\ process' = [process EXCEPT ![i].as = "foreign"]
  /\ UNCHANGED <<project, starting, stopped, unrecorded>>

ServerRestarts ==
  /\ process' = [i \in Pids |-> IF process[i].as = "zombie" THEN Vacant
                                ELSE [process[i] EXCEPT !.child = FALSE]]
  /\ starting' = [s \in Starts |-> "none"]
  /\ UNCHANGED <<project, stopped, unrecorded>>

SandboxNext ==
  \/ \E p \in Projects : CreateProject(p) \/ StopProject(p) \/ \E s \in Starts : AskStart(s, p)
  \/ \E s \in Starts : Start(s) \/ StartUnwritten(s) \/ StartCrashes(s)
  \/ \E i \in Pids : ProcessEnds(i) \/ Reaped(i) \/ PidReused(i)
  \/ ServerRestarts

----------------------------------------------------------------------------
\* A preview that nobody has stopped can be found and stopped: projects.json names it,
\* however starts overlap, processes end and the server restarts, unless the server
\* died, or could not write the file, right after it had spawned it.
RunningIsRecorded ==
  \A i \in Pids \ (stopped \cup unrecorded) :
    process[i].as = "preview" => project[process[i].project].pid = i
=============================================================================
