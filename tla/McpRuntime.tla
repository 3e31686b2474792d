----------------------------- MODULE McpRuntime ----------------------------
(***************************************************************************)
(* The MCP runtime of cognix/mcp: one server as its file configures it,    *)
(* the process-wide MCPRuntimeManager with its persistent client, its lock *)
(* and its caches, and the coroutines (endpoints, mounted agent tools)     *)
(* that call tools, list them and stop or reconfigure the server.          *)
(*                                                                         *)
(* A coroutine runs without interruption from one await to the next; it    *)
(* may be cancelled at an await (a task's timeout does that).  A server    *)
(* process reads requests and answers them in any order, or dies; what a   *)
(* dead process left in its stdout is not read.  The status cache is left  *)
(* out: it is only displayed.                                              *)
(***************************************************************************)
EXTENDS Naturals, Sequences, FiniteSets

CONSTANTS
    Caller,       \* coroutines
    Proc,         \* server processes (a bound)
    Lock,         \* asyncio locks (a bound)
    MaxVersion,   \* bound: configurations written
    MaxRequests,  \* bound: requests to one process
    NULL

ASSUME McpAssumption ==
    /\ NULL \notin Caller \cup Proc \cup Lock
    /\ MaxVersion \in Nat \ {0} /\ MaxRequests \in Nat \ {0}

VARIABLES
    config,     \* the row of servers.json: [at, enabled], or NULL when deleted
    client,     \* _persistent_clients[id]: a process or NULL
    lock,       \* _persistent_locks[id]: a lock or NULL
    held,       \* [Lock -> the caller that holds it or NULL]
    tools,      \* _tool_cache: [cache key -> version of the list, or 0]
    mounted,    \* the configuration whose tools an agent has mounted, or NULL
    proc,       \* [Proc -> process]
    caller,     \* [Caller -> coroutine]
    disturbed   \* history: a start was cancelled or met an invalidation

vars == <<config, client, lock, held, tools, mounted, proc, caller, disturbed>>

Version == 1..MaxVersion

\* requests: _request_id; asked: read by the server; replies: in its stdout.
NoProc == [state |-> "none", version |-> 0, requests |-> 0, asked |-> {}, replies |-> <<>>]

Idle ==
    [pc |-> "idle", server |-> NULL, lock |-> NULL, proc |-> NULL, id |-> 0, nth |-> 0,
     got |-> 0, op |-> NULL]

Init ==
    /\ config = [at |-> 1, enabled |-> TRUE]
    /\ client = NULL /\ lock = NULL /\ held = [l \in Lock |-> NULL]
    /\ tools = [v \in Version |-> 0] /\ mounted = NULL
    /\ proc = [p \in Proc |-> NoProc]
    /\ caller = [c \in Caller |-> Idle]
    /\ disturbed = FALSE

Live(p) == p # NULL /\ proc[p].state = "live"

Spawned(p, version) == [proc EXCEPT ![p] = [NoProc EXCEPT !.state = "live", !.version = version]]

Killed(p) == [proc EXCEPT ![p] = [NoProc EXCEPT !.state = "dead"]]

-----------------------------------------------------------------------------
(***************************************************************************)
(* call_tool: the lock of the server, then its persistent client, started  *)
(* when there is none or its process has ended, then the request.          *)
(***************************************************************************)
SameId(r) == 1                                              \* a wrong form

NextId(r) == r.requests + 1

\* request: number it, write it, wait for the answer.
Request(c, p, ps) ==
    LET r == ps[p]
    IN  /\ r.requests < MaxRequests
        /\ proc' = [ps EXCEPT ![p].requests = @ + 1,
                              ![p].asked = @ \cup {[id |-> NextId(r), nth |-> r.requests + 1]}]
        /\ caller' = [caller EXCEPT ![c] = [Idle EXCEPT !.pc = "reading", !.proc = p,
                                              !.id = NextId(r), !.nth = r.requests + 1]]

\* Which server rows a call may hold: the file's now, or an agent's tool's.
Servers == {config, mounted} \ {NULL}

Call(c) ==
    /\ caller[c] = Idle
    /\ \E server \in Servers, l \in Lock :
          /\ server.enabled
          /\ IF lock = NULL
               THEN \A b \in Caller : caller[b].lock # l
               ELSE l = lock
          /\ lock' = l
          /\ caller' = [caller EXCEPT ![c] = [Idle EXCEPT !.pc = "locking", !.server = server,
                                                !.lock = l]]
    /\ UNCHANGED <<config, client, held, tools, mounted, proc, disturbed>>

NoLock(l) == TRUE                                           \* a wrong form

LockFree(l) == held[l] = NULL

\* async with lock: a live client is used ...
Reuse(c) ==
    /\ caller[c].pc = "locking" /\ LockFree(caller[c].lock)
    /\ Live(client)
    /\ Request(c, client, proc)
    /\ UNCHANGED <<config, client, lock, held, tools, mounted, disturbed>>

\* ... or a process is started, under the lock.
Start(c) ==
    /\ caller[c].pc = "locking" /\ LockFree(caller[c].lock)
    /\ ~Live(client)
    /\ held' = [held EXCEPT ![caller[c].lock] = c]
    /\ \E p \in Proc :
          /\ proc[p] = NoProc
          /\ proc' = Spawned(p, caller[c].server.at)
          /\ caller' = [caller EXCEPT ![c].pc = "starting", ![c].proc = p]
    /\ UNCHANGED <<config, client, lock, tools, mounted, disturbed>>

Release(c) == held' = [held EXCEPT ![caller[c].lock] = NULL]

Initialized(c) ==
    /\ caller[c].pc = "starting" /\ Live(caller[c].proc)
    /\ client' = caller[c].proc
    /\ Release(c)
    /\ Request(c, caller[c].proc, proc)
    /\ UNCHANGED <<config, lock, tools, mounted, disturbed>>

\* initialize raises: the process is ended again.
NotInitialized(c) ==
    /\ caller[c].pc = "starting"
    /\ Release(c)
    /\ proc' = Killed(caller[c].proc)
    /\ caller' = [caller EXCEPT ![c] = Idle]
    /\ UNCHANGED <<config, client, lock, tools, mounted, disturbed>>

\* The next message of stdout; another request's is dropped.
Accepts(reply, id) == reply.id = id

Read(c) ==
    LET w == caller[c]
        replies == proc[w.proc].replies
    IN  /\ w.pc = "reading" /\ Live(w.proc) /\ replies # <<>>
        /\ proc' = [proc EXCEPT ![w.proc].replies = Tail(replies)]
        /\ caller' = IF Accepts(Head(replies), w.id)
                       THEN [caller EXCEPT ![c].pc = "answered", ![c].got = Head(replies).nth]
                       ELSE caller
        /\ UNCHANGED <<config, client, lock, held, tools, mounted, disturbed>>

\* stdout is closed, another coroutine waits on it, or the answer is late.
CallFails(c) ==
    /\ caller[c].pc = "reading"
    /\ caller' = [caller EXCEPT ![c] = Idle]
    /\ UNCHANGED <<config, client, lock, held, tools, mounted, proc, disturbed>>

Return(c) ==
    /\ caller[c].pc \in {"answered", "listed"}
    /\ caller' = [caller EXCEPT ![c] = Idle]
    /\ UNCHANGED <<config, client, lock, held, tools, mounted, proc, disturbed>>

-----------------------------------------------------------------------------
(***************************************************************************)
(* list_tools: a short-lived cache, or a process for this listing alone.   *)
(* attach_workspace_mcp_tools mounts what it returns on an agent.          *)
(***************************************************************************)
CacheKey(server) == server.at

Listed(c, server, version) ==
    /\ caller' = [caller EXCEPT ![c] =
          [Idle EXCEPT !.pc = "listed", !.server = server, !.got = version]]
    /\ mounted' \in {mounted, server}

ListCached(c) ==
    /\ caller[c] = Idle /\ config # NULL /\ config.enabled
    /\ tools[CacheKey(config)] # 0
    /\ Listed(c, config, tools[CacheKey(config)])
    /\ UNCHANGED <<config, client, lock, held, tools, proc, disturbed>>

\* A miss, an entry older than the time to live, or force_refresh.
Discover(c, server, op) ==
    \E p \in Proc :
       /\ proc[p] = NoProc
       /\ proc' = Spawned(p, server.at)
       /\ caller' = [caller EXCEPT ![c] = [Idle EXCEPT !.pc = "listing", !.server = server,
                                             !.proc = p, !.op = op]]

List(c) ==
    /\ caller[c] = Idle /\ config # NULL /\ config.enabled
    /\ Discover(c, config, "list")
    /\ UNCHANGED <<config, client, lock, held, tools, mounted, disturbed>>

ListOk(c) ==
    LET w == caller[c]
    IN  /\ w.pc = "listing" /\ Live(w.proc)
        /\ proc' = Killed(w.proc)
        /\ tools' = [tools EXCEPT ![CacheKey(w.server)] = proc[w.proc].version]
        /\ Listed(c, w.server, proc[w.proc].version)
        /\ UNCHANGED <<config, client, lock, held, disturbed>>

ListFails(c) ==
    /\ caller[c].pc = "listing"
    /\ proc' = Killed(caller[c].proc)
    /\ caller' = [caller EXCEPT ![c] = Idle]
    /\ UNCHANGED <<config, client, lock, held, tools, mounted, disturbed>>

-----------------------------------------------------------------------------
(***************************************************************************)
(* invalidate, by the endpoints that write the server's row, stop it or    *)
(* restart it: the persistent client is popped and closed, then its lock   *)
(* and the caches are dropped.                                             *)
(***************************************************************************)
Starting(b) == caller[b].pc \in {"locking", "starting"}

Dropped ==
    /\ lock' = NULL
    /\ disturbed' = (disturbed \/ \E b \in Caller : Starting(b))
    /\ tools' = [v \in Version |-> 0]
    /\ UNCHANGED <<config, held, mounted>>

Written(op) ==
    CASE op = "upsert" -> {[at |-> config.at + 1, enabled |-> e] : e \in BOOLEAN}
      [] op = "delete" -> {NULL}
      [] OTHER         -> {config}

Invalidate(c) ==
    /\ caller[c] = Idle /\ config # NULL
    /\ \E op \in {"upsert", "delete", "stop", "restart"} :
          /\ op = "upsert" => config.at < MaxVersion
          /\ config' \in Written(op)
          /\ caller' = [caller EXCEPT ![c] = [Idle EXCEPT !.pc = "closing", !.op = op,
                                                !.server = config, !.proc = client]]
    /\ client' = NULL
    /\ disturbed' = (disturbed \/ \E b \in Caller : Starting(b))
    /\ UNCHANGED <<lock, held, tools, mounted, proc>>

\* The process has been terminated and waited for.
Closed(c) ==
    LET w == caller[c]
        killed == IF w.proc = NULL THEN proc ELSE Killed(w.proc)
    IN  /\ w.pc = "closing"
        /\ Dropped
        /\ IF w.op = "restart" /\ w.server.enabled
             THEN \E p \in Proc :
                    /\ proc[p] = NoProc
                    /\ proc' = [killed EXCEPT ![p] = Spawned(p, w.server.at)[p]]
                    /\ caller' = [caller EXCEPT ![c].pc = "listing", ![c].proc = p]
             ELSE /\ proc' = killed
                  /\ caller' = [caller EXCEPT ![c] = Idle]
        /\ UNCHANGED client

-----------------------------------------------------------------------------
\* CancelledError is no Exception: a process being initialized is left alone.
Cancel(c) ==
    /\ caller[c].pc \in {"locking", "starting", "reading", "listing"}
    /\ IF caller[c].pc = "starting" THEN Release(c) ELSE UNCHANGED held
    /\ disturbed' = (disturbed \/ caller[c].pc \in {"starting", "listing"})
    /\ proc' \in IF caller[c].pc = "listing" THEN {proc, Killed(caller[c].proc)} ELSE {proc}
    /\ caller' = [caller EXCEPT ![c] = Idle]
    /\ UNCHANGED <<config, client, lock, tools, mounted>>

Answer(p) ==
    /\ Live(p)
    /\ \E request \in proc[p].asked :
          proc' = [proc EXCEPT ![p].asked = @ \ {request}, ![p].replies = Append(@, request)]
    /\ UNCHANGED <<config, client, lock, held, tools, mounted, caller, disturbed>>

Die(p) ==
    /\ Live(p)
    /\ proc' = Killed(p)
    /\ UNCHANGED <<config, client, lock, held, tools, mounted, caller, disturbed>>

Next ==
    \/ \E c \in Caller :
          \/ Call(c) \/ Reuse(c) \/ Start(c) \/ Initialized(c) \/ NotInitialized(c)
          \/ Read(c) \/ CallFails(c) \/ Return(c)
          \/ ListCached(c) \/ List(c) \/ ListOk(c) \/ ListFails(c)
          \/ Invalidate(c) \/ Closed(c) \/ Cancel(c)
    \/ \E p \in Proc : Answer(p) \/ Die(p)

Spec == Init /\ [][Next]_vars

-----------------------------------------------------------------------------
Server == [at : Version, enabled : BOOLEAN]

\* Every variable has its type; a lock is held exactly by who starts under it.
McpTypeOK ==
    /\ config \in Server \cup {NULL} /\ mounted \in Server \cup {NULL}
    /\ client \in Proc \cup {NULL} /\ lock \in Lock \cup {NULL}
    /\ tools \in [Version -> {0} \cup Version]
    /\ \A p \in Proc : proc[p].requests \in 0..MaxRequests
    /\ \A l \in Lock, c \in Caller :
          held[l] = c <=> caller[c].pc = "starting" /\ caller[c].lock = l

(***************************************************************************)
(* A call returns the answer to its own request, though earlier answers    *)
(* come late and two coroutines read one stdout; a listing returns the     *)
(* tools of the configuration it was asked for, also from the cache.       *)
(***************************************************************************)
AnswersMatch ==
    \A c \in Caller :
        LET w == caller[c]
        IN  /\ w.pc = "answered" => w.got = w.nth
            /\ w.pc = "listed" => w.got = w.server.at

(***************************************************************************)
(* No server process is forgotten: as long as no start is cancelled or     *)
(* meets an invalidation, each that runs is the persistent client or       *)
(* belongs to the coroutine that is starting, listing or closing it.       *)
(***************************************************************************)
ProcessesOwned ==
    ~disturbed =>
        \A p \in Proc : Live(p) =>
            \/ client = p
            \/ \E c \in Caller :
                  caller[c].proc = p /\ caller[c].pc \in {"starting", "listing", "closing"}

\* The types, a lock that is held by who starts under it, and no server process that
\* nobody would ever end.
McpInv == McpTypeOK /\ ProcessesOwned
=============================================================================
