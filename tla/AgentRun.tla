----------------------------- MODULE AgentRun ------------------------------
(***************************************************************************)
(* The tool loop of one agent (cognix/core/agent.py) and how it stops for  *)
(* an approval and goes on afterwards.                                     *)
(*                                                                         *)
(* The server keeps ONE Agent object for all the conversations of an       *)
(* agent.  Each request that runs it is a coroutine; between two awaits a  *)
(* coroutine is atomic.  They share three things: the requests file        *)
(* (request), _waiting_snapshot (waiting), _pending_approval_event (gate). *)
(* A tool call is known by its conversation, the reply that asked for it   *)
(* and its place there.                                                    *)
(*                                                                         *)
(* listening says that the event bus has handlers for tool events (a plan  *)
(* is being streamed), so that emitting one suspends the coroutine;        *)
(* without handlers emit returns at once (core/events.py).                 *)
(***************************************************************************)
EXTENDS Approvals, Sequences

CONSTANTS
    Coroutine,    \* the HTTP requests being served
    Conv,         \* conversations; each is started once
    Replies,      \* what the model may answer: sequences of call kinds
    MaxIter,      \* max_iterations
    MaxGrants,    \* bound: permissions given to one request
    RemembersAsk  \* ask/plan mode in a workspace: memory needs approval

ASSUME AgentAssumption ==
    /\ MaxIter \in Nat /\ MaxGrants \in Nat /\ RemembersAsk \in BOOLEAN
    /\ Replies \subseteq Seq({"free", "gated", "denied"})

VARIABLES
    request,    \* [Req -> request], the file
    waiting,    \* Agent._waiting_snapshot
    gate,       \* Agent._pending_approval_event: a request id or NULL
    co,         \* [Coroutine -> what it is doing]
    started,    \* conversations that have been started
    listening,
    ran,        \* history: calls whose execution has begun
    grants,     \* history: permissions given for a request ...
    uses,       \* ... and executions begun on the strength of them
    raced       \* history: requests two resumes overlapped on, or a crash hit

vars == <<request, waiting, gate, co, started, listening, ran, grants, uses, raced>>
history == <<ran, grants, uses, raced>>

Idle == [pc |-> "idle", conv |-> NULL, turn |-> 0, todo |-> <<>>,
         batch |-> <<>>, left |-> 0, req |-> NULL, event |-> NULL]

Calls(conv, turn, reply) ==
    [i \in DOMAIN reply |-> [conv |-> conv, turn |-> turn, at |-> i, kind |-> reply[i]]]

Init ==
    /\ request = [q \in Req |-> NoRequest]
    /\ waiting = NULL /\ gate = NULL
    /\ co = [a \in Coroutine |-> Idle]
    /\ started = {}
    /\ listening \in BOOLEAN
    /\ ran = {} /\ raced = {}
    /\ grants = [q \in Req |-> 0] /\ uses = [q \in Req |-> 0]

(***************************************************************************)
(* run and stream_events: a new conversation enters the loop.              *)
(***************************************************************************)
Start(a, v) ==
    /\ co[a] = Idle /\ v \notin started
    /\ started' = started \cup {v}
    /\ co' = [co EXCEPT ![a] = [Idle EXCEPT !.pc = "asking", !.conv = v, !.left = MaxIter]]
    /\ UNCHANGED <<request, waiting, gate, listening, history>>

(***************************************************************************)
(* _call_llm answers with tool calls.                                      *)
(***************************************************************************)
Turn(c) == [c EXCEPT !.pc = "calling", !.left = @ - 1]

ModelCalls(a) ==
    /\ co[a].pc = "asking" /\ co[a].left > 0
    /\ \E reply \in Replies :
          /\ reply # <<>>
          /\ LET calls == Calls(co[a].conv, co[a].turn + 1, reply)
             IN  co' = [co EXCEPT ![a] =
                    [Turn(co[a]) EXCEPT !.turn = co[a].turn + 1, !.todo = calls, !.batch = calls]]
    /\ UNCHANGED <<request, waiting, gate, started, listening, history>>

(***************************************************************************)
(* _call_llm answers without calls: the exchange is remembered.  In the    *)
(* restricted modes that only files a memory_write request; a file that    *)
(* cannot be written is logged and forgotten.                              *)
(***************************************************************************)
ModelStops(a) ==
    /\ co[a].pc = "asking" /\ co[a].left > 0 /\ <<>> \in Replies
    /\ co' = [co EXCEPT ![a] = Idle]
    /\ IF RemembersAsk /\ Unused(request) # {}
         THEN \E q \in Unused(request) :
                 request' = [request EXCEPT ![q] = Created("memory_write", co[a].conv)]
         ELSE UNCHANGED request
    /\ UNCHANGED <<waiting, gate, started, listening, history>>

\* The model cannot be reached, or max_iterations is exhausted: ERROR.
ModelFails(a) ==
    /\ co[a].pc = "asking"
    /\ co' = [co EXCEPT ![a] = Idle]
    /\ UNCHANGED <<request, waiting, gate, started, listening, history>>

(***************************************************************************)
(* After every tool call, of whatever kind, the loop consumes the pending  *)
(* event of the agent.  If there is one the run stops there: it yields the *)
(* result to its client, and then keeps a snapshot, with all calls of the  *)
(* batch but the one just made, in memory and in the request that the      *)
(* event names.  todo is what is left of the batch, so the calls before    *)
(* that one are the batch without todo, and those after it Tail(todo).     *)
(***************************************************************************)
Snapshot(c) ==
    [conv |-> c.conv, turn |-> c.turn,
     rest |-> SubSeq(c.batch, 1, Len(c.batch) - Len(c.todo)) \o Tail(c.todo)]

ConsumedKept(event) == event                                \* a wrong form

Consumed(event) == NULL

Remaining(c) ==
    [c EXCEPT !.todo = Tail(@), !.req = NULL,
              !.pc = IF Len(c.todo) = 1 THEN "asking" ELSE "calling"]

AfterCall(a, event) ==
    /\ gate' = Consumed(event)
    /\ co' = [co EXCEPT ![a] =
          IF event = NULL THEN Remaining(@) ELSE [@ EXCEPT !.pc = "yielding", !.event = event]]

Stops(a) ==
    /\ co[a].pc = "yielding"
    /\ LET snap == Snapshot(co[a])
       IN  /\ waiting' = snap
           /\ request' = [request EXCEPT ![co[a].event] = WithSnapshot(@, snap)]
    /\ co' = [co EXCEPT ![a] = Idle]
    /\ UNCHANGED <<gate, started, listening, history>>

(***************************************************************************)
(* _execute_tool of a call that permission and policy allow.  The tool is  *)
(* awaited, so others run meanwhile.                                       *)
(***************************************************************************)
CallFree(a) ==
    /\ co[a].pc = "calling" /\ Head(co[a].todo).kind = "free"
    /\ co' = [co EXCEPT ![a].pc = "running"]
    /\ ran' = ran \cup {Head(co[a].todo)}
    /\ UNCHANGED <<request, waiting, gate, started, listening, grants, uses, raced>>

FreeReturns(a) ==
    /\ co[a].pc = "running" /\ co[a].req = NULL
    /\ AfterCall(a, gate)
    /\ UNCHANGED <<request, waiting, started, listening, history>>

\* _execute_tool of a call that is denied outright (or an unknown tool).
CallDenied(a) ==
    /\ co[a].pc = "calling" /\ Head(co[a].todo).kind = "denied"
    /\ IF listening
         THEN /\ co' = [co EXCEPT ![a].pc = "emitting"]
              /\ UNCHANGED gate
         ELSE AfterCall(a, gate)
    /\ UNCHANGED <<request, waiting, started, listening, history>>

(***************************************************************************)
(* _execute_tool of a call that needs approval: file the request, set the  *)
(* event, emit, and stop - unless emitting lets somebody else consume the  *)
(* event first.  A file that cannot be written ends the run with an error. *)
(***************************************************************************)
CallGated(a) ==
    /\ co[a].pc = "calling" /\ Head(co[a].todo).kind = "gated"
    /\ IF Unused(request) = {}
         THEN co' = [co EXCEPT ![a] = Idle] /\ UNCHANGED <<request, gate>>
         ELSE \E q \in Unused(request) :
                /\ request' = [request EXCEPT ![q] =
                                 Created("tool_permission", Head(co[a].todo))]
                /\ IF listening
                     THEN gate' = q /\ co' = [co EXCEPT ![a].pc = "emitting"]
                     ELSE AfterCall(a, q)
    /\ UNCHANGED <<waiting, started, listening, history>>

Emitted(a) ==
    /\ co[a].pc = "emitting"
    /\ AfterCall(a, gate)
    /\ UNCHANGED <<request, waiting, started, listening, history>>

(***************************************************************************)
(* resume_and_continue: an approved request goes on from the snapshot in   *)
(* memory, whosever it is, else from its own saved one.  Without either it *)
(* only runs the tool (resume_approval, which leaves the memory alone).    *)
(***************************************************************************)
ResumableOpen(r) == r.status \in {"approved", "pending"}    \* a wrong form

Resumable(r) == r.status = "approved"

Overlapping(a, q) == \E b \in Coroutine \ {a} : co[b].req = q

\* The gated tool begins: _execute_tool_unchecked inside a resume.
UseOf(a, q) ==
    /\ ran' = ran \cup {request[q].work}
    /\ uses' = [uses EXCEPT ![q] = @ + 1]
    /\ raced' = IF Overlapping(a, q) THEN raced \cup {q} ELSE raced
    /\ UNCHANGED grants

ResumeAndContinue(a, q) ==
    /\ co[a] = Idle /\ Resumable(request[q]) /\ uses[q] < 2 * MaxGrants
    /\ request[q].kind = "tool_permission"
    /\ LET snap == IF waiting # NULL THEN waiting ELSE request[q].snap
       IN  /\ snap # NULL
           /\ co' = [co EXCEPT ![a] =
                [pc |-> "resuming", conv |-> snap.conv, turn |-> snap.turn, todo |-> snap.rest,
                 batch |-> snap.rest, left |-> MaxIter, req |-> q, event |-> NULL]]
    /\ waiting' = NULL
    /\ UseOf(a, q)
    /\ UNCHANGED <<request, gate, started, listening>>

\* Agent.resume_approval, also the fall-back of resume_and_continue.
ResumeOnly(a, q) ==
    /\ co[a] = Idle /\ Resumable(request[q]) /\ uses[q] < 2 * MaxGrants
    /\ request[q].kind = "tool_permission"
    /\ co' = [co EXCEPT ![a] = [Idle EXCEPT !.pc = "resuming", !.req = q]]
    /\ UseOf(a, q)
    /\ UNCHANGED <<request, waiting, gate, started, listening>>

\* The approved tool returns: the request is completed, the loop goes on.
Resumed(a) ==
    /\ co[a].pc = "resuming"
    /\ request' = [request EXCEPT ![co[a].req] = Completed(@)]
    /\ co' = [co EXCEPT ![a] =
         IF co[a].conv = NULL THEN Idle
         ELSE [@ EXCEPT !.req = NULL, !.pc = IF co[a].todo = <<>> THEN "asking" ELSE "calling"]]
    /\ UNCHANGED <<waiting, gate, started, listening, history>>

LoopStep(a) ==
    \/ ModelCalls(a) \/ ModelStops(a) \/ ModelFails(a)
    \/ CallFree(a) \/ FreeReturns(a) \/ CallDenied(a) \/ CallGated(a) \/ Emitted(a)
    \/ Stops(a) \/ Resumed(a)

(***************************************************************************)
(* The client of a stream goes away: the generator is closed at an await.  *)
(* A crash does that to all, and loses what only the memory held.          *)
(***************************************************************************)
Abandon(a) ==
    /\ co[a] # Idle
    /\ co' = [co EXCEPT ![a] = Idle]
    /\ raced' = IF co[a].req = NULL THEN raced ELSE raced \cup {co[a].req}
    /\ UNCHANGED <<request, waiting, gate, started, listening, ran, grants, uses>>

Crash ==
    /\ \/ waiting # NULL \/ \E a \in Coroutine : co[a] # Idle
    /\ co' = [a \in Coroutine |-> Idle]
    /\ waiting' = NULL /\ gate' = NULL
    /\ raced' = raced \cup {q \in Req : \E a \in Coroutine : co[a].req = q}
    /\ UNCHANGED <<request, started, listening, ran, grants, uses>>
=============================================================================
