--------------------------- MODULE ApprovalRoutes --------------------------
(***************************************************************************)
(* The endpoints of cognix/api/routes/approvals.py over the agent loop,    *)
(* with the two other things a request may wait for: a memory write, and a *)
(* run of the Claude Agent SDK (cognix/claude/runtime.py), which Cognix    *)
(* only tells "denied" and asks again after the approval.                  *)
(*                                                                         *)
(* An endpoint called with an answer in its body responds to the request   *)
(* first and then does the rest, here Respond and the rest one after the   *)
(* other.                                                                  *)
(***************************************************************************)
EXTENDS AgentRun, FiniteSets

(***************************************************************************)
(* Approving, answering and rejecting.  A memory request is then written   *)
(* by the same HTTP request, whatever the status it was found in, unless   *)
(* it is completed already.                                                *)
(***************************************************************************)
Persisting(q) == [Idle EXCEPT !.pc = "persisting", !.req = q]

AfterVerdict(a, q, r) ==
    IF r.kind = "memory_write" /\ r.status # "completed"
      THEN co' = [co EXCEPT ![a] = Persisting(q)]
      ELSE UNCHANGED co

Approve(a, q) ==
    /\ co[a] = Idle /\ q \in Stored(request)
    /\ request' = [request EXCEPT ![q] = Approved(@)]
    /\ AfterVerdict(a, q, Approved(request[q]))
    /\ grants' = [grants EXCEPT ![q] = @ + IF request[q].status = "pending" THEN 1 ELSE 0]
    /\ UNCHANGED <<waiting, gate, started, listening, ran, uses, raced>>

Respond(a, q) ==
    /\ co[a] = Idle /\ q \in Stored(request) /\ grants[q] < MaxGrants
    /\ request' = [request EXCEPT ![q] = Responded(@)]
    /\ AfterVerdict(a, q, Responded(request[q]))
    /\ grants' = [grants EXCEPT ![q] = @ + IF request[q].status = "approved" THEN 0 ELSE 1]
    /\ UNCHANGED <<waiting, gate, started, listening, ran, uses, raced>>

\* A rejection takes back what has not been used.
Reject(q) ==
    /\ q \in Stored(request)
    /\ request' = [request EXCEPT ![q] = Rejected(@)]
    /\ grants' = [grants EXCEPT ![q] = IF @ > uses[q] THEN uses[q] ELSE @]
    /\ UNCHANGED <<waiting, gate, co, started, listening, ran, uses, raced>>

(***************************************************************************)
(* _persist_memory_write_approval: cold memory, facts, then completed.     *)
(***************************************************************************)
PersistsAny(kind) == kind \in Kind                          \* a wrong form

Persists(kind) == kind = "memory_write"

ResumeMemory(a, q) ==
    /\ co[a] = Idle /\ Persists(request[q].kind)
    /\ request[q].status # "completed"
    /\ co' = [co EXCEPT ![a] = Persisting(q)]
    /\ UNCHANGED <<request, waiting, gate, started, listening, history>>

MemoryPersisted(a) ==
    /\ co[a].pc = "persisting"
    /\ request' = [request EXCEPT ![co[a].req] = Completed(@)]
    /\ co' = [co EXCEPT ![a] = Idle]
    /\ UNCHANGED <<waiting, gate, started, listening, history>>

(***************************************************************************)
(* A run of the SDK: can_use_tool files a request for the call and denies  *)
(* it; the run ends as waiting.                                            *)
(***************************************************************************)
SdkRun(v) ==
    /\ v \notin started /\ started' = started \cup {v}
    /\ \E q \in Unused(request) : request' = [request EXCEPT ![q] = Created("sdk", v)]
    /\ UNCHANGED <<waiting, gate, co, listening, history>>

\* ClaudeAgentRuntime.resume_approval acknowledges and runs nothing.
SdkAcknowledge(q) ==
    /\ request[q].kind = "sdk" /\ Resumable(request[q])
    /\ request' = [request EXCEPT ![q] = Completed(@)]
    /\ UNCHANGED <<waiting, gate, co, started, listening, history>>

\* resume_stream runs the SDK again, and completes unless it saw an error.
SdkResume(a, q) ==
    /\ co[a] = Idle /\ request[q].kind = "sdk" /\ Resumable(request[q])
    /\ co' = [co EXCEPT ![a] = [Idle EXCEPT !.pc = "sdk", !.req = q]]
    /\ UNCHANGED <<request, waiting, gate, started, listening, history>>

SdkEnds(a) ==
    /\ co[a].pc = "sdk"
    /\ \/ request' = [request EXCEPT ![co[a].req] = Completed(@)]
       \/ UNCHANGED request
       \/ \E q \in Unused(request) :      \* the resumed run is stopped in turn
             request' = [request EXCEPT
                ![co[a].req] = Completed(@), ![q] = Created("sdk", request[co[a].req].work)]
    /\ co' = [co EXCEPT ![a] = Idle]
    /\ UNCHANGED <<waiting, gate, started, listening, history>>

(***************************************************************************)
(* The endpoints choose by the kind of the request: a tool call is resumed *)
(* with the rest of its conversation, or alone.                            *)
(***************************************************************************)
ResumeTool(a, q) == ResumeAndContinue(a, q) \/ ResumeOnly(a, q)

Next ==
    \/ \E a \in Coroutine :
          \/ \E v \in Conv : Start(a, v)
          \/ LoopStep(a) \/ MemoryPersisted(a) \/ SdkEnds(a) \/ Abandon(a)
          \/ \E q \in Req :
                \/ Approve(a, q) \/ Respond(a, q)
                \/ ResumeTool(a, q) \/ ResumeMemory(a, q) \/ SdkResume(a, q)
    \/ \E q \in Req : Reject(q) \/ SdkAcknowledge(q)
    \/ \E v \in Conv : SdkRun(v)
    \/ Crash

Spec == Init /\ [][Next]_vars

-----------------------------------------------------------------------------
(* Every variable has its type.                                            *)
Call == [conv : Conv, turn : Nat, at : Nat, kind : {"free", "gated", "denied"}]

Snap == [conv : Conv, turn : Nat, rest : Seq(Call)]

ApprovalTypeOK ==
    /\ \A q \in Req : \/ request[q] = NoRequest
                      \/ /\ request[q].status \in Status /\ request[q].kind \in Kind
                         /\ request[q].work \in Conv \cup Call
                         /\ request[q].snap \in Snap \cup {NULL}
    /\ waiting \in Snap \cup {NULL}
    /\ gate \in Stored(request) \cup {NULL}
    /\ \A a \in Coroutine :
          /\ co[a].pc \in {"idle", "asking", "calling", "running", "emitting", "yielding",
                           "resuming", "persisting", "sdk"}
          /\ co[a].left \in 0..MaxIter
          /\ co[a].pc \in {"calling", "running", "emitting", "yielding"} => co[a].todo # <<>>
          /\ {co[a].req, co[a].event} \subseteq Stored(request) \cup {NULL}
    /\ started \subseteq Conv /\ listening \in BOOLEAN

(***************************************************************************)
(* Approval gating: a call that needs approval is only ever executed for a *)
(* request that names this very call and that somebody has approved or     *)
(* answered - also when it is a left-over call of a resumed batch, or the  *)
(* snapshot is of another conversation; a denied call is never executed.   *)
(***************************************************************************)
NoUnapprovedCall ==
    /\ \A call \in ran :
          /\ call.kind # "denied"
          /\ call.kind = "gated" =>
                \E q \in Req : uses[q] > 0 /\ request[q].work = call
    /\ \A q \in Req : uses[q] > 0 => grants[q] > 0

(***************************************************************************)
(* One permission, one execution: a request is used as often as somebody   *)
(* gave permission, unless two resumes of it overlap or one is cut off     *)
(* before the request is completed (those are the windows that the         *)
(* check-then-run of agent.py leaves).                                     *)
(***************************************************************************)
UsesCovered == \A q \in Req \ raced : uses[q] <= grants[q]

\* A tool request counts as completed only after its tool has been run.
CompletedWasExecuted ==
    \A q \in Req : request[q].kind = "tool_permission" /\ request[q].status = "completed"
                       => uses[q] > 0

(***************************************************************************)
(* Unless tool events have listeners, the snapshot that a request carries  *)
(* across a restart is of the conversation whose call waits for it,        *)
(* although the event that connects them is one variable of an agent that  *)
(* serves all conversations.                                               *)
(***************************************************************************)
SnapshotIsOwn ==
    ~listening => \A q \in Req : request[q].snap # NULL =>
        request[q].kind = "tool_permission" /\ request[q].snap.conv = request[q].work.conv

(***************************************************************************)
(* "Execute remaining tool calls from the same LLM response" (agent.py):   *)
(* no call that has been made is made again by a resumed run.              *)
(***************************************************************************)
RemainingOnly ==
    [][\A a \in Coroutine : CallFree(a) => Head(co[a].todo) \notin ran]_vars

\* The types, and no tool request that counts as completed without its call.
ApprovalInv == ApprovalTypeOK /\ CompletedWasExecuted
=============================================================================
