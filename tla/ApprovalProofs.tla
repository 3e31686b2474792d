--------------------------- MODULE ApprovalProofs --------------------------
(***************************************************************************)
(* What holds of ApprovalRoutes for every set of requests, conversations   *)
(* and coroutines, every behaviour of the model and every bound: the types *)
(* of the shared state, that no call runs without a permission for it, that *)
(* a permission is used once, and that a saved snapshot is of the          *)
(* conversation that waits.                                                *)
(***************************************************************************)
EXTENDS ApprovalRoutes, TLAPS

-----------------------------------------------------------------------------
(* The types of the records, by the conversation they belong to.           *)

CallKind == {"free", "gated", "denied"}

CallOf(v) == [conv : {v}, turn : Nat, at : Nat, kind : CallKind]

Gated == [conv : Conv, turn : Nat, at : Nat, kind : {"gated"}]

SnapOf(v) == [conv : {v}, turn : Nat, rest : Seq(CallOf(v))]

Snaps == UNION {SnapOf(v) : v \in Conv}

ToolRequest ==
    [status : Status, kind : {"tool_permission"}, work : Gated, snap : Snaps \cup {NULL}]

OtherRequest ==
    [status : Status, kind : {"memory_write", "sdk"}, work : Conv, snap : Snaps \cup {NULL}]

Request == ToolRequest \cup OtherRequest \cup {NoRequest}

Pc == {"idle", "asking", "calling", "running", "emitting", "yielding", "resuming",
       "persisting", "sdk"}

LoopOf(v) ==
    [pc : Pc, conv : {v}, turn : Nat, todo : Seq(CallOf(v)), batch : Seq(CallOf(v)),
     left : 0..MaxIter, req : Req \cup {NULL}, event : Req \cup {NULL}]

Loops == UNION {LoopOf(v) : v \in Conv \cup {NULL}}

Types ==
    /\ request \in [Req -> Request]
    /\ waiting \in Snaps \cup {NULL}
    /\ gate \in Req \cup {NULL}
    /\ co \in [Coroutine -> Loops]
    /\ started \subseteq Conv /\ listening \in BOOLEAN
    /\ ran \subseteq Call
    /\ grants \in [Req -> Nat] /\ uses \in [Req -> Nat] /\ raced \subseteq Req

-----------------------------------------------------------------------------
(* The inductive invariant.                                                *)

Waits(file, q, kind) == q \in Stored(file) /\ file[q].kind = kind

\* What a coroutine holds at each point of its loop; without listeners nothing
\* suspends it between the event and the stop.
Fits(w, file, used, heard) ==
    /\ Len(w.todo) <= Len(w.batch)
    /\ w.pc \in {"calling", "running", "emitting", "yielding"} => w.todo # <<>>
    /\ w.pc \in {"asking", "calling", "running", "emitting", "yielding"} => w.conv \in Conv
    /\ w.req # NULL => w.pc \in {"resuming", "persisting", "sdk"}
    /\ w.pc = "resuming" => Waits(file, w.req, "tool_permission") /\ used[w.req] > 0
    /\ w.pc = "persisting" => Waits(file, w.req, "memory_write")
    /\ w.pc = "sdk" => Waits(file, w.req, "sdk")
    /\ w.event # NULL => w.event \in Stored(file)
    /\ w.pc = "yielding" => w.event # NULL
    /\ ~heard => w.pc # "emitting"
    /\ ~heard /\ w.pc = "yielding" =>
          file[w.event].kind = "tool_permission" /\ file[w.event].work.conv = w.conv

Places ==
    /\ \A a \in Coroutine : Fits(co[a], request, uses, listening)
    /\ gate # NULL => gate \in Stored(request) /\ listening

\* One request, with the permissions given for it and the uses made of it.
Sound(r, granted, used, heard) ==
    /\ r.status = "approved" \/ used > 0 => granted > 0
    /\ used > 0 => r.status # "none"
    /\ r.kind = "tool_permission" /\ r.status = "completed" => used > 0
    /\ ~heard /\ r.snap # NULL => r.kind = "tool_permission" /\ r.snap.conv = r.work.conv

Requests == \A q \in Req : Sound(request[q], grants[q], uses[q], listening)

Resuming(doing, q) == {a \in Coroutine : doing[a].pc = "resuming" /\ doing[a].req = q}

\* An approval that nobody is using has not been used.
OneUse ==
    \A q \in Req \ raced :
        /\ uses[q] <= grants[q]
        /\ \A a, b \in Resuming(co, q) : a = b
        /\ request[q].status = "approved" /\ Resuming(co, q) = {} => uses[q] < grants[q]

Allowed(call, file, used) ==
    /\ call.kind # "denied"
    /\ call.kind = "gated" => \E q \in Req : used[q] > 0 /\ file[q].work = call

Gating == \A call \in ran : Allowed(call, request, uses)

Inv == Types /\ Places /\ Requests /\ OneUse /\ Gating

-----------------------------------------------------------------------------
(* Sequences of calls.                                                     *)

\* A subset's sequences are the set's.
LEMMA SeqWider ==
    ASSUME NEW S, NEW T, S \subseteq T, NEW s \in Seq(S)
    PROVE  s \in Seq(T)
<1>1. s \in [1..Len(s) -> T] /\ Len(s) \in Nat
  OBVIOUS
<1> QED BY <1>1

\* A function on 1..n is a sequence.
LEMMA SeqOfFunction ==
    ASSUME NEW S, NEW n \in Nat, NEW f \in [1..n -> S]
    PROVE  f \in Seq(S) /\ Len(f) = n
OBVIOUS

\* Taking the first call off a batch.
LEMMA HeadTail ==
    ASSUME NEW S, NEW s \in Seq(S), s # <<>>
    PROVE  /\ Tail(s) \in Seq(S) /\ Head(s) \in S
           /\ Len(s) \in Nat \ {0} /\ Len(Tail(s)) = Len(s) - 1
OBVIOUS

\* More than one call leaves some.
LEMMA TailLeft ==
    ASSUME NEW S, NEW s \in Seq(S), s # <<>>, Len(s) # 1
    PROVE  Tail(s) # <<>>
<1>1. Len(Tail(s)) # Len(<<>>)
  BY HeadTail
<1> QED BY <1>1

\* The batch without the call just made.
LEMMA RestType ==
    ASSUME NEW S, NEW s \in Seq(S), NEW t \in Seq(S), t # <<>>, Len(t) <= Len(s)
    PROVE  SubSeq(s, 1, Len(s) - Len(t)) \o Tail(t) \in Seq(S)
OBVIOUS

\* The calls of one reply are calls of its conversation.
LEMMA CallsType ==
    ASSUME NEW v \in Conv, NEW n \in Nat, NEW reply \in Seq(CallKind), reply # <<>>
    PROVE  Calls(v, n, reply) \in Seq(CallOf(v)) /\ Calls(v, n, reply) # <<>>
<1> DEFINE calls == Calls(v, n, reply)
<1>1. Len(reply) \in Nat \ {0}
  OBVIOUS
<1>2. calls \in [1..Len(reply) -> CallOf(v)]
  BY DEF Calls, CallOf
<1> HIDE DEF calls
<1>3. calls \in Seq(CallOf(v)) /\ Len(calls) = Len(reply)
  BY <1>1, <1>2, SeqOfFunction
<1>4. calls # <<>>
  BY <1>1, <1>3
<1> QED BY <1>3, <1>4 DEF calls

-----------------------------------------------------------------------------
(* The records.                                                            *)

\* The constants that stand for nothing are nothing else.
LEMMA Nulls == NULL \notin Req /\ NULL \notin Kind /\ MaxIter \in Nat /\ "none" \notin Status
BY ApprovalsAssumption, AgentAssumption DEF Status

\* A request whose status is written keeps the rest.
LEMMA StatusWritten ==
    ASSUME NEW r \in Request, r # NoRequest, NEW status \in Status
    PROVE  LET s == WithStatus(r, status)
           IN  /\ s \in Request /\ s.status = status
               /\ s.kind = r.kind /\ s.work = r.work /\ s.snap = r.snap
BY DEF WithStatus, Request, ToolRequest, OtherRequest

\* So does one that gets a snapshot.
LEMMA SnapWritten ==
    ASSUME NEW r \in Request, r # NoRequest, NEW snap \in Snaps
    PROVE  LET s == WithSnapshot(r, snap)
           IN  /\ s \in Request /\ s.snap = snap
               /\ s.kind = r.kind /\ s.work = r.work /\ s.status = r.status
BY DEF WithSnapshot, Request, ToolRequest, OtherRequest

\* A new request is one.
LEMMA CreatedType ==
    /\ \A call \in Gated : Created("tool_permission", call) \in Request
    /\ \A v \in Conv, kind \in {"memory_write", "sdk"} : Created(kind, v) \in Request
BY DEF Created, Request, ToolRequest, OtherRequest, Status

\* A request is stored when it is not NoRequest.
LEMMA StoredIs ==
    ASSUME Types
    PROVE  \A q \in Req : /\ q \in Stored(request) <=> request[q] # NoRequest
                          /\ q \in Unused(request) <=> request[q] = NoRequest
                          /\ request[q] # NoRequest => request[q].status \in Status
BY Nulls DEF Types, Stored, Unused, Request, ToolRequest, OtherRequest, NoRequest

\* The record of a coroutine, field by field.
LEMMA LoopFields ==
    ASSUME NEW w \in Loops
    PROVE  /\ w.conv \in Conv \cup {NULL} /\ w \in LoopOf(w.conv)
           /\ w.todo \in Seq(CallOf(w.conv)) /\ w.batch \in Seq(CallOf(w.conv))
           /\ w.turn \in Nat /\ w.left \in 0..MaxIter
           /\ w.req \in Req \cup {NULL} /\ w.event \in Req \cup {NULL}
BY DEF Loops, LoopOf

\* Idle, and what starts from Idle with a request.
LEMMA FromIdle ==
    ASSUME NEW pc \in Pc, NEW q \in Req \cup {NULL}
    PROVE  Idle \in Loops /\ [Idle EXCEPT !.pc = pc, !.req = q] \in Loops
<1>1. Idle \in LoopOf(NULL)
  BY Nulls DEF Idle, LoopOf, Pc
<1>2. [Idle EXCEPT !.pc = pc, !.req = q] \in LoopOf(NULL)
  BY <1>1 DEF LoopOf
<1> QED BY <1>1, <1>2 DEF Loops

\* The call that a coroutine makes next.
LEMMA NextCall ==
    ASSUME NEW w \in Loops, w.todo # <<>>, w.conv \in Conv
    PROVE  Head(w.todo) \in CallOf(w.conv) /\ Head(w.todo) \in Call
<1>1. Head(w.todo) \in CallOf(w.conv)
  BY LoopFields, HeadTail
<1> QED BY <1>1 DEF CallOf, Call, CallKind

-----------------------------------------------------------------------------
(* One step of the shared state.                                           *)

\* What is filed stays filed, for the same kind of work.
Grows ==
    \A q \in Stored(request) :
        /\ q \in Stored(request')
        /\ request'[q].kind = request[q].kind /\ request'[q].work = request[q].work

\* What a coroutine holds, and what allows a call, outlive such a step.
LEMMA Kept ==
    ASSUME Inv, Grows, UNCHANGED listening,
           uses' \in [Req -> Nat], \A q \in Req : uses'[q] >= uses[q]
    PROVE  /\ \A a \in Coroutine : Fits(co[a], request', uses', listening')
           /\ \A call \in ran : Allowed(call, request', uses')
<1>1. ASSUME NEW a \in Coroutine
      PROVE  Fits(co[a], request', uses', listening')
  <2>1. Fits(co[a], request, uses, listening) /\ co[a] \in Loops
    BY DEF Inv, Places, Types
  <2>2. \A q \in Req : \A kind : Waits(request, q, kind) => Waits(request', q, kind)
    BY DEF Waits, Grows
  <2>3. \A q \in Req : uses[q] > 0 => uses'[q] > 0
    BY DEF Inv, Types
  <2>4. /\ co[a].pc = "resuming" => co[a].req \in Req
        /\ co[a].pc = "persisting" => co[a].req \in Req
        /\ co[a].pc = "sdk" => co[a].req \in Req
    BY <2>1 DEF Fits, Waits, Stored
  <2>5. /\ co[a].pc = "resuming" =>
             Waits(request', co[a].req, "tool_permission") /\ uses'[co[a].req] > 0
        /\ co[a].pc = "persisting" => Waits(request', co[a].req, "memory_write")
        /\ co[a].pc = "sdk" => Waits(request', co[a].req, "sdk")
    BY <2>1, <2>2, <2>3, <2>4 DEF Fits
  <2>6. co[a].event # NULL => co[a].event \in Stored(request)
    BY <2>1 DEF Fits
  <2>7. co[a].event # NULL =>
          /\ co[a].event \in Stored(request')
          /\ request'[co[a].event].kind = request[co[a].event].kind
          /\ request'[co[a].event].work = request[co[a].event].work
    BY <2>6 DEF Grows
  <2> QED BY <2>1, <2>5, <2>7 DEF Fits
<1>2. ASSUME NEW call \in ran
      PROVE  Allowed(call, request', uses')
  <2>1. Allowed(call, request, uses)
    BY DEF Inv, Gating
  <2>2. ASSUME NEW q \in Req, uses[q] > 0, request[q].work = call
        PROVE  uses'[q] > 0 /\ request'[q].work = call
    <3>1. q \in Stored(request)
      BY <2>2 DEF Inv, Requests, Sound, Stored
    <3> QED BY <2>2, <3>1 DEF Grows, Inv, Types
  <2> QED BY <2>1, <2>2 DEF Allowed
<1> QED BY <1>1, <1>2

\* What a step may do to a request and its permissions without using one.
Rewritten(q) ==
    /\ request'[q].status # "none"
    /\ q \in Stored(request) =>
          request'[q].kind = request[q].kind /\ request'[q].work = request[q].work
    /\ Sound(request'[q], grants'[q], uses[q], listening)
    /\ q \notin raced =>
          /\ uses[q] <= grants'[q]
          /\ request'[q].status = "approved" =>
                \/ request[q].status = "approved" /\ grants'[q] = grants[q]
                \/ uses[q] < grants'[q]

\* A step that begins no use of a permission keeps the invariant, if it writes fit
\* records and ends a use only by completing the request or by giving it up.
LEMMA Step ==
    ASSUME Inv, Types', UNCHANGED <<listening, uses>>, raced \subseteq raced',
           \A call \in ran' \ ran : call.kind = "free",
           \A q \in Req : \/ request'[q] = request[q] /\ grants'[q] = grants[q]
                          \/ Rewritten(q),
           \A a \in Coroutine : \/ co'[a] = co[a]
                                \/ Fits(co'[a], request', uses, listening),
           gate' # NULL => gate' \in Stored(request') /\ listening,
           \A q \in Req \ raced' :
               \/ Resuming(co', q) = Resuming(co, q)
               \/ /\ Resuming(co', q) \subseteq Resuming(co, q)
                  /\ request'[q].status # "approved"
    PROVE  Inv'
<1>1. Grows
  BY DEF Grows, Rewritten, Stored
<1>2. /\ \A a \in Coroutine : Fits(co[a], request', uses', listening')
      /\ \A call \in ran : Allowed(call, request', uses')
  BY <1>1, Kept DEF Inv, Types
<1>3. Places'
  BY <1>2 DEF Places
<1>4. Requests'
  BY DEF Rewritten, Requests, Inv
<1>5. OneUse'
  <2> SUFFICES ASSUME NEW q \in Req, q \notin raced'
               PROVE  /\ uses[q] <= grants'[q]
                      /\ \A a, b \in Resuming(co', q) : a = b
                      /\ request'[q].status = "approved" /\ Resuming(co', q) = {}
                            => uses[q] < grants'[q]
    BY DEF OneUse
  <2>1. /\ q \notin raced
        /\ uses[q] <= grants[q]
        /\ \A a, b \in Resuming(co, q) : a = b
        /\ request[q].status = "approved" /\ Resuming(co, q) = {} => uses[q] < grants[q]
    BY DEF Inv, OneUse
  <2>2. uses[q] <= grants'[q]
    BY <2>1 DEF Rewritten
  <2>3. \A a, b \in Resuming(co', q) : a = b
    BY <2>1
  <2>4. ASSUME request'[q].status = "approved", Resuming(co', q) = {}
        PROVE  uses[q] < grants'[q]
    <3>1. Resuming(co, q) = {}
      BY <2>4
    <3> QED BY <2>1, <2>4, <3>1 DEF Rewritten
  <2> QED BY <2>2, <2>3, <2>4
<1>6. Gating'
  <2>1. \A call \in ran' \ ran : Allowed(call, request', uses')
    BY DEF Allowed
  <2> QED BY <1>2, <2>1 DEF Gating
<1> QED BY <1>3, <1>4, <1>5, <1>6 DEF Inv

\* A coroutine that neither was nor will be resuming leaves those who are.
LEMMA SameResuming ==
    ASSUME Types, NEW a \in Coroutine, NEW w \in Loops, co' = [co EXCEPT ![a] = w],
           co[a].pc # "resuming", w.pc # "resuming"
    PROVE  \A q \in Req : Resuming(co', q) = Resuming(co, q)
BY DEF Types, Resuming

\* One that stops resuming leaves the others.
LEMMA FewerResuming ==
    ASSUME Types, NEW a \in Coroutine, NEW w \in Loops, co' = [co EXCEPT ![a] = w],
           w.pc # "resuming"
    PROVE  \A q \in Req : /\ Resuming(co', q) \subseteq Resuming(co, q)
                          /\ q # co[a].req => Resuming(co', q) = Resuming(co, q)
BY DEF Types, Resuming

-----------------------------------------------------------------------------
(* The steps of the loop.                                                  *)

\* A coroutine that moves by itself.
LEMMA Moves ==
    ASSUME Inv, NEW a \in Coroutine, NEW w \in Loops, co' = [co EXCEPT ![a] = w],
           Fits(w, request, uses, listening), w.pc # "resuming", co[a].pc # "resuming",
           UNCHANGED <<request, waiting, listening, grants, uses, raced>>,
           started' \subseteq Conv, ran' \subseteq Call,
           \A call \in ran' \ ran : call.kind = "free",
           gate' # NULL => gate' \in Stored(request) /\ listening
    PROVE  Inv'
<1>1. Types'
  BY DEF Inv, Types, Stored
<1>2. \A q \in Req : Resuming(co', q) = Resuming(co, q)
  BY SameResuming DEF Inv
<1>3. \A b \in Coroutine : co'[b] = co[b] \/ Fits(co'[b], request', uses, listening)
  BY DEF Inv, Types
<1> QED BY <1>1, <1>2, <1>3, Step

\* A coroutine goes idle, as most of its endings do.
LEMMA IdleFits ==
    /\ Idle \in Loops /\ Idle.pc # "resuming" /\ Idle.req = NULL
    /\ \A file, used, heard : Fits(Idle, file, used, heard)
<1>1. Idle \in Loops
  BY FromIdle DEF Pc
<1>2. Len(<<>>) = 0
  OBVIOUS
<1>3. \A file, used, heard : Fits(Idle, file, used, heard)
  BY <1>2 DEF Fits, Idle
<1> QED BY <1>1, <1>3 DEF Idle

\* Idle, with a request to work on.
LEMMA ServingFits ==
    ASSUME NEW pc \in {"persisting", "sdk", "resuming"}, NEW q \in Req, NEW file, NEW used,
           NEW heard, Waits(file, q, CASE pc = "persisting" -> "memory_write"
                                       [] pc = "sdk" -> "sdk"
                                       [] OTHER -> "tool_permission"),
           pc = "resuming" => used[q] > 0
    PROVE  LET w == [Idle EXCEPT !.pc = pc, !.req = q]
           IN  /\ w \in Loops /\ w.pc = pc /\ w.req = q
               /\ Fits(w, file, used, heard)
<1> DEFINE w == [Idle EXCEPT !.pc = pc, !.req = q]
<1>1. w \in Loops
  BY FromIdle DEF Pc
<1>2. /\ w.pc = pc /\ w.req = q /\ w.event = NULL /\ w.todo = <<>> /\ w.batch = <<>>
  BY DEF Idle
<1>3. Len(<<>>) = 0
  OBVIOUS
<1> HIDE DEF w
<1>4. Fits(w, file, used, heard)
  BY <1>2, <1>3 DEF Fits
<1> QED BY <1>1, <1>2, <1>4 DEF w

\* After a call the coroutine goes on with the rest, or yields for its event.
LEMMA AfterCallFits ==
    ASSUME NEW c \in Loops, c.pc \in {"calling", "running", "emitting"}, NEW file, NEW used,
           Fits(c, file, used, listening), NEW event \in Req \cup {NULL},
           event # NULL =>
               /\ event \in Stored(file)
               /\ ~listening => /\ file[event].kind = "tool_permission"
                                /\ file[event].work.conv = c.conv
    PROVE  LET w == IF event = NULL THEN Remaining(c)
                                    ELSE [c EXCEPT !.pc = "yielding", !.event = event]
           IN  w \in Loops /\ Fits(w, file, used, listening) /\ w.pc # "resuming"
<1>1. /\ c.conv \in Conv /\ c.todo # <<>> /\ Len(c.todo) <= Len(c.batch) /\ c.req = NULL
      /\ c.event # NULL => c.event \in Stored(file)
  BY DEF Fits
<1>2. /\ c \in LoopOf(c.conv)
      /\ c.todo \in Seq(CallOf(c.conv)) /\ c.batch \in Seq(CallOf(c.conv))
  BY LoopFields
<1>3. /\ Tail(c.todo) \in Seq(CallOf(c.conv)) /\ Len(Tail(c.todo)) = Len(c.todo) - 1
      /\ Len(c.todo) \in Nat /\ Len(c.batch) \in Nat
  <2>1. Tail(c.todo) \in Seq(CallOf(c.conv)) /\ Len(Tail(c.todo)) = Len(c.todo) - 1
    BY <1>1, <1>2, HeadTail
  <2>2. Len(c.todo) \in Nat /\ Len(c.batch) \in Nat
    BY <1>2
  <2> QED BY <2>1, <2>2
<1>4. CASE event = NULL
  <2> DEFINE w == Remaining(c)
  <2>1. /\ w \in LoopOf(c.conv) /\ w.pc \in {"asking", "calling"}
        /\ w.pc = "calling" => Len(c.todo) # 1
        /\ w.todo = Tail(c.todo) /\ w.batch = c.batch /\ w.conv = c.conv
        /\ w.req = NULL /\ w.event = c.event
    BY <1>2, <1>3 DEF LoopOf, Remaining, Pc
  <2>2. Len(c.todo) # 1 => Tail(c.todo) # <<>>
    BY <1>1, <1>2, TailLeft
  <2> HIDE DEF w
  <2>3. w \in Loops
    BY <1>1, <2>1 DEF Loops
  <2>4. Len(w.todo) <= Len(w.batch)
    BY <1>1, <1>3, <2>1
  <2>5. Fits(w, file, used, listening)
    BY <1>1, <2>1, <2>2, <2>4 DEF Fits
  <2> QED BY <1>4, <2>1, <2>3, <2>5 DEF w
<1>5. CASE event # NULL
  <2> DEFINE w == [c EXCEPT !.pc = "yielding", !.event = event]
  <2>1. /\ w \in LoopOf(c.conv) /\ w.pc = "yielding"
        /\ w.todo = c.todo /\ w.batch = c.batch /\ w.conv = c.conv
        /\ w.req = NULL /\ w.event = event
    BY <1>1, <1>2 DEF LoopOf, Pc
  <2> HIDE DEF w
  <2>2. w \in Loops
    BY <1>1, <2>1 DEF Loops
  <2>3. Fits(w, file, used, listening)
    BY <1>1, <1>5, <2>1 DEF Fits
  <2> QED BY <1>5, <2>1, <2>2, <2>3 DEF w
<1> QED BY <1>4, <1>5

\* _call_llm answers with calls.
LEMMA ModelCallsKeeps ==
    ASSUME Inv, NEW a \in Coroutine, ModelCalls(a)
    PROVE  Inv'
<1>1. PICK reply \in Replies :
         /\ reply # <<>>
         /\ LET calls == Calls(co[a].conv, co[a].turn + 1, reply)
            IN  co' = [co EXCEPT ![a] = [Turn(co[a]) EXCEPT
                          !.turn = co[a].turn + 1, !.todo = calls, !.batch = calls]]
  BY DEF ModelCalls
<1> DEFINE c == co[a]
           calls == Calls(c.conv, c.turn + 1, reply)
           w == [Turn(c) EXCEPT !.turn = c.turn + 1, !.todo = calls, !.batch = calls]
<1>2. /\ c \in Loops /\ Fits(c, request, uses, listening)
      /\ c.pc = "asking" /\ c.left > 0 /\ c.conv \in Conv /\ c.req = NULL
      /\ c.event # NULL => c.event \in Stored(request)
  BY DEF Inv, Types, Places, ModelCalls, Fits
<1>3. c \in LoopOf(c.conv) /\ c.turn \in Nat
  BY <1>2, LoopFields
<1>4. calls \in Seq(CallOf(c.conv)) /\ calls # <<>>
  <2>1. reply \in Seq(CallKind) /\ reply # <<>>
    BY <1>1, AgentAssumption DEF CallKind
  <2>2. c.conv \in Conv /\ c.turn + 1 \in Nat
    BY <1>2, <1>3
  <2> QED BY <2>1, <2>2, CallsType
<1> HIDE DEF calls
<1>5. /\ w \in LoopOf(c.conv) /\ w.pc = "calling" /\ w.todo = calls /\ w.batch = calls
      /\ w.conv = c.conv /\ w.req = NULL /\ w.event = c.event
  <2>1. c.left - 1 \in 0..MaxIter
    BY <1>2, <1>3, Nulls DEF LoopOf
  <2>2. /\ Turn(c) \in LoopOf(c.conv) /\ Turn(c).pc = "calling" /\ Turn(c).conv = c.conv
        /\ Turn(c).req = c.req /\ Turn(c).event = c.event
    BY <2>1, <1>3 DEF LoopOf, Turn, Pc
  <2> DEFINE t == Turn(c)
             n == c.turn + 1
  <2>3. n \in Nat /\ t \in LoopOf(c.conv)
    BY <1>3, <2>2
  <2>4. w = [t EXCEPT !.turn = n, !.todo = calls, !.batch = calls]
    OBVIOUS
  <2> HIDE DEF t, n, w
  <2>5. w \in LoopOf(c.conv) /\ w.pc = t.pc /\ w.todo = calls /\ w.batch = calls
        /\ w.conv = t.conv /\ w.req = t.req /\ w.event = t.event
    BY <1>4, <2>3, <2>4 DEF LoopOf
  <2> QED BY <1>2, <2>2, <2>5 DEF t
<1>6. co' = [co EXCEPT ![a] = w]
  BY <1>1 DEF calls
<1> HIDE DEF w
<1>7. w \in Loops /\ Len(w.todo) <= Len(w.batch)
  BY <1>2, <1>4, <1>5 DEF Loops
<1>8. Fits(w, request, uses, listening)
  BY <1>2, <1>4, <1>5, <1>7 DEF Fits
<1>9. /\ UNCHANGED <<request, waiting, gate, started, listening, history>>
      /\ started \subseteq Conv /\ ran \subseteq Call /\ co[a].pc # "resuming"
      /\ gate # NULL => gate \in Stored(request) /\ listening
  BY <1>2 DEF ModelCalls, Inv, Types, Places
<1> QED BY <1>5, <1>6, <1>7, <1>8, <1>9, Moves DEF history

\* What the invariant says of one coroutine and of the shared variables.
LEMMA Now ==
    ASSUME Inv
    PROVE  /\ Types /\ started \subseteq Conv /\ ran \subseteq Call
           /\ gate \in Req \cup {NULL}
           /\ gate # NULL => gate \in Stored(request) /\ listening
           /\ \A a \in Coroutine : co[a] \in Loops /\ Fits(co[a], request, uses, listening)
BY DEF Inv, Types, Places

\* run and stream_events: a conversation enters the loop.
LEMMA StartKeeps ==
    ASSUME Inv, NEW a \in Coroutine, NEW v \in Conv, Start(a, v)
    PROVE  Inv'
<1> DEFINE w == [Idle EXCEPT !.pc = "asking", !.conv = v, !.left = MaxIter]
<1>1. w \in LoopOf(v) /\ w.pc = "asking" /\ w.req = NULL /\ w.event = NULL
      /\ w.conv = v /\ w.todo = <<>> /\ w.batch = <<>>
  <2>1. <<>> \in Seq(CallOf(v)) /\ MaxIter \in 0..MaxIter /\ 0 \in Nat
    BY Nulls
  <2>2. Idle \in LoopOf(NULL) /\ Idle.todo = <<>> /\ Idle.batch = <<>>
        /\ Idle.req = NULL /\ Idle.event = NULL
    BY Nulls DEF Idle, LoopOf, Pc
  <2> QED BY <2>1, <2>2 DEF LoopOf, Pc
<1>2. co' = [co EXCEPT ![a] = w] /\ co[a].pc = "idle"
  BY DEF Start, Idle
<1> HIDE DEF w
<1>3. w \in Loops
  BY <1>1 DEF Loops
<1>4. Len(<<>>) = 0
  OBVIOUS
<1>5. Fits(w, request, uses, listening)
  BY <1>1, <1>4 DEF Fits
<1>6. started' \subseteq Conv /\ UNCHANGED <<request, waiting, gate, listening, history>>
  BY Now DEF Start
<1> QED BY <1>1, <1>2, <1>3, <1>5, <1>6, Now, Moves DEF history

\* The run ends in an error.
LEMMA ModelFailsKeeps ==
    ASSUME Inv, NEW a \in Coroutine, ModelFails(a)
    PROVE  Inv'
<1>1. /\ co' = [co EXCEPT ![a] = Idle] /\ co[a].pc # "resuming"
      /\ UNCHANGED <<request, waiting, gate, started, listening, history>>
  BY DEF ModelFails
<1> QED BY <1>1, IdleFits, Now, Moves DEF history

\* A call that is allowed begins.
LEMMA CallFreeKeeps ==
    ASSUME Inv, NEW a \in Coroutine, CallFree(a)
    PROVE  Inv'
<1> DEFINE c == co[a]
           w == [c EXCEPT !.pc = "running"]
<1>1. /\ c \in Loops /\ Fits(c, request, uses, listening) /\ c.pc = "calling"
      /\ c.conv \in Conv /\ c.todo # <<>>
  BY Now DEF CallFree, Fits
<1>2. w \in LoopOf(c.conv) /\ w.pc = "running" /\ w.todo = c.todo /\ w.batch = c.batch
      /\ w.conv = c.conv /\ w.req = c.req /\ w.event = c.event
  BY <1>1, LoopFields DEF LoopOf, Pc
<1>3. /\ co' = [co EXCEPT ![a] = w] /\ ran' = ran \cup {Head(c.todo)}
      /\ Head(c.todo).kind = "free"
      /\ UNCHANGED <<request, waiting, gate, started, listening, grants, uses, raced>>
  BY DEF CallFree
<1>4. Head(c.todo) \in Call
  BY <1>1, NextCall
<1> HIDE DEF w
<1>5. w \in Loops /\ Fits(w, request, uses, listening)
  BY <1>1, <1>2 DEF Loops, Fits
<1> QED BY <1>1, <1>2, <1>3, <1>4, <1>5, Now, Moves

\* After a call that filed nothing, the pending event is consumed, whosever it is.
LEMMA AfterOwnCall ==
    ASSUME Inv, NEW a \in Coroutine, co[a].pc \in {"calling", "running", "emitting"},
           AfterCall(a, gate), UNCHANGED <<request, waiting, started, listening, history>>
    PROVE  Inv'
<1> DEFINE w == IF gate = NULL THEN Remaining(co[a])
                               ELSE [co[a] EXCEPT !.pc = "yielding", !.event = gate]
<1>1. w \in Loops /\ Fits(w, request, uses, listening) /\ w.pc # "resuming"
  BY Now, AfterCallFits
<1>2. co' = [co EXCEPT ![a] = w] /\ gate' = NULL
  BY DEF AfterCall, Consumed
<1> HIDE DEF w
<1> QED BY <1>1, <1>2, Now, Moves DEF history

\* A call that needs no approval returns, and the loop goes on.
LEMMA FreeReturnsKeeps ==
    ASSUME Inv, NEW a \in Coroutine, FreeReturns(a)
    PROVE  Inv'
BY AfterOwnCall DEF FreeReturns

\* The event that asks for approval has been emitted, and the loop goes on.
LEMMA EmittedKeeps ==
    ASSUME Inv, NEW a \in Coroutine, Emitted(a)
    PROVE  Inv'
BY AfterOwnCall DEF Emitted

\* The record of a coroutine that emits an event to listeners.
LEMMA EmittingFits ==
    ASSUME NEW c \in Loops, c.pc = "calling", NEW file, NEW used,
           Fits(c, file, used, listening), listening
    PROVE  LET w == [c EXCEPT !.pc = "emitting"]
           IN  w \in Loops /\ Fits(w, file, used, listening) /\ w.pc # "resuming"
<1> DEFINE w == [c EXCEPT !.pc = "emitting"]
<1>1. c.conv \in Conv /\ c \in LoopOf(c.conv)
  BY LoopFields DEF Fits
<1>2. w \in LoopOf(c.conv) /\ w.pc = "emitting" /\ w.todo = c.todo /\ w.batch = c.batch
      /\ w.conv = c.conv /\ w.req = c.req /\ w.event = c.event
  BY <1>1 DEF LoopOf, Pc
<1> HIDE DEF w
<1>3. w \in Loops /\ Fits(w, file, used, listening)
  BY <1>1, <1>2 DEF Loops, Fits
<1> QED BY <1>2, <1>3 DEF w

\* A call that is denied outright.
LEMMA CallDeniedKeeps ==
    ASSUME Inv, NEW a \in Coroutine, CallDenied(a)
    PROVE  Inv'
<1>1. /\ co[a].pc = "calling"
      /\ UNCHANGED <<request, waiting, started, listening, history>>
  BY DEF CallDenied
<1>2. CASE listening
  <2> DEFINE w == [co[a] EXCEPT !.pc = "emitting"]
  <2>1. w \in Loops /\ Fits(w, request, uses, listening) /\ w.pc # "resuming"
    BY <1>1, <1>2, Now, EmittingFits
  <2>2. co' = [co EXCEPT ![a] = w] /\ UNCHANGED gate
    BY <1>2 DEF CallDenied
  <2> HIDE DEF w
  <2> QED BY <1>1, <2>1, <2>2, Now, Moves DEF history
<1>3. CASE ~listening
  BY <1>1, <1>3, AfterOwnCall DEF CallDenied
<1> QED BY <1>2, <1>3

\* What Stored says of a request whose kind is known.
LEMMA KindStored ==
    ASSUME Types, NEW q \in Req
    PROVE  request[q].kind \in Kind => q \in Stored(request)
BY Nulls, StoredIs DEF NoRequest

\* The resume endpoint of a memory request.
LEMMA ResumeMemoryKeeps ==
    ASSUME Inv, NEW a \in Coroutine, NEW q \in Req, ResumeMemory(a, q)
    PROVE  Inv'
<1> DEFINE w == Persisting(q)
<1>1. Waits(request, q, "memory_write")
  BY Now, KindStored DEF ResumeMemory, Persists, Waits, Kind
<1>2. w \in Loops /\ Fits(w, request, uses, listening) /\ w.pc = "persisting"
  BY <1>1, ServingFits DEF Persisting
<1>3. co' = [co EXCEPT ![a] = w] /\ co[a].pc = "idle"
      /\ UNCHANGED <<request, waiting, gate, started, listening, history>>
  BY DEF ResumeMemory, Idle
<1> HIDE DEF w
<1> QED BY <1>2, <1>3, Now, Moves DEF history

\* resume_stream of an SDK request begins.
LEMMA SdkResumeKeeps ==
    ASSUME Inv, NEW a \in Coroutine, NEW q \in Req, SdkResume(a, q)
    PROVE  Inv'
<1> DEFINE w == [Idle EXCEPT !.pc = "sdk", !.req = q]
<1>1. Waits(request, q, "sdk")
  BY Now, KindStored DEF SdkResume, Waits, Kind
<1>2. w \in Loops /\ Fits(w, request, uses, listening) /\ w.pc = "sdk"
  BY <1>1, ServingFits
<1>3. co' = [co EXCEPT ![a] = w] /\ co[a].pc = "idle"
      /\ UNCHANGED <<request, waiting, gate, started, listening, history>>
  BY DEF SdkResume, Idle
<1> HIDE DEF w
<1> QED BY <1>2, <1>3, Now, Moves DEF history

-----------------------------------------------------------------------------
(* Interruptions.                                                          *)

\* A coroutine is cut off at an await.
LEMMA AbandonKeeps ==
    ASSUME Inv, NEW a \in Coroutine, Abandon(a)
    PROVE  Inv'
<1>1. /\ co' = [co EXCEPT ![a] = Idle]
      /\ raced' = IF co[a].req = NULL THEN raced ELSE raced \cup {co[a].req}
      /\ UNCHANGED <<request, waiting, gate, started, listening, ran, grants, uses>>
  BY DEF Abandon
<1>2. Types /\ co[a] \in Loops /\ co[a].req \in Req \cup {NULL}
  BY Now, LoopFields
<1>3. Types'
  BY <1>1, <1>2, IdleFits DEF Types, Stored
<1>4. \A q \in Req \ raced' : Resuming(co', q) = Resuming(co, q)
  BY <1>1, <1>2, IdleFits, FewerResuming, Nulls
<1>5. \A b \in Coroutine : co'[b] = co[b] \/ Fits(co'[b], request', uses, listening)
  BY <1>1, <1>2, IdleFits DEF Types
<1> QED BY <1>1, <1>3, <1>4, <1>5, Now, Step

\* The server dies.
LEMMA CrashKeeps ==
    ASSUME Inv, Crash
    PROVE  Inv'
<1>1. /\ co' = [a \in Coroutine |-> Idle] /\ waiting' = NULL /\ gate' = NULL
      /\ raced' = raced \cup {q \in Req : \E a \in Coroutine : co[a].req = q}
      /\ UNCHANGED <<request, started, listening, ran, grants, uses>>
  BY DEF Crash
<1>2. Types'
  BY <1>1, Now, IdleFits DEF Types, Stored
<1>3. \A q \in Req \ raced' : Resuming(co', q) = Resuming(co, q)
  BY <1>1, IdleFits DEF Resuming
<1>4. \A b \in Coroutine : Fits(co'[b], request', uses, listening)
  BY <1>1, IdleFits
<1> QED BY <1>1, <1>2, <1>3, <1>4, Step

-----------------------------------------------------------------------------
(* The steps that write one request to the file.                           *)

\* What may be written over request q, with g permissions.
Writable(q, r, g) ==
    /\ r.status # "none"
    /\ q \in Stored(request) => r.kind = request[q].kind /\ r.work = request[q].work
    /\ Sound(r, g, uses[q], listening)
    /\ q \notin raced =>
          /\ uses[q] <= g
          /\ r.status = "approved" =>
                \/ request[q].status = "approved" /\ g = grants[q]
                \/ uses[q] < g

\* The step of Step that writes one request.
LEMMA Writes ==
    ASSUME Inv, NEW q \in Req, NEW r \in Request, NEW g \in Nat, Writable(q, r, g),
           request' = [request EXCEPT ![q] = r], grants' = [grants EXCEPT ![q] = g],
           co' \in [Coroutine -> Loops],
           \A a \in Coroutine : \/ co'[a] = co[a]
                                \/ Fits(co'[a], request', uses, listening),
           \A p \in Req : \/ Resuming(co', p) = Resuming(co, p)
                          \/ /\ p = q /\ r.status # "approved"
                             /\ Resuming(co', p) \subseteq Resuming(co, p),
           waiting' \in Snaps \cup {NULL}, gate' \in Req \cup {NULL}, started' \subseteq Conv,
           gate' # NULL => gate' \in Stored(request) \cup {q} /\ listening,
           UNCHANGED <<listening, ran, uses, raced>>
    PROVE  Inv'
<1>1. /\ request \in [Req -> Request] /\ grants \in [Req -> Nat]
      /\ ran \subseteq Call /\ uses \in [Req -> Nat] /\ raced \subseteq Req
      /\ listening \in BOOLEAN
  BY Now DEF Types
<1>2. request' \in [Req -> Request] /\ grants' \in [Req -> Nat]
      /\ request'[q] = r /\ grants'[q] = g
      /\ \A p \in Req : p # q => request'[p] = request[p] /\ grants'[p] = grants[p]
  BY <1>1
<1>3. Types'
  BY <1>1, <1>2 DEF Types
<1>4. \A p \in Req : \/ request'[p] = request[p] /\ grants'[p] = grants[p]
                     \/ Rewritten(p)
  BY <1>2 DEF Rewritten, Writable
<1>5. gate' # NULL => gate' \in Stored(request') /\ listening
  BY <1>2 DEF Stored, Writable
<1>6. \A p \in Req \ raced' :
         \/ Resuming(co', p) = Resuming(co, p)
         \/ /\ Resuming(co', p) \subseteq Resuming(co, p)
            /\ request'[p].status # "approved"
  BY <1>2
<1> QED BY <1>3, <1>4, <1>5, <1>6, Step

\* Writing a status that needs nothing: rejected, and completed after the use.
LEMMA StatusWritable ==
    ASSUME Inv, NEW q \in Stored(request), NEW status \in {"rejected", "completed"},
           status = "completed" /\ request[q].kind = "tool_permission" => uses[q] > 0
    PROVE  LET r == WithStatus(request[q], status)
           IN  r \in Request /\ r.status = status /\ Writable(q, r, grants[q])
<1> DEFINE r == WithStatus(request[q], status)
<1>1. q \in Req /\ request[q] \in Request /\ request[q] # NoRequest
  BY Now, StoredIs DEF Stored, Types
<1>2. /\ r \in Request /\ r.status = status
      /\ r.kind = request[q].kind /\ r.work = request[q].work /\ r.snap = request[q].snap
  BY <1>1, StatusWritten DEF Status
<1> HIDE DEF r
<1>3. Sound(request[q], grants[q], uses[q], listening)
  BY <1>1 DEF Inv, Requests
<1>4. Sound(r, grants[q], uses[q], listening)
  BY <1>2, <1>3 DEF Sound
<1>5. q \notin raced => uses[q] <= grants[q]
  BY <1>1 DEF Inv, OneUse
<1>6. Writable(q, r, grants[q])
  BY <1>2, <1>4, <1>5 DEF Writable
<1> QED BY <1>2, <1>6 DEF r

\* A new request may be written over an unused one.
LEMMA CreatedWritable ==
    ASSUME Inv, NEW q \in Unused(request), NEW kind, NEW work
    PROVE  Writable(q, Created(kind, work), grants[q])
<1> DEFINE r == Created(kind, work)
<1>1. q \in Req /\ q \notin Stored(request) /\ uses[q] \in Nat /\ grants[q] \in Nat
  BY Now DEF Unused, Types
<1>2. ~(uses[q] > 0)
  BY <1>1 DEF Inv, Requests, Sound, Stored
<1>3. r.status = "pending" /\ r.snap = NULL
  BY DEF Created
<1> HIDE DEF r
<1>4. Sound(r, grants[q], uses[q], listening)
  BY <1>2, <1>3 DEF Sound
<1>5. Writable(q, r, grants[q])
  BY <1>1, <1>2, <1>3, <1>4 DEF Writable
<1> QED BY <1>5 DEF r

\* The permissions as they are.
LEMMA SameGrants ==
    ASSUME Inv, UNCHANGED grants, NEW q \in Req
    PROVE  grants[q] \in Nat /\ grants' = [grants EXCEPT ![q] = grants[q]]
BY Now DEF Types

\* A coroutine that was not resuming becomes idle while one request is written.
LEMMA WritesAndIdles ==
    ASSUME Inv, NEW a \in Coroutine, co' = [co EXCEPT ![a] = Idle],
           NEW q \in Req, NEW r \in Request, Writable(q, r, grants[q]),
           co[a].pc = "resuming" => co[a].req = q /\ r.status # "approved",
           request' = [request EXCEPT ![q] = r],
           waiting' \in Snaps \cup {NULL}, UNCHANGED <<gate, started, listening, history>>
    PROVE  Inv'
<1>1. Types /\ co \in [Coroutine -> Loops] /\ Idle \in Loops /\ Idle.pc # "resuming"
  BY Now, IdleFits DEF Types
<1>2. \A p \in Req : \/ Resuming(co', p) = Resuming(co, p)
                     \/ /\ p = q /\ r.status # "approved"
                        /\ Resuming(co', p) \subseteq Resuming(co, p)
  BY <1>1, SameResuming, FewerResuming
<1>3. co' \in [Coroutine -> Loops]
      /\ \A b \in Coroutine : co'[b] = co[b] \/ Fits(co'[b], request', uses, listening)
  BY <1>1, IdleFits
<1>4. grants[q] \in Nat /\ grants' = [grants EXCEPT ![q] = grants[q]]
  BY SameGrants DEF history
<1> QED BY <1>2, <1>3, <1>4, Now, Writes DEF history, Types

\* The exchange is remembered, or a request to remember it is filed.
LEMMA ModelStopsKeeps ==
    ASSUME Inv, NEW a \in Coroutine, ModelStops(a)
    PROVE  Inv'
<1>1. /\ co[a].pc = "asking" /\ co' = [co EXCEPT ![a] = Idle]
      /\ UNCHANGED <<waiting, gate, started, listening, history>>
      /\ \/ UNCHANGED request
         \/ \E q \in Unused(request) :
               request' = [request EXCEPT ![q] = Created("memory_write", co[a].conv)]
  BY DEF ModelStops
<1>2. CASE UNCHANGED request
  BY <1>1, <1>2, IdleFits, Now, Moves DEF history
<1>3. ASSUME NEW q \in Unused(request),
             request' = [request EXCEPT ![q] = Created("memory_write", co[a].conv)]
      PROVE  Inv'
  <2> DEFINE r == Created("memory_write", co[a].conv)
  <2>1. co[a].conv \in Conv
    BY <1>1, Now DEF Fits
  <2>2. r \in Request /\ Writable(q, r, grants[q]) /\ q \in Req
    BY <2>1, CreatedType, CreatedWritable DEF Unused
  <2>3. request' = [request EXCEPT ![q] = r] /\ waiting' \in Snaps \cup {NULL}
    BY <1>1, <1>3, Now DEF Types
  <2> HIDE DEF r
  <2> QED BY <1>1, <2>2, <2>3, WritesAndIdles
<1> QED BY <1>1, <1>2, <1>3

\* A run stops for its event: the snapshot is kept in memory and in the request.
LEMMA StopsKeeps ==
    ASSUME Inv, NEW a \in Coroutine, Stops(a)
    PROVE  Inv'
<1> DEFINE c == co[a]
           q == c.event
           snap == Snapshot(c)
           r == WithSnapshot(request[q], snap)
<1>1. /\ c.pc = "yielding" /\ waiting' = snap
      /\ request' = [request EXCEPT ![q] = r] /\ co' = [co EXCEPT ![a] = Idle]
      /\ UNCHANGED <<gate, started, listening, history>>
  BY DEF Stops
<1>2. c \in Loops /\ Fits(c, request, uses, listening)
  BY Now
<1>3. /\ q \in Stored(request) /\ c.conv \in Conv /\ c.todo # <<>>
      /\ Len(c.todo) <= Len(c.batch)
      /\ ~listening => request[q].kind = "tool_permission" /\ request[q].work.conv = c.conv
  BY <1>1, <1>2 DEF Fits
<1>4. q \in Req /\ request[q] \in Request /\ request[q] # NoRequest
  BY <1>3, Now, StoredIs DEF Stored, Types
<1>5. snap \in SnapOf(c.conv) /\ snap.conv = c.conv
  <2>1. SubSeq(c.batch, 1, Len(c.batch) - Len(c.todo)) \o Tail(c.todo) \in Seq(CallOf(c.conv))
    BY <1>2, <1>3, LoopFields, RestType
  <2>2. c.turn \in Nat
    BY <1>2, LoopFields
  <2> QED BY <2>1, <2>2 DEF Snapshot, SnapOf
<1>6. snap \in Snaps
  BY <1>3, <1>5 DEF Snaps
<1> HIDE DEF snap
<1>7. /\ r \in Request /\ r.snap = snap /\ r.status = request[q].status
      /\ r.kind = request[q].kind /\ r.work = request[q].work
  BY <1>4, <1>6, SnapWritten
<1>8. request[q].status # "none"
  BY <1>3 DEF Stored
<1>9. Sound(request[q], grants[q], uses[q], listening)
  BY <1>4 DEF Inv, Requests
<1>10. q \notin raced => uses[q] <= grants[q]
  BY <1>4 DEF Inv, OneUse
<1> HIDE DEF r, q
<1>11. Sound(r, grants[q], uses[q], listening)
  BY <1>3, <1>5, <1>7, <1>9 DEF Sound
<1>12. Writable(q, r, grants[q])
  BY <1>7, <1>8, <1>10, <1>11 DEF Writable
<1> QED BY <1>1, <1>4, <1>6, <1>7, <1>12, WritesAndIdles

\* A call that needs approval: its request and its event.
LEMMA CallGatedKeeps ==
    ASSUME Inv, NEW a \in Coroutine, CallGated(a)
    PROVE  Inv'
<1> DEFINE c == co[a]
<1>1. /\ c.pc = "calling" /\ Head(c.todo).kind = "gated"
      /\ UNCHANGED <<waiting, started, listening, history>>
  BY DEF CallGated
<1>2. /\ c \in Loops /\ Fits(c, request, uses, listening) /\ c.conv \in Conv /\ c.todo # <<>>
  BY <1>1, Now DEF Fits
<1>3. CASE Unused(request) = {}
  <2>1. co' = [co EXCEPT ![a] = Idle] /\ UNCHANGED <<request, gate>>
    BY <1>3 DEF CallGated
  <2> QED BY <1>1, <2>1, IdleFits, Now, Moves DEF history
<1>4. ASSUME NEW q \in Unused(request),
             request' = [request EXCEPT ![q] = Created("tool_permission", Head(c.todo))],
             IF listening THEN gate' = q /\ co' = [co EXCEPT ![a].pc = "emitting"]
                          ELSE AfterCall(a, q)
      PROVE  Inv'
  <2> DEFINE r == Created("tool_permission", Head(c.todo))
             w == IF listening THEN [c EXCEPT !.pc = "emitting"]
                               ELSE [c EXCEPT !.pc = "yielding", !.event = q]
  <2>1. Head(c.todo) \in Gated /\ Head(c.todo).conv = c.conv
    BY <1>1, <1>2, NextCall DEF CallOf, Gated
  <2>2. q \in Req /\ q # NULL /\ r \in Request /\ Writable(q, r, grants[q])
    BY <2>1, CreatedType, CreatedWritable, Nulls DEF Unused
  <2>3. r.kind = "tool_permission" /\ r.work.conv = c.conv /\ r.status = "pending"
    BY <2>1 DEF Created
  <2>4. /\ Types /\ request \in [Req -> Request] /\ request' = [request EXCEPT ![q] = r]
    BY <1>4, Now DEF Types
  <2> HIDE DEF r
  <2>5. /\ request'[q] = r /\ q \in Stored(request')
        /\ \A p \in Req : p # q => request'[p] = request[p]
    BY <2>2, <2>3, <2>4 DEF Stored
  <2>6. Fits(c, request', uses, listening)
    <3>1. Grows
      BY <2>5 DEF Grows, Stored, Unused
    <3>2. uses \in [Req -> Nat] /\ UNCHANGED <<uses, listening>>
      BY <1>1, <2>4 DEF Types, history
    <3>3. \A p \in Req : uses'[p] >= uses[p]
      BY <3>2
    <3>4. \A b \in Coroutine : Fits(co[b], request', uses', listening')
      BY <3>1, <3>2, <3>3, Kept
    <3> QED BY <3>2, <3>4
  <2>7. w \in Loops /\ Fits(w, request', uses, listening) /\ w.pc # "resuming"
    <3>1. CASE listening
      BY <1>1, <1>2, <2>6, <3>1, EmittingFits
    <3>2. CASE ~listening
      BY <1>1, <1>2, <2>2, <2>3, <2>5, <2>6, <3>2, AfterCallFits
    <3> QED BY <3>1, <3>2
  <2>8. /\ co' = [co EXCEPT ![a] = w]
        /\ gate' \in Req \cup {NULL}
        /\ gate' # NULL => gate' = q /\ listening
    BY <1>4, <2>2 DEF AfterCall, Consumed
  <2> HIDE DEF w
  <2>9. \A p \in Req : Resuming(co', p) = Resuming(co, p)
    BY <1>1, <2>4, <2>7, <2>8, SameResuming
  <2>10. /\ co' \in [Coroutine -> Loops]
         /\ \A b \in Coroutine : co'[b] = co[b] \/ Fits(co'[b], request', uses, listening)
    BY <2>4, <2>7, <2>8 DEF Types
  <2>11. grants[q] \in Nat /\ grants' = [grants EXCEPT ![q] = grants[q]]
    BY <1>1, <2>2, SameGrants DEF history
  <2> QED BY <1>1, <2>2, <2>4, <2>8, <2>9, <2>10, <2>11, Writes DEF history, Types
<1> QED BY <1>3, <1>4 DEF CallGated

\* The approved tool returns.
LEMMA ResumedKeeps ==
    ASSUME Inv, NEW a \in Coroutine, Resumed(a)
    PROVE  Inv'
<1> DEFINE c == co[a]
           q == c.req
           r == WithStatus(request[q], "completed")
           w == IF c.conv = NULL THEN Idle
                ELSE [c EXCEPT !.req = NULL, !.pc = IF c.todo = <<>> THEN "asking" ELSE "calling"]
<1>1. /\ c.pc = "resuming" /\ request' = [request EXCEPT ![q] = r]
      /\ co' = [co EXCEPT ![a] = w]
      /\ UNCHANGED <<waiting, gate, started, listening, history>>
  BY DEF Resumed, Completed
<1>2. /\ c \in Loops /\ Fits(c, request, uses, listening)
      /\ Types /\ request \in [Req -> Request] /\ co \in [Coroutine -> Loops]
  BY Now DEF Types
<1>3. /\ q \in Stored(request) /\ q \in Req /\ uses[q] > 0
      /\ request[q].kind = "tool_permission"
      /\ Len(c.todo) <= Len(c.batch)
      /\ c.event # NULL => c.event \in Stored(request)
  BY <1>1, <1>2 DEF Fits, Waits, Stored
<1>4. r \in Request /\ r.status = "completed" /\ Writable(q, r, grants[q])
  BY <1>3, StatusWritable
<1>5. CASE c.conv = NULL
  <2>1. co' = [co EXCEPT ![a] = Idle]
    BY <1>1, <1>5
  <2>2. waiting' \in Snaps \cup {NULL}
    BY <1>1, <1>2 DEF Types
  <2> HIDE DEF r
  <2> QED BY <1>1, <1>3, <1>4, <2>1, <2>2, WritesAndIdles
<1>6. CASE c.conv # NULL
  <2>1. c.conv \in Conv /\ c \in LoopOf(c.conv)
    BY <1>2, <1>6, LoopFields
  <2>2. /\ w \in LoopOf(c.conv) /\ w.conv = c.conv /\ w.todo = c.todo /\ w.batch = c.batch
        /\ w.req = NULL /\ w.event = c.event
        /\ w.pc \in {"asking", "calling"}
        /\ w.pc = "calling" => c.todo # <<>>
    BY <1>6, <2>1 DEF LoopOf, Pc
  <2> HIDE DEF w, r
  <2>3. w \in Loops /\ w.pc # "resuming"
    BY <2>1, <2>2 DEF Loops
  <2>4. w.event # NULL => w.event \in Stored(request')
    BY <1>1, <1>2, <1>3, <1>4, <2>2 DEF Stored
  <2>5. Fits(w, request', uses, listening)
    BY <1>3, <2>1, <2>2, <2>4 DEF Fits
  <2>6. \A p \in Req : \/ Resuming(co', p) = Resuming(co, p)
                       \/ /\ p = q /\ r.status # "approved"
                          /\ Resuming(co', p) \subseteq Resuming(co, p)
    BY <1>1, <1>2, <1>4, <2>3, FewerResuming
  <2>7. /\ co' \in [Coroutine -> Loops]
        /\ \A b \in Coroutine : co'[b] = co[b] \/ Fits(co'[b], request', uses, listening)
    BY <1>1, <1>2, <2>3, <2>5
  <2>8. grants[q] \in Nat /\ grants' = [grants EXCEPT ![q] = grants[q]]
    BY <1>1, <1>3, SameGrants DEF history
  <2> HIDE DEF q
  <2> QED BY <1>1, <1>3, <1>4, <2>6, <2>7, <2>8, Now, Writes DEF history, Types
<1> QED BY <1>5, <1>6

\* A memory request is completed by who wrote the memory.
LEMMA MemoryPersistedKeeps ==
    ASSUME Inv, NEW a \in Coroutine, MemoryPersisted(a)
    PROVE  Inv'
<1> DEFINE q == co[a].req
           r == WithStatus(request[q], "completed")
<1>1. /\ co[a].pc = "persisting" /\ request' = [request EXCEPT ![q] = r]
      /\ co' = [co EXCEPT ![a] = Idle]
      /\ UNCHANGED <<waiting, gate, started, listening, history>>
  BY DEF MemoryPersisted, Completed
<1>2. q \in Stored(request) /\ q \in Req /\ request[q].kind = "memory_write"
  BY <1>1, Now DEF Fits, Waits, Stored
<1>3. r \in Request /\ Writable(q, r, grants[q]) /\ waiting' \in Snaps \cup {NULL}
  BY <1>1, <1>2, StatusWritable, Now DEF Types
<1> HIDE DEF q, r
<1> QED BY <1>1, <1>2, <1>3, WritesAndIdles

\* A step that leaves the coroutines alone and writes one request.
LEMMA WritesAlone ==
    ASSUME Inv, NEW q \in Req, NEW r \in Request, NEW g \in Nat, Writable(q, r, g),
           request' = [request EXCEPT ![q] = r], grants' = [grants EXCEPT ![q] = g],
           started' \subseteq Conv, UNCHANGED <<waiting, gate, co, listening, ran, uses, raced>>
    PROVE  Inv'
<1>1. /\ co' \in [Coroutine -> Loops] /\ \A b \in Coroutine : co'[b] = co[b]
      /\ \A p \in Req : Resuming(co', p) = Resuming(co, p)
      /\ waiting' \in Snaps \cup {NULL}
  BY Now DEF Types
<1> QED BY <1>1, Now, Writes

\* A rejection; what was permitted and not used is no longer permitted.
LEMMA RejectKeeps ==
    ASSUME Inv, NEW q \in Req, Reject(q)
    PROVE  Inv'
<1> DEFINE r == WithStatus(request[q], "rejected")
           g == IF grants[q] > uses[q] THEN uses[q] ELSE grants[q]
<1>1. /\ q \in Stored(request)
      /\ request' = [request EXCEPT ![q] = r] /\ grants' = [grants EXCEPT ![q] = g]
      /\ UNCHANGED <<waiting, gate, co, started, listening, ran, uses, raced>>
  BY DEF Reject, Rejected
<1>2. grants[q] \in Nat /\ uses[q] \in Nat /\ g \in Nat
  BY Now DEF Types
<1>3. r \in Request /\ r.status = "rejected" /\ Writable(q, r, grants[q])
  BY <1>1, StatusWritable
<1> HIDE DEF r
<1>4. Sound(r, g, uses[q], listening)
  BY <1>2, <1>3 DEF Sound, Writable
<1>5. Writable(q, r, g)
  BY <1>2, <1>3, <1>4 DEF Writable
<1> HIDE DEF g
<1> QED BY <1>1, <1>2, <1>3, <1>5, Now, WritesAlone

\* An approval: one more permission, unless there is one already.
LEMMA ApprovedWritable ==
    ASSUME Inv, NEW q \in Stored(request), NEW g \in Nat,
           \/ g = grants[q] + 1
           \/ g = grants[q] /\ request[q].status = "approved"
    PROVE  LET r == WithStatus(request[q], "approved")
           IN  /\ r \in Request /\ r.kind = request[q].kind /\ r.status = "approved"
               /\ Writable(q, r, g)
<1> DEFINE r == WithStatus(request[q], "approved")
<1>1. /\ q \in Req /\ request[q] \in Request /\ request[q] # NoRequest
      /\ grants[q] \in Nat /\ uses[q] \in Nat
  BY Now, StoredIs DEF Stored, Types
<1>2. /\ r \in Request /\ r.status = "approved"
      /\ r.kind = request[q].kind /\ r.work = request[q].work /\ r.snap = request[q].snap
  BY <1>1, StatusWritten DEF Status
<1> HIDE DEF r
<1>3. Sound(request[q], grants[q], uses[q], listening)
  BY <1>1 DEF Inv, Requests
<1>4. Sound(r, g, uses[q], listening)
  BY <1>1, <1>2, <1>3 DEF Sound
<1>5. q \notin raced => uses[q] <= grants[q]
  BY <1>1 DEF Inv, OneUse
<1>6. Writable(q, r, g)
  BY <1>1, <1>2, <1>4, <1>5 DEF Writable
<1> QED BY <1>2, <1>6 DEF r

\* A stored request may stay as it is.
LEMMA AsIsWritable ==
    ASSUME Inv, NEW q \in Stored(request)
    PROVE  request[q] \in Request /\ Writable(q, request[q], grants[q])
<1>1. q \in Req /\ request[q] \in Request /\ request[q].status # "none"
  BY Now DEF Stored, Types
<1>2. Sound(request[q], grants[q], uses[q], listening)
  BY <1>1 DEF Inv, Requests
<1>3. q \notin raced => uses[q] <= grants[q]
  BY <1>1 DEF Inv, OneUse
<1> QED BY <1>1, <1>2, <1>3 DEF Writable

\* An approval or an answer, with the memory write that may follow at once.
LEMMA VerdictKeeps ==
    ASSUME Inv, NEW a \in Coroutine, co[a] = Idle, NEW q \in Stored(request),
           NEW r \in Request, r.kind = request[q].kind, NEW g \in Nat, Writable(q, r, g),
           AfterVerdict(a, q, r),
           request' = [request EXCEPT ![q] = r], grants' = [grants EXCEPT ![q] = g],
           UNCHANGED <<waiting, gate, started, listening, ran, uses, raced>>
    PROVE  Inv'
<1>1. q \in Req
  BY DEF Stored
<1>2. CASE r.kind = "memory_write" /\ r.status # "completed"
  <2> DEFINE w == Persisting(q)
  <2>1. co' = [co EXCEPT ![a] = w] /\ co[a].pc = "idle"
    BY <1>2 DEF AfterVerdict, Idle
  <2>2. Waits(request', q, "memory_write")
    BY <1>1, <1>2, Now DEF Waits, Stored, Types, Writable
  <2>3. w \in Loops /\ w.pc = "persisting" /\ Fits(w, request', uses, listening)
    BY <1>1, <2>2, ServingFits DEF Persisting
  <2> HIDE DEF w
  <2>4. \A p \in Req : Resuming(co', p) = Resuming(co, p)
    BY <2>1, <2>3, Now, SameResuming
  <2>5. /\ co' \in [Coroutine -> Loops]
        /\ \A b \in Coroutine : co'[b] = co[b] \/ Fits(co'[b], request', uses, listening)
        /\ waiting' \in Snaps \cup {NULL}
    BY <2>1, <2>3, Now DEF Types
  <2> QED BY <1>1, <2>4, <2>5, Now, Writes
<1>3. CASE ~(r.kind = "memory_write" /\ r.status # "completed")
  <2>1. UNCHANGED co
    BY <1>3 DEF AfterVerdict
  <2> QED BY <1>1, <2>1, Now, WritesAlone
<1> QED BY <1>2, <1>3

\* An approval grants one use of a pending request.
LEMMA ApproveKeeps ==
    ASSUME Inv, NEW a \in Coroutine, NEW q \in Req, Approve(a, q)
    PROVE  Inv'
<1> DEFINE r == Approved(request[q])
           g == grants[q] + IF request[q].status = "pending" THEN 1 ELSE 0
<1>1. /\ co[a] = Idle /\ q \in Stored(request) /\ AfterVerdict(a, q, r)
      /\ request' = [request EXCEPT ![q] = r] /\ grants' = [grants EXCEPT ![q] = g]
      /\ UNCHANGED <<waiting, gate, started, listening, ran, uses, raced>>
  BY DEF Approve
<1>2. grants[q] \in Nat /\ g \in Nat
  BY Now DEF Types
<1>3. r \in Request /\ r.kind = request[q].kind /\ Writable(q, r, g)
  <2>1. CASE request[q].status = "pending"
    BY <1>1, <1>2, <2>1, ApprovedWritable DEF Approved
  <2>2. CASE request[q].status # "pending"
    BY <1>1, <1>2, <2>2, AsIsWritable DEF Approved
  <2> QED BY <2>1, <2>2
<1> HIDE DEF r, g
<1> QED BY <1>1, <1>2, <1>3, VerdictKeeps

\* A response approves the request unless it is approved already.
LEMMA RespondKeeps ==
    ASSUME Inv, NEW a \in Coroutine, NEW q \in Req, Respond(a, q)
    PROVE  Inv'
<1> DEFINE r == Responded(request[q])
           g == grants[q] + IF request[q].status = "approved" THEN 0 ELSE 1
<1>1. /\ co[a] = Idle /\ q \in Stored(request) /\ AfterVerdict(a, q, r)
      /\ request' = [request EXCEPT ![q] = r] /\ grants' = [grants EXCEPT ![q] = g]
      /\ UNCHANGED <<waiting, gate, started, listening, ran, uses, raced>>
  BY DEF Respond
<1>2. grants[q] \in Nat /\ g \in Nat
  BY Now DEF Types
<1>3. r \in Request /\ r.kind = request[q].kind /\ Writable(q, r, g)
  BY <1>1, <1>2, ApprovedWritable DEF Responded
<1> HIDE DEF r, g
<1> QED BY <1>1, <1>2, <1>3, VerdictKeeps

\* can_use_tool of the SDK files a request.
LEMMA SdkRunKeeps ==
    ASSUME Inv, NEW v \in Conv, SdkRun(v)
    PROVE  Inv'
<1>1. PICK q \in Unused(request) : request' = [request EXCEPT ![q] = Created("sdk", v)]
  BY DEF SdkRun
<1> DEFINE r == Created("sdk", v)
<1>2. q \in Req /\ r \in Request /\ Writable(q, r, grants[q])
  BY CreatedType, CreatedWritable DEF Unused
<1>3. started' \subseteq Conv /\ UNCHANGED <<waiting, gate, co, listening, history>>
  BY Now DEF SdkRun
<1>4. grants[q] \in Nat /\ grants' = [grants EXCEPT ![q] = grants[q]]
  BY <1>2, <1>3, SameGrants DEF history
<1>5. request' = [request EXCEPT ![q] = r]
  BY <1>1
<1> HIDE DEF r
<1> QED BY <1>2, <1>3, <1>4, <1>5, WritesAlone DEF history

\* The request of an SDK session is acknowledged.
LEMMA SdkAcknowledgeKeeps ==
    ASSUME Inv, NEW q \in Req, SdkAcknowledge(q)
    PROVE  Inv'
<1> DEFINE r == WithStatus(request[q], "completed")
<1>1. /\ request[q].kind = "sdk" /\ request' = [request EXCEPT ![q] = r]
      /\ UNCHANGED <<waiting, gate, co, started, listening, history>>
  BY DEF SdkAcknowledge, Completed
<1>2. q \in Stored(request)
  BY <1>1, Now, KindStored DEF Kind
<1>3. r \in Request /\ Writable(q, r, grants[q])
  BY <1>1, <1>2, StatusWritable
<1>4. grants[q] \in Nat /\ grants' = [grants EXCEPT ![q] = grants[q]]
  BY <1>1, SameGrants DEF history
<1> HIDE DEF r
<1> QED BY <1>1, <1>3, <1>4, Now, WritesAlone DEF history

\* resume_stream of the SDK ends: completed, failed, or stopped by another request.
LEMMA SdkEndsKeeps ==
    ASSUME Inv, NEW a \in Coroutine, SdkEnds(a)
    PROVE  Inv'
<1> DEFINE p == co[a].req
           r == WithStatus(request[p], "completed")
<1>1. /\ co[a].pc = "sdk" /\ co' = [co EXCEPT ![a] = Idle]
      /\ UNCHANGED <<waiting, gate, started, listening, history>>
  BY DEF SdkEnds
<1>2. p \in Stored(request) /\ p \in Req /\ request[p].kind = "sdk"
  BY <1>1, Now DEF Fits, Waits, Stored
<1>3. r \in Request /\ r.status = "completed" /\ Writable(p, r, grants[p])
      /\ waiting' \in Snaps \cup {NULL}
  BY <1>1, <1>2, StatusWritable, Now DEF Types
<1>4. CASE request' = [request EXCEPT ![p] = r]
  <2> HIDE DEF p, r
  <2> QED BY <1>1, <1>2, <1>3, <1>4, WritesAndIdles
<1>5. CASE UNCHANGED request
  BY <1>1, <1>5, IdleFits, Now, Moves DEF history
<1>6. ASSUME NEW q \in Unused(request),
             request' = [request EXCEPT ![p] = r, ![q] = Created("sdk", request[p].work)]
      PROVE  Inv'
  <2> DEFINE s == Created("sdk", request[p].work)
  <2>1. request[p].work \in Conv
    BY <1>2, Now DEF Types, Request, ToolRequest, OtherRequest, NoRequest, Stored
  <2>2. q \in Req /\ q # p /\ s \in Request /\ Writable(q, s, grants[q])
    BY <1>2, <2>1, CreatedType, CreatedWritable DEF Unused
  <2>3. request' = [request EXCEPT ![p] = r, ![q] = s]
    BY <1>6
  <2> HIDE DEF p, r, s
  <2>4. /\ Types /\ request \in [Req -> Request] /\ co \in [Coroutine -> Loops]
        /\ UNCHANGED <<uses, grants, ran, raced, listening>>
    BY <1>1, Now DEF Types, history
  <2>5. /\ request' \in [Req -> Request] /\ request'[p] = r /\ request'[q] = s
        /\ \A o \in Req : o # p /\ o # q => request'[o] = request[o]
    BY <1>2, <1>3, <2>2, <2>3, <2>4
  <2>6. Types'
    BY <1>1, <1>3, <2>4, <2>5, IdleFits DEF Types, history
  <2>7. Rewritten(p) /\ Rewritten(q)
    BY <1>3, <2>2, <2>4, <2>5 DEF Rewritten, Writable
  <2>8. \A o \in Req : (request'[o] = request[o] /\ grants'[o] = grants[o]) \/ Rewritten(o)
    BY <2>4, <2>5, <2>7
  <2>9. \A b \in Coroutine : co'[b] = co[b] \/ Fits(co'[b], request', uses, listening)
    BY <1>1, <2>4, IdleFits
  <2>10. \A o \in Req : Resuming(co', o) = Resuming(co, o)
    BY <1>1, <2>4, IdleFits, SameResuming
  <2>11. gate' # NULL => gate' \in Stored(request') /\ listening
    <3>1. gate' # NULL => gate' \in Stored(request) /\ listening
      BY <1>1, Now
    <3> QED BY <3>1, <2>5, <2>8 DEF Stored, Rewritten
  <2> QED BY <2>4, <2>6, <2>8, <2>9, <2>10, <2>11, Step
<1> QED BY <1>4, <1>5, <1>6 DEF SdkEnds, Completed

-----------------------------------------------------------------------------
(* The steps that use a permission.                                        *)

\* The gated tool of an approved request begins.
LEMMA UseKeeps ==
    ASSUME Inv, NEW a \in Coroutine, co[a] = Idle, NEW q \in Req, Resumable(request[q]),
           request[q].kind = "tool_permission", UseOf(a, q),
           NEW w \in Loops, co' = [co EXCEPT ![a] = w], w.pc = "resuming", w.req = q,
           w.event = NULL, Len(w.todo) <= Len(w.batch),
           waiting' \in Snaps \cup {NULL}, UNCHANGED <<request, gate, started, listening>>
    PROVE  Inv'
<1>1. /\ Types /\ request \in [Req -> Request] /\ co \in [Coroutine -> Loops]
      /\ uses \in [Req -> Nat] /\ grants \in [Req -> Nat] /\ request[q].status = "approved"
  BY Now DEF Types, Resumable
<1>2. /\ uses' = [uses EXCEPT ![q] = @ + 1] /\ ran' = ran \cup {request[q].work}
      /\ raced' = (IF Overlapping(a, q) THEN raced \cup {q} ELSE raced)
      /\ UNCHANGED grants
  BY DEF UseOf
<1>3. q \in Stored(request) /\ request[q].work \in Gated
  <2>1. request[q] \in Request /\ request[q].kind = "tool_permission"
    BY <1>1
  <2>2. request[q] \in ToolRequest
    BY <1>1, <2>1 DEF Request, OtherRequest, NoRequest
  <2> QED BY <1>1, <2>2 DEF Stored, ToolRequest
<1>4. request[q].work \in Call /\ request[q].work.kind = "gated"
  BY <1>3 DEF Gated, Call
<1>5. /\ uses' \in [Req -> Nat] /\ uses'[q] = uses[q] + 1
      /\ \A p \in Req : p # q => uses'[p] = uses[p]
      /\ \A p \in Req : uses'[p] >= uses[p]
  BY <1>1, <1>2
<1>6. Types'
  BY <1>1, <1>2, <1>4, <1>5 DEF Types, Stored
<1>7. Grows
  BY DEF Grows
<1>8. /\ \A b \in Coroutine : Fits(co[b], request', uses', listening')
      /\ \A call \in ran : Allowed(call, request', uses')
  BY <1>5, <1>7, Kept
<1>9. Fits(w, request', uses', listening')
  BY <1>1, <1>3, <1>5, Nulls DEF Fits, Waits
<1>10. Places'
  BY <1>1, <1>8, <1>9, Now DEF Places
<1>11. Requests'
  <2>1. \A p \in Req : Sound(request[p], grants[p], uses[p], listening)
    BY DEF Inv, Requests
  <2>2. Sound(request'[q], grants'[q], uses'[q], listening')
    BY <1>1, <1>2, <1>5, <2>1 DEF Sound
  <2>3. \A p \in Req : p # q => Sound(request'[p], grants'[p], uses'[p], listening')
    BY <1>2, <1>5, <2>1
  <2> QED BY <2>2, <2>3 DEF Requests
<1>12. Gating'
  <2>1. Allowed(request[q].work, request', uses')
    BY <1>1, <1>4, <1>5 DEF Allowed
  <2> QED BY <1>2, <1>8, <2>1 DEF Gating
<1>13. OneUse'
  <2> SUFFICES ASSUME NEW p \in Req, p \notin raced'
               PROVE  /\ uses'[p] <= grants'[p]
                      /\ \A b, c \in Resuming(co', p) : b = c
                      /\ request'[p].status = "approved" /\ Resuming(co', p) = {}
                            => uses'[p] < grants'[p]
    BY DEF OneUse
  <2>1. /\ uses[p] <= grants[p]
        /\ \A b, c \in Resuming(co, p) : b = c
        /\ request[p].status = "approved" /\ Resuming(co, p) = {} => uses[p] < grants[p]
    BY <1>2 DEF Inv, OneUse
  <2>2. CASE p # q
    <3>1. Resuming(co', p) = Resuming(co, p)
      BY <1>1, <2>2 DEF Resuming, Idle
    <3> QED BY <1>2, <1>5, <2>1, <2>2, <3>1
  <2>3. CASE p = q
    <3>1. ~Overlapping(a, q)
      BY <1>2, <2>3
    <3>2. Resuming(co, q) = {}
      BY <3>1 DEF Resuming, Overlapping, Idle
    <3>3. Resuming(co', q) = {a}
      BY <1>1, <3>1 DEF Resuming, Overlapping
    <3>4. uses[q] < grants[q] /\ uses[q] \in Nat /\ grants[q] \in Nat
      BY <1>1, <2>1, <2>3, <3>2
    <3>5. uses'[q] <= grants'[q]
      BY <1>2, <1>5, <3>4
    <3> QED BY <2>3, <3>3, <3>5
  <2> QED BY <2>2, <2>3
<1> QED BY <1>6, <1>10, <1>11, <1>12, <1>13 DEF Inv

\* resume_and_continue uses a grant and takes up a snapshot.
LEMMA ResumeAndContinueKeeps ==
    ASSUME Inv, NEW a \in Coroutine, NEW q \in Req, ResumeAndContinue(a, q)
    PROVE  Inv'
<1> DEFINE snap == IF waiting # NULL THEN waiting ELSE request[q].snap
           w == [pc |-> "resuming", conv |-> snap.conv, turn |-> snap.turn,
                 todo |-> snap.rest, batch |-> snap.rest, left |-> MaxIter,
                 req |-> q, event |-> NULL]
<1>1. /\ co[a] = Idle /\ Resumable(request[q]) /\ request[q].kind = "tool_permission"
      /\ snap # NULL /\ co' = [co EXCEPT ![a] = w] /\ waiting' = NULL /\ UseOf(a, q)
      /\ UNCHANGED <<request, gate, started, listening>>
  BY DEF ResumeAndContinue
<1>2. request[q] \in ToolRequest /\ waiting \in Snaps \cup {NULL}
  BY <1>1, Now, Nulls DEF Types, Request, OtherRequest, NoRequest, Resumable
<1>3. snap \in Snaps
  BY <1>1, <1>2 DEF ToolRequest
<1> HIDE DEF snap
<1>4. PICK v \in Conv : snap \in SnapOf(v)
  BY <1>3 DEF Snaps
<1>5. snap.conv = v /\ snap.turn \in Nat /\ snap.rest \in Seq(CallOf(v)) /\ MaxIter \in 0..MaxIter
  BY <1>4, Nulls DEF SnapOf
<1>6. w \in LoopOf(v)
  BY <1>5 DEF LoopOf, Pc
<1>7. Len(snap.rest) \in Nat
  BY <1>5
<1>8. w \in Loops /\ w.pc = "resuming" /\ w.req = q /\ w.event = NULL
      /\ Len(w.todo) <= Len(w.batch)
  BY <1>6, <1>7 DEF Loops
<1> HIDE DEF w
<1>9. waiting' \in Snaps \cup {NULL}
  BY <1>1
<1> QED BY <1>1, <1>8, <1>9, UseKeeps

\* resume_only uses a grant and runs the one call.
LEMMA ResumeOnlyKeeps ==
    ASSUME Inv, NEW a \in Coroutine, NEW q \in Req, ResumeOnly(a, q)
    PROVE  Inv'
<1> DEFINE w == [Idle EXCEPT !.pc = "resuming", !.req = q]
<1>1. /\ co[a] = Idle /\ Resumable(request[q]) /\ request[q].kind = "tool_permission"
      /\ co' = [co EXCEPT ![a] = w] /\ UseOf(a, q)
      /\ UNCHANGED <<request, waiting, gate, started, listening>>
  BY DEF ResumeOnly
<1>2. w \in Loops
  BY FromIdle DEF Pc
<1>3. Len(<<>>) = 0
  OBVIOUS
<1>4. w.pc = "resuming" /\ w.req = q /\ w.event = NULL /\ w.todo = <<>> /\ w.batch = <<>>
  BY DEF Idle
<1> HIDE DEF w
<1>5. Len(w.todo) <= Len(w.batch) /\ waiting' \in Snaps \cup {NULL}
  BY <1>1, <1>3, <1>4, Now DEF Types
<1> QED BY <1>1, <1>2, <1>4, <1>5, UseKeeps

-----------------------------------------------------------------------------
(* The theorems.                                                           *)

\* The initial states.
LEMMA InvInit == Init => Inv
<1> SUFFICES ASSUME Init PROVE Inv
  OBVIOUS
<1>1. Types
  BY IdleFits DEF Init, Types, Request
<1>2. Places
  BY IdleFits DEF Init, Places
<1>3. \A q \in Req : /\ request[q].status = "none" /\ request[q].snap = NULL
                     /\ uses[q] = 0 /\ grants[q] = 0
  BY DEF Init, NoRequest
<1>4. Requests
  <2>1. ~(0 > 0) /\ 0 <= 0
    OBVIOUS
  <2>2. \A q \in Req : Sound(request[q], 0, 0, listening)
    BY <1>3, <2>1 DEF Sound
  <2> QED BY <1>3, <2>2 DEF Requests
<1>5. \A q \in Req : Resuming(co, q) = {}
  BY IdleFits DEF Init, Resuming
<1>6. OneUse
  <2>1. \A q \in Req : uses[q] <= grants[q]
    <3>1. 0 <= 0
      OBVIOUS
    <3> QED BY <1>3, <3>1, Zenon
  <2>2. \A q \in Req : \A a, b \in Resuming(co, q) : a = b
    BY <1>5
  <2>3. \A q \in Req : request[q].status # "approved"
    BY <1>3
  <2> QED BY <2>1, <2>2, <2>3 DEF OneUse
<1>7. Gating
  BY DEF Init, Gating
<1> QED BY <1>1, <1>2, <1>4, <1>6, <1>7 DEF Inv

\* Every step.
LEMMA InvNext == Inv /\ [Next]_vars => Inv'
<1> SUFFICES ASSUME Inv, [Next]_vars PROVE Inv'
  OBVIOUS
<1>1. CASE UNCHANGED vars
  BY <1>1 DEF vars, Inv, Types, Places, Requests, OneUse, Gating
<1>2. ASSUME NEW a \in Coroutine, LoopStep(a) PROVE Inv'
  BY <1>2, ModelCallsKeeps, ModelStopsKeeps, ModelFailsKeeps, CallFreeKeeps,
     FreeReturnsKeeps, CallDeniedKeeps, CallGatedKeeps, EmittedKeeps, StopsKeeps, ResumedKeeps
     DEF LoopStep
<1>3. ASSUME NEW a \in Coroutine, NEW q \in Req, ResumeTool(a, q) PROVE Inv'
  BY <1>3, ResumeAndContinueKeeps, ResumeOnlyKeeps DEF ResumeTool
<1>4. ASSUME NEW a \in Coroutine, NEW q \in Req,
             Approve(a, q) \/ Respond(a, q) \/ ResumeMemory(a, q) \/ SdkResume(a, q)
      PROVE  Inv'
  BY <1>4, ApproveKeeps, RespondKeeps, ResumeMemoryKeeps, SdkResumeKeeps
<1>5. ASSUME NEW a \in Coroutine,
             \/ \E v \in Conv : Start(a, v)
             \/ MemoryPersisted(a) \/ SdkEnds(a) \/ Abandon(a)
      PROVE  Inv'
  BY <1>5, StartKeeps, MemoryPersistedKeeps, SdkEndsKeeps, AbandonKeeps
<1>6. ASSUME NEW q \in Req, Reject(q) \/ SdkAcknowledge(q) PROVE Inv'
  BY <1>6, RejectKeeps, SdkAcknowledgeKeeps
<1>7. ASSUME NEW v \in Conv, SdkRun(v) PROVE Inv'
  BY <1>7, SdkRunKeeps
<1> QED BY <1>1, <1>2, <1>3, <1>4, <1>5, <1>6, <1>7, CrashKeeps DEF Next

\* The inductive invariant: the types; what a coroutine holds at each point of its
\* loop; what each request's status, uses and snapshot say of each other; that an
\* approval in nobody's hands is unused; and that every call made was allowed.
THEOREM Invariance == Spec => []Inv
<1> QED BY InvInit, InvNext, PTL DEF Spec

\* Approval gating: a call that needs approval is only executed for a request that
\* names this call and that somebody approved; a denied call never is.
THEOREM UnapprovedNever == Spec => []NoUnapprovedCall
<1>1. Inv => NoUnapprovedCall
  BY DEF Inv, Gating, Allowed, Requests, Sound, NoUnapprovedCall
<1> QED BY <1>1, Invariance, PTL

\* One permission, one execution, outside the two windows of the check-then-run.
THEOREM PermissionUsedOnce == Spec => []UsesCovered
<1>1. Inv => UsesCovered
  BY DEF Inv, OneUse, UsesCovered
<1> QED BY <1>1, Invariance, PTL

\* Without listeners, the snapshot of a request is of the conversation that waits.
THEOREM OwnSnapshot == Spec => []SnapshotIsOwn
<1>1. Inv => SnapshotIsOwn
  BY DEF Inv, Requests, Sound, SnapshotIsOwn
<1> QED BY <1>1, Invariance, PTL

\* A snapshot of one conversation is a snapshot.
LEMMA SnapsAreSnap == Snaps \subseteq Snap
<1> SUFFICES ASSUME NEW v \in Conv, NEW s \in SnapOf(v) PROVE s \in Snap
  BY DEF Snaps
<1>1. CallOf(v) \subseteq Call
  BY DEF CallOf, Call, CallKind
<1>2. s.rest \in Seq(Call)
  BY <1>1, SeqWider DEF SnapOf
<1> QED BY <1>2 DEF SnapOf, Snap

\* Every variable has its type, and a tool request that is completed was executed.
THEOREM ApprovalTypes == Spec => []ApprovalInv
<1>1. ASSUME Inv PROVE ApprovalTypeOK
  <2>1. \A q \in Req : \/ request[q] = NoRequest
                       \/ /\ request[q].status \in Status /\ request[q].kind \in Kind
                          /\ request[q].work \in Conv \cup Call
                          /\ request[q].snap \in Snap \cup {NULL}
    BY <1>1, Now, SnapsAreSnap
       DEF Types, Request, ToolRequest, OtherRequest, Gated, Call, Kind
  <2>2. waiting \in Snap \cup {NULL} /\ gate \in Stored(request) \cup {NULL}
    BY <1>1, Now, SnapsAreSnap DEF Types
  <2>3. ASSUME NEW a \in Coroutine
        PROVE  /\ co[a].pc \in Pc /\ co[a].left \in 0..MaxIter
               /\ co[a].pc \in {"calling", "running", "emitting", "yielding"}
                     => co[a].todo # <<>>
               /\ {co[a].req, co[a].event} \subseteq Stored(request) \cup {NULL}
    <3>1. co[a] \in LoopOf(co[a].conv) /\ Fits(co[a], request, uses, listening)
      BY <1>1, Now, LoopFields
    <3>2. co[a].req # NULL => co[a].req \in Stored(request)
      BY <3>1 DEF Fits, Waits
    <3> QED BY <3>1, <3>2 DEF Fits, LoopOf
  <2> QED BY <1>1, <2>1, <2>2, <2>3, Now DEF ApprovalTypeOK, Pc, Types
<1>2. Inv => CompletedWasExecuted
  BY DEF Inv, Requests, Sound, CompletedWasExecuted
<1> QED BY <1>1, <1>2, Invariance, PTL DEF ApprovalInv
=============================================================================
