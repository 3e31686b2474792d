----------------------------- MODULE BotBridge -----------------------------
(***************************************************************************)
(* The bot bridge of cognix/bots with the channel router: a chat platform  *)
(* posts messages to a webhook, the bridge routes each to an agent (or     *)
(* queues a task), retries a failing dispatch, calls back with the answer, *)
(* and keeps what it could not dispatch as a dead letter that an operator  *)
(* may retry.  One bot; its file and the dead letters survive a crash.     *)
(*                                                                         *)
(* A coroutine runs from one await to the next; a database statement is    *)
(* atomic, the SELECT and the UPDATE of one session are not.               *)
(***************************************************************************)
EXTENDS Naturals, FiniteSets

CONSTANTS
    Worker,         \* coroutines: webhook calls and retries
    Msg,            \* messages of the platform
    Workspace,      \* workspaces that the bot may route to
    Letter,         \* ids of dead letters (a bound)
    MaxAttempts,    \* dispatch_max_retries and callback_max_retries
    MaxDeliveries,  \* bound: webhook calls, redelivered messages included
    MaxToggles,     \* bound: changes of the routes
    NULL

\* A dead letter.
LetterRow == [msg : Msg, status : {"pending", "retried"}]

ASSUME BotAssumption ==
    /\ MaxAttempts \in Nat \ {0} /\ MaxDeliveries \in Nat /\ MaxToggles \in Nat
    /\ NULL \notin Msg \cup Workspace \cup Letter \cup LetterRow

VARIABLES
    mode,       \* metadata.dispatch_mode of the bot
    url,        \* whether the bot has a response_url
    routes,     \* [Workspace -> "none", "on" or "off"]
    letter,     \* [Letter -> dead letter or NULL]
    queued,     \* messages that became scheduler tasks
    worker,     \* [Worker -> coroutine]
    toggles,    \* changes of the routes so far
    accepted,   \* history: [Msg -> webhook calls that were dispatched]
    retried,    \* history: [Msg -> retries of its dead letters that began]
    ran,        \* history: [Msg -> agent runs that succeeded]
    excused     \* history: messages cut off by a crash, dropped after the webhook had
                \* answered, or whose dead letter could not be written or reopened

vars == <<mode, url, routes, letter, queued, worker, toggles, accepted, retried, ran, excused>>

Idle == [pc |-> "idle", msg |-> NULL, try |-> 0, call |-> 0, letter |-> NULL]

Init ==
    /\ mode \in {"direct", "task"} /\ url \in BOOLEAN
    /\ routes \in [Workspace -> {"none", "on"}]
    /\ letter = [e \in Letter |-> NULL] /\ queued = {}
    /\ worker = [w \in Worker |-> Idle]
    /\ toggles = 0
    /\ accepted = [m \in Msg |-> 0] /\ retried = [m \in Msg |-> 0] /\ ran = [m \in Msg |-> 0]
    /\ excused = {}

-----------------------------------------------------------------------------
Enabled == {v \in Workspace : routes[v] = "on"}

\* resolve_route: the workspace that was named, or the only enabled one.
Resolves(named) == IF named # NULL THEN named \in Enabled ELSE Cardinality(Enabled) = 1

\* The rest of handle_webhook: the message becomes a task, or is dispatched.
Take(w, m) ==
    /\ \E named \in Workspace \cup {NULL} : Resolves(named)
    /\ IF mode = "task"
         THEN queued' = queued \cup {m} /\ worker' = [worker EXCEPT ![w] = Idle]
         ELSE /\ worker' = [worker EXCEPT ![w] =
                   [Idle EXCEPT !.pc = "dispatching", !.msg = m, !.try = 1]]
              /\ UNCHANGED queued

\* A webhook call waits for its message; a call that raises has told the platform so.
Webhook(w, m) ==
    /\ worker[w] = Idle /\ accepted[m] < MaxDeliveries
    /\ Take(w, m)
    /\ accepted' = [accepted EXCEPT ![m] = @ + 1]
    /\ UNCHANGED <<mode, url, routes, letter, toggles, retried, ran, excused>>

\* async=true: the call is answered, and a background task handles the message.
WebhookAsync(w, m) ==
    /\ worker[w] = Idle /\ accepted[m] < MaxDeliveries
    /\ worker' = [worker EXCEPT ![w] = [Idle EXCEPT !.pc = "background", !.msg = m]]
    /\ accepted' = [accepted EXCEPT ![m] = @ + 1]
    /\ UNCHANGED <<mode, url, routes, letter, queued, toggles, retried, ran, excused>>

\* It may find the bot gone, disabled, with another secret or without a route by now, or
\* fail to enqueue: nobody is told.
Background(w) ==
    /\ worker[w].pc = "background"
    /\ \/ Take(w, worker[w].msg) /\ UNCHANGED excused
       \/ /\ worker' = [worker EXCEPT ![w] = Idle]
          /\ excused' = excused \cup {worker[w].msg}
          /\ UNCHANGED queued
    /\ UNCHANGED <<mode, url, routes, letter, toggles, accepted, retried, ran>>

-----------------------------------------------------------------------------
(***************************************************************************)
(* dispatch: the agent runs, then the callback is tried; only an exception *)
(* of the agent run starts the next attempt.                               *)
(***************************************************************************)
AgentAnswers(w) ==
    /\ worker[w].pc = "dispatching"
    /\ ran' = [ran EXCEPT ![worker[w].msg] = @ + 1]
    /\ worker' = [worker EXCEPT ![w] =
          IF url THEN [@ EXCEPT !.pc = "calling back", !.call = 1] ELSE Idle]
    /\ UNCHANGED <<mode, url, routes, letter, queued, toggles, accepted, retried, excused>>

NextAttempt(k) ==
    IF k.try < MaxAttempts THEN [k EXCEPT !.pc = "backing off"] ELSE [k EXCEPT !.pc = "burying"]

AgentFails(w) ==
    /\ worker[w].pc = "dispatching"
    /\ worker' = [worker EXCEPT ![w] = NextAttempt(worker[w])]
    /\ UNCHANGED <<mode, url, routes, letter, queued, toggles, accepted, retried, ran, excused>>

BackOff(w) ==
    /\ worker[w].pc = "backing off"
    /\ worker' = [worker EXCEPT ![w].pc = "dispatching", ![w].try = @ + 1]
    /\ UNCHANGED <<mode, url, routes, letter, queued, toggles, accepted, retried, ran, excused>>

\* The callback's error raised to dispatch: a wrong form.
CalledBackRaising(k, ok) ==
    IF ok THEN Idle
    ELSE IF k.call < MaxAttempts THEN [k EXCEPT !.call = @ + 1]
    ELSE NextAttempt(k)

\* post_response_callback: its own attempts, and no error of its own.
CalledBack(k, ok) ==
    IF ~ok /\ k.call < MaxAttempts THEN [k EXCEPT !.call = @ + 1] ELSE Idle

CallBack(w) ==
    /\ worker[w].pc = "calling back"
    /\ \E ok \in BOOLEAN : worker' = [worker EXCEPT ![w] = CalledBack(worker[w], ok)]
    /\ UNCHANGED <<mode, url, routes, letter, queued, toggles, accepted, retried, ran, excused>>

\* After the last attempt: a dead letter, if the database takes it.
AfterDispatch(k) == IF k.letter = NULL THEN Idle ELSE [k EXCEPT !.pc = "reopening"]

Bury(w) ==
    /\ worker[w].pc = "burying"
    /\ \/ /\ \E e \in Letter :
                /\ letter[e] = NULL
                /\ letter' = [letter EXCEPT ![e] = [msg |-> worker[w].msg, status |-> "pending"]]
          /\ UNCHANGED excused
       \/ excused' = excused \cup {worker[w].msg} /\ UNCHANGED letter
    /\ worker' = [worker EXCEPT ![w] = AfterDispatch(worker[w])]
    /\ UNCHANGED <<mode, url, routes, queued, toggles, accepted, retried, ran>>

-----------------------------------------------------------------------------
(***************************************************************************)
(* retry_dead_letter: a pending letter is read, marked as retried, and its *)
(* message dispatched again, by the route of the bot; a failure makes the  *)
(* letter pending again, if the database takes that too.                   *)
(***************************************************************************)
LookUp(w, e) ==
    /\ worker[w] = Idle
    /\ letter[e] # NULL /\ letter[e].status = "pending"
    /\ worker' = [worker EXCEPT ![w] =
          [Idle EXCEPT !.pc = "marking", !.letter = e, !.msg = letter[e].msg]]
    /\ UNCHANGED <<mode, url, routes, letter, queued, toggles, accepted, retried, ran, excused>>

\* The bot is deleted, or the UPDATE raises: nothing has changed.
LookUpFails(w) ==
    /\ worker[w].pc = "marking"
    /\ worker' = [worker EXCEPT ![w] = Idle]
    /\ UNCHANGED <<mode, url, routes, letter, queued, toggles, accepted, retried, ran, excused>>

Mark(w) ==
    /\ worker[w].pc = "marking" /\ retried[worker[w].msg] < MaxDeliveries
    /\ letter' = [letter EXCEPT ![worker[w].letter].status = "retried"]
    /\ retried' = [retried EXCEPT ![worker[w].msg] = @ + 1]
    /\ worker' = [worker EXCEPT ![w] =
          IF Resolves(NULL) THEN [@ EXCEPT !.pc = "dispatching", !.try = 1]
          ELSE [@ EXCEPT !.pc = "reopening"]]
    /\ UNCHANGED <<mode, url, routes, queued, toggles, accepted, ran, excused>>

Reopened(e) == [letter EXCEPT ![e].status = "pending"]

Reopen(w) ==
    /\ worker[w].pc = "reopening"
    /\ \/ letter' = Reopened(worker[w].letter) /\ UNCHANGED excused
       \/ excused' = excused \cup {worker[w].msg} /\ UNCHANGED letter
    /\ worker' = [worker EXCEPT ![w] = Idle]
    /\ UNCHANGED <<mode, url, routes, queued, toggles, accepted, retried, ran>>

-----------------------------------------------------------------------------
\* upsert_bot_route and delete_bot_route.
SetRoute(v, state) ==
    /\ toggles < MaxToggles /\ routes[v] # state
    /\ routes' = [routes EXCEPT ![v] = state]
    /\ toggles' = toggles + 1
    /\ UNCHANGED <<mode, url, letter, queued, worker, accepted, retried, ran, excused>>

Crash ==
    /\ \E w \in Worker : worker[w] # Idle
    /\ worker' = [w \in Worker |-> Idle]
    /\ excused' = excused \cup {m \in Msg : \E w \in Worker : worker[w].msg = m}
    /\ UNCHANGED <<mode, url, routes, letter, queued, toggles, accepted, retried, ran>>

Next ==
    \/ \E w \in Worker :
          \/ \E m \in Msg : Webhook(w, m) \/ WebhookAsync(w, m)
          \/ Background(w)
          \/ AgentAnswers(w) \/ AgentFails(w) \/ BackOff(w) \/ CallBack(w) \/ Bury(w)
          \/ \E e \in Letter : LookUp(w, e)
          \/ LookUpFails(w) \/ Mark(w) \/ Reopen(w)
    \/ \E v \in Workspace, state \in {"none", "on", "off"} : SetRoute(v, state)
    \/ Crash

Spec == Init /\ [][Next]_vars

-----------------------------------------------------------------------------
\* Every variable has its type; a retry works on a letter of its own message.
BotTypeOK ==
    /\ routes \in [Workspace -> {"none", "on", "off"}]
    /\ \A w \in Worker :
          LET k == worker[w]
          IN  /\ k.try \in 0..MaxAttempts /\ k.call \in 0..MaxAttempts
              /\ k.letter # NULL => letter[k.letter] # NULL /\ letter[k.letter].msg = k.msg
    /\ \A e \in Letter : letter[e] # NULL => letter[e].status \in {"pending", "retried"}

(***************************************************************************)
(* What the webhook accepted is a task, was answered by the agent, is at   *)
(* work, or waits in a pending dead letter, also when retries overlap,     *)
(* fail, or find no route.  The messages excepted are those that a crash   *)
(* cut off, that a background task dropped, or whose dead letter could not *)
(* be written or reopened.                                                 *)
(***************************************************************************)
NotLost ==
    \A m \in Msg : accepted[m] > 0 /\ m \notin excused =>
        \/ m \in queued \/ ran[m] > 0
        \/ \E w \in Worker : worker[w].msg = m /\ worker[w].pc # "marking"
        \/ \E e \in Letter : letter[e] # NULL /\ letter[e].msg = m /\ letter[e].status = "pending"

(***************************************************************************)
(* The agent answers a message at most once for each time it was delivered *)
(* or its dead letter retried: attempts, failing callbacks and repeated    *)
(* burials never run it again once it has answered.                        *)
(***************************************************************************)
RunsAccounted == \A m \in Msg : ran[m] <= accepted[m] + retried[m]

\* The types, and what becomes of a message: only those excepted are lost, and none is
\* answered more often than it was delivered or retried.
BotInv == BotTypeOK /\ NotLost /\ RunsAccounted
=============================================================================
