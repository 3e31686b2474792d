----------------------------- MODULE BotProofs ------------------------------
(***************************************************************************)
(* The messages of the bot bridge, for every set of messages, letters and  *)
(* coroutines and every number of attempts: a message the bridge took is   *)
(* answered, at work or kept as a dead letter.                             *)
(***************************************************************************)
EXTENDS BotBridge, FiniteSetTheorems, TLAPS

-----------------------------------------------------------------------------
\* Where a coroutine of the bridge may be.
Stages == {"idle", "background", "dispatching", "backing off", "calling back", "burying", "marking",
           "reopening"}

Coroutine ==
    [pc : Stages, msg : Msg \cup {NULL}, try : 0..MaxAttempts, call : 0..MaxAttempts,
     letter : Letter \cup {NULL}]

\* What a coroutine has at its place, over the letters and the answers.
AtStage(k, ls, rn) ==
    /\ IF k.pc = "idle" THEN k.msg = NULL ELSE k.msg \in Msg
    /\ k.letter # NULL => ls[k.letter] # NULL /\ ls[k.letter].msg = k.msg
    /\ k.pc \in {"marking", "reopening"} => k.letter # NULL
    /\ k.pc = "backing off" => k.try < MaxAttempts
    /\ k.pc = "calling back" => rn[k.msg] > 0

\* The agent may still answer the message for the coroutine.
Runs(k, m) == k.msg = m /\ k.pc \in {"background", "dispatching", "backing off"}

Running(ws, m) == {w \in Worker : Runs(ws[w], m)}

\* Where a message is that was accepted.
Safe(m, q, rn, ws, ls) ==
    \/ m \in q \/ rn[m] > 0
    \/ \E w \in Worker : ws[w].msg = m /\ ws[w].pc # "marking"
    \/ \E e \in Letter : ls[e] # NULL /\ ls[e].msg = m /\ ls[e].status = "pending"

BotTypes ==
    /\ routes \in [Workspace -> {"none", "on", "off"}]
    /\ letter \in [Letter -> LetterRow \cup {NULL}]
    /\ worker \in [Worker -> Coroutine]
    /\ \A w \in Worker : AtStage(worker[w], letter, ran)
    /\ accepted \in [Msg -> Nat] /\ retried \in [Msg -> Nat] /\ ran \in [Msg -> Nat]

\* An answer that may still come is an answer already.
Accounts ==
    \A m \in Msg :
       /\ IsFiniteSet(Running(worker, m))
       /\ ran[m] + Cardinality(Running(worker, m)) <= accepted[m] + retried[m]

NoneLost ==
    \A m \in Msg : accepted[m] > 0 /\ m \notin excused => Safe(m, queued, ran, worker, letter)

\* The inductive invariant of the bridge.
BotKept == BotTypes /\ Accounts /\ NoneLost

\* A coroutine and what surrounds it.
LEMMA AtPlace ==
    ASSUME BotKept, NEW w \in Worker
    PROVE  /\ worker[w] \in Coroutine /\ AtStage(worker[w], letter, ran)
           /\ worker[w].pc \in Stages /\ worker[w].msg \in Msg \cup {NULL}
           /\ worker[w].try \in 0..MaxAttempts /\ worker[w].call \in 0..MaxAttempts
           /\ worker[w].letter \in Letter \cup {NULL}
           /\ NULL \notin Msg /\ NULL \notin Letter /\ NULL \notin LetterRow
           /\ MaxAttempts \in Nat /\ MaxAttempts > 0
<1>1. NULL \notin Msg /\ NULL \notin Letter /\ NULL \notin LetterRow
      /\ MaxAttempts \in Nat /\ MaxAttempts > 0
  BY BotAssumption
<1>2. worker[w] \in Coroutine /\ AtStage(worker[w], letter, ran)
  BY DEF BotKept, BotTypes
<1> QED  BY <1>1, <1>2 DEF Coroutine

\* An idle coroutine, and one that begins something.
LEMMA IdleRoutine ==
    ASSUME BotKept, NEW w \in Worker
    PROVE  /\ Idle \in Coroutine /\ \A ls, rn : AtStage(Idle, ls, rn)
           /\ \A m \in Msg : Idle.msg # m /\ ~Runs(Idle, m)
           /\ Idle.pc = "idle" /\ Idle.msg = NULL /\ Idle.letter = NULL
<1>1. /\ Idle.pc = "idle" /\ Idle.msg = NULL /\ Idle.letter = NULL
      /\ Idle = [pc |-> "idle", msg |-> NULL, try |-> 0, call |-> 0, letter |-> NULL]
  BY DEF Idle
<1>2. 0 \in 0..MaxAttempts
  BY AtPlace
<1>3. Idle \in Coroutine
  BY <1>1, <1>2 DEF Coroutine, Stages
<1> QED  BY <1>1, <1>3, AtPlace DEF AtStage, Runs

\* The next place of a coroutine changes the count of a message by its own part.
LEMMA CountsOne ==
    ASSUME BotKept, NEW w \in Worker, NEW k, worker' = [worker EXCEPT ![w] = k], NEW m \in Msg
    PROVE  /\ Cardinality(Running(worker, m)) \in Nat
           /\ IsFiniteSet(Running(worker', m))
           /\ Cardinality(Running(worker', m)) =
                Cardinality(Running(worker, m))
                  + (IF Runs(k, m) THEN 1 ELSE 0) - (IF Runs(worker[w], m) THEN 1 ELSE 0)
<1> DEFINE R == Running(worker, m)
           without == R \ {w}
<1>1. IsFiniteSet(R) /\ Cardinality(R) \in Nat
  BY FS_CardinalityType DEF BotKept, Accounts
<1>2. w \in R <=> Runs(worker[w], m)
  BY DEF Running
<1>3. /\ IsFiniteSet(without)
      /\ Cardinality(without) = Cardinality(R) - (IF Runs(worker[w], m) THEN 1 ELSE 0)
  BY <1>1, <1>2, FS_RemoveElement
<1>4. \A b \in Worker : worker'[b] = IF b = w THEN k ELSE worker[b]
  BY DEF BotKept, BotTypes
<1>5. CASE Runs(k, m)
  <2>1. Running(worker', m) = without \cup {w} /\ w \notin without
    BY <1>4, <1>5 DEF Running
  <2>2. IsFiniteSet(without \cup {w}) /\ Cardinality(without \cup {w}) = Cardinality(without) + 1
    BY <1>3, <2>1, FS_AddElement
  <2> HIDE DEF R, without
  <2>3. /\ IsFiniteSet(Running(worker', m))
        /\ Cardinality(Running(worker', m)) = Cardinality(without) + 1
    BY <2>1, <2>2
  <2> QED  BY <1>1, <1>3, <1>5, <2>3 DEF R
<1>6. CASE ~Runs(k, m)
  <2>1. Running(worker', m) = without
    BY <1>4, <1>6 DEF Running
  <2> HIDE DEF R, without
  <2> QED  BY <1>1, <1>3, <1>6, <2>1 DEF R
<1> QED  BY <1>5, <1>6

\* What every step of a coroutine must show.
LEMMA RoutineGoesOn ==
    ASSUME BotKept, NEW w \in Worker, NEW k, worker' = [worker EXCEPT ![w] = k],
           k \in Coroutine, AtStage(k, letter', ran'), UNCHANGED routes,
           letter' \in [Letter -> LetterRow \cup {NULL}],
           \A e \in Letter : letter[e] # NULL => letter'[e] # NULL /\ letter'[e].msg = letter[e].msg,
           accepted' \in [Msg -> Nat], retried' \in [Msg -> Nat], ran' \in [Msg -> Nat],
           queued \subseteq queued', excused \subseteq excused',
           \A m \in Msg :
              /\ ran'[m] >= ran[m]
              /\ ran'[m] + (IF Runs(k, m) THEN 1 ELSE 0) + accepted[m] + retried[m]
                   <= ran[m] + (IF Runs(worker[w], m) THEN 1 ELSE 0) + accepted'[m] + retried'[m]
              /\ \/ accepted'[m] > accepted[m]
                 \/ worker[w].msg = m /\ worker[w].pc # "marking"
                 \/ \E e \in Letter :
                       /\ letter[e] # NULL /\ letter[e].msg = m
                       /\ letter[e].status = "pending" /\ letter'[e].status # "pending"
                 => m \in excused' \/ Safe(m, queued', ran', worker', letter')
    PROVE  BotKept'
<1>1. /\ worker' \in [Worker -> Coroutine]
      /\ \A b \in Worker : worker'[b] = IF b = w THEN k ELSE worker[b]
  BY DEF BotKept, BotTypes
<1>2. ran \in [Msg -> Nat] /\ accepted \in [Msg -> Nat] /\ retried \in [Msg -> Nat]
  BY DEF BotKept, BotTypes
<1>3. ASSUME NEW b \in Worker  PROVE AtStage(worker'[b], letter', ran')
  <2>1. CASE b = w
    BY <1>1, <2>1
  <2>2. CASE b # w
    <3>1. worker'[b] = worker[b] /\ AtStage(worker[b], letter, ran)
      BY <1>1, <2>2, AtPlace
    <3>2. worker[b].letter # NULL => worker[b].letter \in Letter
      BY AtPlace
    <3>3. \A m \in Msg : ran[m] > 0 => ran'[m] > 0
      BY <1>2
    <3> QED  BY <3>1, <3>2, <3>3 DEF AtStage
  <2> QED  BY <2>1, <2>2
<1>4. BotTypes'
  BY <1>1, <1>3 DEF BotKept, BotTypes
<1>5. ASSUME NEW m \in Msg
      PROVE  /\ IsFiniteSet(Running(worker', m))
             /\ ran'[m] + Cardinality(Running(worker', m)) <= accepted'[m] + retried'[m]
  <2> DEFINE before == Cardinality(Running(worker, m))
             now == Cardinality(Running(worker', m))
  <2>1. /\ before \in Nat /\ IsFiniteSet(Running(worker', m))
        /\ now = before + (IF Runs(k, m) THEN 1 ELSE 0) - (IF Runs(worker[w], m) THEN 1 ELSE 0)
    BY CountsOne
  <2>2. ran[m] + before <= accepted[m] + retried[m]
    BY DEF BotKept, Accounts
  <2>3. /\ ran[m] \in Nat /\ ran'[m] \in Nat /\ accepted[m] \in Nat /\ accepted'[m] \in Nat
        /\ retried[m] \in Nat /\ retried'[m] \in Nat
    BY <1>2
  <2>4. ran'[m] + (IF Runs(k, m) THEN 1 ELSE 0) + accepted[m] + retried[m]
          <= ran[m] + (IF Runs(worker[w], m) THEN 1 ELSE 0) + accepted'[m] + retried'[m]
    OBVIOUS
  <2> HIDE DEF before, now
  <2>5. ran'[m] + now <= accepted'[m] + retried'[m]
    BY <2>1, <2>2, <2>3, <2>4
  <2> QED  BY <2>1, <2>5 DEF now
<1>6. Accounts'
  BY <1>5 DEF Accounts
<1>7. ASSUME NEW m \in Msg, accepted'[m] > 0, m \notin excused'
      PROVE  Safe(m, queued', ran', worker', letter')
  <2>1. CASE accepted'[m] > accepted[m]
    BY <1>7, <2>1
  <2>2. CASE ~(accepted'[m] > accepted[m])
    <3>1. accepted[m] > 0 /\ m \notin excused
      BY <1>2, <1>7, <2>2
    <3>2. Safe(m, queued, ran, worker, letter)
      BY <3>1 DEF BotKept, NoneLost
    <3>3. CASE m \in queued \/ ran[m] > 0
      BY <1>2, <3>3 DEF Safe
    <3>4. ASSUME NEW b \in Worker, worker[b].msg = m, worker[b].pc # "marking"
          PROVE  Safe(m, queued', ran', worker', letter')
      <4>1. CASE b = w
        BY <1>7, <3>4, <4>1
      <4>2. CASE b # w
        BY <1>1, <3>4, <4>2 DEF Safe
      <4> QED  BY <4>1, <4>2
    <3>5. ASSUME NEW e \in Letter, letter[e] # NULL, letter[e].msg = m,
                 letter[e].status = "pending"
          PROVE  Safe(m, queued', ran', worker', letter')
      <4>1. CASE letter'[e].status = "pending"
        BY <3>5, <4>1 DEF Safe
      <4>2. CASE letter'[e].status # "pending"
        BY <1>7, <3>5, <4>2
      <4> QED  BY <4>1, <4>2
    <3> QED  BY <3>2, <3>3, <3>4, <3>5 DEF Safe
  <2> QED  BY <2>1, <2>2
<1>8. NoneLost'
  BY <1>7 DEF NoneLost
<1> QED  BY <1>4, <1>6, <1>8 DEF BotKept

\* A step within a dispatch: the message stays with its coroutine, or has been answered.
LEMMA DispatchGoesOn ==
    ASSUME BotKept, NEW w \in Worker, NEW k, worker' = [worker EXCEPT ![w] = k],
           k \in Coroutine, AtStage(k, letter, ran),
           \A m \in Msg : Runs(k, m) => Runs(worker[w], m),
           \/ k.msg = worker[w].msg /\ k.pc # "marking"
           \/ worker[w].pc = "marking"
           \/ worker[w].msg \in Msg /\ ran[worker[w].msg] > 0,
           UNCHANGED <<routes, letter, queued, accepted, retried, ran, excused>>
    PROVE  BotKept'
<1>1. \A b \in Worker : worker'[b] = IF b = w THEN k ELSE worker[b]
  BY DEF BotKept, BotTypes
<1>2. ran \in [Msg -> Nat] /\ accepted \in [Msg -> Nat] /\ retried \in [Msg -> Nat]
      /\ letter \in [Letter -> LetterRow \cup {NULL}]
  BY DEF BotKept, BotTypes
<1>3. ASSUME NEW m \in Msg
      PROVE  /\ ran'[m] >= ran[m]
             /\ ran'[m] + (IF Runs(k, m) THEN 1 ELSE 0) + accepted[m] + retried[m]
                  <= ran[m] + (IF Runs(worker[w], m) THEN 1 ELSE 0) + accepted'[m] + retried'[m]
             /\ ~(accepted'[m] > accepted[m])
             /\ worker[w].msg = m /\ worker[w].pc # "marking"
                  => Safe(m, queued', ran', worker', letter')
  <2>1. ran[m] \in Nat /\ accepted[m] \in Nat /\ retried[m] \in Nat
    BY <1>2
  <2>2. worker[w].msg = m /\ worker[w].pc # "marking"
          => Safe(m, queued', ran', worker', letter')
    BY <1>1, <2>1 DEF Safe
  <2> QED  BY <2>1, <2>2
<1> QED  BY <1>2, <1>3, RoutineGoesOn

\* A delivery, or what a background task makes of one: a task, or a coroutine that
\* dispatches the message.
LEMMA Takes ==
    ASSUME BotKept, NEW w \in Worker, NEW m \in Msg, Take(w, m),
           UNCHANGED <<routes, letter, retried, ran, excused>>,
           \/ worker[w] = Idle /\ accepted' = [accepted EXCEPT ![m] = @ + 1]
           \/ worker[w].pc = "background" /\ worker[w].msg = m /\ accepted' = accepted
    PROVE  BotKept'
<1>1. ran \in [Msg -> Nat] /\ accepted \in [Msg -> Nat] /\ retried \in [Msg -> Nat]
      /\ letter \in [Letter -> LetterRow \cup {NULL}] /\ worker \in [Worker -> Coroutine]
  BY DEF BotKept, BotTypes
<1>2. /\ accepted' \in [Msg -> Nat]
      /\ \A b \in Msg : /\ b # m => accepted'[b] = accepted[b] /\ worker[w].msg # b
                        /\ accepted'[b] >= accepted[b]
      /\ accepted'[m] + (IF Runs(worker[w], m) THEN 1 ELSE 0) = accepted[m] + 1
  <2>1. CASE worker[w] = Idle /\ accepted' = [accepted EXCEPT ![m] = @ + 1]
    BY <1>1, <2>1, IdleRoutine
  <2>2. CASE worker[w].pc = "background" /\ worker[w].msg = m /\ accepted' = accepted
    BY <1>1, <2>2 DEF Runs
  <2> QED  BY <2>1, <2>2
<1>3. ASSUME NEW k \in Coroutine, worker' = [worker EXCEPT ![w] = k], queued \subseteq queued',
             AtStage(k, letter, ran), m \in queued' \/ (k.msg = m /\ k.pc # "marking"),
             \A b \in Msg : Runs(k, b) => b = m
      PROVE  BotKept'
  <2>1. worker'[w] = k
    BY <1>1, <1>3
  <2>2. Safe(m, queued', ran', worker', letter')
    BY <1>3, <2>1 DEF Safe
  <2>3. ASSUME NEW b \in Msg
        PROVE  /\ ran'[b] >= ran[b]
               /\ ran'[b] + (IF Runs(k, b) THEN 1 ELSE 0) + accepted[b] + retried[b]
                    <= ran[b] + (IF Runs(worker[w], b) THEN 1 ELSE 0) + accepted'[b] + retried'[b]
               /\ worker[w].msg = b => Safe(b, queued', ran', worker', letter')
               /\ accepted'[b] > accepted[b] => Safe(b, queued', ran', worker', letter')
    <3>1. ran[b] \in Nat /\ accepted[b] \in Nat /\ retried[b] \in Nat
          /\ ran' = ran /\ retried' = retried
      BY <1>1
    <3>2. CASE b = m
      BY <1>2, <2>2, <3>1, <3>2
    <3>3. CASE b # m
      <4>1. accepted'[b] = accepted[b] /\ worker[w].msg # b /\ ~Runs(k, b)
        BY <1>2, <1>3, <3>3
      <4> QED  BY <3>1, <4>1
    <3> QED  BY <3>2, <3>3
  <2>4. \A e \in Letter : letter'[e] = letter[e]
    OBVIOUS
  <2> QED  BY <1>1, <1>2, <1>3, <2>3, <2>4, RoutineGoesOn
<1>4. CASE mode = "task"
  <2>1. queued' = queued \cup {m} /\ worker' = [worker EXCEPT ![w] = Idle]
    BY <1>4 DEF Take
  <2> QED  BY <1>3, <2>1, IdleRoutine
<1>5. CASE mode # "task"
  <2> DEFINE k == [Idle EXCEPT !.pc = "dispatching", !.msg = m, !.try = 1]
  <2>1. queued' = queued /\ worker' = [worker EXCEPT ![w] = k]
    BY <1>5 DEF Take
  <2>2. k.pc = "dispatching" /\ k.msg = m /\ k.letter = NULL
    BY DEF Idle
  <2>3. k \in Coroutine
    <3>1. 1 \in 0..MaxAttempts
      BY AtPlace
    <3> QED  BY <3>1, IdleRoutine DEF Coroutine, Stages
  <2> HIDE DEF k
  <2>4. AtStage(k, letter, ran) /\ \A b \in Msg : Runs(k, b) => b = m
    BY <2>2 DEF AtStage, Runs
  <2> QED  BY <1>3, <2>1, <2>2, <2>3, <2>4
<1> QED  BY <1>4, <1>5

\* A message arrives, or is answered before it is handled, or handled later or dropped.
LEMMA Delivers ==
    ASSUME BotKept, NEW w \in Worker,
           Background(w) \/ \E m \in Msg : Webhook(w, m) \/ WebhookAsync(w, m)
    PROVE  BotKept'
<1>1. ran \in [Msg -> Nat] /\ accepted \in [Msg -> Nat] /\ retried \in [Msg -> Nat]
      /\ letter \in [Letter -> LetterRow \cup {NULL}] /\ worker \in [Worker -> Coroutine]
  BY DEF BotKept, BotTypes
<1>2. ASSUME NEW m \in Msg, Webhook(w, m)  PROVE BotKept'
  BY <1>2, Takes DEF Webhook
<1>3. ASSUME NEW m \in Msg, WebhookAsync(w, m)  PROVE BotKept'
  <2> DEFINE k == [Idle EXCEPT !.pc = "background", !.msg = m]
  <2>1. /\ worker[w] = Idle /\ accepted' = [accepted EXCEPT ![m] = @ + 1]
        /\ worker' = [worker EXCEPT ![w] = k]
        /\ UNCHANGED <<routes, letter, queued, retried, ran, excused>>
    BY <1>3 DEF WebhookAsync
  <2>2. k.pc = "background" /\ k.msg = m /\ k.letter = NULL
    BY DEF Idle
  <2>3. k \in Coroutine
    BY IdleRoutine DEF Coroutine, Stages
  <2> HIDE DEF k
  <2>4. AtStage(k, letter, ran) /\ \A b \in Msg : Runs(k, b) => b = m
    BY <2>2 DEF AtStage, Runs
  <2>5. /\ accepted' \in [Msg -> Nat]
        /\ \A b \in Msg : accepted'[b] = IF b = m THEN accepted[b] + 1 ELSE accepted[b]
    BY <1>1, <2>1
  <2>6. worker'[w] = k
    BY <1>1, <2>1
  <2>7. ASSUME NEW b \in Msg
        PROVE  /\ ran'[b] >= ran[b]
               /\ ran'[b] + (IF Runs(k, b) THEN 1 ELSE 0) + accepted[b] + retried[b]
                    <= ran[b] + (IF Runs(worker[w], b) THEN 1 ELSE 0) + accepted'[b] + retried'[b]
               /\ worker[w].msg # b
               /\ accepted'[b] > accepted[b] => Safe(b, queued', ran', worker', letter')
    <3>1. ran[b] \in Nat /\ accepted[b] \in Nat /\ retried[b] \in Nat /\ worker[w].msg # b
          /\ ~Runs(worker[w], b)
      BY <1>1, <2>1, IdleRoutine
    <3>2. accepted'[b] > accepted[b] => b = m
      BY <2>5, <3>1
    <3>3. Safe(m, queued', ran', worker', letter')
      BY <2>2, <2>6 DEF Safe
    <3> QED  BY <2>1, <2>4, <2>5, <3>1, <3>2, <3>3
  <2> QED  BY <1>1, <2>1, <2>3, <2>4, <2>5, <2>7, RoutineGoesOn
<1>4. CASE Background(w)
  <2>1. worker[w].pc = "background" /\ UNCHANGED <<routes, letter, accepted, retried, ran>>
    BY <1>4 DEF Background
  <2>2. worker[w].msg \in Msg
    BY <2>1, AtPlace DEF AtStage
  <2>3. CASE Take(w, worker[w].msg) /\ UNCHANGED excused
    BY <2>1, <2>2, <2>3, Takes
  <2>4. CASE ~(Take(w, worker[w].msg) /\ UNCHANGED excused)
    <3>1. /\ worker' = [worker EXCEPT ![w] = Idle] /\ queued' = queued
          /\ excused' = excused \cup {worker[w].msg}
      BY <1>4, <2>4 DEF Background
    <3>2. ASSUME NEW b \in Msg
          PROVE  /\ ran'[b] >= ran[b]
                 /\ ran'[b] + (IF Runs(Idle, b) THEN 1 ELSE 0) + accepted[b] + retried[b]
                      <= ran[b] + (IF Runs(worker[w], b) THEN 1 ELSE 0) + accepted'[b] + retried'[b]
                 /\ ~(accepted'[b] > accepted[b])
                 /\ worker[w].msg = b => b \in excused'
      <4>1. ran[b] \in Nat /\ accepted[b] \in Nat /\ retried[b] \in Nat /\ ~Runs(Idle, b)
        BY <1>1, IdleRoutine
      <4> QED  BY <2>1, <3>1, <4>1
    <3> QED  BY <1>1, <2>1, <3>1, <3>2, IdleRoutine, RoutineGoesOn
  <2> QED  BY <2>3, <2>4
<1> QED  BY <1>2, <1>3, <1>4

\* The agent answers.
LEMMA AgentDone == ASSUME BotKept, NEW w \in Worker, AgentAnswers(w)  PROVE BotKept'
<1> DEFINE m == worker[w].msg
           called == [worker[w] EXCEPT !.pc = "calling back", !.call = 1]
           k == IF url THEN called ELSE Idle
<1>1. /\ worker[w].pc = "dispatching" /\ ran' = [ran EXCEPT ![m] = @ + 1]
      /\ worker' = [worker EXCEPT ![w] = k]
      /\ UNCHANGED <<routes, letter, queued, accepted, retried, excused>>
  BY DEF AgentAnswers
<1>2. ran \in [Msg -> Nat] /\ accepted \in [Msg -> Nat] /\ retried \in [Msg -> Nat]
      /\ letter \in [Letter -> LetterRow \cup {NULL}]
  BY DEF BotKept, BotTypes
<1>3. m \in Msg
  BY <1>1, AtPlace DEF AtStage
<1>4. /\ ran' \in [Msg -> Nat]
      /\ \A b \in Msg : ran'[b] = IF b = m THEN ran[b] + 1 ELSE ran[b]
  BY <1>1, <1>2, <1>3
<1>5. /\ called \in Coroutine
      /\ called.pc = "calling back" /\ called.msg = m /\ called.letter = worker[w].letter
  <2>1. 1 \in 0..MaxAttempts
    BY AtPlace
  <2> QED  BY <2>1, AtPlace DEF Coroutine, Stages
<1>6. k \in Coroutine /\ AtStage(k, letter', ran') /\ \A b \in Msg : ~Runs(k, b)
  <2> HIDE DEF called, m
  <2>1. AtStage(called, letter', ran')
    <3>1. ran'[m] > 0
      BY <1>2, <1>3, <1>4
    <3>2. AtStage(worker[w], letter, ran)
      BY AtPlace
    <3> QED  BY <1>1, <1>3, <1>5, <3>1, <3>2 DEF AtStage, m
  <2>2. \A b \in Msg : ~Runs(called, b)
    BY <1>5 DEF Runs
  <2> QED  BY <1>5, <2>1, <2>2, IdleRoutine
<1>7. Runs(worker[w], m) /\ \A b \in Msg : Runs(worker[w], b) => b = m
  BY <1>1 DEF Runs
<1> HIDE DEF k, called
<1>8. ASSUME NEW b \in Msg
      PROVE  /\ ran'[b] >= ran[b]
             /\ ran'[b] + (IF Runs(k, b) THEN 1 ELSE 0) + accepted[b] + retried[b]
                  <= ran[b] + (IF Runs(worker[w], b) THEN 1 ELSE 0) + accepted'[b] + retried'[b]
             /\ ~(accepted'[b] > accepted[b])
             /\ worker[w].msg = b => Safe(b, queued', ran', worker', letter')
  <2>1. ran[b] \in Nat /\ accepted[b] \in Nat /\ retried[b] \in Nat
    BY <1>2
  <2>2. b = m => ran'[b] > 0
    BY <1>4, <2>1
  <2> QED  BY <1>1, <1>4, <1>6, <1>7, <2>1, <2>2 DEF Safe
<1> QED  BY <1>1, <1>2, <1>4, <1>6, <1>8, RoutineGoesOn

\* The agent fails, and waits for the next attempt or gives up; then it is tried again.
LEMMA AgentRetries ==
    ASSUME BotKept, NEW w \in Worker, AgentFails(w) \/ BackOff(w)  PROVE BotKept'
<1>1. CASE AgentFails(w)
  <2> DEFINE k == NextAttempt(worker[w])
  <2>1. /\ worker[w].pc = "dispatching" /\ worker' = [worker EXCEPT ![w] = k]
        /\ UNCHANGED <<routes, letter, queued, accepted, retried, ran, excused>>
    BY <1>1 DEF AgentFails
  <2>2. /\ k \in Coroutine /\ k.pc \in {"backing off", "burying"}
        /\ k.msg = worker[w].msg /\ k.letter = worker[w].letter /\ k.try = worker[w].try
        /\ k.pc = "backing off" => k.try < MaxAttempts
    BY AtPlace DEF NextAttempt, Coroutine, Stages
  <2> HIDE DEF k
  <2>3. AtStage(k, letter, ran) /\ \A m \in Msg : Runs(k, m) => Runs(worker[w], m)
    BY <2>1, <2>2, AtPlace DEF AtStage, Runs
  <2> QED  BY <2>1, <2>2, <2>3, DispatchGoesOn
<1>2. CASE BackOff(w)
  <2> DEFINE k == [worker[w] EXCEPT !.pc = "dispatching", !.try = @ + 1]
  <2>1. /\ worker[w].pc = "backing off" /\ worker' = [worker EXCEPT ![w] = k]
        /\ UNCHANGED <<routes, letter, queued, accepted, retried, ran, excused>>
    BY <1>2 DEF BackOff
  <2>2. worker[w].try + 1 \in 0..MaxAttempts
    <3>1. AtStage(worker[w], letter, ran) /\ worker[w].try \in 0..MaxAttempts
          /\ MaxAttempts \in Nat
      BY AtPlace
    <3>2. worker[w].try < MaxAttempts
      BY <2>1, <3>1 DEF AtStage
    <3> QED  BY <3>1, <3>2
  <2>3. /\ k \in Coroutine /\ k.pc = "dispatching"
        /\ k.msg = worker[w].msg /\ k.letter = worker[w].letter
    BY <2>2, AtPlace DEF Coroutine, Stages
  <2> HIDE DEF k
  <2>4. AtStage(k, letter, ran) /\ \A m \in Msg : Runs(k, m) => Runs(worker[w], m)
    BY <2>1, <2>3, AtPlace DEF AtStage, Runs
  <2> QED  BY <2>1, <2>3, <2>4, DispatchGoesOn
<1> QED  BY <1>1, <1>2

\* A callback, of a message that has been answered.
LEMMA CallsBack == ASSUME BotKept, NEW w \in Worker, CallBack(w)  PROVE BotKept'
<1>1. /\ worker[w].pc = "calling back"
      /\ UNCHANGED <<routes, letter, queued, accepted, retried, ran, excused>>
  BY DEF CallBack
<1>2. PICK ok \in BOOLEAN : worker' = [worker EXCEPT ![w] = CalledBack(worker[w], ok)]
  BY DEF CallBack
<1> DEFINE again == [worker[w] EXCEPT !.call = @ + 1]
           k == CalledBack(worker[w], ok)
<1>3. \/ k = Idle
      \/ k = again /\ worker[w].call < MaxAttempts
  <2>1. CASE ~ok /\ worker[w].call < MaxAttempts
    BY <2>1 DEF CalledBack
  <2>2. CASE ~(~ok /\ worker[w].call < MaxAttempts)
    BY <2>2 DEF CalledBack
  <2> QED  BY <2>1, <2>2
<1>4. worker[w].call < MaxAttempts =>
        again \in Coroutine /\ again.pc = "calling back" /\ again.msg = worker[w].msg
        /\ again.letter = worker[w].letter
  <2> SUFFICES ASSUME worker[w].call < MaxAttempts
               PROVE  again \in Coroutine /\ again.pc = "calling back"
                      /\ again.msg = worker[w].msg /\ again.letter = worker[w].letter
    OBVIOUS
  <2>1. worker[w].call + 1 \in 0..MaxAttempts
    BY AtPlace
  <2> QED  BY <1>1, <2>1, AtPlace DEF Coroutine
<1> HIDE DEF k, again
<1>5. worker[w].msg \in Msg /\ ran[worker[w].msg] > 0 /\ AtStage(worker[w], letter, ran)
  BY <1>1, AtPlace DEF AtStage
<1>6. CASE k = Idle
  BY <1>1, <1>2, <1>5, <1>6, IdleRoutine, DispatchGoesOn DEF k
<1>7. CASE k = again /\ worker[w].call < MaxAttempts
  <2>1. k \in Coroutine /\ AtStage(k, letter, ran) /\ \A m \in Msg : ~Runs(k, m)
    BY <1>1, <1>4, <1>5, <1>7 DEF AtStage, Runs
  <2> QED  BY <1>1, <1>2, <1>5, <2>1, DispatchGoesOn DEF k
<1> QED  BY <1>3, <1>6, <1>7

\* A dead letter is written, or the message is excused.
LEMMA Buries == ASSUME BotKept, NEW w \in Worker, Bury(w)  PROVE BotKept'
<1> DEFINE m == worker[w].msg
           k == AfterDispatch(worker[w])
<1>1. /\ worker[w].pc = "burying" /\ worker' = [worker EXCEPT ![w] = k]
      /\ UNCHANGED <<routes, queued, accepted, retried, ran>>
  BY DEF Bury
<1>2. ran \in [Msg -> Nat] /\ accepted \in [Msg -> Nat] /\ retried \in [Msg -> Nat]
      /\ letter \in [Letter -> LetterRow \cup {NULL}]
  BY DEF BotKept, BotTypes
<1>3. m \in Msg /\ AtStage(worker[w], letter, ran)
  BY <1>1, AtPlace DEF AtStage
<1> DEFINE row == [msg |-> m, status |-> "pending"]
<1>4. \/ \E e \in Letter : letter[e] = NULL /\ letter' = [letter EXCEPT ![e] = row]
                           /\ excused' = excused
      \/ excused' = excused \cup {m} /\ letter' = letter
  BY DEF Bury
<1>5. row \in LetterRow /\ row.msg = m /\ row.status = "pending" /\ row # NULL
  BY <1>3, AtPlace DEF LetterRow
<1> HIDE DEF row
<1>6. /\ letter' \in [Letter -> LetterRow \cup {NULL}]
      /\ \A e \in Letter : letter[e] # NULL => letter'[e] = letter[e]
      /\ excused \subseteq excused'
      /\ \/ m \in excused'
         \/ \E e \in Letter : letter'[e] = row
  BY <1>2, <1>4, <1>5
<1>7. k \in Coroutine /\ AtStage(k, letter', ran') /\ \A b \in Msg : ~Runs(k, b)
  <2>1. CASE worker[w].letter = NULL
    <3>1. k = Idle
      BY <2>1 DEF AfterDispatch
    <3> QED  BY <3>1, IdleRoutine
  <2>2. CASE worker[w].letter # NULL
    <3>1. k = [worker[w] EXCEPT !.pc = "reopening"]
      BY <2>2 DEF AfterDispatch
    <3> HIDE DEF k, m
    <3>2. /\ k \in Coroutine /\ k.pc = "reopening" /\ k.msg = m /\ k.letter = worker[w].letter
      BY <3>1, AtPlace DEF Coroutine, Stages, m
    <3>3. k.letter \in Letter /\ letter[k.letter] # NULL /\ letter[k.letter].msg = m
      BY <1>3, <2>2, <3>2, AtPlace DEF AtStage, m
    <3>4. letter'[k.letter] # NULL /\ letter'[k.letter].msg = m
      BY <1>6, <3>3
    <3> QED  BY <1>3, <2>2, <3>2, <3>4 DEF AtStage, Runs
  <2> QED  BY <2>1, <2>2
<1> HIDE DEF k
<1>8. ASSUME NEW b \in Msg
      PROVE  /\ ran'[b] >= ran[b]
             /\ ran'[b] + (IF Runs(k, b) THEN 1 ELSE 0) + accepted[b] + retried[b]
                  <= ran[b] + (IF Runs(worker[w], b) THEN 1 ELSE 0) + accepted'[b] + retried'[b]
             /\ ~(accepted'[b] > accepted[b])
             /\ worker[w].msg = b => b \in excused' \/ Safe(b, queued', ran', worker', letter')
  <2>1. ran[b] \in Nat /\ accepted[b] \in Nat /\ retried[b] \in Nat
    BY <1>2
  <2>2. worker[w].msg = b => b \in excused' \/ Safe(b, queued', ran', worker', letter')
    BY <1>5, <1>6 DEF Safe
  <2> QED  BY <1>1, <1>7, <2>1, <2>2
<1>9. /\ worker' = [worker EXCEPT ![w] = k] /\ k \in Coroutine /\ AtStage(k, letter', ran')
      /\ UNCHANGED routes /\ letter' \in [Letter -> LetterRow \cup {NULL}]
      /\ \A e \in Letter : letter[e] # NULL => letter'[e] # NULL /\ letter'[e].msg = letter[e].msg
      /\ accepted' \in [Msg -> Nat] /\ retried' \in [Msg -> Nat] /\ ran' \in [Msg -> Nat]
      /\ queued \subseteq queued' /\ excused \subseteq excused'
  <2>1. \A e \in Letter : letter[e] # NULL => letter'[e] # NULL /\ letter'[e].msg = letter[e].msg
    BY <1>6
  <2> QED  BY <1>1, <1>2, <1>6, <1>7, <2>1
<1>10. ASSUME NEW e \in Letter, letter[e] # NULL, letter[e].status = "pending"
       PROVE  letter'[e].status = "pending"
  BY <1>6, <1>10
<1>11. \A b \in Msg :
         /\ ran'[b] >= ran[b]
         /\ ran'[b] + (IF Runs(k, b) THEN 1 ELSE 0) + accepted[b] + retried[b]
              <= ran[b] + (IF Runs(worker[w], b) THEN 1 ELSE 0) + accepted'[b] + retried'[b]
         /\ \/ accepted'[b] > accepted[b]
            \/ worker[w].msg = b /\ worker[w].pc # "marking"
            \/ \E e \in Letter :
                  /\ letter[e] # NULL /\ letter[e].msg = b
                  /\ letter[e].status = "pending" /\ letter'[e].status # "pending"
            => b \in excused' \/ Safe(b, queued', ran', worker', letter')
  BY <1>8, <1>10
<1> QED  BY <1>9, <1>11, RoutineGoesOn

\* An operator's retry begins, or comes to nothing.
LEMMA LooksUp ==
    ASSUME BotKept, NEW w \in Worker, LookUpFails(w) \/ \E e \in Letter : LookUp(w, e)
    PROVE  BotKept'
<1>1. CASE LookUpFails(w)
  <2>1. /\ worker[w].pc = "marking" /\ worker' = [worker EXCEPT ![w] = Idle]
        /\ UNCHANGED <<routes, letter, queued, accepted, retried, ran, excused>>
    BY <1>1 DEF LookUpFails
  <2> QED  BY <2>1, IdleRoutine, DispatchGoesOn
<1>2. ASSUME NEW e \in Letter, LookUp(w, e)  PROVE BotKept'
  <2> DEFINE k == [Idle EXCEPT !.pc = "marking", !.letter = e, !.msg = letter[e].msg]
  <2>1. /\ worker[w] = Idle /\ letter[e] # NULL /\ worker' = [worker EXCEPT ![w] = k]
        /\ UNCHANGED <<routes, letter, queued, accepted, retried, ran, excused>>
    BY <1>2 DEF LookUp
  <2>2. letter \in [Letter -> LetterRow \cup {NULL}]
        /\ ran \in [Msg -> Nat] /\ accepted \in [Msg -> Nat] /\ retried \in [Msg -> Nat]
    BY DEF BotKept, BotTypes
  <2>3. letter[e].msg \in Msg
    BY <2>1, <2>2 DEF LetterRow
  <2>4. k.pc = "marking" /\ k.msg = letter[e].msg /\ k.letter = e
    BY DEF Idle
  <2>5. k \in Coroutine
    BY <2>3, IdleRoutine DEF Coroutine, Stages
  <2> HIDE DEF k
  <2>6. e # NULL
    BY AtPlace
  <2>7. AtStage(k, letter, ran) /\ \A m \in Msg : ~Runs(k, m)
    BY <2>1, <2>3, <2>4, <2>6 DEF AtStage, Runs
  <2>8. \A m \in Msg : worker[w].msg # m /\ ~Runs(worker[w], m)
    BY <2>1, IdleRoutine
  <2>9. \A m \in Msg : ran[m] \in Nat /\ accepted[m] \in Nat /\ retried[m] \in Nat
    BY <2>2
  <2>10. ASSUME NEW m \in Msg
         PROVE  /\ ran'[m] >= ran[m]
                /\ ran'[m] + (IF Runs(k, m) THEN 1 ELSE 0) + accepted[m] + retried[m]
                     <= ran[m] + (IF Runs(worker[w], m) THEN 1 ELSE 0) + accepted'[m] + retried'[m]
                /\ ~(accepted'[m] > accepted[m]) /\ worker[w].msg # m
    BY <2>1, <2>7, <2>8, <2>9
  <2> QED  BY <2>1, <2>2, <2>5, <2>7, <2>10, RoutineGoesOn
<1> QED  BY <1>1, <1>2

\* The letter is marked, and its message dispatched or given back to it.
LEMMA MarksLetter == ASSUME BotKept, NEW w \in Worker, Mark(w)  PROVE BotKept'
<1> DEFINE m == worker[w].msg
           e == worker[w].letter
           again == [worker[w] EXCEPT !.pc = "dispatching", !.try = 1]
           back == [worker[w] EXCEPT !.pc = "reopening"]
           k == IF Resolves(NULL) THEN again ELSE back
           row == [letter[e] EXCEPT !.status = "retried"]
<1>1. /\ worker[w].pc = "marking" /\ worker' = [worker EXCEPT ![w] = k]
      /\ letter' = [letter EXCEPT ![e].status = "retried"]
      /\ retried' = [retried EXCEPT ![m] = @ + 1]
      /\ UNCHANGED <<routes, queued, accepted, ran, excused>>
  BY DEF Mark
<1>2. ran \in [Msg -> Nat] /\ accepted \in [Msg -> Nat] /\ retried \in [Msg -> Nat]
      /\ letter \in [Letter -> LetterRow \cup {NULL}] /\ worker \in [Worker -> Coroutine]
  BY DEF BotKept, BotTypes
<1>3. m \in Msg /\ e \in Letter /\ letter[e] # NULL /\ letter[e].msg = m
      /\ letter[e] \in LetterRow
  BY <1>1, <1>2, AtPlace DEF AtStage
<1>4. row \in LetterRow /\ row.msg = m /\ row.status = "retried" /\ row # NULL
  <2>1. row \in LetterRow /\ row.msg = m /\ row.status = "retried"
    BY <1>3 DEF LetterRow
  <2> QED  BY <2>1, AtPlace
<1>5. letter' = [letter EXCEPT ![e] = row]
  BY <1>1
<1>6. /\ k \in Coroutine /\ k.msg = m /\ k.letter = e
      /\ k.pc \in {"dispatching", "reopening"}
  <2>1. 1 \in 0..MaxAttempts
    BY AtPlace
  <2>2. again \in Coroutine /\ again.msg = m /\ again.letter = e /\ again.pc = "dispatching"
    BY <2>1, AtPlace DEF Coroutine, Stages
  <2>3. back \in Coroutine /\ back.msg = m /\ back.letter = e /\ back.pc = "reopening"
    BY AtPlace DEF Coroutine, Stages
  <2> QED  BY <2>2, <2>3
<1> HIDE DEF k, again, back, row
<1>7. /\ letter' \in [Letter -> LetterRow \cup {NULL}]
      /\ \A f \in Letter : letter'[f] = IF f = e THEN row ELSE letter[f]
      /\ retried' \in [Msg -> Nat]
      /\ \A b \in Msg : retried'[b] = IF b = m THEN retried[b] + 1 ELSE retried[b]
  BY <1>1, <1>2, <1>3, <1>4, <1>5
<1>8. \A f \in Letter : letter[f] # NULL => letter'[f] # NULL /\ letter'[f].msg = letter[f].msg
  BY <1>3, <1>4, <1>7
<1>9. AtStage(k, letter', ran')
  <2>1. letter'[e] # NULL /\ letter'[e].msg = m /\ e # NULL
    BY <1>3, <1>4, <1>7, AtPlace
  <2> QED  BY <1>3, <1>6, <2>1 DEF AtStage
<1>10. Safe(m, queued', ran', worker', letter')
  <2>1. worker'[w] = k
    BY <1>1, <1>2
  <2> QED  BY <1>6, <2>1 DEF Safe
<1>11. ASSUME NEW b \in Msg
       PROVE  /\ ran'[b] >= ran[b]
              /\ ran'[b] + (IF Runs(k, b) THEN 1 ELSE 0) + accepted[b] + retried[b]
                   <= ran[b] + (IF Runs(worker[w], b) THEN 1 ELSE 0) + accepted'[b] + retried'[b]
              /\ ~(accepted'[b] > accepted[b])
              /\ worker[w].msg = b => Safe(b, queued', ran', worker', letter')
              /\ (\E f \in Letter : /\ letter[f] # NULL /\ letter[f].msg = b
                                    /\ letter[f].status = "pending"
                                    /\ letter'[f].status # "pending")
                   => Safe(b, queued', ran', worker', letter')
  <2>1. ran[b] \in Nat /\ accepted[b] \in Nat /\ retried[b] \in Nat
    BY <1>2
  <2>2. Runs(k, b) => b = m
    BY <1>6 DEF Runs
  <2>3. \A f \in Letter : letter[f].msg = b /\ letter[f].status = "pending"
                          /\ letter'[f].status # "pending" => b = m
    BY <1>3, <1>7
  <2>4. ran'[b] + (IF Runs(k, b) THEN 1 ELSE 0) + accepted[b] + retried[b]
          <= ran[b] + (IF Runs(worker[w], b) THEN 1 ELSE 0) + accepted'[b] + retried'[b]
    BY <1>1, <1>7, <2>1, <2>2
  <2> QED  BY <1>1, <1>10, <2>1, <2>3, <2>4
<1> QED  BY <1>1, <1>2, <1>6, <1>7, <1>8, <1>9, <1>11, RoutineGoesOn

\* The letter waits again for a retry, or its message is excused.
LEMMA Reopens == ASSUME BotKept, NEW w \in Worker, Reopen(w)  PROVE BotKept'
<1> DEFINE m == worker[w].msg
           e == worker[w].letter
           row == [letter[e] EXCEPT !.status = "pending"]
<1>1. /\ worker[w].pc = "reopening" /\ worker' = [worker EXCEPT ![w] = Idle]
      /\ \/ letter' = [letter EXCEPT ![e] = row] /\ excused' = excused
         \/ letter' = letter /\ excused' = excused \cup {m}
      /\ UNCHANGED <<routes, queued, accepted, retried, ran>>
  BY DEF Reopen, Reopened
<1>2. ran \in [Msg -> Nat] /\ accepted \in [Msg -> Nat] /\ retried \in [Msg -> Nat]
      /\ letter \in [Letter -> LetterRow \cup {NULL}]
  BY DEF BotKept, BotTypes
<1>3. m \in Msg /\ e \in Letter /\ letter[e] # NULL /\ letter[e].msg = m
      /\ letter[e] \in LetterRow
  BY <1>1, <1>2, AtPlace DEF AtStage
<1>4. row \in LetterRow /\ row.msg = m /\ row.status = "pending" /\ row # NULL
  <2>1. row \in LetterRow /\ row.msg = m /\ row.status = "pending"
    BY <1>3 DEF LetterRow
  <2> QED  BY <2>1, AtPlace
<1> HIDE DEF row
<1>5. /\ letter' \in [Letter -> LetterRow \cup {NULL}]
      /\ \A f \in Letter : letter'[f] = letter[f] \/ (f = e /\ letter'[f] = row)
  BY <1>1, <1>2, <1>4
<1>6. \A f \in Letter : letter[f] # NULL => letter'[f] # NULL /\ letter'[f].msg = letter[f].msg
                        /\ (letter[f].status = "pending" => letter'[f].status = "pending")
  BY <1>3, <1>4, <1>5
<1>7. m \in excused' \/ Safe(m, queued', ran', worker', letter')
  <2>1. CASE letter' = [letter EXCEPT ![e] = row] /\ excused' = excused
    <3>1. letter'[e] = row
      BY <1>2, <1>3, <2>1
    <3> QED  BY <1>3, <1>4, <3>1 DEF Safe
  <2>2. CASE letter' = letter /\ excused' = excused \cup {m}
    BY <2>2
  <2> QED  BY <1>1, <2>1, <2>2
<1>8. ASSUME NEW b \in Msg
      PROVE  /\ ran'[b] >= ran[b]
             /\ ran'[b] + (IF Runs(Idle, b) THEN 1 ELSE 0) + accepted[b] + retried[b]
                  <= ran[b] + (IF Runs(worker[w], b) THEN 1 ELSE 0) + accepted'[b] + retried'[b]
             /\ ~(accepted'[b] > accepted[b])
             /\ worker[w].msg = b => b \in excused' \/ Safe(b, queued', ran', worker', letter')
  <2>1. ran[b] \in Nat /\ accepted[b] \in Nat /\ retried[b] \in Nat
    BY <1>2
  <2> QED  BY <1>1, <1>7, <2>1, IdleRoutine
<1>9. excused \subseteq excused'
  BY <1>1
<1> QED  BY <1>1, <1>2, <1>5, <1>6, <1>8, <1>9, IdleRoutine, RoutineGoesOn

\* A route changes; or the process dies, and whatever was under way is excused.
LEMMA BotElsewhere ==
    ASSUME BotKept, Crash \/ (\E v \in Workspace, s \in {"none", "on", "off"} : SetRoute(v, s))
    PROVE  BotKept'
<1>1. ASSUME NEW v \in Workspace, NEW s \in {"none", "on", "off"}, SetRoute(v, s)  PROVE BotKept'
  <2>1. routes' = [routes EXCEPT ![v] = s]
        /\ UNCHANGED <<letter, queued, worker, accepted, retried, ran, excused>>
    BY <1>1 DEF SetRoute
  <2> QED  BY <2>1 DEF BotKept, BotTypes, Accounts, NoneLost
<1>2. CASE Crash
  <2>1. /\ worker' = [w \in Worker |-> Idle] /\ UNCHANGED queued
        /\ excused' = excused \cup {m \in Msg : \E w \in Worker : worker[w].msg = m}
        /\ UNCHANGED <<routes, letter, accepted, retried, ran>>
    BY <1>2 DEF Crash
  <2>2. PICK w \in Worker : TRUE
    BY <1>2 DEF Crash
  <2>3. \A b \in Worker : worker'[b] = Idle
    BY <2>1
  <2>4. BotTypes'
    BY <2>1, <2>2, <2>3, IdleRoutine DEF BotKept, BotTypes
  <2>5. ASSUME NEW m \in Msg
        PROVE  /\ IsFiniteSet(Running(worker', m))
               /\ ran[m] + Cardinality(Running(worker', m)) <= accepted[m] + retried[m]
    <3>1. Running(worker', m) = {}
      BY <2>2, <2>3, IdleRoutine DEF Running
    <3>2. IsFiniteSet(Running(worker, m)) /\ Cardinality(Running(worker, m)) \in Nat
      BY FS_CardinalityType DEF BotKept, Accounts
    <3>3. ran[m] + Cardinality(Running(worker, m)) <= accepted[m] + retried[m]
      BY DEF BotKept, Accounts
    <3>4. ran[m] \in Nat /\ accepted[m] \in Nat /\ retried[m] \in Nat
      BY DEF BotKept, BotTypes
    <3>5. IsFiniteSet({}) /\ Cardinality({}) = 0
      BY FS_EmptySet
    <3> QED  BY <3>1, <3>2, <3>3, <3>4, <3>5
  <2>6. Accounts'
    BY <2>1, <2>5 DEF Accounts
  <2>7. NoneLost'
    BY <2>1 DEF BotKept, NoneLost, Safe
  <2> QED  BY <2>4, <2>6, <2>7 DEF BotKept
<1> QED  BY <1>1, <1>2

\* No message the bridge accepted is lost but those that a crash cut off, a background
\* task dropped, or whose dead letter could not be written or reopened; none is answered
\* more often than it was delivered or retried.
THEOREM NoMessageLost == Spec => []BotInv
<1>1. Init => BotKept
  <2> SUFFICES ASSUME Init  PROVE BotKept
    OBVIOUS
  <2>1. /\ routes \in [Workspace -> {"none", "on"}] /\ letter = [e \in Letter |-> NULL]
        /\ worker = [w \in Worker |-> Idle] /\ accepted = [m \in Msg |-> 0]
        /\ retried = [m \in Msg |-> 0] /\ ran = [m \in Msg |-> 0]
    BY DEF Init
  <2>2. Idle.pc = "idle" /\ Idle.msg = NULL /\ Idle.letter = NULL
        /\ Idle = [pc |-> "idle", msg |-> NULL, try |-> 0, call |-> 0, letter |-> NULL]
    BY DEF Idle
  <2>3. 0 \in 0..MaxAttempts /\ NULL \notin Msg
    BY BotAssumption
  <2>4. Idle \in Coroutine
    BY <2>2, <2>3 DEF Coroutine, Stages
  <2>5. AtStage(Idle, letter, ran)
    BY <2>2 DEF AtStage
  <2>6. routes \in [Workspace -> {"none", "on", "off"}]
    BY <2>1
  <2>7. BotTypes
    BY <2>1, <2>4, <2>5, <2>6 DEF BotTypes
  <2>8. ASSUME NEW m \in Msg
        PROVE  IsFiniteSet(Running(worker, m))
               /\ ran[m] + Cardinality(Running(worker, m)) <= accepted[m] + retried[m]
    <3>1. Running(worker, m) = {}
      BY <2>1, <2>2 DEF Running, Runs
    <3>2. IsFiniteSet({}) /\ Cardinality({}) = 0
      BY FS_EmptySet
    <3>3. ran[m] = 0 /\ accepted[m] = 0 /\ retried[m] = 0
      BY <2>1
    <3> QED  BY <3>1, <3>2, <3>3
  <2>9. Accounts
    BY <2>8 DEF Accounts
  <2>10. NoneLost
    BY <2>1 DEF NoneLost
  <2> QED  BY <2>7, <2>9, <2>10 DEF BotKept
<1>2. BotKept /\ [Next]_vars => BotKept'
  <2> SUFFICES ASSUME BotKept, [Next]_vars  PROVE BotKept'
    OBVIOUS
  <2>1. CASE UNCHANGED vars
    BY <2>1 DEF vars, BotKept, BotTypes, Accounts, NoneLost
  <2> QED  BY <2>1, Delivers, AgentDone, AgentRetries, CallsBack, Buries, LooksUp, MarksLetter,
              Reopens, BotElsewhere DEF Next
<1>3. BotKept => BotInv
  <2> SUFFICES ASSUME BotKept  PROVE BotInv
    OBVIOUS
  <2>1. BotTypeOK
    <3>1. ASSUME NEW w \in Worker
          PROVE  /\ worker[w].try \in 0..MaxAttempts /\ worker[w].call \in 0..MaxAttempts
                 /\ worker[w].letter # NULL =>
                      /\ letter[worker[w].letter] # NULL
                      /\ letter[worker[w].letter].msg = worker[w].msg
      BY AtPlace DEF AtStage
    <3>2. \A e \in Letter : letter[e] # NULL => letter[e].status \in {"pending", "retried"}
      BY DEF BotKept, BotTypes, LetterRow
    <3>3. routes \in [Workspace -> {"none", "on", "off"}]
      BY DEF BotKept, BotTypes
    <3> QED  BY <3>1, <3>2, <3>3 DEF BotTypeOK
  <2>2. NotLost
    BY DEF NotLost, BotKept, NoneLost, Safe
  <2>3. ASSUME NEW m \in Msg  PROVE ran[m] <= accepted[m] + retried[m]
    <3>1. Cardinality(Running(worker, m)) \in Nat
      BY FS_CardinalityType DEF BotKept, Accounts
    <3>2. ran[m] + Cardinality(Running(worker, m)) <= accepted[m] + retried[m]
      BY DEF BotKept, Accounts
    <3>3. ran[m] \in Nat /\ accepted[m] \in Nat /\ retried[m] \in Nat
      BY DEF BotKept, BotTypes
    <3> QED  BY <3>1, <3>2, <3>3
  <2> QED  BY <2>1, <2>2, <2>3 DEF BotInv, RunsAccounted
<1> QED  BY <1>1, <1>2, <1>3, PTL DEF Spec

=============================================================================
