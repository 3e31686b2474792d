----------------------------- MODULE PlanProofs -----------------------------
(***************************************************************************)
(* The plans of PlanApply, for every list of steps, every dependency graph *)
(* and any number of requests: the sort puts a step behind those it        *)
(* depends on, no step is executed before them, the verdict is that of all *)
(* steps, a confirmation serves once, no task is left active, and          *)
(* apply_plan implements OrderedExecution.                                 *)
(***************************************************************************)
EXTENDS PlanApply, SequenceTheorems, TLAPS

-----------------------------------------------------------------------------
(* Sequences of steps, and graphs.                                         *)

Ids(list) == {list[i] : i \in DOMAIN list}

Distinct(list) == \A i, j \in DOMAIN list : list[i] = list[j] => i = j

Needs(g, s) == {g[s][i] : i \in DOMAIN g[s]}

NoCycle(g) == \A S \in SUBSET Step : S # {} => \E s \in S : Needs(g, s) \cap S = {}

\* What a step of the list needs stands before it.
Ordered(list, g) ==
    \A i \in DOMAIN list : \A d \in Needs(g, list[i]) : \E j \in 1..(i - 1) : list[j] = d

\* What a step of the list needs stands before it, or not in the list.
OrderedRest(list, g) ==
    \A i \in DOMAIN list : \A d \in Needs(g, list[i]) :
        d \in Ids(list) => \E j \in 1..(i - 1) : list[j] = d

\* The head and the tail of a list that names nothing twice.
LEMMA HeadAndTail ==
    ASSUME NEW S, NEW list \in Seq(S), list # <<>>
    PROVE  /\ Head(list) \in S /\ Tail(list) \in Seq(S)
           /\ Ids(list) = {Head(list)} \cup Ids(Tail(list))
           /\ Distinct(list) => Distinct(Tail(list)) /\ Head(list) \notin Ids(Tail(list))
           /\ Ids(list) \subseteq S
<1> DEFINE n == Len(list)  rest == Tail(list)
<1>1. /\ n \in Nat /\ n >= 1 /\ DOMAIN list = 1..n /\ Head(list) = list[1]
      /\ Head(list) \in S /\ \A i \in 1..n : list[i] \in S
  OBVIOUS
<1>2. /\ rest \in Seq(S) /\ Len(rest) = n - 1 /\ DOMAIN rest = 1..(n - 1)
      /\ \A i \in 1..(n - 1) : rest[i] = list[i + 1]
  BY <1>1
<1> HIDE DEF n, rest
<1>3. Ids(list) = {Head(list)} \cup Ids(rest)
  <2>1. ASSUME NEW i \in 1..n  PROVE list[i] \in {Head(list)} \cup Ids(rest)
    <3>1. CASE i = 1
      BY <3>1, <1>1
    <3>2. CASE i # 1
      <4>1. i - 1 \in 1..(n - 1) /\ rest[i - 1] = list[i]
        BY <3>2, <1>1, <1>2
      <4> QED  BY <4>1, <1>2 DEF Ids
    <3> QED  BY <3>1, <3>2
  <2>2. ASSUME NEW i \in 1..(n - 1)  PROVE rest[i] \in Ids(list)
    BY <1>1, <1>2 DEF Ids
  <2>3. Head(list) \in Ids(list)
    BY <1>1 DEF Ids
  <2> QED  BY <2>1, <2>2, <2>3, <1>1, <1>2 DEF Ids
<1>4. ASSUME Distinct(list)
      PROVE  Distinct(rest) /\ Head(list) \notin Ids(rest)
  <2>1. \A i \in 1..(n - 1) : i + 1 \in 1..n /\ i + 1 # 1
    BY <1>1
  <2>2. ASSUME NEW i \in 1..(n - 1), NEW j \in 1..(n - 1), rest[i] = rest[j]
        PROVE  i + 1 = j + 1
    <3>1. /\ i + 1 \in DOMAIN list /\ j + 1 \in DOMAIN list
          /\ rest[i] = list[i + 1] /\ rest[j] = list[j + 1]
      BY <2>1, <1>1, <1>2
    <3> QED  BY <3>1, <2>2, <1>4 DEF Distinct
  <2>3. ASSUME NEW i \in 1..(n - 1)  PROVE rest[i] # Head(list)
    <3>1. /\ i + 1 \in DOMAIN list /\ 1 \in DOMAIN list /\ i + 1 # 1
          /\ rest[i] = list[i + 1] /\ Head(list) = list[1]
      BY <2>1, <1>1, <1>2
    <3> QED  BY <3>1, <1>4 DEF Distinct
  <2>4. \A i, j \in 1..(n - 1) : i + 1 = j + 1 => i = j
    OBVIOUS
  <2> QED  BY <2>2, <2>3, <2>4, <1>2 DEF Distinct, Ids
<1>5. Ids(list) \subseteq S
  BY <1>1 DEF Ids
<1> QED  BY <1>1, <1>2, <1>3, <1>4, <1>5 DEF rest

\* One more at the end of a list.
LEMMA AtTheEnd ==
    ASSUME NEW S, NEW list \in Seq(S), NEW x \in S
    PROVE  /\ Append(list, x) \in Seq(S) /\ Append(list, x) # <<>>
           /\ Ids(Append(list, x)) = Ids(list) \cup {x}
           /\ Distinct(list) /\ x \notin Ids(list) => Distinct(Append(list, x))
<1> DEFINE n == Len(list)  more == Append(list, x)
<1>0. n \in Nat /\ DOMAIN list = 1..n /\ more \in Seq(S) /\ Len(more) = n + 1
  OBVIOUS
<1>1. /\ n \in Nat /\ DOMAIN list = 1..n /\ more \in Seq(S) /\ DOMAIN more = 1..(n + 1)
      /\ \A i \in 1..n : more[i] = list[i]
  BY <1>0
<1>2. more[n + 1] = x /\ more # <<>>
  OBVIOUS
<1> HIDE DEF n, more
<1>3. Ids(more) = Ids(list) \cup {x}
  <2>1. 1..(n + 1) = 1..n \cup {n + 1}
    BY <1>1
  <2> QED  BY <2>1, <1>1, <1>2 DEF Ids
<1>4. Distinct(list) /\ x \notin Ids(list) => Distinct(more)
  <2> SUFFICES ASSUME Distinct(list), x \notin Ids(list),
                      NEW i \in 1..(n + 1), NEW j \in 1..(n + 1), more[i] = more[j]
               PROVE  i = j
    BY <1>1 DEF Distinct
  <2>1. \A k \in 1..n : list[k] # x
    BY <1>1 DEF Ids
  <2>2. CASE i \in 1..n /\ j \in 1..n
    BY <2>2, <1>1 DEF Distinct
  <2>3. CASE i = n + 1 \/ j = n + 1
    BY <2>1, <2>3, <1>1, <1>2
  <2> QED  BY <2>2, <2>3, <1>1
<1> QED  BY <1>1, <1>2, <1>3, <1>4 DEF more

\* Order outlives the loss of the head, and an addition that comes last.
LEMMA OrderKept ==
    ASSUME NEW list \in Seq(Step), NEW g \in [Step -> Seq(Step)]
    PROVE  /\ list # <<>> /\ Distinct(list) /\ OrderedRest(list, g) =>
                 OrderedRest(Tail(list), g) /\ \A d \in Needs(g, Head(list)) : d \notin Ids(list)
           /\ \A x \in Step : Ordered(list, g) /\ Needs(g, x) \subseteq Ids(list) =>
                 Ordered(Append(list, x), g)
           /\ Ordered(list, g) => OrderedRest(list, g)
<1> DEFINE n == Len(list)
<1>0. n \in Nat /\ DOMAIN list = 1..n /\ \A i \in 1..n : list[i] \in Step
  OBVIOUS
<1>1. ASSUME list # <<>>, Distinct(list), OrderedRest(list, g)
      PROVE  OrderedRest(Tail(list), g) /\ \A d \in Needs(g, Head(list)) : d \notin Ids(list)
  <2> DEFINE rest == Tail(list)
  <2>1. /\ n >= 1 /\ DOMAIN rest = 1..(n - 1) /\ Head(list) = list[1]
        /\ \A i \in 1..(n - 1) : rest[i] = list[i + 1]
    BY <1>1, <1>0
  <2>2. Ids(list) = {Head(list)} \cup Ids(rest) /\ Head(list) \notin Ids(rest)
    BY <1>1, HeadAndTail
  <2> HIDE DEF rest, n
  <2>3. ASSUME NEW i \in 1..(n - 1), NEW d \in Needs(g, rest[i]), d \in Ids(rest)
        PROVE  \E j \in 1..(i - 1) : rest[j] = d
    <3>1. i + 1 \in DOMAIN list /\ rest[i] = list[i + 1]
      BY <2>1, <1>0
    <3>2. d \in Ids(list) /\ d # Head(list)
      BY <2>2, <2>3
    <3>3. PICK j \in 1..((i + 1) - 1) : list[j] = d
      BY <3>1, <3>2, <1>1 DEF OrderedRest
    <3>4. j # 1
      BY <3>2, <3>3, <2>1
    <3>5. j - 1 \in 1..(i - 1) /\ rest[j - 1] = list[j]
      BY <3>3, <3>4, <2>1, <1>0
    <3> QED  BY <3>3, <3>5, <1>0
  <2>4. \A d \in Needs(g, Head(list)) : d \notin Ids(list)
    <3>1. 1 \in DOMAIN list /\ 1..(1 - 1) = {}
      BY <2>1, <1>0
    <3> QED  BY <3>1, <2>1, <1>1 DEF OrderedRest
  <2> QED  BY <2>1, <2>3, <2>4 DEF OrderedRest, rest
<1>2. ASSUME NEW x \in Step, Ordered(list, g), Needs(g, x) \subseteq Ids(list)
      PROVE  Ordered(Append(list, x), g)
  <2> DEFINE more == Append(list, x)
  <2>1. DOMAIN more = 1..(n + 1) /\ more[n + 1] = x /\ \A i \in 1..n : more[i] = list[i]
    OBVIOUS
  <2> HIDE DEF more, n
  <2> SUFFICES ASSUME NEW i \in 1..(n + 1), NEW d \in Needs(g, more[i])
               PROVE  \E j \in 1..(i - 1) : more[j] = d
    BY <2>1 DEF Ordered, more
  <2>2. CASE i \in 1..n
    <3>1. PICK j \in 1..(i - 1) : list[j] = d
      BY <2>1, <2>2, <1>0, <1>2 DEF Ordered
    <3> QED  BY <3>1, <2>1, <2>2, <1>0
  <2>3. CASE i = n + 1
    <3>1. PICK j \in 1..n : list[j] = d
      BY <2>1, <2>3, <1>0, <1>2 DEF Ids
    <3>2. j \in 1..(i - 1) /\ more[j] = d
      BY <3>1, <2>1, <2>3, <1>0
    <3> QED  BY <3>2
  <2> QED  BY <2>2, <2>3, <1>0
<1>3. Ordered(list, g) => OrderedRest(list, g)
  BY DEF Ordered, OrderedRest
<1> QED  BY <1>1, <1>2, <1>3

-----------------------------------------------------------------------------
(* The sort.                                                               *)

Call == [step : Step \cup {NULL}, ids : Seq(Step)]

\* The steps whose calls of _visit have not returned.
Open(stack) == {stack[i].step : i \in 2..Len(stack)}

\* What the call at a place of the stack has visited or will, and who made it.
Called(stack, i, visited, g) ==
    /\ stack[i].step \in Step
    /\ Needs(g, stack[i].step) \subseteq visited \cup Ids(stack[i].ids)
    /\ Ids(stack[i].ids) \subseteq Needs(g, stack[i].step)
    /\ i > 2 => stack[i].step \in Needs(g, stack[i - 1].step)

\* A step is visited when it is in the result or its call is open; in a graph without
\* a cycle the result has what each of its steps needs before it.
Sorting(stack, visited, todo, g) ==
    /\ visited = Ids(todo) \cup Open(stack) /\ Ids(todo) \cap Open(stack) = {}
    /\ Distinct(todo)
    /\ \A i, j \in 2..Len(stack) : stack[i].step = stack[j].step => i = j
    /\ \A i \in 2..Len(stack) : Called(stack, i, visited, g)
    /\ stack # <<>> => stack[1].step = NULL
    /\ \A s \in Step : s \in visited \/ (stack # <<>> /\ s \in Ids(stack[1].ids))
    /\ NoCycle(g) => Ordered(todo, g)

\* The sort begins with the loop over all steps.
LEMMA SortBegins ==
    ASSUME NEW g \in [Step -> Seq(Step)]
    PROVE  /\ <<Frame(NULL, Steps)>> \in Seq(Call)
           /\ Sorting(<<Frame(NULL, Steps)>>, {}, <<>>, g)
<1> DEFINE stack == <<Frame(NULL, Steps)>>
<1>1. Frame(NULL, Steps) \in Call
  BY PlanAssumption DEF Frame, Call
<1>2. stack \in Seq(Call) /\ Len(stack) = 1 /\ stack[1] = Frame(NULL, Steps) /\ stack # <<>>
  BY <1>1
<1>3. Ids(<<>>) = {} /\ Distinct(<<>>) /\ Ordered(<<>>, g)
  BY DEF Ids, Distinct, Ordered
<1>4. \A s \in Step : s \in Ids(Steps)
  BY DEF Step, Ids
<1> HIDE DEF stack
<1>5. 2..Len(stack) = {}
  BY <1>2
<1> QED  BY <1>2, <1>3, <1>4, <1>5 DEF Sorting, Open, Frame, stack

\* The last call of the stack has gone on to its next id.
GoesOn(stack, next, s) ==
    /\ next \in Seq(Call) /\ Len(next) = Len(stack) /\ s \in Step
    /\ \A i \in 1..Len(stack) :
          /\ next[i].step = stack[i].step
          /\ Ids(next[i].ids) \subseteq Ids(stack[i].ids)
          /\ \A x \in Ids(stack[i].ids) : x = s \/ x \in Ids(next[i].ids)
    /\ s \in Ids(stack[Len(stack)].ids)

\* This is what Visit does to the stack.
LEMMA CallGoesOn ==
    ASSUME NEW stack \in Seq(Call), stack # <<>>, stack[Len(stack)].ids # <<>>
    PROVE  GoesOn(stack, [stack EXCEPT ![Len(stack)].ids = Tail(@)],
                  Head(stack[Len(stack)].ids))
<1> DEFINE n == Len(stack)  top == stack[n]  on == [top EXCEPT !.ids = Tail(@)]
           next == [stack EXCEPT ![n] = on]
<1>1. n \in Nat /\ n >= 1 /\ DOMAIN stack = 1..n /\ \A i \in 1..n : stack[i] \in Call
  OBVIOUS
<1>2. top \in Call
  BY <1>1
<1>3. top.ids \in Seq(Step) /\ top.ids # <<>>
  BY <1>2 DEF Call
<1>4. /\ Head(top.ids) \in Step /\ Tail(top.ids) \in Seq(Step)
      /\ Ids(top.ids) = {Head(top.ids)} \cup Ids(Tail(top.ids))
  BY <1>3, HeadAndTail
<1>5. on \in Call /\ on.step = top.step /\ on.ids = Tail(top.ids)
  BY <1>2, <1>4 DEF Call
<1>6. [stack EXCEPT ![n].ids = Tail(@)] = next
  BY <1>1
<1> HIDE DEF on, top
<1>7. /\ next \in Seq(Call) /\ Len(next) = n /\ next[n] = on
      /\ \A i \in 1..n : i # n => next[i] = stack[i]
  <2>1. n \in 1..Len(stack)
    BY <1>1
  <2> QED  BY <2>1, <1>5, ExceptSeq
<1> HIDE DEF next
<1>8. ASSUME NEW i \in 1..n
      PROVE  /\ next[i].step = stack[i].step
             /\ Ids(next[i].ids) \subseteq Ids(stack[i].ids)
             /\ \A x \in Ids(stack[i].ids) : x = Head(top.ids) \/ x \in Ids(next[i].ids)
  <2>1. CASE i = n
    <3>1. next[i] = on /\ stack[i] = top
      BY <2>1, <1>7 DEF top
    <3> QED  BY <3>1, <1>4, <1>5
  <2>2. CASE i # n
    BY <2>2, <1>7
  <2> QED  BY <2>1, <2>2
<1> QED  BY <1>4, <1>6, <1>7, <1>8 DEF GoesOn, top, n

\* A call is made for the next id, unless that is visited.
LEMMA SortVisits ==
    ASSUME NEW g \in [Step -> Seq(Step)], NEW stack \in Seq(Call), NEW visited \in SUBSET Step,
           NEW todo \in Seq(Step), Sorting(stack, visited, todo, g),
           stack # <<>>, NEW s, NEW next, GoesOn(stack, next, s)
    PROVE  /\ s \in visited => Sorting(next, visited, todo, g)
           /\ s \notin visited =>
                 /\ Append(next, Frame(s, g[s])) \in Seq(Call)
                 /\ Sorting(Append(next, Frame(s, g[s])), visited \cup {s}, todo, g)
<1> DEFINE n == Len(stack)
<1>1. n \in Nat /\ n >= 1
  OBVIOUS
<1>2. s \in Step /\ s \in Ids(stack[n].ids)
  BY DEF GoesOn
<1>3. next \in Seq(Call) /\ Len(next) = n /\ next # <<>>
  BY <1>1 DEF GoesOn
<1>0. /\ visited = Ids(todo) \cup Open(stack) /\ Ids(todo) \cap Open(stack) = {}
      /\ Distinct(todo) /\ stack[1].step = NULL
      /\ \A i, j \in 2..n : stack[i].step = stack[j].step => i = j
      /\ \A x \in Step : x \in visited \/ x \in Ids(stack[1].ids)
      /\ NoCycle(g) => Ordered(todo, g)
  BY DEF Sorting
<1>6. \A i \in 2..n : Called(stack, i, visited, g)
  BY DEF Sorting
<1> HIDE DEF n
<1>5. \A i \in 1..n :
         /\ next[i].step = stack[i].step
         /\ Ids(next[i].ids) \subseteq Ids(stack[i].ids)
         /\ \A x \in Ids(stack[i].ids) : x = s \/ x \in Ids(next[i].ids)
  BY DEF GoesOn, n
<1>4. Open(next) = Open(stack)
  <2>1. \A i \in 2..n : next[i].step = stack[i].step
    BY <1>5, <1>1
  <2> QED  BY <2>1, <1>3 DEF Open, n
<1>7. ASSUME NEW now, visited \cup {s} = now, NEW i \in 2..n
      PROVE  Called(next, i, now, g)
  <2>1. Called(stack, i, visited, g) /\ i \in 1..n
    BY <1>1, <1>6
  <2>2. next[i].step = stack[i].step /\ (i > 2 => i - 1 \in 1..n)
    BY <2>1, <1>1, <1>5
  <2>3. i > 2 => next[i - 1].step = stack[i - 1].step
    BY <2>2, <1>5
  <2> QED  BY <2>1, <2>2, <2>3, <1>5, <1>7 DEF Called
<1>8. \A x \in Step : x \in visited \cup {s} \/ x \in Ids(next[1].ids)
  <2>1. 1 \in 1..n
    BY <1>1
  <2> QED  BY <2>1, <1>0, <1>5
<1>9. next[1].step = NULL /\ \A i, j \in 2..n : next[i].step = next[j].step => i = j
  <2>1. 1 \in 1..n /\ \A i \in 2..n : i \in 1..n
    BY <1>1
  <2> QED  BY <2>1, <1>0, <1>5
<1>10. ASSUME s \in visited  PROVE Sorting(next, visited, todo, g)
  <2>1. visited \cup {s} = visited
    BY <1>10
  <2> QED  BY <2>1, <1>3, <1>4, <1>7, <1>8, <1>9 DEF Sorting
<1>11. ASSUME s \notin visited
       PROVE  /\ Append(next, Frame(s, g[s])) \in Seq(Call)
              /\ Sorting(Append(next, Frame(s, g[s])), visited \cup {s}, todo, g)
  <2> DEFINE f == Frame(s, g[s])  more == Append(next, f)  now == visited \cup {s}
  <2>1. f \in Call /\ f.step = s /\ f.ids = g[s]
    BY <1>2 DEF Frame, Call
  <2> HIDE DEF f
  <2>2. /\ more \in Seq(Call) /\ Len(more) = n + 1 /\ more # <<>>
        /\ more[n + 1] = f /\ \A i \in 1..n : more[i] = next[i]
    <3>1. /\ more \in Seq(Call) /\ Len(more) = Len(next) + 1 /\ more # <<>>
          /\ more[Len(next) + 1] = f /\ \A i \in 1..Len(next) : more[i] = next[i]
      <4>1. next \in Seq(Call) /\ f \in Call
        BY <2>1, <1>3
      <4> QED  BY ONLY <4>1, AppendProperties
    <3> QED  BY <3>1, <1>3
  <2> HIDE DEF more, now
  <2>3. Open(more) = Open(stack) \cup {s}
    <3>1. 2..(n + 1) = 2..n \cup {n + 1}
      BY <1>1
    <3>2. \A i \in 2..n : more[i].step = next[i].step
      BY <1>1, <2>2
    <3>3. Open(more) = {next[i].step : i \in 2..n} \cup {s}
      <4>1. 2..Len(more) = 2..n \cup {n + 1} /\ more[n + 1].step = s
        BY <3>1, <2>1, <2>2
      <4>2. Open(more) = {more[i].step : i \in 2..n} \cup {more[n + 1].step}
        BY ONLY <4>1 DEF Open
      <4>3. {more[i].step : i \in 2..n} = {next[i].step : i \in 2..n}
        BY ONLY <3>2
      <4> QED  BY ONLY <4>1, <4>2, <4>3
    <3> QED  BY <3>3, <1>3, <1>4 DEF Open
  <2>4. now = Ids(todo) \cup Open(more) /\ Ids(todo) \cap Open(more) = {}
    BY <2>3, <1>11 DEF Sorting, now
  <2>5. \A i, j \in 2..Len(more) : more[i].step = more[j].step => i = j
    <3>1. \A i \in 2..n : more[i].step \in visited /\ i \in 1..n
      <4>1. \A i \in 2..n : i \in 1..n
        BY <1>1
      <4>2. \A i \in 2..n : stack[i].step \in Open(stack)
        BY DEF Open, n
      <4> QED  BY <4>1, <4>2, <1>0, <1>5, <2>2
    <3>2. more[n + 1].step \notin visited
      BY <2>1, <2>2, <1>11
    <3>3. \A i \in 2..Len(more) : i \in 2..n \/ i = n + 1
      BY <1>1, <2>2
    <3>4. \A i, j \in 2..n : more[i].step = more[j].step => i = j
      BY <3>1, <1>9, <2>2
    <3> QED  BY <3>1, <3>2, <3>3, <3>4
  <2>6. ASSUME NEW i \in 2..Len(more)  PROVE Called(more, i, now, g)
    <3>1. CASE i \in 2..n
      <4>1. Called(next, i, now, g)
        BY <3>1, <1>7 DEF now
      <4>2. more[i] = next[i] /\ (i > 2 => more[i - 1] = next[i - 1])
        BY <3>1, <1>1, <2>2
      <4> QED  BY <4>1, <4>2 DEF Called
    <3>2. CASE i = n + 1
      <4>1. more[i].step = s /\ Ids(more[i].ids) = Needs(g, s)
        BY <3>2, <2>1, <2>2 DEF Ids, Needs
      <4>2. ASSUME i > 2  PROVE s \in Needs(g, more[i - 1].step)
        <5>1. i - 1 = n /\ n \in 2..n /\ more[i - 1] = next[n]
          BY <3>2, <4>2, <1>1, <2>2
        <5>2. next[n].step = stack[n].step /\ s \in Ids(stack[n].ids)
          BY <1>1, <1>2, <1>5
        <5>3. Called(stack, n, visited, g)
          BY <5>1 DEF Sorting, n
        <5> QED  BY <5>1, <5>2, <5>3 DEF Called
      <4> QED  BY <4>1, <4>2, <1>2 DEF Called
    <3> QED  BY <3>1, <3>2, <1>1, <2>2
  <2>7. more[1] = next[1]
    BY <1>1, <2>2
  <2>8. more[1].step = NULL /\ \A x \in Step : x \in now \/ x \in Ids(more[1].ids)
    BY <2>7, <1>8, <1>9 DEF now
  <2>9. Distinct(todo) /\ (NoCycle(g) => Ordered(todo, g))
    BY DEF Sorting
  <2>10. Sorting(more, now, todo, g)
    BY <2>2, <2>4, <2>5, <2>6, <2>8, <2>9 DEF Sorting
  <2> QED  BY <2>2, <2>10 DEF more, now, f
<1> QED  BY <1>2, <1>3, <1>10, <1>11

\* In a graph without a cycle the last call needs no step whose call is open.
LEMMA NeedsNoneOpen ==
    ASSUME NEW g \in [Step -> Seq(Step)], NoCycle(g), NEW stack \in Seq(Call),
           NEW visited \in SUBSET Step, Len(stack) >= 2,
           \A i \in 2..Len(stack) : Called(stack, i, visited, g)
    PROVE  Needs(g, stack[Len(stack)].step) \cap Open(stack) = {}
<1> DEFINE n == Len(stack)
<1>1. n \in Nat /\ n >= 2
  OBVIOUS
<1> SUFFICES ASSUME NEW k \in 2..n, stack[k].step \in Needs(g, stack[n].step)
             PROVE  FALSE
  BY DEF Open
<1> DEFINE S == {stack[i].step : i \in k..n}
<1> HIDE DEF n
<1>2. \A i \in k..n : i \in 2..n /\ stack[i].step \in Step
  BY <1>1 DEF Called, n
<1>3. S \in SUBSET Step /\ S # {}
  <2>1. k \in k..n
    BY <1>1
  <2>2. S \in SUBSET Step
    BY <1>2
  <2>3. stack[k].step \in S
    BY <2>1
  <2> QED  BY <2>2, <2>3
<1>4. PICK s \in S : Needs(g, s) \cap S = {}
  BY <1>3 DEF NoCycle
<1>5. PICK i \in k..n : s = stack[i].step
  OBVIOUS
<1>6. CASE i = n
  <2>1. k \in k..n
    BY <1>1
  <2>2. stack[k].step \in S
    BY <2>1
  <2> QED  BY <2>2, <1>4, <1>5, <1>6
<1>7. CASE i # n
  <2>1. i + 1 \in k..n /\ i + 1 > 2 /\ (i + 1) - 1 = i
    BY <1>1, <1>7
  <2>2. Called(stack, i + 1, visited, g)
    BY <2>1, <1>2 DEF n
  <2>3. stack[i + 1].step \in Needs(g, s) /\ stack[i + 1].step \in S
    BY <2>1, <2>2, <1>5 DEF Called
  <2> QED  BY <2>3, <1>4
<1> QED  BY <1>6, <1>7

\* A call that returns puts its step behind all that it needs.
LEMMA SortReturns ==
    ASSUME NEW g \in [Step -> Seq(Step)], NEW stack \in Seq(Call), NEW visited \in SUBSET Step,
           NEW todo \in Seq(Step), Sorting(stack, visited, todo, g),
           stack # <<>>, stack[Len(stack)].ids = <<>>,
           NEW rest, rest = SubSeq(stack, 1, Len(stack) - 1)
    PROVE  /\ rest \in Seq(Call)
           /\ stack[Len(stack)].step = NULL => Sorting(rest, visited, todo, g)
           /\ stack[Len(stack)].step # NULL =>
                 /\ Append(todo, stack[Len(stack)].step) \in Seq(Step)
                 /\ Sorting(rest, visited, Append(todo, stack[Len(stack)].step), g)
<1> DEFINE n == Len(stack)  s == stack[n].step
<1>1. n \in Nat /\ n >= 1
  OBVIOUS
<1>2. /\ rest \in Seq(Call) /\ Len(rest) = n - 1 /\ (n > 1 => rest # <<>>) /\ (n = 1 => rest = <<>>)
      /\ \A i \in 1..(n - 1) : rest[i] = stack[i]
  <2>1. \A i \in 1..(n - 1) : stack[i] \in Call
    BY <1>1
  <2>2. n - 1 \in Int /\ (1 <= n - 1 <=> n > 1) /\ (n - 1) - 1 + 1 = n - 1
    BY <1>1
  <2> HIDE DEF n
  <2>3. /\ rest \in Seq(Call) /\ Len(rest) = IF 1 <= n - 1 THEN (n - 1) - 1 + 1 ELSE 0
        /\ \A i \in 1..((n - 1) - 1 + 1) : rest[i] = stack[1 + i - 1]
    BY <2>1, <2>2, SubSeqProperties DEF n
  <2>4. Len(rest) = n - 1
    BY <2>3, <1>1
  <2>5. \A i \in 1..(n - 1) : 1 + i - 1 = i
    BY <1>1
  <2>6. n = 1 => rest = <<>>
    BY <2>3, <2>4, EmptySeq
  <2>7. ASSUME n > 1  PROVE rest # <<>>
    <3>1. n - 1 # 0
      BY <2>7, <1>1
    <3>2. Len(rest) # Len(<<>>)
      BY <3>1, <2>4, EmptySeq
    <3> QED  BY ONLY <3>2
  <2> QED  BY <2>2, <2>3, <2>4, <2>5, <2>6, <2>7
<1>3. /\ visited = Ids(todo) \cup Open(stack) /\ Ids(todo) \cap Open(stack) = {}
      /\ Distinct(todo) /\ stack[1].step = NULL
      /\ \A i, j \in 2..n : stack[i].step = stack[j].step => i = j
      /\ \A x \in Step : x \in visited \/ x \in Ids(stack[1].ids)
      /\ NoCycle(g) => Ordered(todo, g)
  BY DEF Sorting
<1>4. \A i \in 2..n : Called(stack, i, visited, g)
  BY DEF Sorting
<1>5. Ids(stack[n].ids) = {}
  BY DEF Ids
<1> HIDE DEF n, s
<1>6. CASE n = 1
  <2>1. s = NULL /\ rest = <<>> /\ 2..Len(rest) = {} /\ 2..n = {}
    BY <1>1, <1>2, <1>3, <1>6 DEF s
  <2>2. Open(rest) = {} /\ Open(stack) = {}
    BY <2>1 DEF Open, n
  <2>3. \A x \in Step : x \in visited
    BY <1>3, <1>5, <1>6
  <2>4. Sorting(rest, visited, todo, g)
    BY <2>1, <2>2, <2>3, <1>3 DEF Sorting
  <2> QED  BY <2>1, <2>4, <1>2 DEF s, n
<1>7. CASE n # 1
  <2>1. n \in 2..n /\ n >= 2 /\ n - 1 \in Nat
    BY <1>1, <1>7
  <2>2. s \in Step /\ s # NULL /\ Needs(g, s) \subseteq visited
    BY <2>1, <1>4, <1>5, PlanAssumption DEF Called, s
  <2>3. /\ Append(todo, s) \in Seq(Step) /\ Ids(Append(todo, s)) = Ids(todo) \cup {s}
        /\ s \notin Ids(todo) => Distinct(Append(todo, s))
    BY <2>2, <1>3, AtTheEnd
  <2>4. Open(stack) = Open(rest) \cup {s} /\ s \notin Open(rest)
    <3>1. 2..n = 2..(n - 1) \cup {n}
      BY <2>1
    <3>2. \A i \in 2..(n - 1) : rest[i].step = stack[i].step /\ i \in 2..n /\ i # n
      BY <2>1, <1>2
    <3>3. Open(rest) = {stack[i].step : i \in 2..(n - 1)}
      BY <3>2, <1>2 DEF Open
    <3>4. Open(stack) = {stack[i].step : i \in 2..(n - 1)} \cup {s}
      BY <3>1 DEF Open, s, n
    <3> QED  BY <3>2, <3>3, <3>4, <2>1, <1>3 DEF s
  <2>5. s \notin Ids(todo)
    BY <2>4, <1>3
  <2>6. visited = Ids(Append(todo, s)) \cup Open(rest) /\ Ids(Append(todo, s)) \cap Open(rest) = {}
    BY <2>3, <2>4, <1>3
  <2>7. NoCycle(g) => Ordered(Append(todo, s), g)
    <3>1. NoCycle(g) => Needs(g, s) \cap Open(stack) = {}
      BY <2>1, <1>4, NeedsNoneOpen DEF n, s
    <3>2. NoCycle(g) => Needs(g, s) \subseteq Ids(todo)
      BY <3>1, <2>2, <1>3
    <3> QED  BY <3>2, <2>2, <1>3, OrderKept
  <2>8. /\ \A i, j \in 2..Len(rest) : rest[i].step = rest[j].step => i = j
        /\ \A i \in 2..Len(rest) : Called(rest, i, visited, g)
    <3>1. \A i \in 2..(n - 1) : i \in 2..n /\ rest[i] = stack[i]
      BY <2>1, <1>2
    <3>2. \A i \in 2..(n - 1) : i > 2 => rest[i - 1] = stack[i - 1]
      BY <2>1, <1>2
    <3>3. \A i, j \in 2..(n - 1) : rest[i].step = rest[j].step => i = j
      BY <3>1, <1>3
    <3>4. ASSUME NEW i \in 2..(n - 1)  PROVE Called(rest, i, visited, g)
      <4>1. Called(stack, i, visited, g) /\ rest[i] = stack[i]
        BY <3>1, <1>4
      <4> QED  BY <4>1, <3>2 DEF Called
    <3> QED  BY <3>3, <3>4, <1>2
  <2>9. rest # <<>> /\ rest[1] = stack[1]
    BY <2>1, <1>2
  <2>10. Sorting(rest, visited, Append(todo, s), g)
    BY <2>3, <2>5, <2>6, <2>7, <2>8, <2>9, <1>3 DEF Sorting
  <2> QED  BY <2>2, <2>3, <2>10, <1>2 DEF s, n
<1> QED  BY <1>6, <1>7

\* When the last call has returned, the result has every step once, and in order.
LEMMA SortEnds ==
    ASSUME NEW g, NEW visited, NEW todo \in Seq(Step), Sorting(<<>>, visited, todo, g)
    PROVE  /\ Distinct(todo) /\ Step \subseteq Ids(todo)
           /\ NoCycle(g) => Ordered(todo, g)
<1>1. Open(<<>>) = {}
  <2>1. 2..Len(<<>>) = {}
    OBVIOUS
  <2> QED  BY <2>1 DEF Open
<1> QED  BY <1>1 DEF Sorting

-----------------------------------------------------------------------------
(* The execution of the steps.                                             *)

Ended == {"completed", "failed", "needs_input"}

Served == {"completed", "needs_input"}

\* A step that was executed, or is, has only dependencies that were before it.
Follows(st, g) ==
    \A s \in Step : st[s] \in {"executing", "completed", "needs_input"} =>
        \A d \in Needs(g, s) : st[d] \in Served

\* What is not left to do has ended, and what is left has not begun, but for the head
\* while it is awaited.
Walking(st, todo, g, awaited) ==
    /\ Distinct(todo)
    /\ awaited => todo # <<>>
    /\ \A s \in Step : s \notin Ids(todo) => st[s] \in Ended
    /\ \A s \in Ids(todo) :
          st[s] = IF awaited /\ s = Head(todo) THEN "executing" ELSE "pending"
    /\ NoCycle(g) => OrderedRest(todo, g) /\ Follows(st, g)

\* The sorted steps are all still to do.
LEMMA WalkBegins ==
    ASSUME NEW g \in [Step -> Seq(Step)], NEW todo \in Seq(Step), Distinct(todo),
           Step \subseteq Ids(todo), NoCycle(g) => Ordered(todo, g)
    PROVE  Walking([s \in Step |-> "pending"], todo, g, FALSE)
<1>1. Ids(todo) \subseteq Step
  BY DEF Ids
<1>2. NoCycle(g) => OrderedRest(todo, g)
  BY OrderKept
<1> QED  BY <1>1, <1>2 DEF Walking, Follows

\* The head is begun when nothing that it needs has failed.
LEMMA HeadBegins ==
    ASSUME NEW g \in [Step -> Seq(Step)], NEW todo \in Seq(Step), todo # <<>>,
           NEW st \in [Step -> StepStatus], Walking(st, todo, g, FALSE),
           \A d \in Needs(g, Head(todo)) : st[d] # "failed"
    PROVE  Walking([st EXCEPT ![Head(todo)] = "executing"], todo, g, TRUE)
<1> DEFINE h == Head(todo)  now == [st EXCEPT ![h] = "executing"]
<1>1. h \in Step /\ Ids(todo) \subseteq Step /\ h \in Ids(todo)
  BY HeadAndTail
<1>2. \A s \in Step : now[s] = IF s = h THEN "executing" ELSE st[s]
  OBVIOUS
<1>3. /\ Distinct(todo) /\ (NoCycle(g) => OrderedRest(todo, g) /\ Follows(st, g))
      /\ \A s \in Step : s \notin Ids(todo) => st[s] \in Ended
      /\ \A s \in Ids(todo) : st[s] = "pending"
  BY DEF Walking
<1> HIDE DEF now, h
<1>4. \A s \in Step : \A d \in Needs(g, s) : d \in Step
  BY DEF Needs
<1>5. ASSUME NoCycle(g)  PROVE Follows(now, g)
  <2>1. ASSUME NEW d \in Needs(g, h)  PROVE now[d] \in Served
    <3>1. d \notin Ids(todo) /\ d \in Step
      BY <1>1, <1>3, <1>4, <1>5, OrderKept DEF h
    <3>2. st[d] \in Ended /\ st[d] # "failed"
      BY <3>1, <1>3 DEF h
    <3> QED  BY <3>1, <3>2, <1>1, <1>2 DEF Ended, Served
  <2>2. ASSUME NEW s \in Step, s # h, now[s] \in {"executing", "completed", "needs_input"},
               NEW d \in Needs(g, s)
        PROVE  now[d] \in Served
    <3>1. st[d] \in Served
      BY <2>2, <1>2, <1>3, <1>5 DEF Follows
    <3>2. d # h /\ d \in Step
      BY <3>1, <2>2, <1>1, <1>3, <1>4 DEF Served
    <3> QED  BY <3>1, <3>2, <1>2
  <2> QED  BY <2>1, <2>2 DEF Follows
<1>6. \A s \in Step : s \notin Ids(todo) => now[s] \in Ended
  BY <1>1, <1>2, <1>3
<1>7. \A s \in Ids(todo) : now[s] = IF s = h THEN "executing" ELSE "pending"
  BY <1>1, <1>2, <1>3
<1> QED  BY <1>3, <1>5, <1>6, <1>7 DEF Walking, now, h

\* The head ends, and the next step is the head.
LEMMA HeadEnds ==
    ASSUME NEW g \in [Step -> Seq(Step)], NEW todo \in Seq(Step), todo # <<>>,
           NEW st \in [Step -> StepStatus], NEW awaited \in BOOLEAN,
           Walking(st, todo, g, awaited), NEW v \in Ended,
           \/ awaited \/ v = "failed"
           \/ \A d \in Needs(g, Head(todo)) : st[d] # "failed"
    PROVE  Walking([st EXCEPT ![Head(todo)] = v], Tail(todo), g, FALSE)
<1> DEFINE h == Head(todo)  now == [st EXCEPT ![h] = v]  rest == Tail(todo)
<1>1. /\ h \in Step /\ Ids(todo) \subseteq Step /\ rest \in Seq(Step)
      /\ Ids(todo) = {h} \cup Ids(rest) /\ h \notin Ids(rest) /\ Distinct(rest)
  BY HeadAndTail DEF Walking
<1>2. \A s \in Step : now[s] = IF s = h THEN v ELSE st[s]
  OBVIOUS
<1>3. /\ \A s \in Step : s \notin Ids(todo) => st[s] \in Ended
      /\ \A s \in Ids(todo) : s # h => st[s] = "pending"
      /\ st[h] = IF awaited THEN "executing" ELSE "pending"
  BY <1>1 DEF Walking
<1>4. \A s \in Step : \A d \in Needs(g, s) : d \in Step
  BY DEF Needs
<1>5. ASSUME NoCycle(g)
      PROVE  /\ OrderedRest(rest, g) /\ Follows(st, g)
             /\ \A d \in Needs(g, h) : d \notin Ids(todo)
  BY <1>5, OrderKept DEF Walking
<1> HIDE DEF now, h, rest
<1>6. ASSUME NoCycle(g)  PROVE Follows(now, g)
  <2>1. ASSUME v # "failed", NEW d \in Needs(g, h)  PROVE now[d] \in Served
    <3>1. d \notin Ids(todo) /\ d \in Step /\ d # h
      BY <1>1, <1>4, <1>5, <1>6
    <3>2. st[d] \in Ended
      BY <3>1, <1>3
    <3>3. awaited => st[d] \in Served
      BY <1>1, <1>3, <1>5, <1>6 DEF Follows
    <3>4. ~awaited => st[d] # "failed"
      BY <2>1 DEF h
    <3> QED  BY <3>1, <3>2, <3>3, <3>4, <1>2 DEF Ended, Served
  <2>2. ASSUME NEW s \in Step, s # h, now[s] \in {"executing", "completed", "needs_input"},
               NEW d \in Needs(g, s)
        PROVE  now[d] \in Served
    <3>1. st[d] \in Served
      BY <2>2, <1>2, <1>5, <1>6 DEF Follows
    <3>2. d # h /\ d \in Step
      BY <3>1, <2>2, <1>3, <1>4 DEF Served
    <3> QED  BY <3>1, <3>2, <1>2
  <2>3. v = "failed" => now[h] = "failed"
    BY <1>1, <1>2
  <2> QED  BY <2>1, <2>2, <2>3 DEF Follows
<1>7. \A s \in Step : s \notin Ids(rest) => now[s] \in Ended
  BY <1>1, <1>2, <1>3
<1>8. \A s \in Ids(rest) : now[s] = "pending"
  BY <1>1, <1>2, <1>3
<1> QED  BY <1>1, <1>5, <1>6, <1>7, <1>8 DEF Walking, now, h, rest

-----------------------------------------------------------------------------
(* The inductive invariant.                                                *)

Pc == {"idle", "sorting", "stepping", "acting", "dispatching", "triggering", "loaded",
       "creating", "resumed"}

Coroutine ==
    [pc : Pc, plan : Plan \cup {NULL}, visited : SUBSET Step, stack : Seq(Call),
     todo : Seq(Step), tasks : Seq(Step), failed : SUBSET Step, asked : BOOLEAN,
     req : Req \cup {NULL}]

PlanRequest ==
    [status : {"pending", "approved", "completed"}, kind : {"plan_apply"},
     work : [step : Step, asks : {"input", "followup"}], snap : {NULL}] \cup {NoRequest}

RowState == {"none", "active", "completed", "failed"}

\* What apply_plan knows of the steps while it goes through them and through the tasks.
Knows(c, file) ==
    /\ c.plan \in Plan /\ c.plan.status = "executing" /\ c.req = NULL
    /\ c.failed = {s \in Step : c.plan.steps[s] = "failed"}
    /\ c.asked => Stored(file) # {}
    /\ ~c.asked => \A s \in Step : c.plan.steps[s] # "needs_input"
    /\ Distinct(c.tasks) /\ Ids(c.tasks) \cap (c.failed \cup Ids(c.todo)) = {}

\* What a coroutine has at each of its places.
Fits(c, file, g) ==
    /\ c.pc = "idle" => c = Idle
    /\ c.pc = "sorting" =>
          /\ c.plan = NULL /\ c.req = NULL /\ c.tasks = <<>> /\ c.failed = {} /\ ~c.asked
          /\ Sorting(c.stack, c.visited, c.todo, g)
    /\ c.pc \in {"stepping", "acting", "dispatching", "triggering"} => Knows(c, file)
    /\ c.pc \in {"stepping", "acting"} =>
          Walking(c.plan.steps, c.todo, g, c.pc = "acting")
    /\ c.pc \in {"dispatching", "triggering"} =>
          /\ c.todo = <<>>
          /\ c.pc = "triggering" => c.tasks # <<>> /\ c.plan.steps[Head(c.tasks)] = "executing"
          /\ \A s \in Step : \/ c.plan.steps[s] \in Ended
                             \/ c.pc = "triggering" /\ s = Head(c.tasks)
    /\ c.pc \in {"loaded", "creating", "resumed"} =>
          c.plan \in Plan /\ c.req \in Stored(file) /\ c.tasks = <<>>

Types ==
    /\ dependsOn \in [Step -> Seq(Step)]
    /\ plan \in Plan
    /\ request \in [Req -> PlanRequest] /\ answered \subseteq Stored(request)
    /\ row \in [Step -> RowState] /\ unsettled \subseteq Step
    /\ actor \in [Actor -> Coroutine]
    /\ confirms \in Nat /\ applies \in Nat

Places == \A a \in Actor : Fits(actor[a], request, dependsOn)

\* Between two awaits there is one coroutine, and it applies a plan that is confirmed.
Alone ==
    /\ \A a, b \in Actor : actor[a].pc \in Sync /\ actor[b].pc \in Sync => a = b
    /\ \A a \in Actor : actor[a].pc = "sorting" => plan.status = "confirmed"

\* A confirmation that has not been used.
Spare(p) == IF p.status = "confirmed" THEN 1 ELSE 0

Spent == applies + Spare(plan) <= confirms

\* The coroutine is to run the task of the step.
HandledBy(c, file, s) ==
    s \in Ids(c.tasks) \/ (c.pc = "resumed" /\ file[c.req].work.step = s)

Settled ==
    ~broken => \A s \in Step \ unsettled : row[s] = "active" =>
                  \E a \in Actor : HandledBy(actor[a], request, s)

PlanKept == Types /\ Places /\ Alone /\ Spent /\ Settled

\* The requests on file stay there, for the steps that they are for.
Grows(file, more) ==
    /\ more \in [Req -> PlanRequest]
    /\ Stored(file) \subseteq Stored(more)
    /\ \A q \in Stored(file) : more[q].work = file[q].work

\* No other coroutine loses what it has when requests are added.
LEMMA OthersFit ==
    ASSUME PlanKept, Grows(request, request'), dependsOn' = dependsOn, NEW b \in Actor
    PROVE  /\ Fits(actor[b], request', dependsOn')
           /\ \A s \in Step : HandledBy(actor[b], request, s) => HandledBy(actor[b], request', s)
<1>1. Fits(actor[b], request, dependsOn)
  BY DEF PlanKept, Places
<1>2. Stored(request) \subseteq Stored(request') /\ dependsOn' = dependsOn
  BY DEF Grows
<1>3. Knows(actor[b], request) => Knows(actor[b], request')
  BY <1>2 DEF Knows
<1>4. Fits(actor[b], request', dependsOn')
  BY <1>1, <1>2, <1>3 DEF Fits
<1>5. actor[b].pc = "resumed" => request'[actor[b].req].work = request[actor[b].req].work
  BY <1>1 DEF Fits, Grows
<1> QED  BY <1>4, <1>5 DEF HandledBy

\* A step of one coroutine keeps the invariant if it leaves its own place in order.
LEMMA ActorSettles ==
    ASSUME PlanKept, NEW a \in Actor, MayRun(a), NEW c \in Coroutine,
           actor' = [actor EXCEPT ![a] = c], dependsOn' = dependsOn,
           Grows(request, request'), Fits(c, request', dependsOn),
           plan' \in Plan, answered' \subseteq Stored(request'), row' \in [Step -> RowState],
           confirms' \in Nat, applies' \in Nat, applies' + Spare(plan') <= confirms',
           c.pc = "sorting" => plan'.status = "confirmed",
           ~broken' => ~broken, unsettled \subseteq unsettled', unsettled' \subseteq Step,
           \A s \in Step \ unsettled' : ~broken' /\ row'[s] = "active" =>
               \/ HandledBy(c, request', s)
               \/ row[s] = "active" /\ ~HandledBy(actor[a], request, s)
    PROVE  PlanKept'
<1>1. \A b \in Actor : actor'[b] = IF b = a THEN c ELSE actor[b]
  BY DEF PlanKept, Types
<1>2. Types'
  BY DEF PlanKept, Types, Grows
<1>3. Places'
  BY <1>1, OthersFit DEF Places
<1>4. \A b \in Actor : b # a => actor'[b].pc \notin Sync
  BY <1>1 DEF MayRun
<1>5. Alone'
  <2>1. \A b, d \in Actor : actor'[b].pc \in Sync /\ actor'[d].pc \in Sync => b = d
    BY <1>4
  <2>2. \A b \in Actor : actor'[b].pc = "sorting" => plan'.status = "confirmed"
    BY <1>1, <1>4 DEF Sync
  <2> QED  BY <2>1, <2>2 DEF Alone
<1>6. Spent'
  BY DEF Spent
<1>7. ASSUME ~broken', NEW s \in Step \ unsettled', row'[s] = "active"
      PROVE  \E b \in Actor : HandledBy(actor'[b], request', s)
  <2>1. CASE HandledBy(c, request', s)
    BY <2>1, <1>1
  <2>2. CASE row[s] = "active" /\ ~HandledBy(actor[a], request, s)
    <3>1. PICK b \in Actor : HandledBy(actor[b], request, s)
      BY <2>2, <1>7 DEF PlanKept, Settled
    <3>2. b # a /\ HandledBy(actor[b], request', s)
      BY <3>1, <2>2, OthersFit
    <3> QED  BY <3>2, <1>1
  <2> QED  BY <2>1, <2>2, <1>7
<1> QED  BY <1>2, <1>3, <1>5, <1>6, <1>7 DEF PlanKept, Settled

\* The same of a step that settles no row in vain.
LEMMA ActorMoves ==
    ASSUME PlanKept, NEW a \in Actor, MayRun(a), NEW c \in Coroutine,
           actor' = [actor EXCEPT ![a] = c], dependsOn' = dependsOn,
           Grows(request, request'), Fits(c, request', dependsOn),
           plan' \in Plan, answered' \subseteq Stored(request'), row' \in [Step -> RowState],
           confirms' \in Nat, applies' \in Nat, applies' + Spare(plan') <= confirms',
           c.pc = "sorting" => plan'.status = "confirmed",
           ~broken' => ~broken, unsettled' = unsettled,
           \A s \in Step : ~broken' /\ row'[s] = "active" =>
               \/ HandledBy(c, request', s)
               \/ row[s] = "active" /\ ~HandledBy(actor[a], request, s)
    PROVE  PlanKept'
<1>1. unsettled \subseteq unsettled' /\ unsettled' \subseteq Step
  BY DEF PlanKept, Types
<1>2. \A s \in Step \ unsettled' : ~broken' /\ row'[s] = "active" =>
          \/ HandledBy(c, request', s)
          \/ row[s] = "active" /\ ~HandledBy(actor[a], request, s)
  OBVIOUS
<1> QED  BY <1>1, <1>2, ActorSettles

\* A coroutine that is between two awaits may run.
LEMMA SyncRuns ==
    ASSUME PlanKept, NEW a \in Actor, actor[a].pc \in Sync
    PROVE  MayRun(a)
  BY DEF PlanKept, Alone, MayRun

\* The types of one coroutine, and its place.
LEMMA AtPlace ==
    ASSUME PlanKept, NEW a \in Actor
    PROVE  /\ actor[a] \in Coroutine /\ Fits(actor[a], request, dependsOn)
           /\ dependsOn \in [Step -> Seq(Step)] /\ plan \in Plan
           /\ request \in [Req -> PlanRequest] /\ answered \subseteq Stored(request)
           /\ row \in [Step -> RowState] /\ unsettled \subseteq Step
           /\ confirms \in Nat /\ applies \in Nat
           /\ applies + Spare(plan) <= confirms /\ applies <= confirms
<1>1. /\ confirms \in Nat /\ applies \in Nat /\ Spare(plan) \in {0, 1}
      /\ applies + Spare(plan) <= confirms
  BY DEF PlanKept, Types, Spent, Spare
<1>2. applies <= confirms
  BY <1>1
<1> QED  BY <1>1, <1>2 DEF PlanKept, Types, Places

\* Nothing happens to the requests.
LEMMA NothingAsked ==
    ASSUME PlanKept, request' = request
    PROVE  Grows(request, request')
  BY DEF PlanKept, Types, Grows

-----------------------------------------------------------------------------
(* The steps of the sort.                                                  *)

\* A coroutine that serves no request has nothing.
LEMMA IdleFits ==
    /\ Idle \in Coroutine /\ Idle.pc = "idle" /\ Idle.tasks = <<>>
    /\ \A file, g : Fits(Idle, file, g)
    /\ \A file, s : ~HandledBy(Idle, file, s)
<1>1. /\ Idle.pc = "idle" /\ Idle.plan = NULL /\ Idle.visited = {} /\ Idle.stack = <<>>
      /\ Idle.todo = <<>> /\ Idle.tasks = <<>> /\ Idle.failed = {} /\ Idle.asked = FALSE
      /\ Idle.req = NULL
  BY DEF Idle
<1>2. <<>> \in Seq(Call) /\ <<>> \in Seq(Step)
  OBVIOUS
<1>3. Idle \in Coroutine
  BY <1>2 DEF Coroutine, Pc, Idle
<1>4. \A file, g : Fits(Idle, file, g)
  BY <1>1 DEF Fits
<1>5. \A file, s : ~HandledBy(Idle, file, s)
  BY <1>1 DEF HandledBy, Ids
<1> QED  BY <1>1, <1>3, <1>4, <1>5

\* A request for which the plan is applied sorts its steps first.
LEMMA ApplyBeginsKeeps ==
    ASSUME PlanKept, NEW a \in Actor, ApplyBegins(a)
    PROVE  PlanKept'
<1> DEFINE c == [Idle EXCEPT !.pc = "sorting", !.stack = <<Frame(NULL, Steps)>>]
<1>1. <<Frame(NULL, Steps)>> \in Seq(Call) /\ Sorting(<<Frame(NULL, Steps)>>, {}, <<>>, dependsOn)
  BY AtPlace, SortBegins
<1>2. /\ c.pc = "sorting" /\ c.plan = NULL /\ c.visited = {} /\ c.todo = <<>> /\ c.tasks = <<>>
      /\ c.failed = {} /\ c.asked = FALSE /\ c.req = NULL /\ c.stack = <<Frame(NULL, Steps)>>
  BY DEF Idle
<1>3. c \in Coroutine
  <2>1. Idle \in Coroutine
    BY IdleFits
  <2>2. <<Frame(NULL, Steps)>> \in Seq(Call) /\ "sorting" \in Pc
    BY <1>1 DEF Pc
  <2> QED  BY <2>1, <2>2 DEF Coroutine
<1>4. Fits(c, request, dependsOn)
  BY <1>1, <1>2 DEF Fits
<1>5. /\ MayRun(a) /\ actor' = [actor EXCEPT ![a] = c] /\ plan.status = "confirmed"
      /\ UNCHANGED <<dependsOn, plan, request, answered, row, confirms, applies, unsettled, broken>>
      /\ actor[a] = Idle
  BY DEF ApplyBegins, Applicable
<1>6. \A s \in Step : ~HandledBy(actor[a], request, s)
  BY <1>5 DEF HandledBy, Idle, Ids
<1> HIDE DEF c
<1> QED  BY <1>2, <1>3, <1>4, <1>5, <1>6, AtPlace, NothingAsked, ActorMoves

\* A step of the sort that only changes the stack and the result.
LEMMA SortMoves ==
    ASSUME PlanKept, NEW a \in Actor, actor[a].pc = "sorting",
           NEW visited \in SUBSET Step, NEW stack \in Seq(Call), NEW todo \in Seq(Step),
           Sorting(stack, visited, todo, dependsOn),
           actor' = [actor EXCEPT ![a] =
               [@ EXCEPT !.visited = visited, !.stack = stack, !.todo = todo]],
           UNCHANGED <<dependsOn, plan, request, answered, row, confirms, applies, unsettled, broken>>
    PROVE  PlanKept'
<1> DEFINE k == actor[a]
           c == [k EXCEPT !.visited = visited, !.stack = stack, !.todo = todo]
<1>1. k \in Coroutine /\ Fits(k, request, dependsOn) /\ k.pc = "sorting"
  BY AtPlace
<1>2. /\ c.pc = "sorting" /\ c.plan = k.plan /\ c.visited = visited /\ c.todo = todo
      /\ c.tasks = k.tasks /\ c.failed = k.failed /\ c.asked = k.asked /\ c.req = k.req
      /\ c.stack = stack /\ c \in Coroutine
  BY <1>1 DEF Coroutine
<1>3. actor' = [actor EXCEPT ![a] = c]
  BY DEF PlanKept, Types
<1>4. plan.status = "confirmed" /\ MayRun(a)
  BY <1>1, SyncRuns DEF PlanKept, Alone, Sync
<1> HIDE DEF k, c
<1>5. Fits(c, request, dependsOn) /\ k.tasks = <<>>
  BY <1>1, <1>2 DEF Fits
<1>6. \A s \in Step : ~HandledBy(actor[a], request, s)
  BY <1>1, <1>5 DEF HandledBy, Ids, k
<1> QED  BY <1>2, <1>3, <1>4, <1>5, <1>6, AtPlace, NothingAsked, ActorMoves

\* Visit goes on along depends_on.
LEMMA VisitKeeps ==
    ASSUME PlanKept, NEW a \in Actor, Visit(a)
    PROVE  PlanKept'
<1> DEFINE c == actor[a]  s == Head(Top(c).ids)
           on == [c.stack EXCEPT ![Len(c.stack)].ids = Tail(@)]
           next == [c EXCEPT !.stack = on]
<1>1. /\ c \in Coroutine /\ Fits(c, request, dependsOn) /\ c.pc = "sorting" /\ c.stack # <<>>
      /\ c.stack[Len(c.stack)].ids # <<>> /\ dependsOn \in [Step -> Seq(Step)]
      /\ UNCHANGED <<dependsOn, plan, request, answered, row, confirms, applies, unsettled, broken>>
  BY AtPlace DEF Visit, Top
<1>2. /\ c.stack \in Seq(Call) /\ c.visited \in SUBSET Step /\ c.todo \in Seq(Step)
      /\ Sorting(c.stack, c.visited, c.todo, dependsOn)
  BY <1>1 DEF Coroutine, Fits
<1>3. GoesOn(c.stack, on, s)
  BY <1>1, <1>2, CallGoesOn DEF Top
<1>4. on \in Seq(Call) /\ s \in Step
  BY <1>3 DEF GoesOn
<1>5. actor' = [actor EXCEPT ![a] = IF s \in c.visited THEN next ELSE Visited(next, s)]
  BY DEF Visit
<1>6. CASE s \in c.visited
  <2>1. Sorting(on, c.visited, c.todo, dependsOn)
    BY <1>1, <1>2, <1>3, <1>6, SortVisits
  <2>2. next = [c EXCEPT !.visited = c.visited, !.stack = on, !.todo = c.todo]
    BY <1>1 DEF Coroutine
  <2>3. actor' = [actor EXCEPT ![a] = [@ EXCEPT !.visited = c.visited, !.stack = on,
                                                !.todo = c.todo]]
    BY <1>5, <1>6, <2>2 DEF PlanKept, Types
  <2> HIDE DEF on, next
  <2> QED  BY <1>1, <1>2, <1>4, <2>1, <2>3, SortMoves
<1>7. CASE s \notin c.visited
  <2> DEFINE more == Append(on, Frame(s, dependsOn[s]))  now == c.visited \cup {s}
  <2>1. more \in Seq(Call) /\ Sorting(more, now, c.todo, dependsOn)
    BY <1>1, <1>2, <1>3, <1>7, SortVisits
  <2>2. Visited(next, s) = [c EXCEPT !.visited = now, !.stack = more, !.todo = c.todo]
    BY <1>1 DEF Visited, Coroutine
  <2>3. actor' = [actor EXCEPT ![a] = [@ EXCEPT !.visited = now, !.stack = more,
                                                !.todo = c.todo]]
    BY <1>5, <1>7, <2>2 DEF PlanKept, Types
  <2>4. now \in SUBSET Step
    BY <1>2, <1>4
  <2> HIDE DEF on, next, more, now
  <2> QED  BY <1>1, <1>2, <2>1, <2>3, <2>4, SortMoves
<1> QED  BY <1>6, <1>7

\* A call of _visit returns.
LEMMA VisitReturnsKeeps ==
    ASSUME PlanKept, NEW a \in Actor, VisitReturns(a)
    PROVE  PlanKept'
<1> DEFINE c == actor[a]  n == Len(c.stack)  rest == SubSeq(c.stack, 1, n - 1)
           s == c.stack[n].step
           todo == IF s = NULL THEN c.todo ELSE Append(c.todo, s)
<1>1. /\ c \in Coroutine /\ Fits(c, request, dependsOn) /\ c.pc = "sorting" /\ c.stack # <<>>
      /\ c.stack[n].ids = <<>> /\ dependsOn \in [Step -> Seq(Step)]
      /\ UNCHANGED <<dependsOn, plan, request, answered, row, confirms, applies, unsettled, broken>>
  BY AtPlace DEF VisitReturns, Top
<1>2. /\ c.stack \in Seq(Call) /\ c.visited \in SUBSET Step /\ c.todo \in Seq(Step)
      /\ Sorting(c.stack, c.visited, c.todo, dependsOn)
  BY <1>1 DEF Coroutine, Fits
<1>3. /\ rest \in Seq(Call)
      /\ s = NULL => Sorting(rest, c.visited, c.todo, dependsOn)
      /\ s # NULL => /\ Append(c.todo, s) \in Seq(Step)
                     /\ Sorting(rest, c.visited, Append(c.todo, s), dependsOn)
  BY <1>1, <1>2, SortReturns
<1>4. todo \in Seq(Step) /\ Sorting(rest, c.visited, todo, dependsOn)
  BY <1>2, <1>3
<1>5. actor' = [actor EXCEPT ![a] = [c EXCEPT !.stack = rest, !.todo = todo]]
  BY DEF VisitReturns, Top
<1> HIDE DEF rest, todo, s
<1>6. [c EXCEPT !.stack = rest, !.todo = todo]
        = [c EXCEPT !.visited = c.visited, !.stack = rest, !.todo = todo]
  BY <1>1 DEF Coroutine
<1>7. actor' = [actor EXCEPT ![a] = [@ EXCEPT !.visited = c.visited, !.stack = rest,
                                              !.todo = todo]]
  BY <1>5, <1>6 DEF PlanKept, Types
<1> QED  BY <1>1, <1>2, <1>3, <1>4, <1>7, SortMoves

\* The plan is saved as executing, and its steps are all to do.
LEMMA StepsSortedKeeps ==
    ASSUME PlanKept, NEW a \in Actor, StepsSorted(a)
    PROVE  PlanKept'
<1> DEFINE k == actor[a]  p == [plan EXCEPT !.status = "executing",
                                             !.steps = [s \in Step |-> "pending"]]
           c == [k EXCEPT !.pc = "stepping", !.plan = p, !.visited = {}]
<1>1. /\ k \in Coroutine /\ Fits(k, request, dependsOn) /\ k.pc = "sorting" /\ k.stack = <<>>
      /\ dependsOn \in [Step -> Seq(Step)] /\ plan' = p /\ applies' = applies + 1
      /\ actor' = [actor EXCEPT ![a] = c]
      /\ UNCHANGED <<dependsOn, request, answered, row, confirms, unsettled, broken>>
  BY AtPlace DEF StepsSorted
<1>2. p \in Plan /\ p.status = "executing" /\ p.steps = [s \in Step |-> "pending"]
  BY AtPlace DEF Plan, PlanStatus, StepStatus
<1>3. plan.status = "confirmed" /\ MayRun(a)
  BY <1>1, SyncRuns DEF PlanKept, Alone, Sync
<1> HIDE DEF p
<1>4. /\ c.pc = "stepping" /\ c.plan = p /\ c.todo = k.todo /\ c.tasks = k.tasks
      /\ c.failed = k.failed /\ c.asked = k.asked /\ c.req = k.req /\ c \in Coroutine
  BY <1>1, <1>2 DEF Coroutine, Pc
<1> HIDE DEF k, c
<1>5. /\ k.tasks = <<>> /\ k.failed = {} /\ k.req = NULL /\ ~k.asked
      /\ k.todo \in Seq(Step) /\ Sorting(<<>>, k.visited, k.todo, dependsOn)
  BY <1>1 DEF Fits, Coroutine
<1>6. Distinct(k.todo) /\ Step \subseteq Ids(k.todo) /\ (NoCycle(dependsOn) => Ordered(k.todo, dependsOn))
  BY <1>5, SortEnds
<1>7. Walking(c.plan.steps, c.todo, dependsOn, FALSE)
  BY <1>1, <1>2, <1>4, <1>5, <1>6, WalkBegins
<1>8. Knows(c, request)
  <2>1. Distinct(<<>>) /\ Ids(<<>>) = {}
    BY DEF Distinct, Ids
  <2>2. \A s \in Step : p.steps[s] = "pending"
    BY <1>2
  <2> QED  BY <2>1, <2>2, <1>2, <1>4, <1>5 DEF Knows
<1>9. Fits(c, request, dependsOn)
  BY <1>4, <1>7, <1>8 DEF Fits
<1>10. \A s \in Step : ~HandledBy(actor[a], request, s)
  BY <1>1, <1>5 DEF HandledBy, Ids, k
<1>11. applies' \in Nat /\ applies' + Spare(plan') <= confirms
  <2>1. /\ applies \in Nat /\ confirms \in Nat /\ Spare(plan) = 1 /\ Spare(plan') = 0
        /\ applies + Spare(plan) <= confirms
    BY <1>1, <1>2, <1>3, AtPlace DEF Spare
  <2> QED  BY <2>1, <1>1
<1> QED  BY <1>1, <1>2, <1>3, <1>4, <1>9, <1>10, <1>11, AtPlace, NothingAsked, ActorMoves

-----------------------------------------------------------------------------
(* The steps of the plan.                                                  *)

\* A plan in which one step has another status.
LEMMA StepIsSet ==
    ASSUME NEW p \in Plan, NEW s \in Step, NEW v \in StepStatus
    PROVE  /\ SetStep(p, s, v) \in Plan /\ SetStep(p, s, v).status = p.status
           /\ SetStep(p, s, v).steps = [p.steps EXCEPT ![s] = v]
           /\ p.steps \in [Step -> StepStatus]
           /\ \A x \in Step : SetStep(p, s, v).steps[x] = IF x = s THEN v ELSE p.steps[x]
<1>1. /\ p.steps \in [Step -> StepStatus] /\ p.status \in PlanStatus
      /\ p.actions \in [Step -> ActionName]
  BY DEF Plan
<1>2. SetStep(p, s, v) = [status |-> p.status, steps |-> [p.steps EXCEPT ![s] = v],
                          actions |-> p.actions]
  BY DEF SetStep, Plan
<1> QED  BY <1>1, <1>2 DEF Plan

\* No dependency that has failed is none that the plan says has failed.
LEMMA NoneFailed ==
    ASSUME NEW c, Knows(c, request), NEW s \in Step, FailedDeps(c, s) = {},
           dependsOn \in [Step -> Seq(Step)]
    PROVE  \A d \in Needs(dependsOn, s) : c.plan.steps[d] # "failed"
<1>1. \A d \in Needs(dependsOn, s) : d \in Step /\ d \notin c.failed
  BY DEF Needs, FailedDeps
<1> QED  BY <1>1 DEF Knows

\* The coroutine after the step at the head has ended.
Stepped(c, v, tasks, asked) ==
    [c EXCEPT !.pc = "stepping", !.plan = SetStep(@, Head(c.todo), v),
              !.failed = IF v = "failed" THEN @ \cup {Head(c.todo)} ELSE @,
              !.asked = asked, !.tasks = tasks, !.todo = Tail(@)]

\* A step ends: skipped, failed, completed or asked about.
LEMMA StepEnds ==
    ASSUME PlanKept, NEW a \in Actor, MayRun(a), NEW k, k = actor[a],
           k.pc \in {"stepping", "acting"}, k.todo # <<>>,
           NEW v \in Ended, NEW saved \in StepStatus,
           NEW tasks \in Seq(Step), NEW asked \in BOOLEAN,
           v = "failed" \/ k.pc = "acting" \/ FailedDeps(k, Head(k.todo)) = {},
           tasks = k.tasks \/ (v = "completed" /\ tasks = Append(k.tasks, Head(k.todo))),
           k.asked \/ v = "needs_input" => asked,
           asked => k.asked \/ Stored(request') # {},
           Grows(request, request'), answered' = answered,
           UNCHANGED <<dependsOn, confirms, applies, unsettled, broken>>,
           actor' = [actor EXCEPT ![a] = Stepped(k, v, tasks, asked)],
           plan' = SetStep(k.plan, Head(k.todo), saved),
           row' \in [Step -> RowState],
           \A x \in Step : row'[x] = "active" => row[x] = "active" \/ x \in Ids(tasks)
    PROVE  PlanKept'
<1> DEFINE g == dependsOn  s == Head(k.todo)  c == Stepped(k, v, tasks, asked)
           awaited == k.pc = "acting"
<1>1. /\ k \in Coroutine /\ Fits(k, request, g) /\ g \in [Step -> Seq(Step)]
      /\ Knows(k, request) /\ Walking(k.plan.steps, k.todo, g, awaited)
  BY AtPlace DEF Fits
<1>2. /\ k.plan \in Plan /\ k.plan.status = "executing" /\ k.req = NULL
      /\ k.failed = {x \in Step : k.plan.steps[x] = "failed"}
      /\ k.todo \in Seq(Step) /\ k.tasks \in Seq(Step) /\ k.failed \in SUBSET Step
      /\ Distinct(k.tasks) /\ Ids(k.tasks) \cap (k.failed \cup Ids(k.todo)) = {}
      /\ k.asked => Stored(request) # {}
      /\ ~k.asked => \A x \in Step : k.plan.steps[x] # "needs_input"
  BY <1>1 DEF Coroutine, Knows
<1>3. /\ s \in Step /\ Tail(k.todo) \in Seq(Step) /\ s \in Ids(k.todo)
      /\ Ids(Tail(k.todo)) \subseteq Ids(k.todo) /\ s \notin Ids(Tail(k.todo))
      /\ k.plan.steps[s] \in {"executing", "pending"}
  <2>1. /\ s \in Step /\ Tail(k.todo) \in Seq(Step)
        /\ Ids(k.todo) = {s} \cup Ids(Tail(k.todo))
        /\ Distinct(k.todo) => s \notin Ids(Tail(k.todo))
    BY <1>2, HeadAndTail
  <2> QED  BY <2>1, <1>1 DEF Walking
<1>4. v \in StepStatus /\ v # "pending" /\ v # "executing"
  BY DEF Ended, StepStatus
<1>0. SetStep(k.plan, s, saved) \in Plan /\ SetStep(k.plan, s, saved).status = "executing"
  BY <1>2, <1>3 DEF SetStep, Plan
<1> DEFINE p == SetStep(k.plan, s, v)
<1>5. /\ p \in Plan /\ p.status = "executing" /\ p.steps = [k.plan.steps EXCEPT ![s] = v]
      /\ k.plan.steps \in [Step -> StepStatus]
      /\ \A x \in Step : p.steps[x] = IF x = s THEN v ELSE k.plan.steps[x]
  BY <1>2, <1>3, <1>4, StepIsSet
<1> HIDE DEF p
<1>6. /\ c.pc = "stepping" /\ c.plan = p /\ c.todo = Tail(k.todo) /\ c.tasks = tasks
      /\ c.failed = (IF v = "failed" THEN k.failed \cup {s} ELSE k.failed)
      /\ c.asked = asked /\ c.req = k.req /\ c \in Coroutine
  <2> DEFINE f == IF v = "failed" THEN k.failed \cup {s} ELSE k.failed
             rest == Tail(k.todo)
  <2>1. "stepping" \in Pc /\ p \in Plan \cup {NULL} /\ f \in SUBSET Step /\ rest \in Seq(Step)
    BY <1>2, <1>3, <1>5 DEF Pc
  <2>2. c = [k EXCEPT !.pc = "stepping", !.plan = p, !.failed = f, !.asked = asked,
                      !.tasks = tasks, !.todo = rest]
    BY <1>1 DEF Coroutine, Stepped, p
  <2> HIDE DEF c, f, rest
  <2>3. /\ c.pc = "stepping" /\ c.plan = p /\ c.todo = rest /\ c.tasks = tasks
        /\ c.failed = f /\ c.asked = asked /\ c.req = k.req /\ c \in Coroutine
    BY <2>1, <2>2, <1>1 DEF Coroutine
  <2> QED  BY <2>3 DEF f, rest
<1>7. Walking(c.plan.steps, c.todo, g, FALSE)
  <2>1. \/ awaited \/ v = "failed"
        \/ \A d \in Needs(g, s) : k.plan.steps[d] # "failed"
    BY <1>1, <1>3, NoneFailed
  <2> HIDE DEF c, s, awaited
  <2>2. awaited \in BOOLEAN
    BY DEF awaited
  <2> DEFINE st == k.plan.steps  todo == k.todo
  <2>3. /\ todo \in Seq(Step) /\ todo # <<>> /\ v \in Ended /\ g \in [Step -> Seq(Step)]
        /\ st \in [Step -> StepStatus] /\ Walking(st, todo, g, awaited)
        /\ \/ awaited \/ v = "failed"
           \/ \A d \in Needs(g, Head(todo)) : st[d] # "failed"
    BY <2>1, <1>1, <1>2, <1>5 DEF s
  <2> HIDE DEF st, todo, g
  <2>4. Walking([st EXCEPT ![Head(todo)] = v], Tail(todo), g, FALSE)
    BY <2>2, <2>3, HeadEnds
  <2> QED  BY <2>4, <1>5, <1>6 DEF s, st, todo
<1> HIDE DEF c, s
<1>8. Knows(c, request')
  <2>1. c.failed = {x \in Step : c.plan.steps[x] = "failed"}
    BY <1>2, <1>3, <1>5, <1>6
  <2>2. c.asked => Stored(request') # {}
    BY <1>2, <1>6 DEF Grows
  <2>3. ~c.asked => \A x \in Step : c.plan.steps[x] # "needs_input"
    BY <1>2, <1>5, <1>6
  <2>4. Distinct(c.tasks) /\ Ids(c.tasks) \cap (c.failed \cup Ids(c.todo)) = {}
    <3>1. CASE tasks = k.tasks
      BY <3>1, <1>2, <1>3, <1>6
    <3>2. CASE v = "completed" /\ tasks = Append(k.tasks, s)
      <4>1. /\ Ids(tasks) = Ids(k.tasks) \cup {s} /\ Distinct(tasks)
        BY <3>2, <1>2, <1>3, AtTheEnd
      <4>2. s \notin k.failed /\ c.failed = k.failed
        BY <3>2, <1>2, <1>3, <1>6
      <4> QED  BY <4>1, <4>2, <1>2, <1>3, <1>6
    <3> QED  BY <3>1, <3>2 DEF s
  <2> QED  BY <2>1, <2>2, <2>3, <2>4, <1>2, <1>5, <1>6 DEF Knows
<1>9. Fits(c, request', g)
  BY <1>6, <1>7, <1>8 DEF Fits
<1>10. Ids(k.tasks) \subseteq Ids(tasks)
  <2>1. CASE tasks = k.tasks
    BY <2>1
  <2>2. CASE tasks = Append(k.tasks, s)
    BY <2>2, <1>2, <1>3, AtTheEnd
  <2> QED  BY <2>1, <2>2 DEF s
<1>11. \A x \in Step : row'[x] = "active" =>
         \/ HandledBy(c, request', x)
         \/ row[x] = "active" /\ ~HandledBy(actor[a], request, x)
  <2>1. \A x \in Ids(tasks) : HandledBy(c, request', x)
    BY <1>6 DEF HandledBy
  <2>2. k.pc # "resumed"
    OBVIOUS
  <2>3. \A x : HandledBy(k, request, x) => x \in Ids(k.tasks)
    BY <2>2 DEF HandledBy
  <2>4. \A x : HandledBy(actor[a], request, x) => x \in Ids(tasks)
    BY <2>3, <1>10
  <2> QED  BY <2>1, <2>4
<1>12. /\ plan' \in Plan /\ answered' \subseteq Stored(request') /\ c.pc # "sorting"
       /\ Spare(plan') = 0
  <2>1. plan' \in Plan /\ plan'.status = "executing"
    BY <1>0 DEF s
  <2> QED  BY <2>1, <1>6, AtPlace DEF Spare, Grows
<1>13. /\ confirms' \in Nat /\ applies' \in Nat /\ applies' + Spare(plan') <= confirms'
  BY <1>12, AtPlace
<1> QED  BY <1>6, <1>9, <1>11, <1>12, <1>13, ActorMoves DEF c

\* A request is filed under an unused id.
LEMMA FiledGrows ==
    ASSUME NEW file \in [Req -> PlanRequest], NEW q \in Unused(file), NEW s \in Step,
           NEW asks \in {"input", "followup"}
    PROVE  /\ Grows(file, [file EXCEPT ![q] =
                              Created("plan_apply", [step |-> s, asks |-> asks])])
           /\ Stored([file EXCEPT ![q] =
                         Created("plan_apply", [step |-> s, asks |-> asks])]) # {}
<1> DEFINE r == Created("plan_apply", [step |-> s, asks |-> asks])
           more == [file EXCEPT ![q] = r]
<1>1. r \in PlanRequest /\ r.status = "pending"
  BY DEF Created, PlanRequest
<1>2. q \in Req /\ q \notin Stored(file)
  BY DEF Unused
<1> HIDE DEF r
<1>3. \A o \in Req : more[o] = IF o = q THEN r ELSE file[o]
  BY <1>2
<1>4. more \in [Req -> PlanRequest]
  BY <1>1, <1>2
<1> HIDE DEF more
<1>5. Grows(file, more) /\ Stored(more) # {}
  BY <1>1, <1>2, <1>3, <1>4 DEF Grows, Stored
<1> QED  BY <1>5 DEF more, r

\* The id of a new request is a free one, if there is any.
LEMMA FreshIs ==
    ASSUME Unused(request) # {}
    PROVE  Fresh \subseteq Unused(request)
<1>1. (CHOOSE q \in Unused(request) : TRUE) \in Unused(request)
  OBVIOUS
<1> QED  BY <1>1 DEF Fresh

\* That is how a step asks.
LEMMA RequestFiled ==
    ASSUME PlanKept, NEW q \in Unused(request), NEW s \in Step, NEW asks \in {"input", "followup"},
           request' = [request EXCEPT ![q] = Created("plan_apply", [step |-> s, asks |-> asks])]
    PROVE  Grows(request, request') /\ Stored(request') # {}
<1>1. request \in [Req -> PlanRequest]
  BY DEF PlanKept, Types
<1> QED  BY <1>1, FiledGrows

\* A step that has failed, and the next at the head.
LEMMA FailedIsStepped ==
    ASSUME NEW c \in Coroutine, NEW s, s = Head(c.todo)
    PROVE  /\ [Failing(c, s) EXCEPT !.pc = "stepping", !.todo = Tail(@)]
                  = Stepped(c, "failed", c.tasks, c.asked)
           /\ c.pc = "stepping" => [Failing(c, s) EXCEPT !.todo = Tail(@)]
                                       = Stepped(c, "failed", c.tasks, c.asked)
           /\ Failing(c, s).plan = SetStep(c.plan, s, "failed")
  BY DEF Coroutine, Failing, Stepped

\* The head fails, and the plan is saved.
LEMMA HeadFails ==
    ASSUME PlanKept, NEW a \in Actor, MayRun(a), NEW k, k = actor[a],
           k.pc \in {"stepping", "acting"}, k.todo # <<>>,
           actor' = [actor EXCEPT ![a] = Stepped(k, "failed", k.tasks, k.asked)],
           plan' = SetStep(k.plan, Head(k.todo), "failed"),
           UNCHANGED <<dependsOn, request, answered, row, confirms, applies, unsettled, broken>>
    PROVE  PlanKept'
<1>1. k.tasks \in Seq(Step) /\ k.asked \in BOOLEAN /\ row \in [Step -> RowState]
  BY AtPlace DEF Coroutine
<1>2. Grows(request, request') /\ "failed" \in Ended /\ "failed" \in StepStatus
  BY NothingAsked DEF Ended, StepStatus
<1>3. \A x \in Step : row'[x] = "active" => row[x] = "active" \/ x \in Ids(k.tasks)
  OBVIOUS
<1>4. /\ k.asked \/ "failed" = "needs_input" => k.asked
      /\ k.asked => k.asked \/ Stored(request') # {}
  OBVIOUS
<1> QED  BY <1>1, <1>2, <1>3, <1>4, StepEnds

\* A step whose dependency has failed is failed.
LEMMA SkipStepKeeps ==
    ASSUME PlanKept, NEW a \in Actor, SkipStep(a)
    PROVE  PlanKept'
<1> DEFINE c == actor[a]  s == Head(c.todo)
<1>1. /\ c \in Coroutine /\ c.pc = "stepping" /\ c.todo # <<>>
      /\ actor' = [actor EXCEPT ![a] = [Failing(c, s) EXCEPT !.todo = Tail(@)]]
      /\ plan' = Failing(c, s).plan
      /\ UNCHANGED <<dependsOn, request, answered, row, confirms, applies, unsettled, broken>>
  BY AtPlace DEF SkipStep
<1>2. MayRun(a)
  BY <1>1, SyncRuns DEF Sync
<1>3. /\ [Failing(c, s) EXCEPT !.todo = Tail(@)] = Stepped(c, "failed", c.tasks, c.asked)
      /\ Failing(c, s).plan = SetStep(c.plan, s, "failed")
  BY <1>1, FailedIsStepped
<1> HIDE DEF c
<1> QED  BY <1>1, <1>2, <1>3, HeadFails DEF c

\* A step whose work is awaited is saved as executing.
LEMMA BeginStepKeeps ==
    ASSUME PlanKept, NEW a \in Actor, BeginStep(a)
    PROVE  PlanKept'
<1> DEFINE k == actor[a]  s == Head(k.todo)  p == SetStep(k.plan, s, "executing")
           c == [k EXCEPT !.pc = "acting", !.plan = p]  g == dependsOn
<1>1. /\ k \in Coroutine /\ Fits(k, request, g) /\ k.pc = "stepping" /\ k.todo # <<>>
      /\ g \in [Step -> Seq(Step)] /\ FailedDeps(k, s) = {}
      /\ plan' = p /\ actor' = [actor EXCEPT ![a] = c]
      /\ UNCHANGED <<dependsOn, request, answered, row, confirms, applies, unsettled, broken>>
  <2>1. plan' = p
    BY DEF BeginStep
  <2> QED  BY <2>1, AtPlace DEF BeginStep
<1>2. MayRun(a)
  BY <1>1, SyncRuns DEF Sync
<1>3. Knows(k, request) /\ Walking(k.plan.steps, k.todo, g, FALSE) /\ k.todo \in Seq(Step)
  BY <1>1 DEF Fits, Coroutine
<1>4. s \in Step /\ s \in Ids(k.todo) /\ k.plan \in Plan
  BY <1>1, <1>3, HeadAndTail DEF Knows
<1>5. /\ p \in Plan /\ p.status = k.plan.status
      /\ p.steps = [k.plan.steps EXCEPT ![s] = "executing"]
      /\ k.plan.steps \in [Step -> StepStatus]
      /\ \A x \in Step : p.steps[x] = IF x = s THEN "executing" ELSE k.plan.steps[x]
  <2>1. "executing" \in StepStatus
    BY DEF StepStatus
  <2> QED  BY <2>1, <1>4, StepIsSet
<1>6. k.plan.steps[s] = "pending"
  BY <1>3, <1>4 DEF Walking
<1> HIDE DEF p
<1>7. /\ c.pc = "acting" /\ c.plan = p /\ c.todo = k.todo /\ c.tasks = k.tasks
      /\ c.failed = k.failed /\ c.asked = k.asked /\ c.req = k.req /\ c \in Coroutine
  BY <1>1, <1>5 DEF Coroutine, Pc
<1>8. Walking(p.steps, k.todo, g, TRUE)
  <2> DEFINE st == k.plan.steps  todo == k.todo
  <2>1. /\ todo \in Seq(Step) /\ todo # <<>> /\ g \in [Step -> Seq(Step)]
        /\ st \in [Step -> StepStatus] /\ Walking(st, todo, g, FALSE)
        /\ \A d \in Needs(g, Head(todo)) : st[d] # "failed"
    BY <1>1, <1>3, <1>4, <1>5, NoneFailed
  <2> HIDE DEF st, todo, g
  <2>2. Walking([st EXCEPT ![Head(todo)] = "executing"], todo, g, TRUE)
    BY <2>1, HeadBegins
  <2> QED  BY <2>2, <1>5 DEF st, todo
<1> HIDE DEF c, s
<1>9. Knows(c, request)
  <2>1. c.failed = {x \in Step : c.plan.steps[x] = "failed"}
    BY <1>3, <1>4, <1>5, <1>6, <1>7 DEF Knows
  <2>2. ~c.asked => \A x \in Step : c.plan.steps[x] # "needs_input"
    BY <1>3, <1>5, <1>7 DEF Knows
  <2> QED  BY <2>1, <2>2, <1>3, <1>5, <1>7 DEF Knows
<1>10. Fits(c, request, g)
  BY <1>7, <1>8, <1>9 DEF Fits
<1>11. \A x : HandledBy(k, request, x) <=> HandledBy(c, request, x)
  BY <1>1, <1>7 DEF HandledBy
<1>12. Spare(plan') = 0 /\ plan' \in Plan
  BY <1>1, <1>3, <1>5 DEF Spare, Knows
<1>13. applies + Spare(plan') <= confirms
  BY <1>12, AtPlace
<1>14. \A x \in Step : row'[x] = "active" =>
         \/ HandledBy(c, request', x)
         \/ row[x] = "active" /\ ~HandledBy(actor[a], request, x)
  BY <1>1, <1>11
<1> QED  BY <1>1, <1>2, <1>7, <1>10, <1>12, <1>13, <1>14, AtPlace, NothingAsked, ActorMoves

\* The await returns or raises.
LEMMA EndStepKeeps ==
    ASSUME PlanKept, NEW a \in Actor, EndStep(a)
    PROVE  PlanKept'
<1> DEFINE c == actor[a]  s == Head(c.todo)
           tasks == IF c.plan.actions[s] = "once" THEN Append(c.tasks, s) ELSE c.tasks
           done == [c EXCEPT !.plan = SetStep(@, s, "completed"),
                             !.tasks = IF c.plan.actions[s] = "once" THEN Append(@, s) ELSE @]
           next(d) == [d EXCEPT !.pc = "stepping", !.todo = Tail(@)]
<1>1. /\ MayRun(a) /\ c.pc = "acting" /\ plan' = actor'[a].plan
      /\ \/ actor' = [actor EXCEPT ![a] = next(done)] /\ row' = TaskCreated(c, s)
         \/ actor' = [actor EXCEPT ![a] = next(Failing(c, s))] /\ UNCHANGED row
      /\ UNCHANGED <<dependsOn, request, answered, confirms, applies, unsettled, broken>>
  BY DEF EndStep
<1>2. c \in Coroutine /\ Fits(c, request, dependsOn) /\ row \in [Step -> RowState]
  BY AtPlace
<1>3. /\ c.todo # <<>> /\ c.todo \in Seq(Step) /\ c.tasks \in Seq(Step) /\ c.asked \in BOOLEAN
      /\ c.asked => Stored(request) # {}
  BY <1>1, <1>2 DEF Fits, Coroutine, Walking, Knows
<1>4. s \in Step
  BY <1>3, HeadAndTail
<1>5. \A d : actor' = [actor EXCEPT ![a] = d] => actor'[a] = d
  BY DEF PlanKept, Types
<1>6. CASE actor' = [actor EXCEPT ![a] = next(done)] /\ row' = TaskCreated(c, s)
  <2>1. next(done) = Stepped(c, "completed", tasks, c.asked)
    BY <1>2 DEF Coroutine, Stepped
  <2>2. Stepped(c, "completed", tasks, c.asked).plan = SetStep(c.plan, s, "completed")
    BY <1>2 DEF Coroutine, Stepped
  <2>3. /\ actor' = [actor EXCEPT ![a] = Stepped(c, "completed", tasks, c.asked)]
        /\ plan' = SetStep(c.plan, s, "completed")
    BY <1>1, <1>5, <1>6, <2>1, <2>2
  <2>4. tasks \in Seq(Step) /\ (tasks = c.tasks \/ tasks = Append(c.tasks, s))
    BY <1>3, <1>4
  <2>5. /\ row' \in [Step -> RowState]
        /\ \A x \in Step : row'[x] = "active" => row[x] = "active" \/ x \in Ids(tasks)
    <3>1. CASE c.plan.actions[s] = "once"
      <4>1. row' = [row EXCEPT ![s] = "active"] /\ tasks = Append(c.tasks, s)
        BY <1>6, <3>1 DEF TaskCreated
      <4>2. s \in Ids(tasks)
        BY <4>1, <1>3, <1>4, AtTheEnd
      <4> QED  BY <4>1, <4>2, <1>2, <1>4 DEF RowState
    <3>2. CASE c.plan.actions[s] # "once"
      <4>1. row' = row
        BY <1>6, <3>2 DEF TaskCreated
      <4> QED  BY <4>1, <1>2
    <3> QED  BY <3>1, <3>2
  <2>6. "completed" \in Ended /\ "completed" \in StepStatus /\ Grows(request, request')
    BY <1>1, NothingAsked DEF Ended, StepStatus
  <2> HIDE DEF c, tasks, next, done
  <2>7. c = actor[a] /\ c.pc \in {"stepping", "acting"}
    BY <1>1 DEF c
  <2>8. /\ c.asked \/ "completed" = "needs_input" => c.asked
        /\ c.asked => c.asked \/ Stored(request') # {}
    OBVIOUS
  <2>9. /\ MayRun(a) /\ c.pc = "acting" /\ c.todo # <<>> /\ c.asked \in BOOLEAN
        /\ answered' = answered /\ UNCHANGED <<dependsOn, confirms, applies, unsettled, broken>>
    BY <1>1, <1>3
  <2> QED  BY <2>3, <2>4, <2>5, <2>6, <2>7, <2>8, <2>9, StepEnds
<1>7. CASE actor' = [actor EXCEPT ![a] = next(Failing(c, s))] /\ UNCHANGED row
  <2>1. /\ next(Failing(c, s)) = Stepped(c, "failed", c.tasks, c.asked)
        /\ Failing(c, s).plan = SetStep(c.plan, s, "failed")
    BY <1>2, FailedIsStepped
  <2>2. Stepped(c, "failed", c.tasks, c.asked).plan = SetStep(c.plan, s, "failed")
    BY <1>2 DEF Coroutine, Stepped
  <2>3. /\ actor' = [actor EXCEPT ![a] = Stepped(c, "failed", c.tasks, c.asked)]
        /\ plan' = SetStep(c.plan, s, "failed")
    BY <1>1, <1>5, <1>7, <2>1, <2>2
  <2> HIDE DEF c
  <2> QED  BY <1>1, <1>3, <1>7, <2>3, HeadFails DEF c
<1> QED  BY <1>1, <1>6, <1>7

\* A step that only writes the workspace's files completes, or fails.
LEMMA ConfigStepKeeps ==
    ASSUME PlanKept, NEW a \in Actor, ConfigStep(a)
    PROVE  PlanKept'
<1> DEFINE c == actor[a]  s == Head(c.todo)
           done == [c EXCEPT !.plan = SetStep(@, s, "completed")]
           next(d) == [d EXCEPT !.todo = Tail(@)]
<1>1. /\ c.pc = "stepping" /\ c.todo # <<>> /\ FailedDeps(c, s) = {}
      /\ \/ actor' = [actor EXCEPT ![a] = next(done)] /\ plan' = done.plan
         \/ actor' = [actor EXCEPT ![a] = next(Failing(c, s))] /\ plan' = Failing(c, s).plan
      /\ UNCHANGED <<dependsOn, request, answered, row, confirms, applies, unsettled, broken>>
  BY DEF ConfigStep
<1>2. c \in Coroutine /\ MayRun(a) /\ row \in [Step -> RowState]
  BY <1>1, SyncRuns, AtPlace DEF Sync
<1>3. c.tasks \in Seq(Step) /\ c.asked \in BOOLEAN
  BY <1>2 DEF Coroutine
<1>4. CASE actor' = [actor EXCEPT ![a] = next(done)] /\ plan' = done.plan
  <2>1. next(done) = Stepped(c, "completed", c.tasks, c.asked)
    BY <1>1, <1>2 DEF Coroutine, Stepped
  <2>2. done.plan = SetStep(c.plan, s, "completed")
    BY <1>2 DEF Coroutine
  <2>3. /\ actor' = [actor EXCEPT ![a] = Stepped(c, "completed", c.tasks, c.asked)]
        /\ plan' = SetStep(c.plan, s, "completed")
    BY <1>4, <2>1, <2>2
  <2>4. "completed" \in Ended /\ "completed" \in StepStatus /\ Grows(request, request')
    BY <1>1, NothingAsked DEF Ended, StepStatus
  <2>5. /\ c.asked \/ "completed" = "needs_input" => c.asked
        /\ c.asked => c.asked \/ Stored(request') # {}
        /\ c.tasks = c.tasks
    OBVIOUS
  <2>6. \A x \in Step : row'[x] = "active" => row[x] = "active" \/ x \in Ids(c.tasks)
    BY <1>1
  <2> HIDE DEF c, next, done
  <2>7. c = actor[a] /\ c.pc \in {"stepping", "acting"} /\ row' \in [Step -> RowState]
    BY <1>1, <1>2 DEF c
  <2> QED  BY <1>1, <1>2, <1>3, <2>3, <2>4, <2>5, <2>6, <2>7, StepEnds
<1>5. CASE actor' = [actor EXCEPT ![a] = next(Failing(c, s))] /\ plan' = Failing(c, s).plan
  <2>1. /\ next(Failing(c, s)) = Stepped(c, "failed", c.tasks, c.asked)
        /\ Failing(c, s).plan = SetStep(c.plan, s, "failed")
    BY <1>1, <1>2, FailedIsStepped
  <2>2. /\ actor' = [actor EXCEPT ![a] = Stepped(c, "failed", c.tasks, c.asked)]
        /\ plan' = SetStep(c.plan, s, "failed")
    BY <1>5, <2>1
  <2> HIDE DEF c
  <2> QED  BY <1>1, <1>2, <2>2, HeadFails DEF c
<1> QED  BY <1>1, <1>4, <1>5

\* A step asks for input, or fails when its question cannot be filed.
LEMMA AskStepKeeps ==
    ASSUME PlanKept, NEW a \in Actor, AskStep(a)
    PROVE  PlanKept'
<1> DEFINE c == actor[a]  s == Head(c.todo)
           next == [c EXCEPT !.plan = SetStep(@, s, "needs_input"), !.asked = TRUE,
                             !.todo = Tail(@)]
<1>1. /\ c.pc = "stepping" /\ c.todo # <<>> /\ FailedDeps(c, s) = {}
      /\ UNCHANGED <<dependsOn, answered, row, confirms, applies, unsettled, broken>>
  BY DEF AskStep
<1>2. c \in Coroutine /\ MayRun(a) /\ row \in [Step -> RowState]
  BY <1>1, SyncRuns, AtPlace DEF Sync
<1>3. c.tasks \in Seq(Step) /\ c.asked \in BOOLEAN /\ s \in Step
  BY <1>1, <1>2, HeadAndTail DEF Coroutine
<1>4. CASE Unused(request) = {}
  <2>1. /\ actor' = [actor EXCEPT ![a] = [Failing(c, s) EXCEPT !.todo = Tail(@)]]
        /\ plan' = Failing(c, s).plan /\ UNCHANGED request
    BY <1>4 DEF AskStep
  <2>2. /\ [Failing(c, s) EXCEPT !.todo = Tail(@)] = Stepped(c, "failed", c.tasks, c.asked)
        /\ Failing(c, s).plan = SetStep(c.plan, s, "failed")
    BY <1>1, <1>2, FailedIsStepped
  <2> HIDE DEF c
  <2> QED  BY <1>1, <1>2, <2>1, <2>2, HeadFails DEF c
<1>5. CASE Unused(request) # {}
  <2>1. /\ \E q \in Unused(request) :
              request' = [request EXCEPT ![q] =
                  Created("plan_apply", [step |-> s, asks |-> "input"])]
        /\ plan' = SetStep(c.plan, s, "executing")
        /\ actor' = [actor EXCEPT ![a] = next]
    BY <1>5, FreshIs DEF AskStep
  <2>2. Grows(request, request') /\ Stored(request') # {}
    <3>1. PICK q \in Unused(request) :
             request' = [request EXCEPT ![q] =
                 Created("plan_apply", [step |-> s, asks |-> "input"])]
      BY <2>1
    <3> HIDE DEF s
    <3>2. "input" \in {"input", "followup"}
      OBVIOUS
    <3> QED  BY <3>1, <3>2, <1>3, RequestFiled
  <2>3. next = Stepped(c, "needs_input", c.tasks, TRUE)
    BY <1>1, <1>2 DEF Coroutine, Stepped
  <2>4. "needs_input" \in Ended /\ "executing" \in StepStatus
    BY DEF Ended, StepStatus
  <2>5. \A x \in Step : row'[x] = "active" => row[x] = "active" \/ x \in Ids(c.tasks)
    BY <1>1
  <2> DEFINE asked == TRUE  v == "needs_input"  saved == "executing"
  <2>6. /\ actor' = [actor EXCEPT ![a] = Stepped(c, v, c.tasks, asked)]
        /\ plan' = SetStep(c.plan, Head(c.todo), saved)
    BY <2>1, <2>3
  <2>9. v \in Ended /\ saved \in StepStatus
    BY <2>4
  <2>10. v = "failed" \/ c.pc = "acting" \/ FailedDeps(c, Head(c.todo)) = {}
    BY <1>1
  <2>11. answered' = answered /\ UNCHANGED <<dependsOn, confirms, applies, unsettled, broken>>
    BY <1>1
  <2> HIDE DEF c, next, asked, v, saved
  <2>7. c = actor[a] /\ c.pc \in {"stepping", "acting"} /\ row' \in [Step -> RowState]
    BY <1>1, <1>2 DEF c
  <2>8. /\ c.asked \/ v = "needs_input" => asked
        /\ asked => c.asked \/ Stored(request') # {}
        /\ c.tasks = c.tasks /\ asked \in BOOLEAN
    BY <2>2 DEF asked
  <2> QED  BY <1>1, <1>2, <1>3, <2>2, <2>5, <2>6, <2>7, <2>8, <2>9, <2>10, <2>11, StepEnds
<1> QED  BY <1>4, <1>5

\* All steps have ended, and the tasks that run once are next.
LEMMA StepsDoneKeeps ==
    ASSUME PlanKept, NEW a \in Actor, StepsDone(a)
    PROVE  PlanKept'
<1> DEFINE k == actor[a]  c == [k EXCEPT !.pc = "dispatching"]  g == dependsOn
<1>1. /\ k \in Coroutine /\ Fits(k, request, g) /\ k.pc = "stepping" /\ k.todo = <<>>
      /\ UNCHANGED <<dependsOn, plan, request, answered, row, confirms, applies, unsettled, broken>>
  BY AtPlace DEF StepsDone
<1>2. actor' = [actor EXCEPT ![a] = c]
  BY DEF StepsDone, PlanKept, Types
<1>3. MayRun(a)
  BY <1>1, SyncRuns DEF Sync
<1>4. /\ c.pc = "dispatching" /\ c.plan = k.plan /\ c.todo = k.todo /\ c.tasks = k.tasks
      /\ c.failed = k.failed /\ c.asked = k.asked /\ c.req = k.req /\ c \in Coroutine
  BY <1>1 DEF Coroutine, Pc
<1> HIDE DEF c, k
<1>5. Knows(k, request) /\ Walking(k.plan.steps, k.todo, g, FALSE)
  BY <1>1 DEF Fits
<1>6. \A s \in Step : k.plan.steps[s] \in Ended
  <2>1. Ids(k.todo) = {}
    BY <1>1 DEF Ids
  <2> QED  BY <2>1, <1>5 DEF Walking
<1>7. Knows(c, request)
  BY <1>4, <1>5 DEF Knows
<1>8. Fits(c, request, g)
  BY <1>1, <1>4, <1>6, <1>7 DEF Fits
<1>9. \A x : HandledBy(k, request, x) <=> HandledBy(c, request, x)
  BY <1>1, <1>4 DEF HandledBy
<1>10. \A x \in Step : row'[x] = "active" =>
         \/ HandledBy(c, request', x)
         \/ row[x] = "active" /\ ~HandledBy(actor[a], request, x)
  BY <1>1, <1>9 DEF k
<1> QED  BY <1>1, <1>2, <1>3, <1>4, <1>8, <1>10, AtPlace, NothingAsked, ActorMoves

-----------------------------------------------------------------------------
(* The tasks that run once, and the verdict.                               *)

\* Goes through the tasks: what a coroutine has between the steps and the verdict.
LEMMA AtTasks ==
    ASSUME PlanKept, NEW a \in Actor, NEW k, k = actor[a],
           k.pc \in {"dispatching", "triggering"}
    PROVE  /\ k \in Coroutine /\ Knows(k, request) /\ k.plan \in Plan /\ k.todo = <<>>
           /\ k.plan.steps \in [Step -> StepStatus] /\ k.plan.status = "executing"
           /\ k.tasks \in Seq(Step) /\ Distinct(k.tasks) /\ Ids(k.tasks) \cap k.failed = {}
           /\ k.failed = {s \in Step : k.plan.steps[s] = "failed"}
           /\ k.asked \in BOOLEAN /\ (k.asked => Stored(request) # {})
           /\ ~k.asked => \A s \in Step : k.plan.steps[s] # "needs_input"
           /\ \A s : HandledBy(k, request, s) <=> s \in Ids(k.tasks)
           /\ k.pc = "triggering" => k.tasks # <<>> /\ k.plan.steps[Head(k.tasks)] = "executing"
           /\ \A s \in Step : \/ k.plan.steps[s] \in Ended
                              \/ k.pc = "triggering" /\ s = Head(k.tasks)
<1>1. k \in Coroutine /\ Fits(k, request, dependsOn)
  BY AtPlace
<1>2. Knows(k, request) /\ k.tasks \in Seq(Step) /\ k.asked \in BOOLEAN
  BY <1>1 DEF Fits, Coroutine
<1>3. k.plan \in Plan /\ k.plan.steps \in [Step -> StepStatus]
  BY <1>2 DEF Knows, Plan
<1>4. \A s : HandledBy(k, request, s) <=> s \in Ids(k.tasks)
  BY DEF HandledBy
<1> QED  BY <1>1, <1>2, <1>3, <1>4 DEF Knows, Fits

\* The next task is saved as executing and triggered.
LEMMA TriggerTaskKeeps ==
    ASSUME PlanKept, NEW a \in Actor, TriggerTask(a)
    PROVE  PlanKept'
<1> DEFINE k == actor[a]  s == Head(k.tasks)  p == SetStep(k.plan, s, "executing")
           c == [k EXCEPT !.pc = "triggering", !.plan = p]
<1>1. /\ k.pc = "dispatching" /\ k.tasks # <<>> /\ plan' = p
      /\ actor' = [actor EXCEPT ![a] = c]
      /\ UNCHANGED <<dependsOn, request, answered, row, confirms, applies, unsettled, broken>>
  <2>1. plan' = p
    BY DEF TriggerTask
  <2> QED  BY <2>1 DEF TriggerTask
<1>2. MayRun(a)
  BY <1>1, SyncRuns DEF Sync
<1>3. /\ k \in Coroutine /\ Knows(k, request) /\ k.plan \in Plan /\ k.todo = <<>>
      /\ k.plan.status = "executing" /\ k.tasks \in Seq(Step)
      /\ Ids(k.tasks) \cap k.failed = {}
      /\ \A x : HandledBy(k, request, x) <=> x \in Ids(k.tasks)
      /\ \A x \in Step : k.plan.steps[x] \in Ended
  BY <1>1, AtTasks
<1>4. s \in Step /\ s \in Ids(k.tasks) /\ "executing" \in StepStatus
  BY <1>1, <1>3, HeadAndTail DEF StepStatus
<1>5. /\ p \in Plan /\ p.status = "executing" /\ p.steps = [k.plan.steps EXCEPT ![s] = "executing"]
      /\ k.plan.steps \in [Step -> StepStatus]
      /\ \A x \in Step : p.steps[x] = IF x = s THEN "executing" ELSE k.plan.steps[x]
  BY <1>3, <1>4, StepIsSet
<1> HIDE DEF p
<1>6. /\ c.pc = "triggering" /\ c.plan = p /\ c.todo = k.todo /\ c.tasks = k.tasks
      /\ c.failed = k.failed /\ c.asked = k.asked /\ c.req = k.req /\ c \in Coroutine
  BY <1>3, <1>5 DEF Coroutine, Pc
<1> HIDE DEF c, k
<1>7. Knows(c, request)
  <2>1. c.failed = {x \in Step : c.plan.steps[x] = "failed"}
    BY <1>3, <1>4, <1>5, <1>6 DEF Knows
  <2>2. ~c.asked => \A x \in Step : c.plan.steps[x] # "needs_input"
    BY <1>3, <1>5, <1>6 DEF Knows
  <2> QED  BY <2>1, <2>2, <1>3, <1>5, <1>6 DEF Knows
<1>8. Fits(c, request, dependsOn)
  BY <1>1, <1>3, <1>4, <1>5, <1>6, <1>7 DEF Fits
<1>9. \A x \in Step : row'[x] = "active" =>
         \/ HandledBy(c, request', x)
         \/ row[x] = "active" /\ ~HandledBy(actor[a], request, x)
  BY <1>1, <1>3, <1>6 DEF HandledBy, k
<1>10. Spare(plan') = 0 /\ plan' \in Plan
  BY <1>1, <1>5 DEF Spare
<1>11. applies + Spare(plan') <= confirms
  BY <1>10, AtPlace
<1> QED  BY <1>1, <1>2, <1>6, <1>8, <1>9, <1>10, <1>11, AtPlace, NothingAsked, ActorMoves

\* A finalized row is never active.
LEMMA FinalizedIs ==
    ASSUME NEW outcome
    PROVE  Finalized(outcome) \in RowState /\ Finalized(outcome) # "active"
  BY DEF Finalized, RowState

\* The row of the task is settled, or the step is one of which a row could not be.
LEMMA FinalizeSettles ==
    ASSUME PlanKept, NEW s \in Step, NEW outcome, FinalizeTask(s, outcome)
    PROVE  /\ row' \in [Step -> RowState]
           /\ unsettled \subseteq unsettled' /\ unsettled' \subseteq Step
           /\ \A x \in Step : x # s => row'[x] = row[x]
           /\ s \notin unsettled' => row'[s] # "active"
<1>1. row \in [Step -> RowState] /\ unsettled \subseteq Step
  BY DEF PlanKept, Types
<1>2. CASE row' = [row EXCEPT ![s] = Finalized(outcome)] /\ UNCHANGED unsettled
  BY <1>1, <1>2, FinalizedIs
<1>3. CASE unsettled' = unsettled \cup {s} /\ UNCHANGED row
  BY <1>1, <1>3
<1> QED  BY <1>2, <1>3 DEF FinalizeTask

\* The task has ended, and its row is settled.
LEMMA TaskEndsKeeps ==
    ASSUME PlanKept, NEW a \in Actor, NEW outcome \in Outcome, TaskEnds(a, outcome)
    PROVE  PlanKept'
<1> DEFINE k == actor[a]  s == Head(k.tasks)
           v == IF Bad(outcome) THEN "failed" ELSE "completed"
           failed == IF Bad(outcome) THEN k.failed \cup {s} ELSE k.failed
           asked == k.asked \/ (outcome = "asks" /\ Unused(request) # {})
           next == IF Bad(outcome) THEN Failing(k, s)
                   ELSE [k EXCEPT !.plan = SetStep(@, s, "completed"),
                                  !.asked = @ \/ (outcome = "asks" /\ Unused(request) # {})]
           p == SetStep(k.plan, s, v)
           c == [k EXCEPT !.pc = "dispatching", !.plan = p, !.failed = failed,
                          !.asked = asked, !.tasks = Tail(@)]
<1>1. /\ MayRun(a) /\ k.pc = "triggering" /\ FinalizeTask(s, outcome)
      /\ actor' = [actor EXCEPT ![a] = [next EXCEPT !.pc = "dispatching", !.tasks = Tail(@)]]
      /\ plan' = next.plan
      /\ UNCHANGED <<dependsOn, answered, confirms, applies, broken>>
  BY DEF TaskEnds
<1>2. /\ k \in Coroutine /\ Knows(k, request) /\ k.plan \in Plan /\ k.todo = <<>>
      /\ k.plan.status = "executing" /\ k.tasks \in Seq(Step) /\ k.tasks # <<>>
      /\ Distinct(k.tasks) /\ Ids(k.tasks) \cap k.failed = {}
      /\ k.asked \in BOOLEAN /\ (k.asked => Stored(request) # {})
      /\ \A x : HandledBy(k, request, x) <=> x \in Ids(k.tasks)
      /\ \A x \in Step : k.plan.steps[x] \in Ended \/ x = s
      /\ k.failed = {x \in Step : k.plan.steps[x] = "failed"}
      /\ ~k.asked => \A x \in Step : k.plan.steps[x] # "needs_input"
      /\ row \in [Step -> RowState] /\ k.plan.steps[s] = "executing"
  BY <1>1, AtTasks, AtPlace
<1>3. /\ s \in Step /\ s \in Ids(k.tasks) /\ Tail(k.tasks) \in Seq(Step)
      /\ Ids(k.tasks) = {s} \cup Ids(Tail(k.tasks)) /\ s \notin Ids(Tail(k.tasks))
      /\ Distinct(Tail(k.tasks))
  BY <1>2, HeadAndTail
<1>4. v \in StepStatus /\ v \in Ended /\ (v = "failed" <=> Bad(outcome)) /\ v # "needs_input"
  BY DEF StepStatus, Ended
<1> HIDE DEF v
<1>5. /\ p \in Plan /\ p.status = "executing" /\ p.steps = [k.plan.steps EXCEPT ![s] = v]
      /\ k.plan.steps \in [Step -> StepStatus]
      /\ \A x \in Step : p.steps[x] = IF x = s THEN v ELSE k.plan.steps[x]
  BY <1>2, <1>3, <1>4, StepIsSet
<1>6. [next EXCEPT !.pc = "dispatching", !.tasks = Tail(@)] = c /\ next.plan = p
  <2>1. CASE Bad(outcome)
    <3>1. asked = k.asked
      BY <2>1, <1>2 DEF Bad
    <3> HIDE DEF asked
    <3> QED  BY <2>1, <3>1, <1>2 DEF Coroutine, Failing, v
  <2>2. CASE ~Bad(outcome)
    BY <2>2, <1>2 DEF Coroutine, v
  <2> QED  BY <2>1, <2>2
<1>7. actor' = [actor EXCEPT ![a] = c] /\ plan' = p
  BY <1>1, <1>6
<1>8. failed \in SUBSET Step /\ asked \in BOOLEAN /\ k.failed \in SUBSET Step
  BY <1>2, <1>3 DEF Coroutine
<1>9. Grows(request, request') /\ (asked => k.asked \/ Stored(request') # {})
  <2>1. CASE outcome = "asks" /\ Unused(request) # {}
    <3>1. PICK q \in Unused(request) :
             request' = [request EXCEPT ![q] =
                 Created("plan_apply", [step |-> s, asks |-> "followup"])]
      BY <2>1, FreshIs DEF TaskEnds, Asking
    <3> HIDE DEF s
    <3>2. "followup" \in {"input", "followup"}
      OBVIOUS
    <3> QED  BY <3>1, <3>2, <1>3, RequestFiled
  <2>2. CASE ~(outcome = "asks" /\ Unused(request) # {})
    <3>1. request' = request
      BY <2>2 DEF TaskEnds, Asking
    <3> QED  BY <3>1, <2>2, NothingAsked
  <2> QED  BY <2>1, <2>2
<1>10. k.asked => asked
  OBVIOUS
<1>11. failed = IF v = "failed" THEN k.failed \cup {s} ELSE k.failed
  BY <1>4
<1> HIDE DEF p, failed, asked
<1>12. /\ c.pc = "dispatching" /\ c.plan = p /\ c.todo = k.todo /\ c.tasks = Tail(k.tasks)
       /\ c.failed = failed /\ c.asked = asked /\ c.req = k.req /\ c \in Coroutine
  BY <1>2, <1>3, <1>5, <1>8 DEF Coroutine, Pc
<1> HIDE DEF c, k, s, next
<1>13. Knows(c, request')
  <2>1. c.failed = {x \in Step : c.plan.steps[x] = "failed"}
    BY <1>2, <1>3, <1>4, <1>5, <1>11, <1>12
  <2>2. ~c.asked => \A x \in Step : c.plan.steps[x] # "needs_input"
    BY <1>2, <1>4, <1>5, <1>10, <1>12
  <2>3. c.asked => Stored(request') # {}
    BY <1>2, <1>9, <1>12 DEF Grows
  <2>4. Distinct(c.tasks) /\ Ids(c.tasks) \cap (c.failed \cup Ids(c.todo)) = {}
    <3>1. Ids(c.todo) = {}
      BY <1>2, <1>12 DEF Ids
    <3> QED  BY <3>1, <1>2, <1>3, <1>11, <1>12
  <2> QED  BY <2>1, <2>2, <2>3, <2>4, <1>2, <1>5, <1>12 DEF Knows
<1>14. \A x \in Step : c.plan.steps[x] \in Ended
  BY <1>2, <1>4, <1>5, <1>12
<1>15. Fits(c, request', dependsOn)
  BY <1>2, <1>12, <1>13, <1>14 DEF Fits
<1>16. /\ row' \in [Step -> RowState] /\ unsettled \subseteq unsettled' /\ unsettled' \subseteq Step
       /\ \A x \in Step : x # s => row'[x] = row[x]
       /\ s \notin unsettled' => row'[s] # "active"
  BY <1>1, <1>3, AtPlace, FinalizeSettles
<1>18. \A x \in Step \ unsettled' : row'[x] = "active" =>
         \/ HandledBy(c, request', x)
         \/ row[x] = "active" /\ ~HandledBy(actor[a], request, x)
  BY <1>2, <1>3, <1>12, <1>16 DEF HandledBy, k
<1>19. Spare(plan') = 0 /\ plan' \in Plan
  BY <1>5, <1>7 DEF Spare
<1>20. applies + Spare(plan') <= confirms
  BY <1>19, AtPlace
<1>21. answered' \subseteq Stored(request')
  BY <1>1, <1>9, AtPlace DEF Grows
<1> QED  BY <1>1, <1>7, <1>9, <1>12, <1>15, <1>16, <1>18, <1>19, <1>20, <1>21, AtPlace,
            ActorSettles

\* A verdict is a status, and not that of a confirmed plan.
LEMMA VerdictIs ==
    ASSUME NEW c
    PROVE  Verdict(c) \in PlanStatus /\ Verdict(c) # "confirmed"
  BY DEF Verdict, PlanStatus

\* The plan gets its verdict.
LEMMA ApplyEndsKeeps ==
    ASSUME PlanKept, NEW a \in Actor, ApplyEnds(a)
    PROVE  PlanKept'
<1> DEFINE k == actor[a]
<1>1. /\ k.pc = "dispatching" /\ k.tasks = <<>> /\ actor' = [actor EXCEPT ![a] = Idle]
      /\ plan' = [k.plan EXCEPT !.status = Verdict(k)]
      /\ UNCHANGED <<dependsOn, request, answered, row, confirms, applies, unsettled, broken>>
  BY DEF ApplyEnds
<1>2. MayRun(a)
  BY <1>1, SyncRuns DEF Sync
<1>3. k.plan \in Plan /\ \A x : HandledBy(k, request, x) <=> x \in Ids(k.tasks)
  BY <1>1, AtTasks
<1>4. plan' \in Plan /\ Spare(plan') = 0
  BY <1>1, <1>3, VerdictIs DEF Plan, Spare
<1>5. \A x : ~HandledBy(actor[a], request, x)
  BY <1>1, <1>3 DEF Ids
<1>6. applies + Spare(plan') <= confirms
  BY <1>4, AtPlace
<1> QED  BY <1>1, <1>2, <1>4, <1>5, <1>6, IdleFits, AtPlace, NothingAsked, ActorMoves

-----------------------------------------------------------------------------
(* Confirmation, rejection, answers.                                       *)

\* A status that somebody gives to the plan is no verdict, and may be a confirmation.
LEMMA StatusIsSet ==
    ASSUME PlanKept, NEW a \in Actor, MayRun(a), actor[a] = Idle,
           NEW v \in PlanStatus, plan' = [plan EXCEPT !.status = v],
           confirms' \in Nat, applies + (IF v = "confirmed" THEN 1 ELSE 0) <= confirms',
           UNCHANGED <<dependsOn, request, answered, row, actor, applies, unsettled, broken>>
    PROVE  PlanKept'
<1>1. actor' = [actor EXCEPT ![a] = Idle]
  BY DEF PlanKept, Types
<1>2. plan' \in Plan /\ plan'.status = v
  BY AtPlace DEF Plan
<1>3. applies' + Spare(plan') <= confirms'
  BY <1>2 DEF Spare
<1>4. \A x : ~HandledBy(actor[a], request, x)
  BY IdleFits
<1> QED  BY <1>1, <1>2, <1>3, <1>4, IdleFits, AtPlace, NothingAsked, ActorMoves

\* A confirmation serves for one apply_plan more.
LEMMA ConfirmPlanKeeps ==
    ASSUME PlanKept, NEW a \in Actor, ConfirmPlan(a)
    PROVE  PlanKept'
<1>1. /\ MayRun(a) /\ actor[a] = Idle /\ confirms' = confirms + 1
      /\ plan' = [plan EXCEPT !.status = "confirmed"]
      /\ UNCHANGED <<dependsOn, request, answered, row, actor, applies, unsettled, broken>>
  BY DEF ConfirmPlan
<1> DEFINE v == "confirmed"
<1>2. v \in PlanStatus /\ plan' = [plan EXCEPT !.status = v]
  BY <1>1 DEF PlanStatus
<1>3. confirms' \in Nat /\ applies + (IF v = "confirmed" THEN 1 ELSE 0) <= confirms'
  BY <1>1, AtPlace
<1> HIDE DEF v
<1> QED  BY <1>1, <1>2, <1>3, StatusIsSet

\* A rejection takes the confirmation back.
LEMMA RejectPlanKeeps ==
    ASSUME PlanKept, NEW a \in Actor, RejectPlan(a)
    PROVE  PlanKept'
<1>1. /\ MayRun(a) /\ actor[a] = Idle
      /\ plan' = [plan EXCEPT !.status = "rejected"]
      /\ UNCHANGED <<dependsOn, request, answered, row, actor, confirms, applies, unsettled, broken>>
  BY DEF RejectPlan
<1> DEFINE v == "rejected"
<1>2. v \in PlanStatus /\ plan' = [plan EXCEPT !.status = v]
  BY <1>1 DEF PlanStatus
<1>3. confirms' \in Nat /\ applies + (IF v = "confirmed" THEN 1 ELSE 0) <= confirms'
  BY <1>1, AtPlace
<1> HIDE DEF v
<1> QED  BY <1>1, <1>2, <1>3, StatusIsSet

\* A request on file gets another status.
LEMMA StatusGrows ==
    ASSUME NEW file \in [Req -> PlanRequest], NEW q \in Stored(file),
           NEW v \in {"pending", "approved", "completed"}
    PROVE  Grows(file, [file EXCEPT ![q] = WithStatus(@, v)])
<1> DEFINE r == WithStatus(file[q], v)  more == [file EXCEPT ![q] = r]
<1>1. q \in Req /\ file[q].status # "none" /\ file[q] \in PlanRequest
  BY DEF Stored
<1>2. r \in PlanRequest /\ r.status = v /\ r.work = file[q].work
  BY <1>1 DEF PlanRequest, NoRequest, WithStatus
<1> HIDE DEF r
<1>3. \A o \in Req : more[o] = IF o = q THEN r ELSE file[o]
  OBVIOUS
<1>4. more \in [Req -> PlanRequest]
  BY <1>2
<1>5. [file EXCEPT ![q] = WithStatus(@, v)] = more
  BY <1>1 DEF r
<1> HIDE DEF more
<1>6. Grows(file, more)
  BY <1>1, <1>2, <1>3, <1>4 DEF Grows, Stored
<1> QED  BY <1>5, <1>6

\* Only the requests change, and nobody runs.
LEMMA RequestsMove ==
    ASSUME PlanKept, Grows(request, request'), answered' \subseteq Stored(request'),
           UNCHANGED <<dependsOn, plan, row, actor, confirms, applies, unsettled, broken>>
    PROVE  PlanKept'
<1>1. Types'
  BY DEF PlanKept, Types, Grows
<1>2. Places'
  BY OthersFit DEF Places
<1>3. Alone' /\ Spent'
  BY DEF PlanKept, Alone, Spent
<1>4. ASSUME ~broken', NEW s \in Step \ unsettled', row'[s] = "active"
      PROVE  \E a \in Actor : HandledBy(actor'[a], request', s)
  <2>1. PICK a \in Actor : HandledBy(actor[a], request, s)
    BY <1>4 DEF PlanKept, Settled
  <2>2. HandledBy(actor[a], request', s)
    BY <2>1, OthersFit
  <2> QED  BY <2>2
<1>5. Settled'
  BY <1>4 DEF Settled
<1> QED  BY <1>1, <1>2, <1>3, <1>5 DEF PlanKept

\* A human answers.
LEMMA AnswerKeeps ==
    ASSUME PlanKept, NEW q \in Req, Answer(q)
    PROVE  PlanKept'
<1>1. /\ request \in [Req -> PlanRequest] /\ answered \subseteq Stored(request)
  BY DEF PlanKept, Types
<1>2. /\ q \in Stored(request) /\ request' = [request EXCEPT ![q] = WithStatus(@, "approved")]
      /\ answered' = answered \cup {q}
      /\ UNCHANGED <<dependsOn, plan, row, actor, confirms, applies, unsettled, broken>>
  BY DEF Answer, Responded
<1>3. Grows(request, request')
  <2> DEFINE v == "approved"
  <2>1. v \in {"pending", "approved", "completed"}
    OBVIOUS
  <2>2. request' = [request EXCEPT ![q] = WithStatus(@, v)]
    BY <1>2
  <2> HIDE DEF v
  <2> QED  BY <1>1, <1>2, <2>1, <2>2, StatusGrows
<1>4. answered' \subseteq Stored(request')
  BY <1>1, <1>2, <1>3 DEF Grows
<1> QED  BY <1>2, <1>3, <1>4, RequestsMove

\* The list endpoint closes a question.
LEMMA CloseBlockedKeeps ==
    ASSUME PlanKept, NEW q \in Req, CloseBlocked(q)
    PROVE  PlanKept'
<1>1. /\ request \in [Req -> PlanRequest] /\ answered \subseteq Stored(request)
  BY DEF PlanKept, Types
<1>2. /\ q \in Stored(request) /\ request' = [request EXCEPT ![q] = WithStatus(@, "completed")]
      /\ UNCHANGED <<dependsOn, plan, answered, row, actor, confirms, applies, unsettled, broken>>
  BY DEF CloseBlocked, Completed, Stored
<1>3. Grows(request, request')
  <2> DEFINE v == "completed"
  <2>1. v \in {"pending", "approved", "completed"}
    OBVIOUS
  <2>2. request' = [request EXCEPT ![q] = WithStatus(@, v)]
    BY <1>2
  <2> HIDE DEF v
  <2> QED  BY <1>1, <1>2, <2>1, <2>2, StatusGrows
<1>4. answered' \subseteq Stored(request')
  BY <1>1, <1>2, <1>3 DEF Grows
<1> QED  BY <1>2, <1>3, <1>4, RequestsMove

-----------------------------------------------------------------------------
(* The resumed task.                                                       *)

\* An answered request is for a step.
LEMMA WorkIs ==
    ASSUME PlanKept, NEW q \in Stored(request)
    PROVE  q \in Req /\ request[q].work.step \in Step
<1>1. q \in Req /\ request[q] \in PlanRequest /\ request[q].status # "none"
  BY DEF PlanKept, Types, Stored
<1> QED  BY <1>1 DEF PlanRequest, NoRequest

\* A coroutine that resumes a task moves; what it has is a copy of the plan and the request.
LEMMA ResumeMoves ==
    ASSUME PlanKept, NEW a \in Actor, MayRun(a), NEW k, k = actor[a],
           k.pc \in {"idle", "loaded", "creating"},
           NEW pc \in {"loaded", "creating", "resumed"}, NEW p \in Plan, NEW q \in Stored(request),
           actor' = [actor EXCEPT ![a] = [Idle EXCEPT !.pc = pc, !.plan = p, !.req = q]],
           plan' \in Plan, plan'.status = "executing" \/ plan' = plan,
           \/ row' = row
           \/ pc = "resumed" /\ row' = [row EXCEPT ![request[q].work.step] = "active"],
           UNCHANGED <<dependsOn, request, answered, confirms, applies, unsettled, broken>>
    PROVE  PlanKept'
<1> DEFINE c == [Idle EXCEPT !.pc = pc, !.plan = p, !.req = q]  s == request[q].work.step
<1>1. q \in Req /\ s \in Step
  BY WorkIs
<1>2. /\ c.pc = pc /\ c.plan = p /\ c.req = q /\ c.tasks = <<>> /\ c \in Coroutine
  <2>1. Idle \in Coroutine /\ Idle.tasks = <<>> /\ pc \in Pc
    BY IdleFits DEF Pc
  <2> QED  BY <2>1, <1>1 DEF Coroutine
<1>3. actor' = [actor EXCEPT ![a] = c]
  OBVIOUS
<1> HIDE DEF c, s
<1>4. Fits(c, request, dependsOn)
  BY <1>2 DEF Fits
<1>5. \A x : ~HandledBy(k, request, x)
  <2>1. k \in Coroutine /\ Fits(k, request, dependsOn)
    BY AtPlace
  <2>2. k.tasks = <<>> /\ k.pc # "resumed"
    BY <2>1, IdleFits DEF Fits
  <2> QED  BY <2>2 DEF HandledBy, Ids
<1>6. row' \in [Step -> RowState]
  <2>1. row \in [Step -> RowState] /\ "active" \in RowState
    BY AtPlace DEF RowState
  <2> QED  BY <2>1, <1>1 DEF s
<1>7. \A x \in Step : row'[x] = "active" =>
         \/ HandledBy(c, request', x)
         \/ row[x] = "active" /\ ~HandledBy(actor[a], request, x)
  <2>1. CASE row' = row
    BY <2>1, <1>5
  <2>2. CASE pc = "resumed" /\ row' = [row EXCEPT ![s] = "active"]
    <3>1. HandledBy(c, request', s)
      BY <2>2, <1>2 DEF HandledBy, s
    <3>2. \A x \in Step : x # s => row'[x] = row[x]
      BY <2>2, AtPlace
    <3> QED  BY <3>1, <3>2, <1>5
  <2> QED  BY <2>1, <2>2 DEF s
<1>8. applies + Spare(plan') <= confirms
  BY AtPlace DEF Spare
<1>9. /\ MayRun(a) /\ c.pc # "sorting" /\ plan' \in Plan
      /\ UNCHANGED <<dependsOn, request, answered, confirms, applies, unsettled, broken>>
  BY <1>2
<1>10. /\ Grows(request, request') /\ answered' \subseteq Stored(request')
       /\ confirms' \in Nat /\ applies' \in Nat /\ applies' + Spare(plan') <= confirms'
       /\ Fits(c, request', dependsOn) /\ dependsOn' = dependsOn /\ (~broken' => ~broken)
  BY <1>4, <1>8, <1>9, AtPlace, NothingAsked
<1> QED  BY <1>2, <1>3, <1>6, <1>7, <1>9, <1>10, ActorMoves

\* The plan that a follow-up belongs to is loaded.
LEMMA ResumeTaskKeeps ==
    ASSUME PlanKept, NEW a \in Actor, NEW q \in Req, ResumeTask(a, q)
    PROVE  PlanKept'
<1>1. /\ MayRun(a) /\ actor[a] = Idle /\ q \in answered
      /\ actor' = [actor EXCEPT ![a] = [Idle EXCEPT !.pc = "loaded", !.plan = plan, !.req = q]]
      /\ UNCHANGED <<dependsOn, plan, request, answered, row, confirms, applies, unsettled, broken>>
  BY DEF ResumeTask, Resumes
<1>2. q \in Stored(request) /\ plan \in Plan /\ actor[a].pc \in {"idle", "loaded", "creating"}
  BY <1>1, AtPlace, IdleFits
<1> DEFINE k == actor[a]  pc == "loaded"  p == plan
<1>3. /\ pc \in {"loaded", "creating", "resumed"}
      /\ actor' = [actor EXCEPT ![a] = [Idle EXCEPT !.pc = pc, !.plan = p, !.req = q]]
      /\ k = actor[a] /\ k.pc \in {"idle", "loaded", "creating"} /\ p \in Plan
      /\ MayRun(a) /\ plan' \in Plan /\ plan' = plan /\ row' = row
      /\ UNCHANGED <<dependsOn, request, answered, confirms, applies, unsettled, broken>>
  BY <1>1, <1>2
<1> HIDE DEF k, pc, p
<1> QED  BY <1>2, <1>3, ResumeMoves

\* Another copy of a plan, saved as executing.
LEMMA SavedIs ==
    ASSUME NEW p \in Plan, NEW s \in Step, NEW v \in StepStatus, NEW u \in PlanStatus
    PROVE  /\ [SetStep(p, s, v) EXCEPT !.status = u] \in Plan
           /\ [SetStep(p, s, v) EXCEPT !.status = u].status = u
  BY DEF SetStep, Plan

\* The same of a copy in which the step has become a task that runs once.
LEMMA SavedAsTask ==
    ASSUME NEW p \in Plan, NEW s \in Step
    PROVE  AsTask(p, s) \in Plan /\ AsTask(p, s).status = "executing"
<1> DEFINE next == [SetStep(p, s, "executing") EXCEPT !.status = "executing"]
<1>1. next \in Plan /\ next.status = "executing"
  <2>1. "executing" \in StepStatus /\ "executing" \in PlanStatus
    BY DEF StepStatus, PlanStatus
  <2> QED  BY <2>1, SavedIs
<1>2. AsTask(p, s) = [next EXCEPT !.actions[s] = "once"]
  BY DEF AsTask
<1> HIDE DEF next
<1>3. [next EXCEPT !.actions[s] = "once"] \in Plan
      /\ [next EXCEPT !.actions[s] = "once"].status = "executing"
  BY <1>1 DEF Plan, ActionName
<1> QED  BY <1>2, <1>3

\* A coroutine that has a place in a resumption.
LEMMA AtResume ==
    ASSUME PlanKept, NEW a \in Actor, actor[a].pc \in {"loaded", "creating", "resumed"}
    PROVE  /\ actor[a] \in Coroutine /\ actor[a].plan \in Plan
           /\ actor[a].req \in Stored(request) /\ actor[a].tasks = <<>>
           /\ request[actor[a].req].work.step \in Step
<1>1. actor[a] \in Coroutine /\ Fits(actor[a], request, dependsOn)
  BY AtPlace
<1>2. actor[a].plan \in Plan /\ actor[a].req \in Stored(request) /\ actor[a].tasks = <<>>
  BY <1>1 DEF Fits
<1> QED  BY <1>1, <1>2, WorkIs

\* The row of a follow-up is made active, and the plan saved as executing.
LEMMA ResumeTriggersKeeps ==
    ASSUME PlanKept, NEW a \in Actor, ResumeTriggers(a)
    PROVE  PlanKept'
<1> DEFINE k == actor[a]  q == k.req  s == request[q].work.step
           p == [SetStep(k.plan, s, "executing") EXCEPT !.status = "executing"]
<1>1. /\ MayRun(a) /\ k.pc = "loaded" /\ row' = [row EXCEPT ![s] = "active"] /\ plan' = p
      /\ actor' = [actor EXCEPT ![a] = [k EXCEPT !.pc = "resumed", !.plan = plan']]
      /\ UNCHANGED <<dependsOn, request, answered, confirms, applies, unsettled, broken>>
  BY DEF ResumeTriggers
<1>2. /\ k \in Coroutine /\ k.plan \in Plan /\ q \in Stored(request) /\ k.tasks = <<>>
      /\ s \in Step /\ Fits(k, request, dependsOn) /\ row \in [Step -> RowState]
  BY <1>1, AtResume, AtPlace
<1>3. p \in Plan /\ p.status = "executing"
  <2>1. "executing" \in StepStatus /\ "executing" \in PlanStatus
    BY DEF StepStatus, PlanStatus
  <2> QED  BY <2>1, <1>2, SavedIs
<1> HIDE DEF p
<1> DEFINE c == [k EXCEPT !.pc = "resumed", !.plan = p]
<1>4. /\ c.pc = "resumed" /\ c.plan = p /\ c.req = q /\ c.tasks = <<>> /\ c \in Coroutine
  BY <1>2, <1>3 DEF Coroutine, Pc
<1>5. actor' = [actor EXCEPT ![a] = c]
  BY <1>1
<1>6. \A x : ~HandledBy(k, request, x)
  BY <1>1, <1>2 DEF HandledBy, Ids
<1> HIDE DEF c, q
<1>7. Fits(c, request, dependsOn)
  BY <1>2, <1>3, <1>4 DEF Fits
<1>8. /\ row' \in [Step -> RowState] /\ \A x \in Step : x # s => row'[x] = row[x]
  BY <1>1, <1>2 DEF RowState
<1>9. HandledBy(c, request', s)
  BY <1>1, <1>4 DEF HandledBy
<1> HIDE DEF s
<1>10. \A x \in Step : row'[x] = "active" =>
         \/ HandledBy(c, request', x)
         \/ row[x] = "active" /\ ~HandledBy(actor[a], request, x)
  BY <1>6, <1>8, <1>9
<1>11. /\ Grows(request, request') /\ answered' \subseteq Stored(request')
       /\ confirms' \in Nat /\ applies' \in Nat /\ applies' + Spare(plan') <= confirms'
       /\ Fits(c, request', dependsOn) /\ dependsOn' = dependsOn /\ (~broken' => ~broken)
       /\ plan' \in Plan /\ c.pc # "sorting"
  BY <1>1, <1>3, <1>4, <1>7, AtPlace, NothingAsked DEF Spare
<1> QED  BY <1>1, <1>4, <1>5, <1>8, <1>10, <1>11, ActorMoves

\* The plan whose input was given is saved as executing.
LEMMA ResumeInputKeeps ==
    ASSUME PlanKept, NEW a \in Actor, NEW q \in Req, ResumeInput(a, q)
    PROVE  PlanKept'
<1> DEFINE s == request[q].work.step
           p == AsTask(plan, s)
<1>1. /\ MayRun(a) /\ actor[a] = Idle /\ q \in answered /\ plan' = p
      /\ actor' = [actor EXCEPT ![a] = [Idle EXCEPT !.pc = "creating", !.plan = plan', !.req = q]]
      /\ UNCHANGED <<dependsOn, request, answered, row, confirms, applies, unsettled, broken>>
  BY DEF ResumeInput, Resumes
<1>2. /\ q \in Stored(request) /\ plan \in Plan /\ actor[a].pc \in {"idle", "loaded", "creating"}
      /\ s \in Step
  BY <1>1, AtPlace, IdleFits, WorkIs
<1>3. p \in Plan /\ p.status = "executing"
  BY <1>2, SavedAsTask
<1> HIDE DEF p, s
<1> DEFINE k == actor[a]  pc == "creating"
<1>4. /\ pc \in {"loaded", "creating", "resumed"}
      /\ actor' = [actor EXCEPT ![a] = [Idle EXCEPT !.pc = pc, !.plan = p, !.req = q]]
      /\ k = actor[a] /\ k.pc \in {"idle", "loaded", "creating"}
  BY <1>1, <1>2
<1>5. plan' \in Plan /\ plan'.status = "executing" /\ row' = row
  BY <1>1, <1>3
<1> HIDE DEF k, pc
<1> QED  BY <1>1, <1>2, <1>3, <1>4, <1>5, ResumeMoves

\* The row of the resumed step is created.
LEMMA ResumeCreatesKeeps ==
    ASSUME PlanKept, NEW a \in Actor, ResumeCreates(a)
    PROVE  PlanKept'
<1> DEFINE k == actor[a]  q == k.req  s == request[q].work.step
           c == [k EXCEPT !.pc = "resumed"]
<1>1. /\ MayRun(a) /\ k.pc = "creating" /\ row' = [row EXCEPT ![s] = "active"]
      /\ UNCHANGED <<dependsOn, plan, request, answered, confirms, applies, unsettled, broken>>
  BY DEF ResumeCreates
<1>2. /\ k \in Coroutine /\ k.plan \in Plan /\ q \in Stored(request) /\ k.tasks = <<>>
      /\ s \in Step /\ Fits(k, request, dependsOn) /\ row \in [Step -> RowState]
  BY <1>1, AtResume, AtPlace
<1>3. actor' = [actor EXCEPT ![a] = c]
  BY DEF ResumeCreates, PlanKept, Types
<1>4. /\ c.pc = "resumed" /\ c.plan = k.plan /\ c.req = q /\ c.tasks = <<>> /\ c \in Coroutine
  BY <1>2 DEF Coroutine, Pc
<1>6. \A x : ~HandledBy(k, request, x)
  BY <1>1, <1>2 DEF HandledBy, Ids
<1> HIDE DEF c, q
<1>7. Fits(c, request, dependsOn)
  BY <1>2, <1>4 DEF Fits
<1>8. /\ row' \in [Step -> RowState] /\ \A x \in Step : x # s => row'[x] = row[x]
  BY <1>1, <1>2 DEF RowState
<1>9. HandledBy(c, request', s)
  BY <1>1, <1>4 DEF HandledBy
<1> HIDE DEF s
<1>10. \A x \in Step : row'[x] = "active" =>
         \/ HandledBy(c, request', x)
         \/ row[x] = "active" /\ ~HandledBy(actor[a], request, x)
  BY <1>6, <1>8, <1>9
<1>11. /\ Grows(request, request') /\ answered' \subseteq Stored(request')
       /\ confirms' \in Nat /\ applies' \in Nat /\ applies' + Spare(plan') <= confirms'
       /\ Fits(c, request', dependsOn) /\ dependsOn' = dependsOn /\ (~broken' => ~broken)
       /\ plan' \in Plan /\ c.pc # "sorting"
  BY <1>1, <1>4, <1>7, AtPlace, NothingAsked
<1> QED  BY <1>1, <1>3, <1>4, <1>8, <1>10, <1>11, ActorMoves

\* A coroutine ends, after it settled the row that it had, if it had one.
LEMMA CoroutineEnds ==
    ASSUME PlanKept, NEW a \in Actor, MayRun(a),
           actor' = [actor EXCEPT ![a] = Idle], Grows(request, request'),
           plan' \in Plan, plan' = plan \/ plan'.status # "confirmed",
           row' \in [Step -> RowState], ~broken' => ~broken,
           unsettled \subseteq unsettled', unsettled' \subseteq Step,
           ~broken' => \A x \in Step \ unsettled' : row'[x] = "active" =>
               row[x] = "active" /\ ~HandledBy(actor[a], request, x),
           UNCHANGED <<dependsOn, answered, confirms, applies>>
    PROVE  PlanKept'
<1>1. answered' \subseteq Stored(request') /\ applies' + Spare(plan') <= confirms'
  BY AtPlace DEF Grows, Spare
<1>2. Fits(Idle, request', dependsOn) /\ Idle.pc # "sorting" /\ Idle \in Coroutine
  BY IdleFits
<1>3. confirms' \in Nat /\ applies' \in Nat
  BY AtPlace
<1> QED  BY <1>1, <1>2, <1>3, ActorSettles

\* The resumed task ends.
LEMMA ResumeEndsKeeps ==
    ASSUME PlanKept, NEW a \in Actor, NEW outcome \in Outcome, ResumeEnds(a, outcome)
    PROVE  PlanKept'
<1> DEFINE k == actor[a]  o == k.req  s == request[o].work.step
           filed(q) == [request EXCEPT ![q] =
                           Created("plan_apply", [step |-> s, asks |-> "followup"])]
<1>1. /\ MayRun(a) /\ k.pc = "resumed" /\ FinalizeTask(s, outcome)
      /\ plan' = PlanAfter(k.plan, s, outcome) /\ actor' = [actor EXCEPT ![a] = Idle]
      /\ UNCHANGED <<dependsOn, answered, confirms, applies, broken>>
  BY DEF ResumeEnds
<1>2. /\ \/ \E q \in Unused(request) : request' = [filed(q) EXCEPT ![o] = Completed(@)]
         \/ request' = [request EXCEPT ![o] = Completed(@)]
  BY FreshIs DEF ResumeEnds
<1>3. /\ k.plan \in Plan /\ o \in Stored(request) /\ k.tasks = <<>> /\ s \in Step
      /\ row \in [Step -> RowState] /\ request \in [Req -> PlanRequest]
  BY <1>1, AtResume, AtPlace
<1>4. Grows(request, request')
  <2> DEFINE v == "completed"
  <2>1. v \in {"pending", "approved", "completed"}
    OBVIOUS
  <2>2. CASE request' = [request EXCEPT ![o] = Completed(@)]
    <3>1. request' = [request EXCEPT ![o] = WithStatus(@, v)]
      BY <2>2 DEF Completed
    <3> HIDE DEF v, o
    <3> QED  BY <3>1, <2>1, <1>3, StatusGrows
  <2>3. ASSUME NEW q \in Unused(request), request' = [filed(q) EXCEPT ![o] = Completed(@)]
        PROVE  Grows(request, request')
    <3> DEFINE more == filed(q)
    <3>1. Grows(request, more)
      BY <1>3, FiledGrows
    <3>2. request' = [more EXCEPT ![o] = WithStatus(@, v)]
      BY <2>3 DEF Completed
    <3>3. more \in [Req -> PlanRequest] /\ o \in Stored(more)
      BY <3>1, <1>3 DEF Grows
    <3> HIDE DEF v, o, more
    <3>4. Grows(more, request')
      BY <3>2, <3>3, <2>1, StatusGrows
    <3> QED  BY <3>1, <3>4 DEF Grows
  <2> QED  BY <1>2, <2>2, <2>3
<1>5. plan' \in Plan /\ plan'.status # "confirmed"
  <2> DEFINE v == IF Bad(outcome) THEN "failed" ELSE "completed"
             u == CASE Bad(outcome) -> "failed" [] outcome = "asks" -> "needs_input"
                    [] OTHER -> "applied"
  <2>1. v \in StepStatus
    BY DEF StepStatus
  <2>2. u \in PlanStatus /\ u # "confirmed"
    BY DEF PlanStatus
  <2>3. plan' = [SetStep(k.plan, s, v) EXCEPT !.status = u]
    BY <1>1 DEF PlanAfter
  <2> HIDE DEF v, u, k, s
  <2> QED  BY <2>1, <2>2, <2>3, <1>3, SavedIs
<1>6. /\ row' \in [Step -> RowState] /\ unsettled \subseteq unsettled' /\ unsettled' \subseteq Step
      /\ \A x \in Step : x # s => row'[x] = row[x]
      /\ s \notin unsettled' => row'[s] # "active"
  BY <1>1, <1>3, FinalizeSettles
<1>7. \A x \in Step \ unsettled' : row'[x] = "active" =>
         row[x] = "active" /\ ~HandledBy(actor[a], request, x)
  <2>1. \A x : HandledBy(k, request, x) => x = s
    BY <1>3 DEF HandledBy, Ids
  <2> HIDE DEF s
  <2> QED  BY <2>1, <1>6
<1> HIDE DEF k, s, o, filed
<1> QED  BY <1>1, <1>4, <1>5, <1>6, <1>7, CoroutineEnds

\* A crash, or an exception that nobody caught.
LEMMA BreaksKeeps ==
    ASSUME PlanKept, NEW a \in Actor, Breaks(a)
    PROVE  PlanKept'
<1>1. /\ MayRun(a) /\ actor' = [actor EXCEPT ![a] = Idle] /\ broken' = TRUE
      /\ UNCHANGED <<dependsOn, plan, request, answered, confirms, applies, unsettled>>
      /\ row' = row \/ \E s \in Running(actor[a]), outcome \in Outcome :
                         row' = [row EXCEPT ![s] = Finalized(outcome)]
  BY DEF Breaks
<1>2. row \in [Step -> RowState] /\ unsettled \subseteq Step
  BY AtPlace
<1>3. row' \in [Step -> RowState]
  BY <1>1, <1>2, FinalizedIs
<1> QED  BY <1>1, <1>2, <1>3, AtPlace, NothingAsked, CoroutineEnds

-----------------------------------------------------------------------------
(* The theorems.                                                           *)

\* The plan is proposed, and nobody serves a request.
LEMMA PlanBegins ==
    ASSUME Init
    PROVE  PlanKept
<1>1. /\ dependsOn \in [Step -> Seq(Step)]
      /\ plan = [status |-> "proposed", steps |-> [s \in Step |-> "pending"],
                  actions |-> Proposed]
      /\ unsettled = {} /\ request = [q \in Req |-> NoRequest] /\ answered = {} /\ row = [s \in Step |-> "none"]
      /\ actor = [a \in Actor |-> Idle] /\ confirms = 0 /\ applies = 0
  BY PlanAssumption DEF Init
<1>2. plan \in Plan /\ plan.status = "proposed"
  <2>1. Proposed \in [Step -> ActionName]
    BY PlanAssumption DEF Proposed, ActionName
  <2> QED  BY <1>1, <2>1 DEF Plan, PlanStatus, StepStatus
<1>3. request \in [Req -> PlanRequest]
  BY <1>1 DEF PlanRequest
<1>4. row \in [Step -> RowState] /\ \A s \in Step : row[s] # "active"
  BY <1>1 DEF RowState
<1>5. \A a \in Actor : actor[a] = Idle
  BY <1>1
<1>6. Types
  BY <1>1, <1>2, <1>3, <1>4, IdleFits DEF Types
<1>7. Places
  BY <1>5, IdleFits DEF Places
<1>8. Alone
  BY <1>5, IdleFits DEF Alone, Sync
<1>9. Spent
  BY <1>1, <1>2 DEF Spent, Spare
<1> QED  BY <1>4, <1>6, <1>7, <1>8, <1>9 DEF PlanKept, Settled

\* Every action keeps the invariant.
LEMMA PlanNext ==
    ASSUME PlanKept, [Next]_vars
    PROVE  PlanKept'
<1>1. ASSUME NEW a \in Actor, ConfirmPlan(a)  PROVE PlanKept'
  BY <1>1, ConfirmPlanKeeps
<1>2. ASSUME NEW a \in Actor, RejectPlan(a)  PROVE PlanKept'
  BY <1>2, RejectPlanKeeps
<1>3. ASSUME NEW a \in Actor, ApplyBegins(a)  PROVE PlanKept'
  BY <1>3, ApplyBeginsKeeps
<1>4. ASSUME NEW a \in Actor, RunsOn(a) \/ AwaitReturns(a)  PROVE PlanKept'
  <2>1. CASE Visit(a) \/ VisitReturns(a) \/ StepsSorted(a)
    BY <2>1, VisitKeeps, VisitReturnsKeeps, StepsSortedKeeps
  <2>2. CASE SkipStep(a) \/ BeginStep(a) \/ EndStep(a) \/ ConfigStep(a) \/ AskStep(a)
    BY <2>2, SkipStepKeeps, BeginStepKeeps, EndStepKeeps, ConfigStepKeeps, AskStepKeeps
  <2>3. CASE StepsDone(a) \/ TriggerTask(a) \/ ApplyEnds(a)
    BY <2>3, StepsDoneKeeps, TriggerTaskKeeps, ApplyEndsKeeps
  <2>4. CASE ResumeTriggers(a) \/ ResumeCreates(a)
    BY <2>4, ResumeTriggersKeeps, ResumeCreatesKeeps
  <2>5. ASSUME NEW outcome \in Outcome, TaskEnds(a, outcome)  PROVE PlanKept'
    BY <2>5, TaskEndsKeeps
  <2>6. ASSUME NEW outcome \in Outcome, ResumeEnds(a, outcome)  PROVE PlanKept'
    BY <2>6, ResumeEndsKeeps
  <2> QED  BY <1>4, <2>1, <2>2, <2>3, <2>4, <2>5, <2>6 DEF RunsOn, AwaitReturns
<1>5. ASSUME NEW a \in Actor, Breaks(a)  PROVE PlanKept'
  BY <1>5, BreaksKeeps
<1>6. ASSUME NEW a \in Actor, NEW q \in Req, ResumeTask(a, q)  PROVE PlanKept'
  BY <1>6, ResumeTaskKeeps
<1>7. ASSUME NEW a \in Actor, NEW q \in Req, ResumeInput(a, q)  PROVE PlanKept'
  BY <1>7, ResumeInputKeeps
<1>8. ASSUME NEW q \in Req, Answer(q)  PROVE PlanKept'
  BY <1>8, AnswerKeeps
<1>9. ASSUME NEW q \in Req, CloseBlocked(q)  PROVE PlanKept'
  BY <1>9, CloseBlockedKeeps
<1>10. CASE UNCHANGED vars
  BY <1>10 DEF vars, PlanKept, Types, Places, Alone, Spent, Settled
<1> QED  BY <1>1, <1>2, <1>3, <1>4, <1>5, <1>6, <1>7, <1>8, <1>9, <1>10 DEF Next

\* The inductive invariant holds throughout.
THEOREM PlanKeptAlways == Spec => []PlanKept
<1>1. Init => PlanKept
  BY PlanBegins
<1>2. PlanKept /\ [Next]_vars => PlanKept'
  BY PlanNext
<1> QED  BY <1>1, <1>2, PTL DEF Spec

\* What the invariant says of the types, and of the tasks that run once.
LEMMA PlanInvHolds ==
    ASSUME PlanKept
    PROVE  PlanInv
<1>1. ASSUME NEW q \in Stored(request)
      PROVE  /\ request[q].status \in {"pending", "approved", "completed"}
             /\ request[q].work \in [step : Step, asks : {"input", "followup"}]
  <2>1. request[q] \in PlanRequest /\ request[q].status # "none"
    BY DEF PlanKept, Types, Stored
  <2> QED  BY <2>1 DEF PlanRequest, NoRequest
<1>2. ASSUME NEW a \in Actor
      PROVE  /\ actor[a].plan \in Plan \cup {NULL}
             /\ actor[a].req \in Stored(request) \cup {NULL}
             /\ actor[a].plan # NULL /\ actor[a].req = NULL =>
                   actor[a].failed = {s \in Step : actor[a].plan.steps[s] = "failed"}
  <2> DEFINE k == actor[a]
  <2>1. k \in Coroutine /\ Fits(k, request, dependsOn)
    BY AtPlace
  <2> HIDE DEF k
  <2>2. k.pc \in Pc /\ k.plan \in Plan \cup {NULL}
    BY <2>1 DEF Coroutine
  <2>3. CASE k.pc \in {"idle", "sorting"}
    <3>1. k.plan = NULL /\ k.req = NULL
      BY <2>1, <2>3 DEF Fits, Idle
    <3> QED  BY <3>1 DEF k
  <2>4. CASE k.pc \in {"stepping", "acting", "dispatching", "triggering"}
    <3>1. k.req = NULL /\ k.failed = {s \in Step : k.plan.steps[s] = "failed"}
      BY <2>1, <2>4 DEF Fits, Knows
    <3> QED  BY <3>1, <2>2 DEF k
  <2>5. CASE k.pc \in {"loaded", "creating", "resumed"}
    <3>1. k.req \in Stored(request)
      BY <2>1, <2>5 DEF Fits
    <3>2. k.req # NULL
      BY <3>1, ApprovalsAssumption DEF Stored
    <3> QED  BY <3>1, <3>2, <2>2 DEF k
  <2> QED  BY <2>2, <2>3, <2>4, <2>5 DEF Pc
<1>3. row \in [Step -> {"none", "active", "completed", "failed"}] /\ unsettled \subseteq Step
  BY DEF PlanKept, Types, RowState
<1>4. PlanTypeOK
  BY <1>1, <1>2, <1>3 DEF PlanTypeOK, PlanKept, Types, Alone
<1>5. \A a \in Actor, s \in Step : HandledBy(actor[a], request, s) => Handled(s)
  BY DEF HandledBy, Handled, Ids
<1>6. OnceSettled
  BY <1>5 DEF OnceSettled, PlanKept, Settled
<1> QED  BY <1>4, <1>6 DEF PlanInv

\* The types, a list of the failed steps that agrees with the copy of the plan, one coroutine
\* between two awaits, and no row of a task that runs once is active with nobody to run it:
\* "Immediate planner tasks should not be restored as recurring scheduler work".
THEOREM PlansSettle == Spec => []PlanInv
<1>1. PlanKept => PlanInv
  BY PlanInvHolds
<1> QED  BY <1>1, PlanKeptAlways, PTL

\* What the invariant says of the order of the steps.
LEMMA DependentsFollowHolds ==
    ASSUME PlanKept
    PROVE  DependentsFollow
<1> SUFFICES ASSUME Acyclic, NEW a \in Actor, actor[a].pc \in {"stepping", "acting"},
                    NEW s \in Step,
                    actor[a].plan.steps[s] \in {"executing", "completed", "needs_input"},
                    NEW d \in DepsOf(s)
             PROVE  actor[a].plan.steps[d] \in {"completed", "needs_input"}
  BY DEF DependentsFollow
<1>1. \A x : DepsOf(x) = Needs(dependsOn, x)
  BY DEF DepsOf, Needs
<1>2. NoCycle(dependsOn)
  BY <1>1 DEF Acyclic, NoCycle
<1>3. Walking(actor[a].plan.steps, actor[a].todo, dependsOn, actor[a].pc = "acting")
  BY AtPlace DEF Fits
<1>4. Follows(actor[a].plan.steps, dependsOn)
  BY <1>2, <1>3 DEF Walking
<1> QED  BY <1>1, <1>4 DEF Follows, Served

\* "Topological sort: ensures create_agent runs before create_task that depends on it": in
\* whatever order the plan lists its steps, a step that was executed, or is, has only
\* dependencies that were executed before it and did not fail, if the graph has no cycle.
THEOREM StepsInOrder == Spec => []DependentsFollow
<1>1. PlanKept => DependentsFollow
  BY DependentsFollowHolds
<1> QED  BY <1>1, PlanKeptAlways, PTL

\* apply_plan begins at most as often as somebody confirmed the plan: every confirmation
\* serves once, because the plan is saved as executing before the first await.
THEOREM ConfirmationServesOnce == Spec => []AppliesCovered
<1>1. PlanKept => AppliesCovered
  <2> SUFFICES ASSUME PlanKept  PROVE applies <= confirms
    BY DEF AppliesCovered
  <2>1. /\ confirms \in Nat /\ applies \in Nat /\ Spare(plan) \in {0, 1}
        /\ applies + Spare(plan) <= confirms
    BY DEF PlanKept, Types, Spent, Spare
  <2> QED  BY <2>1
<1> QED  BY <1>1, PlanKeptAlways, PTL

\* The verdict of a coroutine that has gone through the steps and the tasks.
LEMMA VerdictOfAll ==
    ASSUME PlanKept, NEW a \in Actor, ApplyEnds(a)
    PROVE  /\ plan'.status = "applied" => \A s \in Step : plan'.steps[s] = "completed"
           /\ plan'.status = "failed" <=> \E s \in Step : plan'.steps[s] = "failed"
           /\ plan'.status = "needs_input" => Stored(request) # {}
<1> DEFINE k == actor[a]
<1>1. k.pc = "dispatching" /\ plan' = [k.plan EXCEPT !.status = Verdict(k)]
  BY DEF ApplyEnds
<1>2. /\ k.plan \in Plan /\ k.failed = {s \in Step : k.plan.steps[s] = "failed"}
      /\ k.asked => Stored(request) # {}
      /\ ~k.asked => \A s \in Step : k.plan.steps[s] # "needs_input"
      /\ \A s \in Step : k.plan.steps[s] \in Ended
  BY <1>1, AtTasks
<1>3. plan'.status = Verdict(k) /\ plan'.steps = k.plan.steps
  BY <1>1, <1>2 DEF Plan
<1> HIDE DEF k
<1> QED  BY <1>2, <1>3 DEF Verdict, Ended

\* The verdict of apply_plan is that of all its steps: applied only if each is completed,
\* failed if and only if one failed, also of a task that failed after its step was completed,
\* and waiting for input only if a question is on file.
THEOREM VerdictsHold == Spec => ApplyVerdict
<1>1. PlanKept /\ [Next]_vars =>
        [\A a \in Actor : ApplyEnds(a) =>
            /\ plan'.status = "applied" => \A s \in Step : plan'.steps[s] = "completed"
            /\ plan'.status = "failed" <=> \E s \in Step : plan'.steps[s] = "failed"
            /\ plan'.status = "needs_input" => Stored(request) # {}]_vars
  BY VerdictOfAll
<1> QED  BY <1>1, PlanKeptAlways, PTL DEF Spec, ApplyVerdict

-----------------------------------------------------------------------------
(* apply_plan implements OrderedExecution.                                 *)

\* What a coroutine that applies the plan shows, and one that does not.
LEMMA ShownIs ==
    /\ \A c : c.plan = NULL \/ c.req # NULL => WorkOf(c) = Turns!Nothing
    /\ \A c : c.plan # NULL /\ c.req = NULL =>
          WorkOf(c) = [status |-> c.plan.steps, due |-> Ids(c.tasks)]
BY DEF WorkOf, Applying, Turns!Nothing, Ids

\* A plan is not the lack of one.
LEMMA PlanIsThere == \A p \in Plan : p # NULL
BY PlanAssumption

\* The needs that the refinement mapping shows.
NeedsNow == IF Acyclic THEN [s \in Step |-> DepsOf(s)] ELSE [s \in Step |-> {}]

\* They are those of the graph, if it has no cycle.
LEMMA NeedsShown ==
    ASSUME NEW s \in Step
    PROVE  NeedsNow[s] = IF NoCycle(dependsOn) THEN Needs(dependsOn, s) ELSE {}
<1>1. \A x : DepsOf(x) = Needs(dependsOn, x)
  BY DEF DepsOf, Needs
<1>2. Acyclic <=> NoCycle(dependsOn)
  BY <1>1 DEF Acyclic, NoCycle
<1> QED  BY <1>1, <1>2 DEF NeedsNow

\* The graph stays, and with it the needs.
LEMMA NeedsStay ==
    ASSUME dependsOn' = dependsOn
    PROVE  NeedsNow' = NeedsNow
BY DEF NeedsNow, Acyclic, DepsOf

\* Which steps have a status.
LEMMA StepsShown ==
    ASSUME NEW a \in Actor, NEW S
    PROVE  Turns!StepsIn(a, S) = {s \in Step : WorkOf(actor[a]).status[s] \in S}
BY DEF Turns!StepsIn

\* Nothing is shown of a step that leaves all that is shown as it was.
LEMMA NothingShown ==
    ASSUME dependsOn' = dependsOn, broken' = broken,
           \A b \in Actor : WorkOf(actor'[b]) = WorkOf(actor[b])
    PROVE  UNCHANGED Turns!vars
<1>1. [b \in Actor |-> WorkOf(actor'[b])] = [b \in Actor |-> WorkOf(actor[b])]
  OBVIOUS
<1> QED  BY <1>1, NeedsStay DEF Turns!vars, NeedsNow

\* A coroutine moves without showing it.
LEMMA Unseen ==
    ASSUME PlanKept, NEW a \in Actor, NEW c, actor' = [actor EXCEPT ![a] = c],
           dependsOn' = dependsOn, broken' = broken, WorkOf(c) = WorkOf(actor[a])
    PROVE  UNCHANGED Turns!vars
<1>1. \A b \in Actor : actor'[b] = IF b = a THEN c ELSE actor[b]
  BY DEF PlanKept, Types
<1> QED  BY <1>1, NothingShown

\* What is shown of the others stays.
LEMMA OneShows ==
    ASSUME PlanKept, NEW a \in Actor, NEW c, actor' = [actor EXCEPT ![a] = c]
    PROVE  [b \in Actor |-> WorkOf(actor'[b])]
              = [[b \in Actor |-> WorkOf(actor[b])] EXCEPT ![a] = WorkOf(c)]
BY DEF PlanKept, Types

\* One step of the coroutine gets a status, and that is all that is shown.
LEMMA StepShows ==
    ASSUME PlanKept, NEW a \in Actor, NEW c, actor' = [actor EXCEPT ![a] = c],
           dependsOn' = dependsOn, broken' = broken,
           NEW st \in [Step -> StepStatus], NEW now, WorkOf(actor[a]) = [status |-> st, due |-> now],
           NEW s \in Step, NEW to, NEW v \in to, v # st[s], NEW due,
           WorkOf(c) = [status |-> [st EXCEPT ![s] = v], due |-> due]
    PROVE  Turns!Goes(a, s, st[s], to, due) /\ s \in Turns!Moved(a)
<1> DEFINE work == [b \in Actor |-> WorkOf(actor[b])]
           more == [b \in Actor |-> WorkOf(actor'[b])]
<1>1. more = [work EXCEPT ![a] = WorkOf(c)] /\ NeedsNow' = NeedsNow
  BY OneShows, NeedsStay
<1>2. more[a] = WorkOf(c) /\ work[a] = WorkOf(actor[a])
  BY <1>1
<1>3. /\ more[a].status[s] = v /\ more[a].status = [st EXCEPT ![s] = v] /\ more[a].due = due
      /\ work[a].status = st /\ WorkOf(c) = [status |-> [st EXCEPT ![s] = v], due |-> due]
  <2>1. [st EXCEPT ![s] = v][s] = v
    OBVIOUS
  <2>2. WorkOf(c).status = [st EXCEPT ![s] = v] /\ WorkOf(c).due = due
    OBVIOUS
  <2>3. WorkOf(actor[a]).status = st
    OBVIOUS
  <2> HIDE DEF work, more
  <2> QED  BY <1>2, <2>1, <2>2, <2>3
<1> HIDE DEF work, more
<1>4. Turns!Goes(a, s, st[s], to, due)
  BY <1>1, <1>3 DEF Turns!Goes, NeedsNow, work, more
<1>5. s \in Turns!Moved(a)
  BY <1>3 DEF Turns!Moved, work, more
<1> QED  BY <1>4, <1>5

\* A coroutine that goes through the steps has the plan and serves no request.
LEMMA AtSteps ==
    ASSUME PlanKept, NEW a \in Actor, NEW k, k = actor[a], k.pc \in {"stepping", "acting"}
    PROVE  /\ k \in Coroutine /\ Knows(k, request) /\ k.plan \in Plan /\ k.plan # NULL
           /\ k.req = NULL /\ k.plan.steps \in [Step -> StepStatus]
           /\ k.todo \in Seq(Step) /\ k.tasks \in Seq(Step)
           /\ k.failed = {s \in Step : k.plan.steps[s] = "failed"}
           /\ Ids(k.tasks) \cap Ids(k.todo) = {}
           /\ Walking(k.plan.steps, k.todo, dependsOn, k.pc = "acting")
           /\ WorkOf(actor[a]) = [status |-> k.plan.steps, due |-> Ids(k.tasks)]
           /\ dependsOn \in [Step -> Seq(Step)]
<1>1. k \in Coroutine /\ Fits(k, request, dependsOn) /\ dependsOn \in [Step -> Seq(Step)]
  BY AtPlace
<1>2. /\ Knows(k, request) /\ k.todo \in Seq(Step) /\ k.tasks \in Seq(Step)
      /\ Walking(k.plan.steps, k.todo, dependsOn, k.pc = "acting")
  BY <1>1 DEF Fits, Coroutine
<1>3. /\ k.plan \in Plan /\ k.plan # NULL /\ k.req = NULL
      /\ k.plan.steps \in [Step -> StepStatus]
  BY <1>2, PlanIsThere DEF Knows, Plan
<1>4. WorkOf(k) = [status |-> k.plan.steps, due |-> Ids(k.tasks)]
  BY <1>3, ShownIs
<1> QED  BY <1>1, <1>2, <1>3, <1>4 DEF Knows

\* Between two steps the head of the list is pending, what it needs has ended, and nothing
\* is under way.
LEMMA HeadIsNext ==
    ASSUME PlanKept, NEW a \in Actor, NEW k, k = actor[a], k.pc = "stepping", k.todo # <<>>
    PROVE  /\ Head(k.todo) \in Step /\ Turns!Free(a)
           /\ k.plan.steps[Head(k.todo)] = "pending"
           /\ NoCycle(dependsOn) =>
                 Needs(dependsOn, Head(k.todo)) \subseteq Turns!StepsIn(a, Ended)
<1> DEFINE st == k.plan.steps  todo == k.todo  g == dependsOn  h == Head(todo)
<1>1. /\ todo \in Seq(Step) /\ Walking(st, todo, g, FALSE) /\ g \in [Step -> Seq(Step)]
      /\ WorkOf(actor[a]).status = st
  <2>1. Walking(st, todo, g, FALSE)
    BY AtPlace DEF Fits
  <2>2. /\ k.todo \in Seq(Step) /\ dependsOn \in [Step -> Seq(Step)]
        /\ WorkOf(actor[a]) = [status |-> k.plan.steps, due |-> Ids(k.tasks)]
    BY AtSteps
  <2> DEFINE due == Ids(k.tasks)
  <2> HIDE DEF due
  <2>3. WorkOf(actor[a]).status = st
    <3>1. WorkOf(actor[a]) = [status |-> st, due |-> due]
      BY <2>2 DEF due
    <3> HIDE DEF st
    <3> QED  BY <3>1
  <2> HIDE DEF st
  <2> QED  BY <2>1, <2>2, <2>3
<1>2. \A S : Turns!StepsIn(a, S) = {s \in Step : st[s] \in S}
  BY <1>1, StepsShown
<1> HIDE DEF st, todo, g
<1>3. h \in Step /\ h \in Ids(todo)
  BY <1>1, HeadAndTail DEF todo
<1>4. \A s \in Step : st[s] \in Ended \cup {"pending"} /\ (s \in Ids(todo) => st[s] = "pending")
  BY <1>1 DEF Walking
<1>5. Turns!Free(a)
  BY <1>2, <1>4 DEF Turns!Free, Ended
<1>6. ASSUME NoCycle(g), NEW d \in Needs(g, h)  PROVE d \in Step /\ st[d] \in Ended
  <2>1. d \notin Ids(todo)
    BY <1>1, <1>6, OrderKept DEF Walking, todo
  <2>2. d \in Step
    BY <1>1, <1>3, <1>6 DEF Needs
  <2> QED  BY <2>1, <2>2, <1>1 DEF Walking
<1>7. st[h] = "pending"
  BY <1>3, <1>4
<1> QED  BY <1>2, <1>3, <1>5, <1>6, <1>7 DEF todo, g, st

\* A step begins, or begins and ends at once.
LEMMA HeadTakenUp ==
    ASSUME PlanKept, NEW a \in Actor, NEW k, k = actor[a], k.pc = "stepping", k.todo # <<>>,
           NEW v \in Ended \cup {"executing"}, NEW c,
           \/ FailedDeps(k, Head(k.todo)) = {}
           \/ ~NoCycle(dependsOn),
           actor' = [actor EXCEPT ![a] = c], dependsOn' = dependsOn, broken' = broken,
           WorkOf(c) = [status |-> [k.plan.steps EXCEPT ![Head(k.todo)] = v],
                        due |-> Ids(k.tasks)]
    PROVE  Turns!Next
<1> DEFINE h == Head(k.todo)  needs == NeedsNow[h]
<1>1. /\ h \in Step /\ Turns!Free(a) /\ k.plan.steps[h] = "pending"
      /\ NoCycle(dependsOn) => Needs(dependsOn, h) \subseteq Turns!StepsIn(a, Ended)
  BY HeadIsNext
<1>2. /\ WorkOf(actor[a]) = [status |-> k.plan.steps, due |-> Ids(k.tasks)]
      /\ Knows(k, request) /\ dependsOn \in [Step -> Seq(Step)]
  BY AtSteps
<1>3. \A S : Turns!StepsIn(a, S) = {s \in Step : k.plan.steps[s] \in S}
  BY <1>2, StepsShown
<1>4. needs = IF NoCycle(dependsOn) THEN Needs(dependsOn, h) ELSE {}
  BY <1>1, NeedsShown
<1>5. needs \subseteq Turns!StepsIn(a, Turns!Served)
  <2>1. CASE ~NoCycle(dependsOn)
    BY <2>1, <1>4
  <2>2. CASE NoCycle(dependsOn)
    <3>1. \A d \in Needs(dependsOn, h) : k.plan.steps[d] # "failed"
      BY <2>2, <1>1, <1>2, NoneFailed
    <3> QED  BY <2>2, <3>1, <1>1, <1>3, <1>4 DEF Ended, Turns!Served
  <2> QED  BY <2>1, <2>2
<1> DEFINE to == Turns!Ended \cup {"executing"}
<1>6. v \in to /\ v # "pending"
  BY DEF Ended, Turns!Ended, Turns!Served
<1> HIDE DEF to
<1>7. Turns!Goes(a, h, "pending", to, Ids(k.tasks)) /\ h \in Turns!Moved(a)
  <2> DEFINE st == k.plan.steps  due == Ids(k.tasks)
  <2>1. /\ st \in [Step -> StepStatus] /\ WorkOf(actor[a]) = [status |-> st, due |-> due]
        /\ v # st[h] /\ h \in Step /\ v \in to /\ st[h] = "pending"
        /\ WorkOf(c) = [status |-> [st EXCEPT ![h] = v], due |-> due]
    BY <1>1, <1>2, <1>6, AtSteps
  <2> HIDE DEF st, due, h
  <2>2. Turns!Goes(a, h, st[h], to, due) /\ h \in Turns!Moved(a)
    BY <2>1, StepShows
  <2> QED  BY <2>1, <2>2 DEF due
<1> HIDE DEF h, needs
<1>8. Turns!TakeUp(a, h)
  <2>1. WorkOf(actor[a]).due = Ids(k.tasks)
    BY <1>2
  <2> QED  BY <2>1, <1>1, <1>5, <1>7 DEF Turns!TakeUp, needs, NeedsNow, to
<1> QED  BY <1>7, <1>8 DEF Turns!Next

\* A step is passed over when one that it needs has failed.
LEMMA HeadPassedOver ==
    ASSUME PlanKept, NEW a \in Actor, NEW k, k = actor[a], k.pc = "stepping", k.todo # <<>>,
           FailedDeps(k, Head(k.todo)) # {}, NEW c,
           actor' = [actor EXCEPT ![a] = c], dependsOn' = dependsOn, broken' = broken,
           WorkOf(c) = [status |-> [k.plan.steps EXCEPT ![Head(k.todo)] = "failed"],
                        due |-> Ids(k.tasks)]
    PROVE  Turns!Next
<1> DEFINE h == Head(k.todo)  needs == NeedsNow[h]
<1>1. CASE ~NoCycle(dependsOn)
  BY <1>1, HeadTakenUp DEF Ended
<1>2. CASE NoCycle(dependsOn)
  <2>1. /\ h \in Step /\ Turns!Free(a) /\ k.plan.steps[h] = "pending"
        /\ Needs(dependsOn, h) \subseteq Turns!StepsIn(a, Ended)
    BY <1>2, HeadIsNext
  <2>2. /\ WorkOf(actor[a]) = [status |-> k.plan.steps, due |-> Ids(k.tasks)]
        /\ k.failed = {s \in Step : k.plan.steps[s] = "failed"}
    BY AtSteps
  <2>3. \A S : Turns!StepsIn(a, S) = {s \in Step : k.plan.steps[s] \in S}
    BY <2>2, StepsShown
  <2>4. needs = Needs(dependsOn, h)
    BY <1>2, <2>1, NeedsShown
  <2>5. PICK i \in DOMAIN dependsOn[h] : dependsOn[h][i] \in k.failed
    BY DEF FailedDeps
  <2>6. needs \cap Turns!StepsIn(a, {"failed"}) # {}
    BY <2>2, <2>3, <2>4, <2>5 DEF Needs
  <2>7. Turns!Goes(a, h, "pending", {"failed"}, Ids(k.tasks)) /\ h \in Turns!Moved(a)
    <3> DEFINE st == k.plan.steps  due == Ids(k.tasks)  v == "failed"  to == {"failed"}
    <3>1. /\ st \in [Step -> StepStatus] /\ WorkOf(actor[a]) = [status |-> st, due |-> due]
          /\ v # st[h] /\ h \in Step /\ v \in to /\ st[h] = "pending"
          /\ WorkOf(c) = [status |-> [st EXCEPT ![h] = v], due |-> due]
      BY <2>1, <2>2, AtSteps
    <3> HIDE DEF st, due, h, v, to
    <3>2. Turns!Goes(a, h, st[h], to, due) /\ h \in Turns!Moved(a)
      BY <3>1, StepShows
    <3> QED  BY <3>1, <3>2 DEF due, to
  <2> HIDE DEF h, needs
  <2>8. Turns!PassOver(a, h)
    <3>1. WorkOf(actor[a]).due = Ids(k.tasks) /\ Turns!Ended = Ended
      BY <2>2 DEF Ended, Turns!Ended, Turns!Served
    <3> QED  BY <3>1, <2>1, <2>4, <2>6, <2>7 DEF Turns!PassOver, needs, NeedsNow
  <2> QED  BY <2>7, <2>8 DEF Turns!Next
<1> QED  BY <1>1, <1>2

\* What is shown of a coroutine after its step at the head has ended.
LEMMA SteppedShows ==
    ASSUME PlanKept, NEW a \in Actor, NEW k, k = actor[a],
           k.pc \in {"stepping", "acting"}, k.todo # <<>>,
           NEW v \in Ended, NEW tasks, NEW asked
    PROVE  WorkOf(Stepped(k, v, tasks, asked)) =
              [status |-> [k.plan.steps EXCEPT ![Head(k.todo)] = v], due |-> Ids(tasks)]
<1> DEFINE s == Head(k.todo)  c == Stepped(k, v, tasks, asked)  p == SetStep(k.plan, s, v)
<1>1. /\ k \in Coroutine /\ k.plan \in Plan /\ k.req = NULL /\ k.todo \in Seq(Step)
  BY AtSteps
<1>2. s \in Step /\ v \in StepStatus
  BY <1>1, HeadAndTail DEF Ended, StepStatus
<1>3. p \in Plan /\ p.steps = [k.plan.steps EXCEPT ![s] = v]
  BY <1>1, <1>2, StepIsSet
<1>4. c.plan = p /\ c.req = NULL /\ c.tasks = tasks
  BY <1>1 DEF Coroutine, Stepped
<1>5. p # NULL
  BY <1>3, PlanIsThere
<1> HIDE DEF c, p
<1> QED  BY <1>3, <1>4, <1>5, ShownIs DEF c

\* The steps of the loop over the sorted steps that save an end, as one.
LEMMA HeadEndsInTurn ==
    ASSUME PlanKept, NEW a \in Actor, NEW k, k = actor[a], k.pc = "stepping", k.todo # <<>>,
           NEW v \in Ended, FailedDeps(k, Head(k.todo)) = {} \/ v = "failed",
           NEW asked, actor' = [actor EXCEPT ![a] = Stepped(k, v, k.tasks, asked)],
           dependsOn' = dependsOn, broken' = broken
    PROVE  Turns!Next
<1> DEFINE c == Stepped(k, v, k.tasks, asked)
<1>1. WorkOf(c) = [status |-> [k.plan.steps EXCEPT ![Head(k.todo)] = v],
                   due |-> Ids(k.tasks)]
  <2> DEFINE tasks == k.tasks
  <2> HIDE DEF tasks
  <2>1. WorkOf(Stepped(k, v, tasks, asked)) =
           [status |-> [k.plan.steps EXCEPT ![Head(k.todo)] = v], due |-> Ids(tasks)]
    BY SteppedShows
  <2> QED  BY <2>1 DEF tasks
<1>2. actor' = [actor EXCEPT ![a] = c]
  OBVIOUS
<1> HIDE DEF c
<1>3. CASE FailedDeps(k, Head(k.todo)) = {}
  BY <1>1, <1>2, <1>3, HeadTakenUp
<1>4. CASE FailedDeps(k, Head(k.todo)) # {}
  <2>1. WorkOf(c) = [status |-> [k.plan.steps EXCEPT ![Head(k.todo)] = "failed"],
                     due |-> Ids(k.tasks)]
    BY <1>1, <1>4
  <2> QED  BY <1>2, <1>4, <2>1, HeadPassedOver
<1> QED  BY <1>3, <1>4

\* A step one of whose dependencies has failed is passed over.
LEMMA SkipStepInTurn ==
    ASSUME PlanKept, NEW a \in Actor, SkipStep(a)
    PROVE  Turns!Next
<1> DEFINE k == actor[a]  s == Head(k.todo)
<1>1. /\ k \in Coroutine /\ k.pc = "stepping" /\ k.todo # <<>>
      /\ actor' = [actor EXCEPT ![a] = [Failing(k, s) EXCEPT !.todo = Tail(@)]]
      /\ dependsOn' = dependsOn /\ broken' = broken
  BY AtPlace DEF SkipStep
<1>2. [Failing(k, s) EXCEPT !.todo = Tail(@)] = Stepped(k, "failed", k.tasks, k.asked)
  BY <1>1, FailedIsStepped
<1> DEFINE v == "failed"  asked == k.asked
<1>3. v \in Ended /\ v = "failed" /\ actor' = [actor EXCEPT ![a] = Stepped(k, v, k.tasks, asked)]
  BY <1>1, <1>2 DEF Ended
<1>4. k = actor[a]
  OBVIOUS
<1>5. k.pc = "stepping" /\ k.todo # <<>> /\ dependsOn' = dependsOn /\ broken' = broken
  BY <1>1
<1> HIDE DEF v, asked, k, s
<1> QED  BY <1>3, <1>4, <1>5, HeadEndsInTurn

\* A step that only writes files is taken up and ends at once.
LEMMA ConfigStepInTurn ==
    ASSUME PlanKept, NEW a \in Actor, ConfigStep(a)
    PROVE  Turns!Next
<1> DEFINE k == actor[a]  s == Head(k.todo)  asked == k.asked
           done == [k EXCEPT !.plan = SetStep(@, s, "completed")]
           next(d) == [d EXCEPT !.todo = Tail(@)]
<1>1. /\ k.pc = "stepping" /\ k.todo # <<>> /\ FailedDeps(k, s) = {}
      /\ \/ actor' = [actor EXCEPT ![a] = next(done)]
         \/ actor' = [actor EXCEPT ![a] = next(Failing(k, s))]
      /\ dependsOn' = dependsOn /\ broken' = broken
  BY DEF ConfigStep
<1>2. k \in Coroutine
  BY AtPlace
<1>3. /\ next(done) = Stepped(k, "completed", k.tasks, asked)
      /\ next(Failing(k, s)) = Stepped(k, "failed", k.tasks, asked)
  <2>1. next(done) = Stepped(k, "completed", k.tasks, asked)
    BY <1>1, <1>2 DEF Coroutine, Stepped
  <2>2. next(Failing(k, s)) = Stepped(k, "failed", k.tasks, asked)
    BY <1>1, <1>2, FailedIsStepped
  <2> QED  BY <2>1, <2>2
<1>4. PICK v \in {"completed", "failed"} :
         actor' = [actor EXCEPT ![a] = Stepped(k, v, k.tasks, asked)]
  BY <1>1, <1>3
<1>5. v \in Ended
  BY DEF Ended
<1>6. k = actor[a]
  OBVIOUS
<1> HIDE DEF k, asked, next, done
<1> QED  BY <1>1, <1>4, <1>5, <1>6, HeadEndsInTurn

\* A question is a step that is taken up and ends at once, with or without its request.
LEMMA AskStepInTurn ==
    ASSUME PlanKept, NEW a \in Actor, AskStep(a)
    PROVE  Turns!Next
<1> DEFINE k == actor[a]  s == Head(k.todo)
           next == [k EXCEPT !.plan = SetStep(@, s, "needs_input"), !.asked = TRUE,
                             !.todo = Tail(@)]
<1>1. /\ k.pc = "stepping" /\ k.todo # <<>> /\ FailedDeps(k, s) = {}
      /\ dependsOn' = dependsOn /\ broken' = broken
      /\ \/ actor' = [actor EXCEPT ![a] = next]
         \/ actor' = [actor EXCEPT ![a] = [Failing(k, s) EXCEPT !.todo = Tail(@)]]
  BY DEF AskStep
<1>2. k \in Coroutine
  BY AtPlace
<1>3. /\ next = Stepped(k, "needs_input", k.tasks, TRUE)
      /\ [Failing(k, s) EXCEPT !.todo = Tail(@)] = Stepped(k, "failed", k.tasks, k.asked)
  BY <1>1, <1>2, FailedIsStepped DEF Coroutine, Stepped
<1>4. PICK v \in {"needs_input", "failed"}, asked \in {k.asked, TRUE} :
         actor' = [actor EXCEPT ![a] = Stepped(k, v, k.tasks, asked)]
  BY <1>1, <1>3
<1>5. v \in Ended
  BY DEF Ended
<1>6. k = actor[a]
  OBVIOUS
<1> HIDE DEF k, next
<1> QED  BY <1>1, <1>4, <1>5, <1>6, HeadEndsInTurn

\* A step whose work is awaited is taken up.
LEMMA BeginStepInTurn ==
    ASSUME PlanKept, NEW a \in Actor, BeginStep(a)
    PROVE  Turns!Next
<1> DEFINE k == actor[a]  s == Head(k.todo)  p == SetStep(k.plan, s, "executing")
           c == [k EXCEPT !.pc = "acting", !.plan = p]
<1>1. /\ k.pc = "stepping" /\ k.todo # <<>> /\ FailedDeps(k, s) = {}
      /\ actor' = [actor EXCEPT ![a] = c]
      /\ dependsOn' = dependsOn /\ broken' = broken
  <2>1. plan' = p
    BY DEF BeginStep
  <2> QED  BY <2>1 DEF BeginStep
<1>2. /\ k \in Coroutine /\ k.plan \in Plan /\ k.req = NULL /\ k.todo \in Seq(Step)
  BY <1>1, AtSteps
<1>3. s \in Step /\ "executing" \in StepStatus
  BY <1>1, <1>2, HeadAndTail DEF StepStatus
<1>4. p \in Plan /\ p # NULL /\ p.steps = [k.plan.steps EXCEPT ![s] = "executing"]
  <2>1. p \in Plan /\ p.steps = [k.plan.steps EXCEPT ![s] = "executing"]
    BY <1>2, <1>3, StepIsSet
  <2> QED  BY <2>1, PlanIsThere
<1> HIDE DEF p
<1>5. c.plan = p /\ c.req = NULL /\ c.tasks = k.tasks
  BY <1>2 DEF Coroutine
<1> HIDE DEF c
<1>6. WorkOf(c) = [status |-> [k.plan.steps EXCEPT ![s] = "executing"], due |-> Ids(k.tasks)]
  BY <1>4, <1>5, ShownIs
<1> DEFINE v == "executing"
<1>7. v \in Ended \cup {"executing"} /\ WorkOf(c) = [status |-> [k.plan.steps EXCEPT ![s] = v],
                                                     due |-> Ids(k.tasks)]
  BY <1>6
<1> HIDE DEF k, v
<1> QED  BY <1>1, <1>7, HeadTakenUp DEF k

\* The await returns or raises.
LEMMA EndStepInTurn ==
    ASSUME PlanKept, NEW a \in Actor, EndStep(a)
    PROVE  Turns!Next
<1> DEFINE k == actor[a]  s == Head(k.todo)  asked == k.asked
           more == IF k.plan.actions[s] = "once" THEN Append(k.tasks, s) ELSE k.tasks
           done == [k EXCEPT !.plan = SetStep(@, s, "completed"),
                             !.tasks = IF k.plan.actions[s] = "once" THEN Append(@, s) ELSE @]
           next(d) == [d EXCEPT !.pc = "stepping", !.todo = Tail(@)]
<1>1. /\ k.pc = "acting" /\ dependsOn' = dependsOn /\ broken' = broken
      /\ \/ actor' = [actor EXCEPT ![a] = next(done)]
         \/ actor' = [actor EXCEPT ![a] = next(Failing(k, s))]
  BY DEF EndStep
<1>2. /\ k \in Coroutine /\ k.todo \in Seq(Step) /\ k.tasks \in Seq(Step)
      /\ Walking(k.plan.steps, k.todo, dependsOn, TRUE)
      /\ Ids(k.tasks) \cap Ids(k.todo) = {}
      /\ WorkOf(actor[a]) = [status |-> k.plan.steps, due |-> Ids(k.tasks)]
  BY <1>1, AtSteps
<1>3. k.todo # <<>> /\ s \in Step /\ s \in Ids(k.todo)
  BY <1>2, HeadAndTail DEF Walking
<1>4. /\ next(done) = Stepped(k, "completed", more, asked)
      /\ next(Failing(k, s)) = Stepped(k, "failed", k.tasks, asked)
  BY <1>2, FailedIsStepped DEF Coroutine, Stepped
<1>5. PICK v \in {"completed", "failed"}, tasks \in {more, k.tasks} :
         /\ actor' = [actor EXCEPT ![a] = Stepped(k, v, tasks, asked)]
         /\ tasks = k.tasks \/ (v = "completed" /\ tasks = Append(k.tasks, s))
  BY <1>1, <1>4
<1>6. v \in Ended
  BY DEF Ended
<1>7. \/ Ids(tasks) = Ids(k.tasks)
      \/ v = "completed" /\ Ids(tasks) = Ids(k.tasks) \cup {s}
  <2>1. Ids(Append(k.tasks, s)) = Ids(k.tasks) \cup {s}
    BY <1>2, <1>3, AtTheEnd
  <2> QED  BY <1>5, <2>1
<1>8. k.plan.steps[s] = "executing" /\ s \notin Ids(k.tasks)
  BY <1>2, <1>3 DEF Walking
<1>0. /\ k = actor[a] /\ k.pc \in {"stepping", "acting"}
      /\ dependsOn' = dependsOn /\ broken' = broken
  BY <1>1
<1> DEFINE c == Stepped(k, v, tasks, asked)
<1> HIDE DEF k, asked, more, next, done
<1>9. WorkOf(c) = [status |-> [k.plan.steps EXCEPT ![s] = v], due |-> Ids(tasks)]
  <2>1. k = actor[a] /\ k.pc \in {"stepping", "acting"} /\ k.todo # <<>> /\ v \in Ended
    BY <1>0, <1>3, <1>6
  <2> HIDE DEF c, s
  <2>2. WorkOf(Stepped(k, v, tasks, asked)) =
           [status |-> [k.plan.steps EXCEPT ![Head(k.todo)] = v], due |-> Ids(tasks)]
    BY <2>1, SteppedShows
  <2> QED  BY <2>2 DEF c, s
<1>10. actor' = [actor EXCEPT ![a] = c]
  BY <1>5
<1> HIDE DEF c, s
<1>11. Turns!Goes(a, s, "executing", {v}, Ids(tasks)) /\ s \in Turns!Moved(a)
  <2> DEFINE st == k.plan.steps  due == Ids(k.tasks)  gone == Ids(tasks)  to == {v}
  <2>1. /\ st \in [Step -> StepStatus] /\ WorkOf(actor[a]) = [status |-> st, due |-> due]
        /\ v # st[s] /\ s \in Step /\ v \in to /\ st[s] = "executing"
        /\ WorkOf(c) = [status |-> [st EXCEPT ![s] = v], due |-> gone]
    BY <1>0, <1>2, <1>3, <1>8, <1>9, AtSteps
  <2> HIDE DEF st, due, gone, to
  <2>2. Turns!Goes(a, s, st[s], to, gone) /\ s \in Turns!Moved(a)
    BY <2>1, <1>0, <1>10, StepShows
  <2> QED  BY <2>1, <2>2 DEF gone, to
<1>12. WorkOf(actor[a]).due = Ids(k.tasks)
  BY <1>2
<1>13. Turns!Return(a, s)
  <2>1. CASE v = "failed"
    <3>1. Ids(tasks) = Ids(k.tasks)
      BY <2>1, <1>7
    <3> QED  BY <2>1, <3>1, <1>8, <1>11, <1>12 DEF Turns!Return
  <2>2. CASE v = "completed"
    <3>1. PICK new \in SUBSET {s} : Ids(tasks) = Ids(k.tasks) \cup new
      <4>1. CASE Ids(tasks) = Ids(k.tasks)
        <5>1. {} \in SUBSET {s} /\ Ids(tasks) = Ids(k.tasks) \cup {}
          BY <4>1
        <5> QED  BY <5>1
      <4>2. CASE Ids(tasks) = Ids(k.tasks) \cup {s}
        BY <4>2
      <4> QED  BY <1>7, <4>1, <4>2
    <3> QED  BY <2>2, <3>1, <1>8, <1>11, <1>12 DEF Turns!Return
  <2> QED  BY <1>5, <2>1, <2>2
<1> QED  BY <1>11, <1>13 DEF Turns!Next

\* Between the steps and the verdict.
LEMMA TasksShown ==
    ASSUME PlanKept, NEW a \in Actor, NEW k, k = actor[a], k.pc \in {"dispatching", "triggering"}
    PROVE  /\ k.plan # NULL /\ k.req = NULL
           /\ WorkOf(actor[a]) = [status |-> k.plan.steps, due |-> Ids(k.tasks)]
           /\ k.pc = "dispatching" => Turns!AllEnded(a)
<1>1. /\ Knows(k, request) /\ k.plan \in Plan
      /\ k.pc = "dispatching" => \A s \in Step : k.plan.steps[s] \in Ended
  BY AtTasks
<1>2. k.plan # NULL /\ k.req = NULL
  BY <1>1, PlanIsThere DEF Knows
<1>3. WorkOf(actor[a]) = [status |-> k.plan.steps, due |-> Ids(k.tasks)]
  BY <1>2, ShownIs
<1>4. \A S : Turns!StepsIn(a, S) = {s \in Step : k.plan.steps[s] \in S}
  BY <1>3, StepsShown
<1>5. k.pc = "dispatching" => Turns!AllEnded(a)
  BY <1>1, <1>4 DEF Turns!AllEnded, Turns!Ended, Turns!Served, Ended
<1> QED  BY <1>2, <1>3, <1>5

\* The head of the list of tasks is due, and is triggered when every step has ended.
LEMMA TriggerTaskInTurn ==
    ASSUME PlanKept, NEW a \in Actor, TriggerTask(a)
    PROVE  Turns!Next
<1> DEFINE k == actor[a]  s == Head(k.tasks)  p == SetStep(k.plan, s, "executing")
           c == [k EXCEPT !.pc = "triggering", !.plan = p]
<1>1. /\ k.pc = "dispatching" /\ k.tasks # <<>> /\ actor' = [actor EXCEPT ![a] = c]
      /\ dependsOn' = dependsOn /\ broken' = broken
  <2>1. plan' = p
    BY DEF TriggerTask
  <2> QED  BY <2>1 DEF TriggerTask
<1>2. k \in Coroutine /\ k.plan \in Plan /\ k.tasks \in Seq(Step)
  BY <1>1, AtTasks
<1>3. /\ k.req = NULL /\ Turns!AllEnded(a)
      /\ WorkOf(actor[a]) = [status |-> k.plan.steps, due |-> Ids(k.tasks)]
  BY <1>1, TasksShown
<1>4. s \in Step /\ s \in Ids(k.tasks) /\ "executing" \in StepStatus
  BY <1>1, <1>2, HeadAndTail DEF StepStatus
<1>5. p \in Plan /\ p # NULL /\ p.steps = [k.plan.steps EXCEPT ![s] = "executing"]
  <2>1. p \in Plan /\ p.steps = [k.plan.steps EXCEPT ![s] = "executing"]
    BY <1>2, <1>4, StepIsSet
  <2> QED  BY <2>1, PlanIsThere
<1> HIDE DEF p
<1>6. c.plan = p /\ c.req = NULL /\ c.tasks = k.tasks
  BY <1>2, <1>3 DEF Coroutine
<1> HIDE DEF c
<1>7. WorkOf(c) = [status |-> [k.plan.steps EXCEPT ![s] = "executing"], due |-> Ids(k.tasks)]
  BY <1>5, <1>6, ShownIs
<1>8. k.plan.steps[s] \in Ended /\ k.plan.steps \in [Step -> StepStatus]
  BY <1>1, <1>4, AtTasks
<1> DEFINE st == k.plan.steps  due == Ids(k.tasks)  v == "executing"  to == {"executing"}
<1>9. /\ st \in [Step -> StepStatus] /\ WorkOf(actor[a]) = [status |-> st, due |-> due]
      /\ v # st[s] /\ v \in to /\ WorkOf(c) = [status |-> [st EXCEPT ![s] = v], due |-> due]
      /\ st[s] \in Ended
  BY <1>3, <1>7, <1>8 DEF Ended
<1> HIDE DEF k, s, st, due, v, to
<1>10. Turns!Goes(a, s, st[s], to, due) /\ s \in Turns!Moved(a)
  BY <1>1, <1>4, <1>9, StepShows
<1>11. Turns!Trigger(a, s)
  <2>1. Turns!Ended = Ended /\ WorkOf(actor[a]).due = due /\ s \in due
    BY <1>4, <1>9 DEF Turns!Ended, Turns!Served, Ended, due
  <2> QED  BY <2>1, <1>3, <1>9, <1>10 DEF Turns!Trigger, to
<1> QED  BY <1>10, <1>11 DEF Turns!Next

\* A triggered task settles its step, and is due no longer.
LEMMA TaskEndsInTurn ==
    ASSUME PlanKept, NEW a \in Actor, NEW outcome \in Outcome, TaskEnds(a, outcome)
    PROVE  Turns!Next
<1> DEFINE k == actor[a]  s == Head(k.tasks)
           v == IF Bad(outcome) THEN "failed" ELSE "completed"
           next == IF Bad(outcome) THEN Failing(k, s)
                   ELSE [k EXCEPT !.plan = SetStep(@, s, "completed"),
                                  !.asked = @ \/ (outcome = "asks" /\ Unused(request) # {})]
           p == SetStep(k.plan, s, v)
           c == [next EXCEPT !.pc = "dispatching", !.tasks = Tail(@)]
<1>1. /\ k.pc = "triggering" /\ actor' = [actor EXCEPT ![a] = c]
      /\ dependsOn' = dependsOn /\ broken' = broken
  BY DEF TaskEnds
<1>2. /\ k \in Coroutine /\ k.plan \in Plan /\ k.tasks \in Seq(Step) /\ k.tasks # <<>>
      /\ Distinct(k.tasks) /\ k.plan.steps[s] = "executing"
  BY <1>1, AtTasks
<1>3. /\ k.req = NULL
      /\ WorkOf(actor[a]) = [status |-> k.plan.steps, due |-> Ids(k.tasks)]
  BY <1>1, TasksShown
<1>4. /\ s \in Step /\ s \in Ids(k.tasks)
      /\ Ids(Tail(k.tasks)) = Ids(k.tasks) \ {s}
  BY <1>2, HeadAndTail
<1>5. v \in StepStatus /\ v \in {"completed", "failed"}
  BY DEF StepStatus
<1>6. p \in Plan /\ p # NULL /\ p.steps = [k.plan.steps EXCEPT ![s] = v]
  <2> HIDE DEF v
  <2>1. p \in Plan /\ p.steps = [k.plan.steps EXCEPT ![s] = v]
    BY <1>2, <1>4, <1>5, StepIsSet
  <2> QED  BY <2>1, PlanIsThere
<1>7. c.plan = p /\ c.req = NULL /\ c.tasks = Tail(k.tasks)
  <2>1. CASE Bad(outcome)
    BY <2>1, <1>2, <1>3 DEF Coroutine, Failing
  <2>2. CASE ~Bad(outcome)
    BY <2>2, <1>2, <1>3 DEF Coroutine
  <2> QED  BY <2>1, <2>2
<1> HIDE DEF c, p, v, next
<1>8. WorkOf(c) = [status |-> [k.plan.steps EXCEPT ![s] = v], due |-> Ids(Tail(k.tasks))]
  BY <1>6, <1>7, ShownIs
<1> DEFINE st == k.plan.steps  due == Ids(k.tasks)  less == due \ {s}
           to == {"completed", "failed"}
<1>9. /\ st \in [Step -> StepStatus] /\ WorkOf(actor[a]) = [status |-> st, due |-> due]
      /\ st[s] = "executing" /\ v # st[s] /\ v \in to
      /\ WorkOf(c) = [status |-> [st EXCEPT ![s] = v], due |-> less]
  BY <1>1, <1>2, <1>3, <1>4, <1>5, <1>8, AtTasks
<1> HIDE DEF k, s, st, due, less, to
<1>10. Turns!Goes(a, s, st[s], to, less) /\ s \in Turns!Moved(a)
  BY <1>1, <1>4, <1>9, StepShows
<1>11. Turns!Settle(a, s)
  <2>1. WorkOf(actor[a]).due = due /\ s \in due
    BY <1>4, <1>9 DEF due
  <2> QED  BY <2>1, <1>9, <1>10 DEF Turns!Settle, to, less
<1> QED  BY <1>10, <1>11 DEF Turns!Next

\* The verdict comes when every step has ended and no task is due.
LEMMA ApplyEndsInTurn ==
    ASSUME PlanKept, NEW a \in Actor, ApplyEnds(a)
    PROVE  Turns!Next
<1>1. /\ actor[a].pc = "dispatching" /\ actor[a].tasks = <<>>
      /\ actor' = [actor EXCEPT ![a] = Idle] /\ dependsOn' = dependsOn /\ broken' = broken
  BY DEF ApplyEnds
<1>2. WorkOf(Idle) = Turns!Nothing
  BY ShownIs DEF Idle
<1>3. Turns!AllEnded(a) /\ WorkOf(actor[a]).due = {}
  <2> DEFINE k == actor[a]
  <2>1. k = actor[a] /\ k.pc = "dispatching" /\ k.tasks = <<>>
    BY <1>1
  <2> HIDE DEF k
  <2>2. /\ Turns!AllEnded(a)
        /\ WorkOf(actor[a]) = [status |-> k.plan.steps, due |-> Ids(k.tasks)]
    BY <2>1, TasksShown
  <2> QED  BY <2>1, <2>2 DEF Ids
<1>4. Turns!Leave(a)
  BY <1>1, <1>2, <1>3, OneShows, NeedsStay DEF Turns!Leave, NeedsNow
<1> QED  BY <1>4 DEF Turns!Next

\* A crash or an uncaught exception breaks off whatever the coroutine did.
LEMMA BreaksOff ==
    ASSUME PlanKept, NEW a \in Actor, Breaks(a)
    PROVE  Turns!Next
<1>1. actor' = [actor EXCEPT ![a] = Idle] /\ dependsOn' = dependsOn /\ broken' = TRUE
  BY DEF Breaks
<1>2. WorkOf(Idle) = Turns!Nothing
  BY ShownIs DEF Idle
<1>3. Turns!BreakOff(a)
  BY <1>1, <1>2, OneShows, NeedsStay DEF Turns!BreakOff, NeedsNow
<1> QED  BY <1>3 DEF Turns!Next

\* The sort, the saves in between, and all that serves an answered request are not seen.
LEMMA UnseenSteps ==
    ASSUME PlanKept, NEW a \in Actor,
           \/ ApplyBegins(a) \/ Visit(a) \/ VisitReturns(a) \/ StepsSorted(a) \/ StepsDone(a)
           \/ ResumeTriggers(a) \/ ResumeCreates(a)
           \/ \E outcome \in Outcome : ResumeEnds(a, outcome)
           \/ \E q \in Req : ResumeTask(a, q) \/ ResumeInput(a, q)
    PROVE  UNCHANGED Turns!vars
<1> DEFINE k == actor[a]
<1>0. k \in Coroutine /\ Fits(k, request, dependsOn) /\ WorkOf(Idle) = Turns!Nothing
      /\ Idle \in Coroutine /\ Idle.plan = NULL
  BY AtPlace, ShownIs, IdleFits DEF Idle
<1>a. \A q \in Stored(request) : q \in Req /\ q # NULL
  BY ApprovalsAssumption DEF Stored
<1>1. CASE ApplyBegins(a)
  <2> DEFINE c == [Idle EXCEPT !.pc = "sorting", !.stack = <<Frame(NULL, Steps)>>]
  <2>1. actor' = [actor EXCEPT ![a] = c] /\ k = Idle /\ dependsOn' = dependsOn /\ broken' = broken
    BY <1>1 DEF ApplyBegins
  <2>2. c.plan = NULL
    BY <1>0 DEF Coroutine
  <2> HIDE DEF c
  <2>3. WorkOf(c) = WorkOf(actor[a])
    BY <2>1, <2>2, <1>0, ShownIs
  <2> QED  BY <2>1, <2>3, Unseen
<1>2. CASE Visit(a) \/ VisitReturns(a)
  <2>1. PICK c : /\ actor' = [actor EXCEPT ![a] = c] /\ c.plan = k.plan /\ k.plan = NULL
                 /\ dependsOn' = dependsOn /\ broken' = broken
    <3>1. k.pc = "sorting"
      BY <1>2 DEF Visit, VisitReturns
    <3>2. k.plan = NULL
      BY <3>1, <1>0 DEF Fits
    <3>3. CASE Visit(a)
      <4> DEFINE s == Head(Top(k).ids)
                 next == [k EXCEPT !.stack[Len(k.stack)].ids = Tail(@)]
                 c == IF s \in k.visited THEN next ELSE Visited(next, s)
      <4>1. actor' = [actor EXCEPT ![a] = c] /\ dependsOn' = dependsOn /\ broken' = broken
        BY <3>3 DEF Visit
      <4>2. c.plan = k.plan
        BY <1>0 DEF Coroutine, Visited
      <4> QED  BY <4>1, <4>2, <3>2
    <3>4. CASE VisitReturns(a)
      <4> DEFINE c == [k EXCEPT !.stack = SubSeq(@, 1, Len(@) - 1),
                                !.todo = IF Top(k).step = NULL THEN @ ELSE Append(@, Top(k).step)]
      <4>1. actor' = [actor EXCEPT ![a] = c] /\ dependsOn' = dependsOn /\ broken' = broken
        BY <3>4 DEF VisitReturns
      <4>2. c.plan = k.plan
        BY <1>0 DEF Coroutine
      <4> QED  BY <4>1, <4>2, <3>2
    <3> QED  BY <1>2, <3>3, <3>4
  <2>2. WorkOf(c) = WorkOf(actor[a])
    BY <2>1, ShownIs
  <2> QED  BY <2>1, <2>2, Unseen
<1>3. CASE StepsSorted(a)
  <2> DEFINE p == [plan EXCEPT !.status = "executing", !.steps = [s \in Step |-> "pending"]]
             c == [k EXCEPT !.pc = "stepping", !.plan = p, !.visited = {}]
  <2>1. /\ actor' = [actor EXCEPT ![a] = c] /\ k.pc = "sorting"
        /\ dependsOn' = dependsOn /\ broken' = broken
    BY <1>3 DEF StepsSorted
  <2>2. k.plan = NULL /\ k.req = NULL /\ k.tasks = <<>>
    BY <2>1, <1>0 DEF Fits
  <2>3. p \in Plan /\ p # NULL /\ p.steps = [s \in Step |-> "pending"]
    <3>1. p \in Plan /\ p.steps = [s \in Step |-> "pending"]
      BY AtPlace DEF Plan, PlanStatus, StepStatus
    <3> QED  BY <3>1, PlanIsThere
  <2> HIDE DEF p
  <2>4. c.plan = p /\ c.req = NULL /\ c.tasks = <<>>
    BY <2>2, <1>0 DEF Coroutine
  <2> HIDE DEF c
  <2>5. WorkOf(c) = Turns!Nothing
    BY <2>3, <2>4, ShownIs DEF Turns!Nothing, Ids
  <2>6. WorkOf(actor[a]) = Turns!Nothing
    BY <2>2, ShownIs
  <2> QED  BY <2>1, <2>5, <2>6, Unseen
<1>4. CASE StepsDone(a)
  <2> DEFINE c == [k EXCEPT !.pc = "dispatching"]
  <2>1. actor' = [actor EXCEPT ![a] = c] /\ dependsOn' = dependsOn /\ broken' = broken
    BY <1>4 DEF StepsDone, PlanKept, Types
  <2>2. c.plan = k.plan /\ c.req = k.req /\ c.tasks = k.tasks
    BY <1>0 DEF Coroutine
  <2> HIDE DEF c
  <2>3. WorkOf(c) = WorkOf(actor[a])
    BY <2>2 DEF WorkOf, Applying
  <2> QED  BY <2>1, <2>3, Unseen
<1>5. CASE ResumeTriggers(a) \/ ResumeCreates(a)
  <2>1. PICK c : /\ actor' = [actor EXCEPT ![a] = c] /\ c.req = k.req
                 /\ k.pc \in {"loaded", "creating"} /\ dependsOn' = dependsOn /\ broken' = broken
    <3>1. CASE ResumeTriggers(a)
      <4> DEFINE c == [k EXCEPT !.pc = "resumed", !.plan = plan']
      <4>1. c.req = k.req
        BY <1>0 DEF Coroutine
      <4> QED  BY <3>1, <4>1 DEF ResumeTriggers
    <3>2. CASE ResumeCreates(a)
      <4> DEFINE c == [k EXCEPT !.pc = "resumed"]
      <4>1. c.req = k.req
        BY <1>0 DEF Coroutine
      <4>2. actor' = [actor EXCEPT ![a] = c]
        BY <3>2 DEF ResumeCreates, PlanKept, Types
      <4> QED  BY <3>2, <4>1, <4>2 DEF ResumeCreates
    <3> QED  BY <1>5, <3>1, <3>2
  <2>2. k.req # NULL
    BY <2>1, <1>0, <1>a DEF Fits
  <2>3. WorkOf(c) = WorkOf(actor[a])
    BY <2>1, <2>2, ShownIs
  <2> QED  BY <2>1, <2>3, Unseen
<1>6. ASSUME NEW outcome \in Outcome, ResumeEnds(a, outcome)  PROVE UNCHANGED Turns!vars
  <2>1. /\ actor' = [actor EXCEPT ![a] = Idle] /\ k.pc = "resumed"
        /\ dependsOn' = dependsOn /\ broken' = broken
    BY <1>6 DEF ResumeEnds
  <2>2. k.req # NULL
    BY <2>1, <1>0, <1>a DEF Fits
  <2>3. WorkOf(Idle) = WorkOf(actor[a])
    BY <2>2, <1>0, ShownIs
  <2> QED  BY <2>1, <2>3, Unseen
<1>7. ASSUME NEW q \in Req, ResumeTask(a, q) \/ ResumeInput(a, q)  PROVE UNCHANGED Turns!vars
  <2>1. PICK pc, p : /\ actor' = [actor EXCEPT ![a] = [Idle EXCEPT !.pc = pc, !.plan = p, !.req = q]]
                     /\ k = Idle /\ dependsOn' = dependsOn /\ broken' = broken
    <3>1. CASE ResumeTask(a, q)
      <4> DEFINE pc == "loaded"  p == plan
      <4>1. /\ actor' = [actor EXCEPT ![a] = [Idle EXCEPT !.pc = pc, !.plan = p, !.req = q]]
            /\ k = Idle /\ dependsOn' = dependsOn /\ broken' = broken
        BY <3>1 DEF ResumeTask, Resumes
      <4> HIDE DEF pc, p
      <4> QED  BY <4>1
    <3>2. CASE ResumeInput(a, q)
      <4> DEFINE pc == "creating"  p == plan'
      <4>1. /\ actor' = [actor EXCEPT ![a] = [Idle EXCEPT !.pc = pc, !.plan = p, !.req = q]]
            /\ k = Idle /\ dependsOn' = dependsOn /\ broken' = broken
        BY <3>2 DEF ResumeInput, Resumes
      <4> HIDE DEF pc, p
      <4> QED  BY <4>1
    <3> QED  BY <1>7, <3>1, <3>2
  <2> DEFINE c == [Idle EXCEPT !.pc = pc, !.plan = p, !.req = q]
  <2>2. c.req = q /\ q # NULL
    BY <1>0, ApprovalsAssumption DEF Coroutine
  <2> HIDE DEF c
  <2>3. WorkOf(c) = WorkOf(actor[a])
    BY <2>1, <2>2, <1>0, ShownIs
  <2>4. actor' = [actor EXCEPT ![a] = c]
    BY <2>1 DEF c
  <2> QED  BY <2>1, <2>3, <2>4, Unseen
<1> QED  BY <1>1, <1>2, <1>3, <1>4, <1>5, <1>6, <1>7

\* Every step of PlanApply is a step of OrderedExecution or shows nothing.
LEMMA StepInTurn ==
    ASSUME PlanKept, [Next]_vars
    PROVE  [Turns!Next]_(Turns!vars)
<1>1. ASSUME NEW a \in Actor, ConfirmPlan(a) \/ RejectPlan(a)  PROVE UNCHANGED Turns!vars
  BY <1>1, NothingShown DEF ConfirmPlan, RejectPlan
<1>2. ASSUME NEW q \in Req, Answer(q) \/ CloseBlocked(q)  PROVE UNCHANGED Turns!vars
  BY <1>2, NothingShown DEF Answer, CloseBlocked
<1>3. CASE UNCHANGED vars
  BY <1>3, NothingShown DEF vars
<1>4. ASSUME NEW a \in Actor, Breaks(a)  PROVE Turns!Next
  BY <1>4, BreaksOff
<1>5. ASSUME NEW a \in Actor,
             \/ ApplyBegins(a) \/ Visit(a) \/ VisitReturns(a) \/ StepsSorted(a) \/ StepsDone(a)
             \/ ResumeTriggers(a) \/ ResumeCreates(a)
             \/ \E outcome \in Outcome : ResumeEnds(a, outcome)
             \/ \E q \in Req : ResumeTask(a, q) \/ ResumeInput(a, q)
      PROVE  UNCHANGED Turns!vars
  BY <1>5, UnseenSteps
<1>6. ASSUME NEW a \in Actor,
             \/ SkipStep(a) \/ BeginStep(a) \/ EndStep(a) \/ ConfigStep(a) \/ AskStep(a)
             \/ TriggerTask(a) \/ ApplyEnds(a)
             \/ \E outcome \in Outcome : TaskEnds(a, outcome)
      PROVE  Turns!Next
  BY <1>6, SkipStepInTurn, BeginStepInTurn, EndStepInTurn, ConfigStepInTurn, AskStepInTurn,
     TriggerTaskInTurn, ApplyEndsInTurn, TaskEndsInTurn
<1> QED  BY <1>1, <1>2, <1>3, <1>4, <1>5, <1>6 DEF Next, RunsOn, AwaitReturns

\* apply_plan keeps the abstract promise, for every plan, every graph and any requests that
\* overlap: each step waits for those that it needs and is passed over if one of them failed,
\* the steps are executed one at a time, every task that was created is triggered once after
\* the last step has ended, and no coroutine stops half-way but by a crash or an exception.
THEOREM PlanImplements == Spec => StepsInTurn
<1>1. Init => Turns!Init
  <2> SUFFICES ASSUME Init  PROVE Turns!Init
    OBVIOUS
  <2>1. dependsOn \in [Step -> Seq(Step)] /\ broken = FALSE /\ actor = [a \in Actor |-> Idle]
    BY PlanAssumption DEF Init
  <2>2. NeedsNow \in [Step -> SUBSET Step]
    BY <2>1 DEF DepsOf, NeedsNow
  <2>3. WorkOf(Idle) = Turns!Nothing
    BY ShownIs DEF Idle
  <2>4. [a \in Actor |-> WorkOf(actor[a])] = [a \in Actor |-> Turns!Nothing]
    BY <2>1, <2>3
  <2> QED  BY <2>1, <2>2, <2>4 DEF Turns!Init, NeedsNow
<1>2. PlanKept /\ [Next]_vars => [Turns!Next]_(Turns!vars)
  BY StepInTurn
<1> QED  BY <1>1, <1>2, PlanKeptAlways, PTL DEF Spec, StepsInTurn, Turns!Spec

=============================================================================
