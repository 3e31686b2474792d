---------------------------- MODULE ServiceProofs --------------------------
(***************************************************************************)
(* What holds of the services of one server process for every value of     *)
(* their constants.  They share no state, so that each is taken alone: the *)
(* specification of a service is its initial states and its steps.         *)
(***************************************************************************)
EXTENDS CodeSandbox, Chats, BrowserRuns, ConnectorCalls, Policy, WellFoundedInduction,
        TLAPS

\* Of numbers there is a smallest.
LEMMA Smallest == ASSUME NEW S, S \subseteq Nat, S # {}  PROVE \E q \in S : \A p \in S : q <= p
<1> DEFINE Less == OpToRel(<, Nat)
<1>1. IsWellFoundedOn(Less, Nat)
  BY NatLessThanWellFounded
<1>2. \A p, q \in Nat : <<p, q>> \in Less <=> p < q
  BY DEF OpToRel
<1> HIDE DEF Less
<1>3. PICK q \in S : \A p \in S : ~ (<<p, q>> \in Less)
  BY <1>1, WFMin
<1>4. ASSUME NEW p \in S  PROVE q <= p
  <2>1. p \in Nat /\ q \in Nat
    OBVIOUS
  <2>2. ~(p < q)
    BY <1>2, <1>3, <2>1
  <2> QED  BY <2>1, <2>2
<1> QED  BY <1>4

-----------------------------------------------------------------------------
(***************************************************************************)
(* The preview servers of CodeSandbox.                                     *)
(***************************************************************************)
SandboxSpec == SandboxInit /\ [][SandboxNext]_sandboxVars

ProjectRow ==
    [status : {"none", "created", "running", "failed", "stopped"}, pid : Pids \cup {NoPid}]

SystemProcess ==
    [as : {"none", "preview", "zombie", "foreign"}, project : Projects \cup {"none"},
     child : BOOLEAN]

SandboxTypes ==
    /\ project \in [Projects -> ProjectRow]
    /\ process \in [Pids -> SystemProcess]
    /\ starting \in [Starts -> Projects \cup {"none"}]
    /\ stopped \subseteq Pids /\ unrecorded \subseteq Pids
    /\ \A i \in Pids : process[i].as = "preview" => process[i].project \in Projects

SandboxKept == SandboxTypes /\ RunningIsRecorded

\* Refreshing the table forgets no process that is there.
LEMMA Listed ==
    ASSUME SandboxTypes
    PROVE  /\ ListAll \in [Projects -> ProjectRow]
           /\ \A p \in Projects, i \in Pids :
                 process[i].as = "preview" /\ project[p].pid = i => ListAll[p].pid = i
<1>1. \A p \in Projects : ListAll[p] \in ProjectRow
  <2> SUFFICES ASSUME NEW p \in Projects  PROVE Refreshed(project[p]) \in ProjectRow
    BY DEF ListAll
  <2>1. project[p] \in ProjectRow
    BY DEF SandboxTypes
  <2> QED  BY <2>1 DEF Refreshed, ProjectRow
<1>2. ASSUME NEW p \in Projects, NEW i \in Pids, process[i].as = "preview", project[p].pid = i
      PROVE  ListAll[p].pid = i
  <2>1. PidAlive(project[p].pid)
    BY <1>2, SandboxAssumption DEF PidAlive
  <2> QED  BY <1>2, <2>1 DEF ListAll, Refreshed
<1> QED  BY <1>1, <1>2 DEF ListAll

\* Looking, spawning and recording are one step: the process that is recorded for the
\* project is gone when another takes its place.
LEMMA Started == ASSUME SandboxKept, NEW s \in Starts, Start(s)  PROVE SandboxKept'
<1> DEFINE p == starting[s]
<1>1. /\ p \in Projects /\ unrecorded' = unrecorded
      /\ starting' \in [Starts -> Projects \cup {"none"}]
  BY DEF Start, SandboxKept, SandboxTypes
<1>2. /\ ListAll \in [Projects -> ProjectRow]
      /\ \A q \in Projects, i \in Pids :
            process[i].as = "preview" /\ project[q].pid = i => ListAll[q].pid = i
  BY Listed DEF SandboxKept
<1>3. CASE process' = process /\ stopped' = stopped /\ project' = ListAll
  BY <1>1, <1>2, <1>3 DEF SandboxKept, SandboxTypes, RunningIsRecorded
<1>4. CASE /\ process' = process /\ stopped' = stopped
           /\ project' = [ListAll EXCEPT ![p].status = "failed"]
  <2>1. project' \in [Projects -> ProjectRow] /\ \A q \in Projects : project'[q].pid = ListAll[q].pid
    BY <1>1, <1>2, <1>4 DEF ProjectRow
  <2> QED  BY <1>1, <1>2, <1>4, <2>1 DEF SandboxKept, SandboxTypes, RunningIsRecorded
<1>5. ASSUME NEW i \in Pids, MustStart(ListAll[p]), process[i] = Vacant,
             process' = [process EXCEPT ![i] =
                           [as |-> "preview", project |-> p, child |-> TRUE]],
             stopped' = stopped \ {i},
             project' = [ListAll EXCEPT ![p] = [status |-> "running", pid |-> i]]
      PROVE  SandboxKept'
  <2>1. [status |-> "running", pid |-> i] \in ProjectRow
    BY DEF ProjectRow
  <2>2. [as |-> "preview", project |-> p, child |-> TRUE] \in SystemProcess
    BY <1>1 DEF SystemProcess
  <2>3. SandboxTypes'
    BY <1>1, <1>2, <1>5, <2>1, <2>2 DEF SandboxKept, SandboxTypes
  <2>4. ASSUME NEW j \in Pids, j # i, j \notin stopped \cup unrecorded, process[j].as = "preview"
        PROVE  project'[process[j].project].pid = j
    <3>1. process[j].project \in Projects /\ ListAll[process[j].project].pid = j
      BY <1>2, <2>4 DEF SandboxKept, SandboxTypes, RunningIsRecorded
    <3>2. PidAlive(j)
      BY <2>4, SandboxAssumption DEF PidAlive
    <3>3. process[j].project # p
      BY <1>5, <3>1, <3>2 DEF MustStart
    <3> QED  BY <1>5, <3>1, <3>3
  <2>5. RunningIsRecorded'
    <3> SUFFICES ASSUME NEW j \in Pids, j \notin stopped' \cup unrecorded', process'[j].as = "preview"
                 PROVE  project'[process'[j].project].pid = j
      BY DEF RunningIsRecorded
    <3>1. CASE j = i
      BY <1>1, <1>2, <1>5, <3>1 DEF SandboxKept, SandboxTypes
    <3>2. CASE j # i
      BY <1>1, <1>5, <2>4, <3>2 DEF SandboxKept, SandboxTypes
    <3> QED  BY <3>1, <3>2
  <2> QED  BY <2>3, <2>5 DEF SandboxKept
<1> QED  BY <1>3, <1>4, <1>5 DEF Start

\* A server that dies between spawning and recording leaves the table refreshed.
LEMMA Crashed == ASSUME SandboxKept, NEW s \in Starts, StartCrashes(s)  PROVE SandboxKept'
<1> DEFINE p == starting[s]
<1>1. PICK i \in Pids :
         /\ process[i] = Vacant
         /\ process' = [j \in Pids |->
              IF j = i THEN [as |-> "preview", project |-> p, child |-> FALSE]
              ELSE IF process[j].as = "zombie" THEN Vacant
              ELSE [process[j] EXCEPT !.child = FALSE]]
         /\ unrecorded' = unrecorded \cup {i} /\ stopped' = stopped \ {i}
  BY DEF StartCrashes
<1>2. /\ p \in Projects /\ project' = ListAll /\ starting' = [x \in Starts |-> "none"]
  BY DEF StartCrashes, SandboxKept, SandboxTypes
<1>3. /\ ListAll \in [Projects -> ProjectRow]
      /\ \A q \in Projects, j \in Pids :
            process[j].as = "preview" /\ project[q].pid = j => ListAll[q].pid = j
  BY Listed DEF SandboxKept
<1>4. ASSUME NEW j \in Pids
      PROVE  /\ process'[j] \in SystemProcess
             /\ j # i /\ process'[j].as = "preview" =>
                   process[j].as = "preview" /\ process'[j].project = process[j].project
             /\ process'[i].as = "preview" /\ process'[i].project = p
  <2>1. process[j] \in SystemProcess
    BY DEF SandboxKept, SandboxTypes
  <2>2. [process[j] EXCEPT !.child = FALSE] \in SystemProcess
    BY <2>1 DEF SystemProcess
  <2>3. Vacant \in SystemProcess /\ Vacant.as = "none"
    BY DEF Vacant, SystemProcess
  <2>4. /\ [as |-> "preview", project |-> p, child |-> FALSE] \in SystemProcess
        /\ process'[i] = [as |-> "preview", project |-> p, child |-> FALSE]
    BY <1>1, <1>2 DEF SystemProcess
  <2>5. ASSUME j # i
        PROVE  process'[j] = IF process[j].as = "zombie" THEN Vacant
                             ELSE [process[j] EXCEPT !.child = FALSE]
    BY <1>1, <2>5
  <2>6. j # i /\ process'[j].as = "preview" =>
           process[j].as = "preview" /\ process'[j].project = process[j].project
    BY <2>1, <2>3, <2>5 DEF SystemProcess
  <2> QED  BY <2>2, <2>3, <2>4, <2>5, <2>6
<1>5. SandboxTypes'
  BY <1>1, <1>2, <1>3, <1>4 DEF SandboxKept, SandboxTypes
<1>6. ASSUME NEW j \in Pids, j \notin stopped' \cup unrecorded', process'[j].as = "preview"
      PROVE  project'[process'[j].project].pid = j
  <2>1. j # i /\ j \notin stopped \cup unrecorded
    BY <1>1, <1>6
  <2>2. process[j].as = "preview" /\ process'[j].project = process[j].project
    BY <1>4, <1>6, <2>1
  <2>3. process[j].project \in Projects /\ project[process[j].project].pid = j
    BY <2>1, <2>2 DEF SandboxKept, SandboxTypes, RunningIsRecorded
  <2> QED  BY <1>2, <1>3, <2>2, <2>3
<1> QED  BY <1>5, <1>6 DEF SandboxKept, RunningIsRecorded

\* A start that cannot write the file leaves it as it was, refreshed or not.
LEMMA Unwritten == ASSUME SandboxKept, NEW s \in Starts, StartUnwritten(s)  PROVE SandboxKept'
<1> DEFINE p == starting[s]
           new == [as |-> "preview", project |-> p, child |-> TRUE]
<1>1. PICK i \in Pids :
         /\ process[i] = Vacant /\ process' = [process EXCEPT ![i] = new]
         /\ unrecorded' = unrecorded \cup {i} /\ stopped' = stopped \ {i}
  BY DEF StartUnwritten
<1>2. /\ p \in Projects /\ project' = ListAll
      /\ starting' \in [Starts -> Projects \cup {"none"}]
  BY DEF StartUnwritten, SandboxKept, SandboxTypes
<1>3. /\ ListAll \in [Projects -> ProjectRow]
      /\ \A q \in Projects, j \in Pids :
            process[j].as = "preview" /\ project[q].pid = j => ListAll[q].pid = j
  BY Listed DEF SandboxKept
<1>4. new \in SystemProcess /\ new.project = p
  BY <1>2 DEF SystemProcess
<1> HIDE DEF new, p
<1>5. process' \in [Pids -> SystemProcess] /\ process'[i] = new
      /\ \A j \in Pids \ {i} : process'[j] = process[j]
  BY <1>1, <1>4 DEF SandboxKept, SandboxTypes
<1>6. SandboxTypes'
  BY <1>1, <1>2, <1>3, <1>4, <1>5 DEF SandboxKept, SandboxTypes
<1>7. ASSUME NEW j \in Pids, j \notin stopped' \cup unrecorded', process'[j].as = "preview"
      PROVE  project'[process'[j].project].pid = j
  <2>1. j # i /\ j \notin stopped \cup unrecorded /\ process'[j] = process[j]
    BY <1>1, <1>5, <1>7
  <2>2. process[j].project \in Projects /\ project[process[j].project].pid = j
    BY <1>7, <2>1 DEF SandboxKept, SandboxTypes, RunningIsRecorded
  <2> QED  BY <1>2, <1>3, <1>7, <2>1, <2>2
<1> QED  BY <1>6, <1>7 DEF SandboxKept, RunningIsRecorded

\* A stop forgets the pid of the process it has signalled.
LEMMA StoppedNow == ASSUME SandboxKept, NEW p \in Projects, StopProject(p)  PROVE SandboxKept'
<1> DEFINE i == ListAll[p].pid
<1>1. /\ stopped' = stopped \cup {j \in {i} : PidAlive(j)}
      /\ project' = [ListAll EXCEPT ![p] = [status |-> "stopped", pid |-> NoPid]]
      /\ UNCHANGED <<process, starting, unrecorded>>
  BY DEF StopProject
<1>2. /\ ListAll \in [Projects -> ProjectRow]
      /\ \A q \in Projects, j \in Pids :
            process[j].as = "preview" /\ project[q].pid = j => ListAll[q].pid = j
  BY Listed DEF SandboxKept
<1>3. [status |-> "stopped", pid |-> NoPid] \in ProjectRow
  BY DEF ProjectRow
<1>4. i \in Pids \cup {NoPid}
  BY <1>2 DEF ProjectRow
<1>5. SandboxTypes'
  BY <1>1, <1>2, <1>3, <1>4 DEF SandboxKept, SandboxTypes, PidAlive
<1>6. ASSUME NEW j \in Pids, j \notin stopped' \cup unrecorded', process[j].as = "preview"
      PROVE  project'[process[j].project].pid = j
  <2>1. process[j].project \in Projects /\ ListAll[process[j].project].pid = j
    BY <1>1, <1>2, <1>6 DEF SandboxKept, SandboxTypes, RunningIsRecorded
  <2>2. PidAlive(j)
    BY <1>6, SandboxAssumption DEF PidAlive
  <2>3. process[j].project # p
    BY <1>1, <1>6, <2>1, <2>2
  <2> QED  BY <1>1, <1>2, <2>1, <2>3
<1> QED  BY <1>1, <1>5, <1>6 DEF SandboxKept, RunningIsRecorded

\* Processes end and are collected, pids are given away and the server restarts: what runs is recorded.
LEMMA Environment ==
    ASSUME SandboxKept,
           ServerRestarts \/ \E i \in Pids : ProcessEnds(i) \/ Reaped(i) \/ PidReused(i)
    PROVE  SandboxKept'
<1>1. ASSUME NEW i \in Pids, ProcessEnds(i)  PROVE SandboxKept'
  <2>1. /\ process' = [process EXCEPT ![i] = IF process[i].child THEN [@ EXCEPT !.as = "zombie"]
                                             ELSE Vacant]
        /\ stopped' = stopped \ {i} /\ unrecorded' = unrecorded \ {i}
        /\ UNCHANGED <<project, starting>>
    BY <1>1 DEF ProcessEnds
  <2>2. process[i] \in SystemProcess
    BY DEF SandboxKept, SandboxTypes
  <2>3. process'[i] \in SystemProcess /\ process'[i].as # "preview"
    BY <2>1, <2>2 DEF SystemProcess, Vacant, SandboxKept, SandboxTypes
  <2>4. \A j \in Pids \ {i} : process'[j] = process[j]
    BY <2>1 DEF SandboxKept, SandboxTypes
  <2>5. process' \in [Pids -> SystemProcess]
    BY <2>1, <2>3, <2>4 DEF SandboxKept, SandboxTypes
  <2> QED  BY <2>1, <2>3, <2>4, <2>5 DEF SandboxKept, SandboxTypes, RunningIsRecorded
<1>2. ASSUME NEW i \in Pids, PidReused(i)  PROVE SandboxKept'
  <2>1. /\ process' = [process EXCEPT ![i].as = "foreign"]
        /\ UNCHANGED <<project, starting, stopped, unrecorded>>
    BY <1>2 DEF PidReused
  <2>2. process[i] \in SystemProcess
    BY DEF SandboxKept, SandboxTypes
  <2>3. process'[i] \in SystemProcess /\ process'[i].as # "preview"
    BY <2>1, <2>2 DEF SystemProcess, SandboxKept, SandboxTypes
  <2>4. \A j \in Pids \ {i} : process'[j] = process[j]
    BY <2>1 DEF SandboxKept, SandboxTypes
  <2>5. process' \in [Pids -> SystemProcess]
    BY <2>1, <2>3, <2>4 DEF SandboxKept, SandboxTypes
  <2> QED  BY <2>1, <2>3, <2>4, <2>5 DEF SandboxKept, SandboxTypes, RunningIsRecorded
<1>3. CASE ServerRestarts
  <2>1. /\ process' = [i \in Pids |-> IF process[i].as = "zombie" THEN Vacant
                                      ELSE [process[i] EXCEPT !.child = FALSE]]
        /\ starting' = [s \in Starts |-> "none"]
        /\ UNCHANGED <<project, stopped, unrecorded>>
    BY <1>3 DEF ServerRestarts
  <2>2. ASSUME NEW j \in Pids
        PROVE  /\ process'[j] \in SystemProcess
               /\ process'[j].as = "preview" =>
                     process[j].as = "preview" /\ process'[j].project = process[j].project
    <3>1. process[j] \in SystemProcess
      BY DEF SandboxKept, SandboxTypes
    <3> QED  BY <2>1, <3>1 DEF SystemProcess, Vacant
  <2> QED  BY <2>1, <2>2 DEF SandboxKept, SandboxTypes, RunningIsRecorded
<1>4. ASSUME NEW i \in Pids, Reaped(i)  PROVE SandboxKept'
  <2>1. Vacant \in SystemProcess /\ Vacant.as # "preview"
    BY DEF SystemProcess, Vacant
  <2>2. process' \in [Pids -> SystemProcess] /\ process'[i] = Vacant
        /\ \A j \in Pids \ {i} : process'[j] = process[j]
    BY <1>4, <2>1 DEF Reaped, SandboxKept, SandboxTypes
  <2> QED  BY <1>4, <2>1, <2>2 DEF Reaped, SandboxKept, SandboxTypes, RunningIsRecorded
<1> QED  BY <1>1, <1>2, <1>3, <1>4

\* A preview that nobody has stopped can be found and stopped: however starts overlap,
\* processes end and the server restarts, projects.json names it, unless the server died,
\* or could not write the file, right after it had spawned it.
THEOREM PreviewsRecorded == SandboxSpec => []RunningIsRecorded
<1>1. SandboxInit => SandboxKept
  <2> SUFFICES ASSUME SandboxInit  PROVE SandboxKept
    OBVIOUS
  <2>1. Vacant \in SystemProcess /\ Vacant.as # "preview"
    BY DEF Vacant, SystemProcess
  <2>2. [status |-> "none", pid |-> NoPid] \in ProjectRow
    BY DEF ProjectRow
  <2> QED  BY <2>1, <2>2 DEF SandboxInit, SandboxKept, SandboxTypes, RunningIsRecorded
<1>2. SandboxKept /\ [SandboxNext]_sandboxVars => SandboxKept'
  <2> SUFFICES ASSUME SandboxKept, [SandboxNext]_sandboxVars  PROVE SandboxKept'
    OBVIOUS
  <2>1. ASSUME NEW p \in Projects, CreateProject(p)  PROVE SandboxKept'
    <3>1. /\ project' = [project EXCEPT ![p].status = "created"]
          /\ UNCHANGED <<process, starting, stopped, unrecorded>>
      BY <2>1 DEF CreateProject
    <3>2. /\ project' \in [Projects -> ProjectRow]
          /\ \A q \in Projects : project'[q].pid = project[q].pid
      BY <3>1 DEF SandboxKept, SandboxTypes, ProjectRow
    <3> QED  BY <3>1, <3>2 DEF SandboxKept, SandboxTypes, RunningIsRecorded
  <2>2. ASSUME NEW p \in Projects, NEW s \in Starts, AskStart(s, p)  PROVE SandboxKept'
    BY <2>2 DEF AskStart, SandboxKept, SandboxTypes, RunningIsRecorded
  <2>3. CASE UNCHANGED sandboxVars
    BY <2>3 DEF sandboxVars, SandboxKept, SandboxTypes, RunningIsRecorded
  <2> QED
    BY <2>1, <2>2, <2>3, Started, Unwritten, Crashed, StoppedNow, Environment DEF SandboxNext
<1>3. SandboxKept => RunningIsRecorded
  BY DEF SandboxKept
<1> QED  BY <1>1, <1>2, <1>3, PTL DEF SandboxSpec

-----------------------------------------------------------------------------
(***************************************************************************)
(* The files of one chat.                                                  *)
(***************************************************************************)
ChatSpec == ChatInit /\ [][ChatNext]_chatVars

MessageRow == [role : {"user", "assistant"}, parent : Nat, seen : SUBSET Nat]

ChatRequest ==
    [at : {"idle", "answering", "failed", "streaming"}, question : Nat, listed : SUBSET Nat,
     pending : SUBSET Nat]

\* The messages right before the one at position q.
Before(q) == {j \in 1..q - 1 : q - j <= MaxHistory}

\* The latest of them, or none.
LatestBefore(q, seen) ==
    seen \subseteq Before(q) /\ \A j \in seen : j..q - 1 \subseteq seen

\* An answer stands behind its question and was based on what stands before it.
Based(file, m, i) ==
    m.parent # 0 =>
        /\ m.parent < i /\ file[m.parent].role = "user"
        /\ LatestBefore(m.parent, m.seen)

\* What a request holds while it waits for its models.
Holds(file, w) ==
    w.at # "idle" =>
        /\ w.question \in 1..Len(file) /\ file[w.question].role = "user"
        /\ w.listed = Before(w.question)

ChatKept ==
    /\ chat \in [exists : BOOLEAN, profiles : Nat]
    /\ messages \in Seq(MessageRow)
    /\ request \in [Askers -> ChatRequest]
    /\ \A i \in 1..Len(messages) : Based(messages, messages[i], i)
    /\ \A r \in Askers : Holds(messages, request[r])

\* The file only grows: what is in it, and what requests remember of it, stays.
LEMMA Appending ==
    ASSUME ChatKept, NEW m \in MessageRow, messages' = Append(messages, m),
           m.parent # 0 =>
               /\ m.parent \in 1..Len(messages) /\ messages[m.parent].role = "user"
               /\ LatestBefore(m.parent, m.seen)
    PROVE  /\ messages' \in Seq(MessageRow)
           /\ Len(messages') = Len(messages) + 1
           /\ messages'[Len(messages) + 1] = m
           /\ \A i \in 1..Len(messages') : Based(messages', messages'[i], i)
           /\ \A r \in Askers : Holds(messages', request[r])
<1> DEFINE n == Len(messages)
<1>1. n \in Nat /\ messages \in Seq(MessageRow)
  BY DEF ChatKept
<1>2. /\ messages' \in Seq(MessageRow) /\ Len(messages') = n + 1 /\ messages'[n + 1] = m
      /\ \A i \in 1..n : messages'[i] = messages[i]
  BY <1>1
<1> HIDE DEF n
<1>3. ASSUME NEW i \in 1..n + 1  PROVE Based(messages', messages'[i], i)
  <2>1. CASE i = n + 1
    BY <1>1, <1>2, <2>1 DEF Based, n
  <2>2. CASE i \in 1..n
    <3>1. messages'[i] = messages[i] /\ messages[i] \in MessageRow /\ Based(messages, messages[i], i)
      BY <1>1, <1>2, <2>2 DEF ChatKept, n
    <3>2. ASSUME messages[i].parent # 0  PROVE messages[i].parent \in 1..n
      BY <1>1, <2>2, <3>1, <3>2 DEF Based, MessageRow
    <3> QED  BY <1>2, <3>1, <3>2 DEF Based
  <2>3. i = n + 1 \/ i \in 1..n
    BY <1>1
  <2> QED  BY <2>1, <2>2, <2>3
<1>4. ASSUME NEW r \in Askers  PROVE Holds(messages', request[r])
  <2>1. Holds(messages, request[r])
    BY DEF ChatKept
  <2> QED  BY <1>1, <1>2, <2>1 DEF Holds, n
<1> QED  BY <1>2, <1>3, <1>4 DEF n

\* A request that stores its question now was shown what stood before it.
LEMMA Asks ==
    ASSUME ChatKept, NEW r \in Askers, NEW at \in {"answering", "streaming"}, NEW models \in Nat,
           messages' = Append(messages, Message("user", 0, {})), Ask(r, at, models), chat' = chat
    PROVE  ChatKept'
<1> DEFINE m == Message("user", 0, {})
           n == Len(messages)
           w == [at |-> at, question |-> n + 1, listed |-> History(n), pending |-> 1..models]
<1>1. m \in MessageRow /\ m.parent = 0 /\ m.role = "user"
  BY DEF Message, MessageRow
<1> HIDE DEF m
<1>2. /\ messages' \in Seq(MessageRow) /\ Len(messages') = n + 1 /\ messages'[n + 1] = m
      /\ \A i \in 1..Len(messages') : Based(messages', messages'[i], i)
      /\ \A b \in Askers : Holds(messages', request[b])
  BY <1>1, Appending DEF m
<1>3. n \in Nat
  BY DEF ChatKept
<1>4. request' = [request EXCEPT ![r] = w]
  BY DEF Ask
<1> HIDE DEF n
<1>5. History(n) = Before(n + 1)
  BY <1>3, ChatAssumption DEF History, Before
<1>6. History(n) \in SUBSET Nat /\ 1..models \in SUBSET Nat
  BY DEF History
<1>7. w \in ChatRequest
  BY <1>3, <1>6 DEF ChatRequest
<1>8. Holds(messages', w)
  BY <1>1, <1>2, <1>3, <1>5 DEF Holds
<1> HIDE DEF w
<1>9. /\ request' \in [Askers -> ChatRequest] /\ request'[r] = w
      /\ \A b \in Askers \ {r} : request'[b] = request[b]
  BY <1>4, <1>7 DEF ChatKept
<1> QED  BY <1>2, <1>8, <1>9 DEF ChatKept

\* A request's record changes in what it still waits for, or is dropped.
LEMMA RequestChanges ==
    ASSUME ChatKept, NEW r \in Askers, NEW w \in ChatRequest,
           messages' \in Seq(MessageRow),
           \A i \in 1..Len(messages') : Based(messages', messages'[i], i),
           \A b \in Askers : Holds(messages', request[b]),
           w.at # "idle" => /\ request[r].at # "idle"
                            /\ w.question = request[r].question /\ w.listed = request[r].listed,
           \A b \in Askers \ {r} : request'[b] = request[b], request'[r] = w,
           request' \in [Askers -> ChatRequest], chat' = chat
    PROVE  ChatKept'
<1>1. Holds(messages', w)
  BY DEF Holds
<1> QED  BY <1>1 DEF ChatKept

\* Nobody waits any more.
LEMMA NoneWaits == NoChatRequest \in ChatRequest /\ NoChatRequest.at = "idle"
  BY DEF NoChatRequest, ChatRequest

\* The answer of a model is stored behind the question it was asked, and what the model
\* was shown is the latest of what was listed.
LEMMA Answering ==
    ASSUME ChatKept, NEW r \in Askers, request[r].at # "idle", NEW seen \in Shown(request[r]),
           messages' = Append(messages, Message("assistant", request[r].question, seen))
    PROVE  /\ messages' \in Seq(MessageRow)
           /\ \A i \in 1..Len(messages') : Based(messages', messages'[i], i)
           /\ \A b \in Askers : Holds(messages', request[b])
<1> DEFINE q == request[r].question
           m == Message("assistant", q, seen)
<1>1. /\ request[r] \in ChatRequest /\ Holds(messages, request[r])
      /\ q \in Nat /\ request[r].listed = Before(q)
  BY DEF ChatKept, Holds, ChatRequest
<1>2. PICK from \in 1..q : seen = {i \in Before(q) : i >= from}
  BY <1>1 DEF Shown
<1>3. LatestBefore(q, seen)
  <2>1. ASSUME NEW j \in seen, NEW i \in j..q - 1  PROVE i \in seen
    BY <1>1, <1>2, <2>1, ChatAssumption DEF Before
  <2> QED  BY <1>2, <2>1 DEF LatestBefore
<1>4. seen \in SUBSET Nat
  BY <1>2 DEF Before
<1>5. m \in MessageRow /\ m.parent = q /\ m.seen = seen
  BY <1>1, <1>4 DEF Message, MessageRow
<1> HIDE DEF m
<1>6. messages' = Append(messages, m)
  BY DEF m
<1> QED  BY <1>1, <1>3, <1>5, <1>6, Appending DEF Holds

\* The question is stored before the request has anything to wait for.
LEMMA Sends == ASSUME ChatKept, NEW r \in Askers, SendMessage(r) \/ StreamMessage(r)  PROVE ChatKept'
<1>1. messages' = Append(messages, Message("user", 0, {})) /\ chat' = chat
  BY DEF SendMessage, StreamMessage, AppendMessage
<1>2. CASE UNCHANGED request
  <2> DEFINE m == Message("user", 0, {})
  <2>1. m \in MessageRow /\ m.parent = 0
    BY DEF Message, MessageRow
  <2> HIDE DEF m
  <2>2. /\ messages' \in Seq(MessageRow)
        /\ \A i \in 1..Len(messages') : Based(messages', messages'[i], i)
        /\ \A b \in Askers : Holds(messages', request[b])
    BY <1>1, <2>1, Appending DEF m
  <2> QED  BY <1>1, <1>2, <2>2 DEF ChatKept
<1>3. ASSUME NEW given \in 0..MaxModels, Ask(r, "answering", Asked(given))  PROVE ChatKept'
  <2>1. Asked(given) \in Nat
    BY ChatAssumption DEF Asked, ChatKept
  <2> QED  BY <1>1, <1>3, <2>1, Asks
<1>4. CASE Ask(r, "streaming", 1)
  BY <1>1, <1>4, Asks
<1> QED  BY <1>2, <1>3, <1>4 DEF SendMessage, StreamMessage

\* One of the gathered coroutines answers or raises.
LEMMA Models ==
    ASSUME ChatKept, NEW r \in Askers, NEW k \in 1..MaxModels,
           ModelResponds(r, k) \/ ModelRaises(r, k)
    PROVE  ChatKept'
<1> DEFINE left == request[r].pending \ {k}
           w == [request[r] EXCEPT !.pending = left]
           u == [request[r] EXCEPT !.pending = left, !.at = "failed"]
<1>1. request[r] \in ChatRequest /\ request[r].at # "idle" /\ chat' = chat
  BY DEF ChatKept, ModelResponds, ModelRaises
<1>2. left \in SUBSET Nat
  BY <1>1 DEF ChatRequest
<1>3. /\ w \in ChatRequest /\ w.question = request[r].question /\ w.listed = request[r].listed
      /\ u \in ChatRequest /\ u.question = request[r].question /\ u.listed = request[r].listed
  BY <1>1, <1>2 DEF ChatRequest
<1>4. CASE ModelResponds(r, k)
  <2>1. /\ \E seen \in Shown(request[r]) :
              messages' = Append(messages, Message("assistant", request[r].question, seen))
        /\ request' = [request EXCEPT ![r] = w]
    BY <1>4 DEF ModelResponds, AppendMessage
  <2> HIDE DEF w, u
  <2>2. /\ request'[r] = w /\ request' \in [Askers -> ChatRequest]
        /\ \A b \in Askers \ {r} : request'[b] = request[b]
    BY <1>3, <2>1 DEF ChatKept
  <2>3. /\ messages' \in Seq(MessageRow)
        /\ \A i \in 1..Len(messages') : Based(messages', messages'[i], i)
        /\ \A b \in Askers : Holds(messages', request[b])
    BY <1>1, <2>1, Answering
  <2> QED  BY <1>1, <1>3, <2>2, <2>3, RequestChanges
<1>5. CASE ModelRaises(r, k)
  <2>1. /\ messages' = messages
        /\ request'[r] = u /\ \A b \in Askers \ {r} : request'[b] = request[b]
        /\ request' = [b \in Askers |-> request'[b]]
    BY <1>5 DEF ModelRaises, ChatKept
  <2> HIDE DEF w, u
  <2>2. request' \in [Askers -> ChatRequest]
    BY <1>3, <2>1 DEF ChatKept
  <2> QED  BY <1>1, <1>3, <2>1, <2>2, RequestChanges DEF ChatKept
<1> QED  BY <1>4, <1>5

\* A stream ends with its answer in the file, or without; the request is over.
LEMMA RequestEnds ==
    ASSUME ChatKept, NEW r \in Askers, StreamEnds(r) \/ EndRequest(r)
    PROVE  ChatKept'
<1>1. /\ request' = [request EXCEPT ![r] = NoChatRequest] /\ chat' = chat
      /\ request[r].at # "idle"
  BY DEF StreamEnds, EndRequest
<1>2. /\ request' \in [Askers -> ChatRequest] /\ request'[r] = NoChatRequest
      /\ \A b \in Askers \ {r} : request'[b] = request[b]
  BY <1>1, NoneWaits DEF ChatKept
<1>3. /\ messages' \in Seq(MessageRow)
      /\ \A i \in 1..Len(messages') : Based(messages', messages'[i], i)
      /\ \A b \in Askers : Holds(messages', request[b])
  <2>1. CASE messages' = messages
    BY <2>1 DEF ChatKept
  <2>2. CASE \E seen \in Shown(request[r]) :
               messages' = Append(messages, Message("assistant", request[r].question, seen))
    BY <1>1, <2>2, Answering
  <2> QED  BY <2>1, <2>2 DEF StreamEnds, EndRequest, AppendMessage
<1> QED  BY <1>1, <1>2, <1>3, NoneWaits, RequestChanges

\* Messages of any role without a parent.
LEMMA RawAppended == ASSUME ChatKept, AppendRaw  PROVE ChatKept'
<1>1. PICK role \in {"user", "assistant"} : messages' = Append(messages, Message(role, 0, {}))
  BY DEF AppendRaw, AppendMessage
<1>2. chat' = chat /\ request' = request
  BY DEF AppendRaw
<1> DEFINE m == Message(role, 0, {})
<1>3. m \in MessageRow /\ m.parent = 0
  BY DEF Message, MessageRow
<1> HIDE DEF m
<1>4. /\ messages' \in Seq(MessageRow)
      /\ \A i \in 1..Len(messages') : Based(messages', messages'[i], i)
      /\ \A b \in Askers : Holds(messages', request[b])
  BY <1>1, <1>3, Appending DEF m
<1> QED  BY <1>2, <1>4 DEF ChatKept

-----------------------------------------------------------------------------
(* The run of the conversation.                                            *)

LogKept ==
    /\ convRun.events \in Seq(RunStates)
    /\ convRun.state # "none" => convRun.events # <<>>
    /\ StateIsLogged

\* Cutting the log down to the last events keeps the last of them.
LEMMA Cutting ==
    ASSUME NEW events \in Seq(RunStates), events # <<>>
    PROVE  /\ KeptEvents(events) \in Seq(RunStates) /\ KeptEvents(events) # <<>>
           /\ Last(KeptEvents(events)) = Last(events)
<1> DEFINE n == Len(events)
           from == IF n > MaxRunEvents THEN n - MaxRunEvents + 1 ELSE 1
           kept == SubSeq(events, from, n)
<1>1. n \in Nat \ {0}
  OBVIOUS
<1>2. from \in 1..n
  BY <1>1, ChatAssumption
<1> HIDE DEF from
<1>3. kept \in Seq(RunStates) /\ Len(kept) = n - from + 1 /\ kept[n - from + 1] = events[n]
  BY <1>1, <1>2
<1>4. kept # <<>> /\ Last(kept) = Last(events)
  <2>1. Last(kept) = kept[n - from + 1] /\ Last(events) = events[n]
    BY <1>3 DEF Last
  <2>2. Len(kept) # 0
    BY <1>1, <1>2, <1>3
  <2> HIDE DEF n, kept
  <2>3. kept # <<>>
    BY <2>2
  <2> QED  BY <1>3, <2>1, <2>3
<1> QED  BY <1>3, <1>4 DEF KeptEvents, from

\* Any state after any other: the change is noted before the log is cut.
LEMMA RunsUpdated == ASSUME LogKept, UpdateRun  PROVE LogKept'
<1>1. PICK s \in RunStates, named \in BOOLEAN :
         convRun' = [state |-> s,
                     events |-> KeptEvents(IF named \/ s # convRun.state
                                     THEN Append(convRun.events, s) ELSE convRun.events)]
  BY DEF UpdateRun
<1> DEFINE old == convRun.events
           new == IF named \/ s # convRun.state THEN Append(old, s) ELSE old
<1>2. old \in Seq(RunStates) /\ old # <<>> /\ convRun.state = Last(old)
  BY DEF UpdateRun, LogKept, StateIsLogged
<1>3. new \in Seq(RunStates) /\ new # <<>> /\ Last(new) = s
  <2>1. CASE named \/ s # convRun.state
    BY <1>2, <2>1 DEF Last
  <2>2. CASE ~(named \/ s # convRun.state)
    BY <1>2, <2>2
  <2> QED  BY <2>1, <2>2
<1>4. convRun'.state = s /\ convRun'.events = KeptEvents(new)
  BY <1>1
<1> HIDE DEF new
<1> QED  BY <1>3, <1>4, Cutting DEF LogKept, StateIsLogged

\* However requests overlap, an answer stands behind its question and of the chat its
\* model was shown only the latest messages before the question; however many updates a run has
\* seen, the last event it keeps tells its state.
THEOREM ChatFilesKept == ChatSpec => []ChatFiles
<1>1. ChatInit => ChatKept /\ LogKept
  <2> SUFFICES ASSUME ChatInit  PROVE ChatKept /\ LogKept
    OBVIOUS
  <2>1. ChatKept
    BY NoneWaits DEF ChatInit, ChatKept, Holds
  <2>2. LogKept
    BY DEF ChatInit, LogKept, StateIsLogged
  <2> QED  BY <2>1, <2>2
<1>2. ChatKept /\ LogKept /\ [ChatNext]_chatVars => (ChatKept /\ LogKept)'
  <2> SUFFICES ASSUME ChatKept, LogKept, [ChatNext]_chatVars  PROVE ChatKept' /\ LogKept'
    OBVIOUS
  <2>1. ASSUME UNCHANGED <<chat, messages, request>>  PROVE ChatKept'
    BY <2>1 DEF ChatKept
  <2>2. ASSUME UNCHANGED convRun  PROVE LogKept'
    BY <2>2 DEF LogKept, StateIsLogged
  <2>3. ASSUME NEW r \in Askers,
               \/ SendMessage(r) \/ StreamMessage(r) \/ StreamEnds(r) \/ EndRequest(r)
               \/ \E k \in 1..MaxModels : ModelResponds(r, k) \/ ModelRaises(r, k)
        PROVE  ChatKept' /\ LogKept'
    <3>1. UNCHANGED convRun
      BY <2>3 DEF SendMessage, StreamMessage, StreamEnds, EndRequest, ModelResponds, ModelRaises
    <3> QED  BY <2>2, <2>3, <3>1, Sends, RequestEnds, Models
  <2>4. CASE CreateChat \/ UpdateChat
    <3>1. /\ chat' \in [exists : BOOLEAN, profiles : Nat]
          /\ UNCHANGED <<messages, request, convRun>>
      <4>1. CASE CreateChat
        BY <4>1, ChatAssumption DEF CreateChat
      <4>2. CASE UpdateChat
        BY <4>2, ChatAssumption DEF UpdateChat, ChatKept
      <4> QED  BY <2>4, <4>1, <4>2
    <3> QED  BY <2>2, <3>1 DEF ChatKept
  <2>5. CASE AppendRaw
    BY <2>2, <2>5, RawAppended DEF AppendRaw
  <2>6. CASE ChatRestart
    <3>1. /\ request' = [r \in Askers |-> NoChatRequest]
          /\ UNCHANGED <<chat, messages, convRun>>
      BY <2>6 DEF ChatRestart
    <3>2. ChatKept'
      BY <3>1, NoneWaits DEF ChatKept, Holds
    <3> QED  BY <2>2, <3>1, <3>2
  <2>7. CASE CreateRun
    <3>1. PICK s \in RunStates : convRun' = [state |-> s, events |-> <<s>>]
      BY <2>7 DEF CreateRun
    <3>2. convRun'.events = <<s>> /\ convRun'.state = s
      BY <3>1
    <3>3. LogKept'
      BY <3>2 DEF LogKept, StateIsLogged, Last
    <3> QED  BY <2>1, <2>7, <3>3 DEF CreateRun
  <2>8. CASE UpdateRun
    BY <2>1, <2>8, RunsUpdated DEF UpdateRun
  <2>9. CASE UNCHANGED chatVars
    BY <2>1, <2>2, <2>9 DEF chatVars
  <2> QED  BY <2>3, <2>4, <2>5, <2>6, <2>7, <2>8, <2>9 DEF ChatNext
<1>3. ChatKept /\ LogKept => ChatFiles
  <2> SUFFICES ASSUME ChatKept, LogKept  PROVE ChatFiles
    OBVIOUS
  <2>1. ASSUME NEW i \in 1..Len(messages), messages[i].parent # 0
        PROVE  LET p == messages[i].parent IN
               /\ p < i /\ messages[p].role = "user"
               /\ \A j \in messages[i].seen :
                    j < p /\ p - j <= MaxHistory /\ j..p - 1 \subseteq messages[i].seen
    <3>1. messages[i] \in MessageRow /\ Based(messages, messages[i], i)
      BY DEF ChatKept
    <3> QED  BY <2>1, <3>1 DEF Based, LatestBefore, Before, MessageRow
  <2> QED  BY <2>1 DEF LogKept, ChatFiles, AnsweredFromBefore
<1> QED  BY <1>1, <1>2, <1>3, PTL DEF ChatSpec

-----------------------------------------------------------------------------
(***************************************************************************)
(* The browser runs and their approvals.                                   *)
(***************************************************************************)
BrowserSpec == BrowserInit /\ [][BrowserNext]_browserVars

PageRequest ==
    [status : Status \cup {"none"}, kind : {"tool_permission", NULL}, work : Urls \cup {NULL},
     snap : {NULL}]

BrowserRun ==
    [at : {"policy", "opening", "reading", "saving"}, url : Urls, shared : BOOLEAN,
     given : Req \cup {NULL}, leave : Req \cup {NULL}, text : Urls \cup {NULL}]

\* What was opened, or will be, by a leave has it for this page.
ByLeave(file, given, w) ==
    w.leave # NULL => w.leave \in given /\ file[w.leave].work = w.url

\* Requests come one after the other.
InOrder == \A q \in Stored(asked), p \in Unused(asked) : q < p

\* A request that is settled was permitted: nothing but a human's yes precedes it.
BrowserKept ==
    /\ byRun \subseteq Stored(asked) /\ InOrder
    /\ asked \in [Req -> PageRequest]
    /\ permitted \subseteq Stored(asked)
    /\ page \in Urls \cup {NULL}
    /\ run \in [Tabs -> {NoRun} \cup BrowserRun]
    /\ \A q \in Req : Settled(q) => q \in permitted
    /\ \A t \in Tabs : run[t] # NoRun => ByLeave(asked, permitted, run[t])
    /\ \A a \in artifacts : ByLeave(asked, permitted, a)
    /\ AskedOnce

\* A coroutine goes on; the requests stay as they are.
LEMMA RunGoesOn ==
    ASSUME BrowserKept, NEW t \in Tabs, NEW w \in {NoRun} \cup BrowserRun,
           run' = [run EXCEPT ![t] = w], w # NoRun => ByLeave(asked, permitted, w),
           asked' = asked, byRun' = byRun, permitted' = permitted, page' \in Urls \cup {NULL},
           \A a \in artifacts' : ByLeave(asked, permitted, a)
    PROVE  BrowserKept'
<1>1. run' \in [Tabs -> {NoRun} \cup BrowserRun]
  BY DEF BrowserKept
<1>2. \A b \in Tabs : run'[b] # NoRun => ByLeave(asked, permitted, run'[b])
  BY DEF BrowserKept
<1> QED  BY <1>1, <1>2 DEF BrowserKept, Settled, AskedOnce, InOrder, Stored, Unused

\* A run takes its page, its engine and the approval that the caller names.
LEMMA RunsBrowser == ASSUME BrowserKept, NEW t \in Tabs, RunBrowser(t)  PROVE BrowserKept'
<1>1. PICK url \in Urls, shared \in BOOLEAN, given \in Stored(asked) \cup {NULL} :
         run' = [run EXCEPT ![t] = [at |-> "policy", url |-> url, shared |-> shared,
                                    given |-> given, leave |-> NULL, text |-> NULL]]
  BY DEF RunBrowser
<1> DEFINE w == [at |-> "policy", url |-> url, shared |-> shared, given |-> given,
                 leave |-> NULL, text |-> NULL]
<1>2. w \in BrowserRun /\ w.leave = NULL
  BY DEF BrowserRun, Stored
<1> HIDE DEF w
<1>3. run' = [run EXCEPT ![t] = w]
  BY <1>1 DEF w
<1> QED  BY <1>2, <1>3, RunGoesOn DEF RunBrowser, BrowserKept, ByLeave

\* Everything between the policy and the artifact.
LEMMA RunsOn ==
    ASSUME BrowserKept, NEW t \in Tabs,
           \/ OpenOwnPage(t) \/ OpenSharedPage(t) \/ ReadPage(t) \/ RunFails(t)
           \/ CreateArtifact(t)
    PROVE  BrowserKept'
<1> DEFINE w == run[t]
<1>1. w \in BrowserRun /\ ByLeave(asked, permitted, w)
  <2>1. w # NoRun
    BY DEF OpenOwnPage, OpenSharedPage, ReadPage, RunFails, CreateArtifact, NoRun
  <2> QED  BY <2>1 DEF BrowserKept
<1>2. asked' = asked /\ byRun' = byRun /\ permitted' = permitted
  BY DEF OpenOwnPage, OpenSharedPage, ReadPage, RunFails, CreateArtifact
<1>3. ASSUME NEW at \in {"reading"}, run' = [run EXCEPT ![t].at = at],
             page' \in Urls \cup {NULL}, artifacts' = artifacts
      PROVE  BrowserKept'
  <2> DEFINE u == [w EXCEPT !.at = at]
  <2>1. u \in BrowserRun /\ u.leave = w.leave /\ u.url = w.url
    BY <1>1, <1>3 DEF BrowserRun
  <2>2. run' = [run EXCEPT ![t] = u]
    BY <1>3
  <2> HIDE DEF u, w
  <2>3. ByLeave(asked, permitted, u)
    BY <1>1, <2>1 DEF ByLeave
  <2> QED  BY <1>2, <1>3, <2>1, <2>2, <2>3, RunGoesOn DEF BrowserKept
<1>4. ASSUME NEW text \in Urls \cup {NULL},
             run' = [run EXCEPT ![t].at = "saving", ![t].text = text],
             page' = page, artifacts' = artifacts
      PROVE  BrowserKept'
  <2> DEFINE u == [w EXCEPT !.at = "saving", !.text = text]
  <2>1. u \in BrowserRun /\ u.leave = w.leave /\ u.url = w.url
    BY <1>1 DEF BrowserRun
  <2>2. /\ \A b \in Tabs : run'[b] = IF b = t THEN u ELSE run[b]
        /\ run' = [b \in Tabs |-> run'[b]]
    BY <1>4 DEF BrowserKept
  <2> HIDE DEF u, w
  <2>3. ByLeave(asked, permitted, u)
    BY <1>1, <2>1 DEF ByLeave
  <2>4. run' \in [Tabs -> {NoRun} \cup BrowserRun]
    BY <2>1, <2>2 DEF BrowserKept
  <2>5. \A b \in Tabs : run'[b] # NoRun => ByLeave(asked, permitted, run'[b])
    BY <2>2, <2>3 DEF BrowserKept
  <2> QED  BY <1>2, <1>4, <2>4, <2>5 DEF BrowserKept, Settled, AskedOnce, InOrder, Stored, Unused
<1>5. CASE CreateArtifact(t)
  <2> DEFINE a == [url |-> run[t].url, leave |-> run[t].leave, text |-> run[t].text]
  <2>1. ByLeave(asked, permitted, a)
    BY <1>1 DEF ByLeave
  <2> HIDE DEF a
  <2>2. \A b \in artifacts' : ByLeave(asked, permitted, b)
    BY <1>5, <2>1 DEF CreateArtifact, BrowserKept, a
  <2> QED  BY <1>2, <1>5, <2>2, RunGoesOn DEF CreateArtifact, BrowserKept
<1>6. w.url \in Urls /\ page \in Urls \cup {NULL}
  BY <1>1 DEF BrowserRun, BrowserKept
<1>7. CASE OpenOwnPage(t) \/ OpenSharedPage(t)
  BY <1>3, <1>6, <1>7 DEF OpenOwnPage, OpenSharedPage
<1>8. CASE ReadPage(t)
  BY <1>4, <1>6, <1>8 DEF ReadPage
<1>9. CASE RunFails(t)
  BY <1>4, <1>9 DEF RunFails
<1> QED  BY <1>5, <1>7, <1>8, <1>9

\* The request with the smallest free number is a free one.
LEMMA NextFree ==
    ASSUME Unused(asked) # {}
    PROVE  NextRequest \in Unused(asked) /\ \A p \in Unused(asked) : NextRequest <= p
<1>1. Unused(asked) \subseteq Nat
  BY BrowserAssumption DEF Unused
<1>2. \E q \in Unused(asked) : \A p \in Unused(asked) : q <= p
  BY <1>1, Smallest
<1> QED  BY <1>2 DEF NextRequest

\* Of the requests for a page one is the newest.
LEMMA TheMatch ==
    ASSUME NEW url, Matching(url) # {}
    PROVE  MostRecent(url) \in Matching(url)
<1>1. Matching(url) \in SUBSET Req
  BY DEF Matching
<1>2. \E q \in Matching(url) : \A p \in Matching(url) : p <= q
  BY <1>1, BrowserAssumption
<1> QED  BY <1>2 DEF MostRecent

\* Whoever files the next request: it is the newest, and nothing else changes.
LEMMA Filed ==
    ASSUME BrowserKept, Unused(asked) # {}, NEW url \in Urls,
           asked' = [asked EXCEPT ![NextRequest] = Created("tool_permission", url)],
           \/ byRun' = byRun
           \/ Matching(url) = {} /\ byRun' = byRun \cup {NextRequest},
           run' \in [Tabs -> {NoRun} \cup BrowserRun],
           \A b \in Tabs : run'[b] = NoRun \/ run'[b] = run[b],
           permitted' = permitted, page' = page, artifacts' = artifacts
    PROVE  BrowserKept'
<1> DEFINE q == NextRequest
           r == Created("tool_permission", url)
<1>1. /\ q \in Req /\ q \notin Stored(asked) /\ q \notin permitted
      /\ \A p \in Unused(asked) : q <= p /\ p \in Nat
      /\ \A p \in Stored(asked) : p < q /\ p \in Nat
  <2>1. q \in Unused(asked) /\ \A p \in Unused(asked) : q <= p
    BY NextFree
  <2> QED  BY <2>1, BrowserAssumption DEF Unused, BrowserKept, InOrder, Stored
<1>2. r \in PageRequest /\ r.status = "pending" /\ r.work = url
  BY DEF Created, PageRequest, Status
<1> HIDE DEF r
<1>3. /\ asked' \in [Req -> PageRequest] /\ asked'[q] = r
      /\ \A p \in Req \ {q} : asked'[p] = asked[p]
  BY <1>1, <1>2 DEF BrowserKept, r
<1> HIDE DEF q
<1>4. /\ Stored(asked') = Stored(asked) \cup {q} /\ Unused(asked') = Unused(asked) \ {q}
      /\ \A p \in Stored(asked) : p # q /\ asked'[p] = asked[p]
  BY <1>1, <1>2, <1>3 DEF Stored, Unused
<1>5. \A v : ByLeave(asked, permitted, v) => ByLeave(asked', permitted', v)
  BY <1>4 DEF ByLeave, BrowserKept
<1>6. AskedOnce'
  <2> SUFFICES ASSUME NEW i \in byRun', NEW p \in Stored(asked'),
                      asked'[p].work = asked'[i].work
               PROVE  i <= p
    BY DEF AskedOnce
  <2>1. q \in Nat
    BY <1>1, BrowserAssumption
  <2>2. CASE i \in byRun /\ p \in Stored(asked)
    BY <1>4, <2>2 DEF BrowserKept, AskedOnce
  <2>3. CASE i \in byRun /\ p = q
    BY <1>1, <2>1, <2>3 DEF BrowserKept
  <2>4. CASE i = q /\ p = q
    BY <2>1, <2>4
  <2>5. CASE i = q /\ i \notin byRun /\ p \in Stored(asked)
    <3>1. Matching(url) = {}
      BY <2>5 DEF q
    <3>2. asked[p].work = url
      BY <1>2, <1>3, <1>4, <2>5
    <3> QED  BY <2>5, <3>1, <3>2 DEF Matching, BrowserMatches, Stored
  <2>6. (i \in byRun \/ i = q) /\ (p \in Stored(asked) \/ p = q)
    BY <1>4 DEF q
  <2> QED  BY <2>2, <2>3, <2>4, <2>5, <2>6
<1>7. InOrder'
  BY <1>1, <1>4, BrowserAssumption DEF InOrder, BrowserKept, Unused
<1>8. byRun' \subseteq Stored(asked') /\ permitted' \subseteq Stored(asked')
  BY <1>4 DEF BrowserKept, q
<1>9. \A p \in Req : Settled(p)' => p \in permitted'
  BY <1>2, <1>3 DEF Settled, BrowserKept
<1> QED  BY <1>3, <1>5, <1>6, <1>7, <1>8, <1>9 DEF BrowserKept

\* After the policy: a run goes on without asking, or by a settled request for its very
\* page, or files the one request there is for it, or gives up.
LEMMA Decides == ASSUME BrowserKept, NEW t \in Tabs, ApprovalOrNone(t)  PROVE BrowserKept'
<1> DEFINE w == run[t]
           url == w.url
<1>1. w \in BrowserRun /\ permitted' = permitted /\ page' = page /\ artifacts' = artifacts
  BY DEF ApprovalOrNone, BrowserKept, NoRun
<1>2. ASSUME Refuse(t), asked' = asked, byRun' = byRun  PROVE BrowserKept'
  BY <1>1, <1>2, RunGoesOn DEF Refuse, BrowserKept
<1>3. ASSUME NEW leave \in Req \cup {NULL}, Go(t, leave), asked' = asked, byRun' = byRun,
             leave # NULL => BrowserMatches(leave, url) /\ Settled(leave)
      PROVE  BrowserKept'
  <2> DEFINE u == [w EXCEPT !.at = "opening", !.leave = leave, !.given = NULL]
  <2>1. u \in BrowserRun /\ u.leave = leave /\ u.url = url
    BY <1>1 DEF BrowserRun
  <2>2. /\ \A b \in Tabs : run'[b] = IF b = t THEN u ELSE run[b]
        /\ run' = [b \in Tabs |-> run'[b]]
    BY <1>3 DEF Go, BrowserKept
  <2> HIDE DEF u
  <2>3. ByLeave(asked, permitted, u)
    BY <1>3, <2>1 DEF ByLeave, BrowserMatches, BrowserKept
  <2>4. run' \in [Tabs -> {NoRun} \cup BrowserRun]
    BY <2>1, <2>2 DEF BrowserKept
  <2>5. \A b \in Tabs : run'[b] # NoRun => ByLeave(asked, permitted, run'[b])
    BY <2>2, <2>3 DEF BrowserKept
  <2> QED  BY <1>1, <1>3, <2>4, <2>5 DEF BrowserKept, Settled, AskedOnce, InOrder, Stored, Unused
<1>4. ASSUME Matching(url) = {}, Unused(asked) # {}, Refuse(t),
             asked' = [asked EXCEPT ![NextRequest] = Created("tool_permission", url)],
             byRun' = byRun \cup {NextRequest}
      PROVE  BrowserKept'
  <2>1. url \in Urls
    BY <1>1 DEF BrowserRun
  <2>2. run' \in [Tabs -> {NoRun} \cup BrowserRun] /\ \A b \in Tabs : run'[b] = NoRun \/ run'[b] = run[b]
    BY <1>4 DEF Refuse, BrowserKept
  <2> HIDE DEF w, url
  <2> QED  BY <1>1, <1>4, <2>1, <2>2, Filed
<1>5. w.given \in Req \cup {NULL} /\ NULL \in Req \cup {NULL}
  BY <1>1 DEF BrowserRun
<1>6. Matching(url) # {} => MostRecent(url) \in Req /\ BrowserMatches(MostRecent(url), url)
  BY TheMatch DEF Matching
<1> QED  BY <1>2, <1>3, <1>4, <1>5, <1>6 DEF ApprovalOrNone

\* A human's verdict: what becomes settled has been permitted.
LEMMA Verdicts == ASSUME BrowserKept, NEW q \in Req, Settle(q)  PROVE BrowserKept'
<1>1. /\ q \in Stored(asked) /\ byRun' = byRun
      /\ run' = run /\ page' = page /\ artifacts' = artifacts
      /\ permitted \subseteq permitted' /\ permitted' \subseteq permitted \cup {q}
  BY DEF Settle
<1>2. PICK status \in Status :
         /\ asked' = [asked EXCEPT ![q].status = status]
         /\ status \in {"approved", "completed"} => q \in permitted'
  <2>1. asked[q] \in PageRequest
    BY DEF BrowserKept
  <2>2. CASE asked' = [asked EXCEPT ![q] = Approved(@)] /\ asked[q].status = "pending"
             /\ permitted' = permitted \cup {p \in {q} : asked[q].status = "pending"}
    BY <2>2 DEF Approved, WithStatus, Status
  <2>3. CASE asked' = [asked EXCEPT ![q] = Approved(@)] /\ asked[q].status # "pending"
    <3>1. asked' = asked
      BY <2>3 DEF Approved, BrowserKept
    <3>2. asked' = [asked EXCEPT ![q].status = asked[q].status]
      <4>1. [asked[q] EXCEPT !.status = asked[q].status] = asked[q]
        BY <2>1 DEF PageRequest
      <4> QED  BY <3>1, <4>1 DEF BrowserKept
    <3>3. asked[q].status \in Status
      BY <1>1, <2>1 DEF PageRequest, Stored
    <3> QED  BY <1>1, <3>2, <3>3 DEF BrowserKept, Settled
  <2>4. CASE asked' = [asked EXCEPT ![q] = Responded(@)] /\ permitted' = permitted \cup {q}
    BY <2>4 DEF Responded, WithStatus, Status
  <2>5. CASE asked' = [asked EXCEPT ![q] = Rejected(@)]
    BY <2>5 DEF Rejected, WithStatus, Status
  <2>6. CASE asked[q].status = "approved" /\ asked' = [asked EXCEPT ![q] = Completed(@)]
    <3>1. q \in permitted'
      BY <1>1, <2>6 DEF BrowserKept, Settled
    <3> QED  BY <2>6, <3>1 DEF Completed, WithStatus, Status
  <2> QED  BY <2>2, <2>3, <2>4, <2>5, <2>6 DEF Settle
<1>3. asked[q] \in PageRequest
  BY DEF BrowserKept
<1> DEFINE r == [asked[q] EXCEPT !.status = status]
<1>4. r \in PageRequest /\ r.status = status /\ r.work = asked[q].work
  BY <1>3 DEF PageRequest
<1>5. asked' = [asked EXCEPT ![q] = r]
  BY <1>2
<1> HIDE DEF r
<1>6. /\ asked' \in [Req -> PageRequest] /\ asked'[q] = r
      /\ \A p \in Req \ {q} : asked'[p] = asked[p]
  BY <1>4, <1>5 DEF BrowserKept
<1>7. Stored(asked') = Stored(asked)
  BY <1>1, <1>4, <1>6 DEF Stored, Status
<1>8. \A p \in Req : asked'[p].work = asked[p].work
  BY <1>4, <1>6
<1>9. \A v : ByLeave(asked, permitted, v) => ByLeave(asked', permitted', v)
  BY <1>1, <1>8 DEF ByLeave, BrowserKept, Stored
<1>10. \A p \in Req : Settled(p)' => p \in permitted'
  BY <1>1, <1>2, <1>4, <1>6 DEF Settled, BrowserKept
<1>11. AskedOnce' /\ InOrder'
  BY <1>1, <1>7, <1>8 DEF AskedOnce, InOrder, BrowserKept, Stored, Unused
<1> QED  BY <1>1, <1>6, <1>7, <1>9, <1>10, <1>11 DEF BrowserKept

\* What a run has saved of a page the policy keeps back stands under a request for this
\* very page that a human has permitted, and no run asks for a page that was asked for.
THEOREM PagesApproved == BrowserSpec => []PageApprovals
<1>1. BrowserInit => BrowserKept
  <2> SUFFICES ASSUME BrowserInit  PROVE BrowserKept
    OBVIOUS
  <2>1. NoRequest \in PageRequest /\ NoRequest.status = "none"
    BY DEF NoRequest, PageRequest
  <2> QED  BY <2>1 DEF BrowserInit, BrowserKept, Settled, AskedOnce, InOrder, Stored
<1>2. BrowserKept /\ [BrowserNext]_browserVars => BrowserKept'
  <2> SUFFICES ASSUME BrowserKept, [BrowserNext]_browserVars  PROVE BrowserKept'
    OBVIOUS
  <2>1. CASE UNCHANGED browserVars
    BY <2>1 DEF browserVars, BrowserKept, Settled, AskedOnce, InOrder, Stored, Unused
  <2>2. CASE AgentAsks
    BY <2>2, Filed DEF AgentAsks, BrowserKept
  <2> QED  BY <2>1, <2>2, RunsBrowser, RunsOn, Decides, Verdicts DEF BrowserNext
<1>3. BrowserKept => PageApprovals
  BY DEF BrowserKept, ByLeave, PageApprovals, OpenedByLeave
<1> QED  BY <1>1, <1>2, <1>3, PTL DEF BrowserSpec

-----------------------------------------------------------------------------
(***************************************************************************)
(* The calls of connectors and their approvals.                            *)
(***************************************************************************)
ConnSpec == ConnInit /\ [][ConnNext]_connVars

CallRequest ==
    [status : Status \cup {"none"}, kind : {"tool_permission", NULL}, work : Calls \cup {NULL},
     snap : {NULL}]

CallStages == {"policy", "workspace", "own", "token", "calling"}

\* A client that calls a tool; what it does otherwise has no leave.
Calling(w) ==
    /\ DOMAIN w = {"at", "user", "call", "given", "leave", "row"}
    /\ w.call \in Calls /\ w.given \in Req \cup {NULL} /\ w.leave \in Req \cup {NULL}

Shape(w) == IF w.at \in CallStages THEN Calling(w) ELSE "leave" \notin DOMAIN w

Uses(w, q) == "leave" \in DOMAIN w /\ w.leave = q

\* A yes that is not used up is in the file or in the hands of one call.
Covered(q, r, used, given, cs) ==
    /\ used <= given
    /\ r.status = "approved" \/ (\E c \in Clients : Uses(cs[c], q)) => used < given
    /\ \A c, d \in Clients : Uses(cs[c], q) /\ Uses(cs[d], q) => c = d

ConnKept ==
    /\ filed \in [Req -> CallRequest]
    /\ consents \in [Req -> Nat] /\ spent \in [Req -> Nat]
    /\ conn = [c \in Clients |-> conn[c]]
    /\ \A c \in Clients : Shape(conn[c])
    /\ \A q \in Req \ raced : Covered(q, filed[q], spent[q], consents[q], conn)

\* A client that takes up no leave disturbs no request.
LEMMA ConnMoves ==
    ASSUME ConnKept, NEW c \in Clients, NEW w, conn' = [conn EXCEPT ![c] = w], Shape(w),
           \A q \in Req : Uses(w, q) => Uses(conn[c], q),
           UNCHANGED permits
    PROVE  ConnKept'
<1>1. /\ conn'[c] = w /\ \A b \in Clients \ {c} : conn'[b] = conn[b]
      /\ conn' = [b \in Clients |-> conn'[b]]
  BY DEF ConnKept
<1>2. \A q \in Req, b \in Clients : Uses(conn'[b], q) => Uses(conn[b], q)
  BY <1>1
<1>3. filed' = filed /\ consents' = consents /\ spent' = spent /\ raced' = raced
  BY DEF permits
<1> QED  BY <1>1, <1>2, <1>3 DEF ConnKept, Covered

\* Leaving, for whatever reason, and what has no leave.
LEMMA ConnDrops ==
    ASSUME ConnKept, NEW c \in Clients, NEW w, conn' = [conn EXCEPT ![c] = w],
           w.at \notin CallStages, "leave" \notin DOMAIN w, UNCHANGED permits
    PROVE  ConnKept'
  BY ConnMoves DEF Shape, Uses

\* The record that a client has when it is done.
LEMMA OffShape == Off.at \notin CallStages /\ "leave" \notin DOMAIN Off /\ Shape(Off)
  BY DEF Off, CallStages, Shape

\* The next stage of a call.
LEMMA ConnGoesOn ==
    ASSUME ConnKept, NEW c \in Clients, conn[c].at \in CallStages, NEW at \in CallStages,
           \/ conn' = [conn EXCEPT ![c].at = at]
           \/ \E row : conn' = [conn EXCEPT ![c].at = at, ![c].row = row]
           \/ conn' = [conn EXCEPT ![c].at = at, ![c].leave = NULL, ![c].given = NULL],
           UNCHANGED permits
    PROVE  ConnKept'
<1> DEFINE w == conn[c]
<1>1. Calling(w)
  BY DEF ConnKept, Shape
<1>2. CASE conn' = [conn EXCEPT ![c].at = at]
  <2> DEFINE u == [w EXCEPT !.at = at]
  <2>1. conn' = [conn EXCEPT ![c] = u]
    BY <1>2
  <2>2. /\ DOMAIN u = DOMAIN w /\ u.at = at
        /\ u.call = w.call /\ u.given = w.given /\ u.leave = w.leave
    BY <1>1 DEF Calling
  <2> HIDE DEF u, w
  <2>3. Shape(u) /\ \A q \in Req : Uses(u, q) => Uses(w, q)
    BY <1>1, <2>2 DEF Shape, Calling, Uses
  <2> QED  BY <2>1, <2>3, ConnMoves DEF w
<1>3. ASSUME NEW row, conn' = [conn EXCEPT ![c].at = at, ![c].row = row]
      PROVE  ConnKept'
  <2> DEFINE u == [w EXCEPT !.at = at, !.row = row]
  <2>1. conn' = [conn EXCEPT ![c] = u]
    BY <1>3 DEF ConnKept
  <2>2. /\ DOMAIN u = DOMAIN w /\ u.at = at
        /\ u.call = w.call /\ u.given = w.given /\ u.leave = w.leave
    BY <1>1 DEF Calling
  <2> HIDE DEF u, w
  <2>3. Shape(u) /\ \A q \in Req : Uses(u, q) => Uses(w, q)
    BY <1>1, <2>2 DEF Shape, Calling, Uses
  <2> QED  BY <2>1, <2>3, ConnMoves DEF w
<1>4. CASE conn' = [conn EXCEPT ![c].at = at, ![c].leave = NULL, ![c].given = NULL]
  <2> DEFINE u == [w EXCEPT !.at = at, !.leave = NULL, !.given = NULL]
  <2>1. conn' = [conn EXCEPT ![c] = u]
    BY <1>4 DEF ConnKept
  <2>2. /\ DOMAIN u = DOMAIN w /\ u.at = at
        /\ u.call = w.call /\ u.given = NULL /\ u.leave = NULL
    BY <1>1 DEF Calling
  <2> HIDE DEF u, w
  <2>3. Shape(u) /\ \A q \in Req : ~Uses(u, q)
    BY <1>1, <2>2, ApprovalsAssumption DEF Shape, Calling, Uses
  <2> QED  BY <2>1, <2>3, ConnMoves DEF w
<1> QED  BY <1>2, <1>3, <1>4

\* A call begins with no leave.
LEMMA CallsTool == ASSUME ConnKept, NEW c \in Clients, CallTool(c)  PROVE ConnKept'
<1>1. PICK user \in Users, call \in Calls, given \in Stored(filed) \cup {NULL} :
         conn' = [conn EXCEPT ![c] = [at |-> "policy", user |-> user, call |-> call,
                                      given |-> given, leave |-> NULL, row |-> NULL]]
  BY DEF CallTool
<1> DEFINE w == [at |-> "policy", user |-> user, call |-> call, given |-> given,
                 leave |-> NULL, row |-> NULL]
<1>2. /\ DOMAIN w = {"at", "user", "call", "given", "leave", "row"} /\ w.at = "policy"
      /\ w.call = call /\ w.given = given /\ w.leave = NULL
  OBVIOUS
<1> HIDE DEF w
<1>3. conn' = [conn EXCEPT ![c] = w]
  BY <1>1 DEF w
<1>4. Shape(w) /\ \A q \in Req : ~Uses(w, q)
  BY <1>2, ApprovalsAssumption DEF Shape, CallStages, Calling, Uses, Stored
<1> QED  BY <1>3, <1>4, ConnMoves DEF CallTool

\* A call takes up a leave: the second to do so at a time is a race.
LEMMA TakesLeave ==
    ASSUME ConnKept, NEW c \in Clients, conn[c].at = "policy",
           NEW g \in Req, Usable(g, conn[c].call), Permit(c, g),
           raced' = raced \cup {q \in {g} : Using(q) # {}},
           UNCHANGED <<filed, consents, spent>>
    PROVE  ConnKept'
<1> DEFINE w == conn[c]
           u == [w EXCEPT !.at = "workspace", !.leave = g, !.given = NULL]
<1>1. Calling(w)
  BY DEF ConnKept, Shape, CallStages
<1>2. conn' = [conn EXCEPT ![c] = u]
  BY DEF Permit, ConnKept
<1>3. /\ DOMAIN u = DOMAIN w /\ u.at = "workspace"
      /\ u.call = w.call /\ u.given = NULL /\ u.leave = g
  BY <1>1 DEF Calling
<1> HIDE DEF u, w
<1>4. Shape(u) /\ \A q \in Req : Uses(u, q) => q = g
  BY <1>1, <1>3 DEF Shape, Calling, CallStages, Uses
<1>5. /\ conn'[c] = u /\ \A b \in Clients \ {c} : conn'[b] = conn[b]
      /\ conn' = [b \in Clients |-> conn'[b]]
  BY <1>2 DEF ConnKept
<1>6. \A q \in Req : (\E b \in Clients : Uses(conn[b], q)) => Using(q) # {}
  BY OffShape DEF Using, Uses
<1>7. ASSUME NEW q \in Req \ raced'
      PROVE  Covered(q, filed[q], spent[q], consents[q], conn')
  <2>1. Covered(q, filed[q], spent[q], consents[q], conn)
    BY <1>7 DEF ConnKept
  <2>2. CASE q # g
    <3>1. \A b \in Clients : Uses(conn'[b], q) => Uses(conn[b], q)
      BY <1>4, <1>5, <2>2
    <3> QED  BY <2>1, <3>1 DEF Covered
  <2>3. CASE q = g
    <3>1. \A b \in Clients : ~Uses(conn[b], g)
      BY <1>6, <1>7, <2>3
    <3>2. \A b \in Clients : Uses(conn'[b], g) => b = c
      BY <1>5, <3>1
    <3> QED  BY <2>1, <2>3, <3>2 DEF Covered, Usable
  <2> QED  BY <2>2, <2>3
<1> QED  BY <1>4, <1>5, <1>7 DEF ConnKept

\* A request is filed for the call, which ends.
LEMMA Files ==
    ASSUME ConnKept, NEW c \in Clients, NEW call \in Calls, NEW q \in Unused(filed),
           filed' = [filed EXCEPT ![q] = Created("tool_permission", call)],
           Leave(c), UNCHANGED <<consents, spent, raced>>
    PROVE  ConnKept'
<1> DEFINE r == Created("tool_permission", call)
<1>1. r \in CallRequest /\ r.status = "pending"
  BY DEF Created, CallRequest, Status
<1> HIDE DEF r
<1>2. /\ filed' \in [Req -> CallRequest]
      /\ \A p \in Req : filed'[p].status = "approved" => filed[p].status = "approved"
  BY <1>1 DEF Unused, ConnKept, r
<1>3. /\ conn'[c] = Off /\ \A b \in Clients \ {c} : conn'[b] = conn[b]
      /\ conn' = [b \in Clients |-> conn'[b]]
  BY DEF Leave, ConnKept
<1>4. \A p \in Req, b \in Clients : Uses(conn'[b], p) => Uses(conn[b], p)
  BY <1>3, OffShape DEF Uses
<1> QED  BY <1>2, <1>3, <1>4, OffShape DEF ConnKept, Covered

\* After the policy: go on, or by a leave, or file a request, or give up.
LEMMA PolicyDecides == ASSUME ConnKept, NEW c \in Clients, PolicyAnswers(c)  PROVE ConnKept'
<1> DEFINE call == conn[c].call
           g == conn[c].given
<1>1. /\ conn[c].at = "policy" /\ call \in Calls /\ g \in Req \cup {NULL}
      /\ UNCHANGED <<consents, spent>>
  BY DEF PolicyAnswers, ConnKept, Shape, CallStages, Calling
<1>2. ASSUME Permit(c, NULL), UNCHANGED <<filed, raced>>  PROVE ConnKept'
  <2>1. UNCHANGED permits
    BY <1>1, <1>2 DEF permits
  <2>2. conn[c].at \in CallStages /\ "workspace" \in CallStages
    BY <1>1 DEF CallStages
  <2> QED  BY <1>2, <2>1, <2>2, ConnGoesOn DEF Permit
<1>3. ASSUME g # NULL, Usable(g, call), Permit(c, g),
             raced' = raced \cup {q \in {g} : Using(q) # {}}, UNCHANGED filed
      PROVE  ConnKept'
  BY <1>1, <1>3, TakesLeave
<1>4. ASSUME NEW q \in Unused(filed), Leave(c), UNCHANGED raced,
             filed' = [filed EXCEPT ![q] = Created("tool_permission", call)]
      PROVE  ConnKept'
  BY <1>1, <1>4, Files
<1>5. ASSUME Leave(c), UNCHANGED <<filed, raced>>  PROVE ConnKept'
  <2>1. UNCHANGED permits
    BY <1>1, <1>5 DEF permits
  <2> QED  BY <1>5, <2>1, OffShape, ConnDrops DEF Leave
<1> QED  BY <1>2, <1>3, <1>4, <1>5 DEF PolicyAnswers

\* The credential and its token: the call goes on or ends.
LEMMA Credentials ==
    ASSUME ConnKept, NEW c \in Clients,
           ResolveWorkspace(c) \/ ResolveOwn(c) \/ TokenReady(c) \/ RefreshIfExpired(c)
    PROVE  ConnKept'
<1>1. conn[c].at \in CallStages /\ UNCHANGED permits
  BY DEF ResolveWorkspace, ResolveOwn, TokenReady, RefreshIfExpired, CallStages
<1>2. {"own", "token", "calling"} \subseteq CallStages
  BY DEF CallStages
<1>3. CASE Leave(c)
  BY <1>1, <1>3, OffShape, ConnDrops DEF Leave
<1>4. CASE Goto(c, "own")
  BY <1>1, <1>2, <1>4, ConnGoesOn DEF Goto
<1>5. CASE WithToken(c)
  <2>1. conn' = [conn EXCEPT ![c].at = "calling", ![c].row = NULL]
    BY <1>5 DEF WithToken
  <2> QED  BY <1>1, <1>2, <2>1, ConnGoesOn
<1>6. ASSUME NEW row, conn' = [conn EXCEPT ![c].at = "token", ![c].row = row]  PROVE ConnKept'
  BY <1>1, <1>2, <1>6, ConnGoesOn
<1> QED
  BY <1>3, <1>4, <1>5, <1>6
     DEF ResolveWorkspace, ResolveOwn, TokenReady, RefreshIfExpired, Resolve

\* The provider answers: the leave is used up, by the only call that has it.
LEMMA Answered == ASSUME ConnKept, NEW c \in Clients, ProviderAnswers(c)  PROVE ConnKept'
<1> DEFINE q == conn[c].leave
<1>1. conn[c].at = "calling" /\ Calling(conn[c]) /\ Leave(c)
  BY DEF ProviderAnswers, ConnKept, Shape, CallStages
<1>2. CASE q = NULL
  BY <1>1, <1>2, OffShape, ConnDrops DEF ProviderAnswers, Leave
<1>3. CASE q # NULL
  <2> DEFINE r == Completed(filed[q])
  <2>1. q \in Req /\ Uses(conn[c], q)
    BY <1>1, <1>3 DEF Calling, Uses
  <2>2. r \in CallRequest /\ r.status = "completed"
    BY <2>1 DEF Completed, WithStatus, CallRequest, Status, ConnKept
  <2>3. /\ filed' = [filed EXCEPT ![q] = r]
        /\ spent' = [spent EXCEPT ![q] = @ + 1]
        /\ consents' = consents /\ raced' = raced
    BY <1>3 DEF ProviderAnswers
  <2> HIDE DEF r, q
  <2>4. filed' \in [Req -> CallRequest] /\ spent' \in [Req -> Nat]
    BY <2>1, <2>2, <2>3 DEF ConnKept
  <2>5. /\ conn'[c] = Off /\ \A b \in Clients \ {c} : conn'[b] = conn[b]
        /\ conn' = [b \in Clients |-> conn'[b]]
    BY <1>1 DEF Leave, ConnKept
  <2>6. \A p \in Req, b \in Clients : Uses(conn'[b], p) => Uses(conn[b], p) /\ b # c
    BY <2>5, OffShape DEF Uses
  <2>7. ASSUME NEW p \in Req \ raced
        PROVE  Covered(p, filed'[p], spent'[p], consents[p], conn')
    <3>1. Covered(p, filed[p], spent[p], consents[p], conn)
      BY DEF ConnKept
    <3>2. CASE p = q
      <4>1. \A b \in Clients : ~Uses(conn'[b], p)
        BY <2>1, <2>6, <3>1, <3>2 DEF Covered
      <4>2. spent[p] < consents[p] /\ spent'[p] = spent[p] + 1 /\ filed'[p] = r
        BY <2>1, <2>3, <3>1, <3>2 DEF Covered, ConnKept
      <4>3. spent[p] \in Nat /\ consents[p] \in Nat
        BY DEF ConnKept
      <4> QED  BY <2>2, <4>1, <4>2, <4>3 DEF Covered
    <3>3. CASE p # q
      <4>1. filed'[p] = filed[p] /\ spent'[p] = spent[p]
        BY <2>1, <2>3, <3>3 DEF ConnKept
      <4> QED  BY <2>6, <3>1, <4>1 DEF Covered
    <3> QED  BY <3>2, <3>3
  <2> QED  BY <2>3, <2>4, <2>5, <2>7, OffShape DEF ConnKept
<1> QED  BY <1>2, <1>3

\* The provider raises: the leave stays good, and is excused from now on.
LEMMA Raised == ASSUME ConnKept, NEW c \in Clients, ProviderRaises(c)  PROVE ConnKept'
<1>1. /\ conn'[c] = Off /\ \A b \in Clients \ {c} : conn'[b] = conn[b]
      /\ conn' = [b \in Clients |-> conn'[b]]
  BY DEF ProviderRaises, Leave, ConnKept
<1>2. \A p \in Req, b \in Clients : Uses(conn'[b], p) => Uses(conn[b], p)
  BY <1>1, OffShape DEF Uses
<1> QED  BY <1>1, <1>2, OffShape DEF ProviderRaises, ConnKept, Covered

\* A verdict: each that makes a request good again is one more yes.
LEMMA Consents == ASSUME ConnKept, NEW q \in Req, Consent(q)  PROVE ConnKept'
<1>1. q \in Stored(filed) /\ UNCHANGED <<spent, raced, conn>>
  BY DEF Consent
<1>2. PICK r \in {Approved(filed[q]), Responded(filed[q]), Rejected(filed[q])} :
         /\ filed' = [filed EXCEPT ![q] = r]
         /\ consents' = [consents EXCEPT ![q] = @ +
              IF r.status = "approved" /\ filed[q].status # "approved" THEN 1 ELSE 0]
  BY DEF Consent
<1>3. r \in CallRequest
  <2>1. filed[q] \in CallRequest
    BY DEF ConnKept
  <2>2. \A s \in Status : [filed[q] EXCEPT !.status = s] \in CallRequest
    BY <2>1 DEF CallRequest
  <2>3. {"approved", "rejected"} \subseteq Status
    BY DEF Status
  <2>4. r \in {filed[q], WithStatus(filed[q], "approved"), WithStatus(filed[q], "rejected")}
    BY <1>2 DEF Approved, Responded, Rejected
  <2> QED  BY <2>1, <2>2, <2>3, <2>4 DEF WithStatus
<1>4. filed' \in [Req -> CallRequest] /\ consents' \in [Req -> Nat]
  BY <1>2, <1>3 DEF ConnKept
<1>5. ASSUME NEW p \in Req \ raced
      PROVE  Covered(p, filed'[p], spent[p], consents'[p], conn)
  <2>1. Covered(p, filed[p], spent[p], consents[p], conn)
    BY DEF ConnKept
  <2>2. spent[p] \in Nat /\ consents[p] \in Nat
    BY DEF ConnKept
  <2>3. CASE p = q
    <3>1. /\ filed'[p] = r
          /\ consents'[p] = consents[p] +
                IF r.status = "approved" /\ filed[p].status # "approved" THEN 1 ELSE 0
      BY <1>2, <2>3 DEF ConnKept
    <3> QED  BY <2>1, <2>2, <3>1 DEF Covered
  <2>4. CASE p # q
    BY <1>2, <2>1, <2>4 DEF ConnKept
  <2> QED  BY <2>3, <2>4
<1> QED  BY <1>1, <1>4, <1>5 DEF ConnKept

\* The credentials and configurations: no request is touched, no leave taken up.
LEMMA CredentialSteps == ASSUME ConnKept, CredentialNext  PROVE ConnKept'
<1>1. ASSUME NEW c \in Clients,
             \/ OAuthCallback(c) \/ StoreCredential(c) \/ AddConfig(c)
             \/ DeleteConfigs(c) \/ DeleteRow(c)
      PROVE  ConnKept'
  <2>1. UNCHANGED permits
    BY <1>1 DEF OAuthCallback, StoreCredential, AddConfig, DeleteConfigs, DeleteRow
  <2>2. CASE OAuthCallback(c)
    <3>1. PICK user, shared, found :
             conn' = [conn EXCEPT ![c] = [at |-> "storing", user |-> user, shared |-> shared,
                                          found |-> found]]
      BY <2>2 DEF OAuthCallback
    <3> DEFINE w == [at |-> "storing", user |-> user, shared |-> shared, found |-> found]
    <3>2. w.at \notin CallStages /\ "leave" \notin DOMAIN w
      BY DEF CallStages
    <3> HIDE DEF w
    <3> QED  BY <2>1, <3>1, <3>2, ConnDrops DEF w
  <2>3. CASE StoreCredential(c)
    <3>1. PICK w : conn' = [conn EXCEPT ![c] = w]
                   /\ (w = Off \/ \E id : w = [at |-> "configuring", id |-> id])
      BY <2>3 DEF StoreCredential, Leave
    <3>2. w.at \notin CallStages /\ "leave" \notin DOMAIN w
      BY <3>1, OffShape DEF CallStages
    <3> QED  BY <2>1, <3>1, <3>2, ConnDrops
  <2>4. CASE AddConfig(c) \/ DeleteRow(c)
    BY <2>1, <2>4, OffShape, ConnDrops DEF AddConfig, DeleteRow, Leave
  <2>5. CASE DeleteConfigs(c)
    <3>1. PICK id : conn' = [conn EXCEPT ![c] = [at |-> "deleting", id |-> id]]
      BY <2>5 DEF DeleteConfigs
    <3> DEFINE w == [at |-> "deleting", id |-> id]
    <3>2. w.at \notin CallStages /\ "leave" \notin DOMAIN w
      BY DEF CallStages
    <3> HIDE DEF w
    <3> QED  BY <2>1, <3>1, <3>2, ConnDrops DEF w
  <2> QED  BY <1>1, <2>2, <2>3, <2>4, <2>5
<1>2. ASSUME UNCHANGED permits, UNCHANGED conn  PROVE ConnKept'
  BY <1>2 DEF permits, ConnKept, Covered
<1> QED  BY <1>1, <1>2 DEF CredentialNext, ToggleTool, Expire

\* An approval serves as often as a human has said yes, unless two calls use it at once
\* or one of them ends in an error.
THEOREM ApprovalsServeOnce == ConnSpec => []CallsCovered
<1>1. ConnInit => ConnKept
  <2> SUFFICES ASSUME ConnInit  PROVE ConnKept
    OBVIOUS
  <2>1. NoRequest \in CallRequest /\ NoRequest.status = "none"
    BY DEF NoRequest, CallRequest
  <2>2. \A c \in Clients : conn[c] = Off
    BY DEF ConnInit
  <2>3. \A q \in Req, c \in Clients : ~Uses(conn[c], q)
    BY <2>2, OffShape DEF Uses
  <2>4. /\ filed = [q \in Req |-> NoRequest]
        /\ consents = [q \in Req |-> 0] /\ spent = [q \in Req |-> 0]
        /\ conn = [c \in Clients |-> conn[c]]
    BY DEF ConnInit
  <2>5. ASSUME NEW q \in Req  PROVE Covered(q, filed[q], spent[q], consents[q], conn)
    BY <2>1, <2>3, <2>4 DEF Covered
  <2>6. filed \in [Req -> CallRequest] /\ consents \in [Req -> Nat] /\ spent \in [Req -> Nat]
    BY <2>1, <2>4
  <2>7. \A c \in Clients : Shape(conn[c])
    BY <2>2, OffShape
  <2> QED  BY <2>4, <2>5, <2>6, <2>7 DEF ConnKept
<1>2. ConnKept /\ [ConnNext]_connVars => ConnKept'
  <2> SUFFICES ASSUME ConnKept, [ConnNext]_connVars  PROVE ConnKept'
    OBVIOUS
  <2>1. ASSUME NEW c \in Clients,
               \/ CallTool(c) \/ PolicyAnswers(c) \/ ResolveWorkspace(c) \/ ResolveOwn(c)
               \/ TokenReady(c) \/ RefreshIfExpired(c) \/ ProviderAnswers(c) \/ ProviderRaises(c)
        PROVE  ConnKept'
    BY <2>1, CallsTool, PolicyDecides, Credentials, Answered, Raised
  <2>2. CASE UNCHANGED connVars
    BY <2>2 DEF connVars, ConnKept, Covered
  <2> QED  BY <2>1, <2>2, CredentialSteps, Consents DEF ConnNext, CallNext
<1>3. ConnKept => CallsCovered
  BY DEF ConnKept, Covered, CallsCovered
<1> QED  BY <1>1, <1>2, <1>3, PTL DEF ConnSpec
-----------------------------------------------------------------------------
(***************************************************************************)
(* The policy: the decisions of the matrix.                                *)
(***************************************************************************)
PolicySpec == PolicyInit /\ [][PolicyNext]_policyVars

\* An answer is the one the rules give to the question, under the role's ceiling.
PolicyKept ==
    \/ question = Nothing
    \/ question \in Questions /\ verdict = Verdict(Clamped(question))

\* The ceiling changes the mode and nothing else.
LEMMA ClampedModes ==
    ASSUME NEW q \in Questions
    PROVE  /\ Clamped(q).kind = q.kind /\ Clamped(q).op = q.op /\ Clamped(q).level = q.level
           /\ Clamped(q).tool = q.tool /\ Clamped(q).facts = q.facts /\ Clamped(q).read = q.read
           /\ Clamped(q).override = q.override
           /\ Clamped(q).mode = IF q.role = Unset THEN q.mode
                                ELSE ClampPermissionMode(q.mode, q.role)
<1>1. CASE q.role = Unset
  BY <1>1 DEF Clamped
<1>2. CASE q.role # Unset
  BY <1>2 DEF Clamped, Questions
<1> QED  BY <1>1, <1>2

\* What a role's ceiling allows, the mode itself would allow.
LEMMA CeilingNarrows ==
    ASSUME NEW q \in Questions, NEW l, DecidePermission(Clamped(q).mode, l) = "allow"
    PROVE  DecidePermission(q.mode, l) = "allow"
<1>1. CASE q.role = Unset
  BY <1>1, ClampedModes
<1>2. CASE q.role # Unset
  <2>1. Clamped(q).mode = ClampPermissionMode(q.mode, q.role)
    BY <1>2, ClampedModes
  <2>2. q.role \in {"admin", "user", "viewer"}
    BY <1>2 DEF Questions, Unset
  <2>3. ClampPermissionMode(q.mode, q.role) \in {NormalizeMode(q.mode), Ceiling(q.role)}
    BY DEF ClampPermissionMode
  <2>4. NormalizeMode(NormalizeMode(q.mode)) = NormalizeMode(q.mode)
    BY DEF NormalizeMode, Modes
  <2>5. CASE Clamped(q).mode = NormalizeMode(q.mode)
    BY <2>4, <2>5 DEF DecidePermission
  <2>6. CASE ClampPermissionMode(q.mode, q.role) # NormalizeMode(q.mode)
    <3>1. /\ ClampPermissionMode(q.mode, q.role) = Ceiling(q.role)
          /\ Rank(NormalizeMode(q.mode)) > Rank(Ceiling(q.role))
      BY <2>6 DEF ClampPermissionMode
    <3>2. NormalizeMode(q.mode) \in Modes
      BY DEF NormalizeMode, Modes
    <3>3. CASE q.role = "admin"
      BY <3>1, <3>2, <3>3 DEF Ceiling, Rank, Modes
    <3>4. CASE q.role = "user"
      <4>1. NormalizeMode(q.mode) = "unrestricted"
        BY <3>1, <3>2, <3>4 DEF Ceiling, Rank, Modes
      <4> QED  BY <4>1 DEF DecidePermission
    <3>5. CASE q.role = "viewer"
      <4>1. Clamped(q).mode = "read-only"
        BY <2>1, <3>1, <3>5 DEF Ceiling
      <4>2. NormalizeLevel(l) = "read"
        BY <4>1 DEF DecidePermission, NormalizeMode, Modes
      <4> QED  BY <4>2 DEF DecidePermission
    <3> QED  BY <2>2, <3>3, <3>4, <3>5
  <2> QED  BY <2>1, <2>5, <2>6
<1> QED  BY <1>1, <1>2

\* The mode that counts is the policy's key, or else the mode itself.
LEMMA EffectiveNarrows ==
    ASSUME NEW q \in Questions, NEW l, DecidePermission(Effective(Clamped(q)), l) = "allow"
    PROVE  DecidePermission(Effective(q), l) = "allow"
<1>1. CASE q.read /\ q.override # Unset
  BY <1>1, ClampedModes DEF Effective
<1>2. CASE ~(q.read /\ q.override # Unset)
  BY <1>2, ClampedModes, CeilingNarrows DEF Effective
<1> QED  BY <1>1, <1>2

\* No answer gets more permissive by the ceiling.
LEMMA VerdictNarrows ==
    ASSUME NEW q \in Questions, Verdict(Clamped(q)) = "allow"
    PROVE  Verdict(q) = "allow"
<1> DEFINE r == Clamped(q)
<1>1. /\ r.kind = q.kind /\ r.op = q.op /\ r.level = q.level /\ r.tool = q.tool
      /\ r.facts = q.facts /\ Lists(r) = Lists(q) /\ ClaudeLevel(r) = ClaudeLevel(q)
  BY ClampedModes DEF Lists, ClaudeLevel
<1>2. \A l : /\ DecidePermission(r.mode, l) = "allow" => DecidePermission(q.mode, l) = "allow"
             /\ DecidePermission(Effective(r), l) = "allow"
                  => DecidePermission(Effective(q), l) = "allow"
  BY CeilingNarrows, EffectiveNarrows
<1>3. Verdict(r) = "allow"
  OBVIOUS
<1> HIDE DEF r
<1>4. CheckNetworkAccess(r) = "allow" => CheckNetworkAccess(q) = "allow"
  BY <1>1, <1>2 DEF CheckNetworkAccess
<1>5. CheckCommand(r) = "allow" => CheckCommand(q) = "allow"
  BY <1>1, <1>2 DEF CheckCommand
<1>6. ClaudePolicy(r) = "allow" => ClaudePolicy(q) = "allow"
  <2> DEFINE edit(x) == [x EXCEPT !.op = "write"]
             look(x) == [x EXCEPT !.op = "read"]
             call(x) == [x EXCEPT !.level = ClaudeLevel(x)]
  <2>1. \A x \in {q, r} :
           /\ edit(x).op = "write" /\ Effective(edit(x)) = Effective(x)
           /\ look(x).op = "read" /\ Effective(look(x)) = Effective(x)
           /\ call(x).level = ClaudeLevel(x) /\ Effective(call(x)) = Effective(x)
    BY DEF Effective, r, Clamped, Questions
  <2> HIDE DEF edit, look, call
  <2>2. CheckFileAccess(edit(r)) = "allow" => CheckFileAccess(edit(q)) = "allow"
    BY <1>2, <2>1 DEF CheckFileAccess
  <2>3. CheckFileAccess(look(r)) = "allow" => CheckFileAccess(look(q)) = "allow"
    BY <1>2, <2>1 DEF CheckFileAccess
  <2>4. CheckMcpTool(call(r)) = "allow" => CheckMcpTool(call(q)) = "allow"
    BY <1>1, <1>2, <2>1 DEF CheckMcpTool
  <2> QED  BY <1>1, <1>4, <1>5, <2>2, <2>3, <2>4 DEF ClaudePolicy, edit, look, call
<1>7. CASE q.kind = "claude"
  <2>1. CanUseTool(r) = "allow"
    BY <1>1, <1>3, <1>7 DEF Verdict
  <2>2. ClaudePolicy(r) = "allow" /\ DecidePermission(r.mode, ClaudeLevel(r)) = "allow"
    BY <2>1 DEF CanUseTool
  <2> QED  BY <1>1, <1>2, <1>6, <1>7, <2>2 DEF Verdict, CanUseTool
<1>8. CASE q.kind = "file"
  BY <1>1, <1>2, <1>3, <1>8 DEF Verdict, CheckFileAccess
<1>9. CASE q.kind = "network"
  BY <1>1, <1>3, <1>4, <1>9 DEF Verdict
<1>10. CASE q.kind = "mcp"
  BY <1>1, <1>2, <1>3, <1>10 DEF Verdict, CheckMcpTool
<1>11. CASE q.kind = "connector"
  BY <1>1, <1>2, <1>3, <1>11 DEF Verdict, CheckConnector
<1>12. CASE q.kind = "command"
  BY <1>1, <1>3, <1>5, <1>12 DEF Verdict
<1> QED  BY <1>7, <1>8, <1>9, <1>10, <1>11, <1>12 DEF Questions

\* What the matrix lets a viewer do: read.
LEMMA ViewersRead ==
    ASSUME NEW q \in Questions, q.role = "viewer", Verdict(Clamped(q)) = "allow",
           ~(q.read /\ q.override = "unrestricted"), q.kind \in {"network", "connector", "claude"}
    PROVE  q.kind = "claude" /\ ClaudeLevel(q) = "read"
<1> DEFINE r == Clamped(q)
<1>1. r.mode = "read-only"
  BY ClampedModes DEF Unset, ClampPermissionMode, NormalizeMode, Rank, Ceiling, Modes
<1>2. r.kind = q.kind /\ ClaudeLevel(r) = ClaudeLevel(q)
  BY ClampedModes DEF ClaudeLevel
<1>3. Effective(r) = "read-only"
  BY <1>1, ClampedModes DEF Effective, Questions
<1> HIDE DEF r
<1>4. \A l : DecidePermission("read-only", l) = "allow" => NormalizeLevel(l) = "read"
  BY DEF DecidePermission, NormalizeMode, Modes
<1>5. NormalizeLevel("write") = "write" /\ NormalizeLevel("dangerous") = "dangerous"
  BY DEF NormalizeLevel, Levels
<1>6. Verdict(r) = "allow"
  BY DEF r
<1>7. q.kind # "network"
  BY <1>2, <1>3, <1>4, <1>5, <1>6 DEF Verdict, CheckNetworkAccess
<1>8. q.kind # "connector"
  BY <1>2, <1>3, <1>4, <1>5, <1>6 DEF Verdict, CheckConnector
<1>9. q.kind = "claude"
  BY <1>7, <1>8
<1>10. DecidePermission("read-only", ClaudeLevel(r)) = "allow"
  BY <1>1, <1>2, <1>6, <1>9 DEF Verdict, CanUseTool
<1>11. ClaudeLevel(q) \in {"read", "write", "dangerous"}
  BY DEF ClaudeLevel
<1> QED  BY <1>2, <1>4, <1>5, <1>9, <1>10, <1>11

\* What the lists of a workspace forbid is denied, in every mode.
LEMMA ListsDeny ==
    ASSUME NEW q \in Questions, q.read
    PROVE  /\ (q.kind = "command" \/ (q.kind = "claude" /\ q.tool \in {"bash", "shell"})) =>
                (q.facts \cap {"unlisted", "blocked"} # {} => Verdict(Clamped(q)) = "deny")
           /\ (q.kind = "network" \/ (q.kind = "claude" /\ q.tool = "web")) =>
                (q.facts = {"unlisted"} => Verdict(Clamped(q)) = "deny")
<1> DEFINE r == Clamped(q)
<1>1. r.kind = q.kind /\ r.tool = q.tool /\ r.facts = q.facts /\ r.read
  BY ClampedModes
<1> HIDE DEF r
<1>2. q.facts \cap {"unlisted", "blocked"} # {} => CheckCommand(r) = "deny"
  BY <1>1 DEF CheckCommand, Lists
<1>3. q.facts = {"unlisted"} => CheckNetworkAccess(r) = "deny"
  <2>1. "unlisted" # "unparsed"
    OBVIOUS
  <2> QED  BY <1>1, <2>1 DEF CheckNetworkAccess, Lists
<1>4. /\ q.tool \in {"bash", "shell"} => ClaudePolicy(r) = CheckCommand(r)
      /\ q.tool = "web" => ClaudePolicy(r) = CheckNetworkAccess(r)
  BY <1>1 DEF ClaudePolicy
<1>5. ClaudePolicy(r) = "deny" => CanUseTool(r) = "deny"
  BY DEF CanUseTool
<1> QED  BY <1>1, <1>2, <1>3, <1>4, <1>5 DEF Verdict, r

\* Whatever is asked, in whatever mode and with whatever policy: the lists bind, a
\* viewer only reads, and no ceiling allows what the mode itself would not.
THEOREM NothingGetsAround == PolicySpec => []PermissionsHold
<1> DEFINE Viewed == question # Nothing /\ question.role = "viewer" =>
                       question.kind \in {"network", "connector", "claude"}
           IInv == PolicyKept /\ Viewed
<1>1. PolicyInit => IInv
  BY DEF PolicyInit, PolicyKept
<1>2. IInv /\ [PolicyNext]_policyVars => IInv'
  <2>1. CASE Decide
    <3>1. PICK q \in Questions :
             /\ q.role = Unset \/ q.kind \in {"network", "connector", "claude"}
             /\ question' = q /\ verdict' = Verdict(Clamped(q))
      BY <2>1 DEF Decide
    <3> QED  BY <3>1 DEF PolicyKept, Unset
  <2>2. CASE UNCHANGED policyVars
    BY <2>2 DEF policyVars, PolicyKept
  <2> QED  BY <2>1, <2>2 DEF PolicyNext
<1>3. IInv => PermissionsHold
  <2> SUFFICES ASSUME IInv  PROVE PermissionsHold
    OBVIOUS
  <2>1. CASE question = Nothing
    BY <2>1 DEF PermissionsHold, ListsBind, ViewerOnlyReads, CeilingNeverWidens
  <2>2. CASE question # Nothing
    <3>1. question \in Questions /\ verdict = Verdict(Clamped(question))
      BY <2>2 DEF PolicyKept
    <3>2. ViewerOnlyReads
      BY <2>2, <3>1, ViewersRead DEF ViewerOnlyReads
    <3>3. ListsBind
      BY <3>1, ListsDeny DEF ListsBind
    <3>4. CeilingNeverWidens
      BY <3>1, VerdictNarrows DEF CeilingNeverWidens
    <3> QED  BY <3>2, <3>3, <3>4 DEF PermissionsHold
  <2> QED  BY <2>1, <2>2
<1> QED  BY <1>1, <1>2, <1>3, PTL DEF PolicySpec
=============================================================================
