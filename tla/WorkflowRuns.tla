---------------------------- MODULE WorkflowRuns ----------------------------
(***************************************************************************)
(* Workflows (cognix/orchestrator/workflow.py, patterns.py) over one agent   *)
(* of the registry, whose tools every run mounts (cognix/core/mounts.py,     *)
(* mcp/adapter.py) unless the process remembers that the agent is prepared.  *)
(* Mounting awaits the MCP servers and the credentials, so several runs      *)
(* mount tools on the agent at once.                                         *)
(***************************************************************************)
EXTENDS Naturals, Sequences, SequencesExt

CONSTANTS Flows,     \* runs of the workflow
          Steps,     \* its steps: [pattern, onError, conditional]
          MaxLoop,   \* max_iterations of a loop step
          MaxRuns, MaxChanges  \* bounds

\* parse_workflow: a step of the file, whose names, input and templates are left out.
Step == [pattern : {"sequential", "parallel", "loop"}, onError : BOOLEAN, conditional : BOOLEAN]

ASSUME WorkflowAssumption ==
  MaxLoop \in Nat \ {0} /\ MaxRuns \in Nat /\ MaxChanges \in Nat /\ Steps \in Seq(Step)

\* validate_workflow: steps, each with an id of its own and an agent.
Valid == Steps # <<>>

VARIABLES tools,      \* Agent.tools: the names, in order of mounting
          toolMap,    \* Agent._tool_map: the names that a call is looked up by
          prepared,   \* whether _prepared_agents holds the agent
          offered,    \* what the workspace offers now: skills, MCP tools, connector tools
          flow,       \* what each run is doing
          begun, changes   \* runs begun and changes made of what is offered (bounds)

workflowVars == <<tools, toolMap, prepared, offered, flow, begun, changes>>

Browser == "browser_automation"
Idling == [at |-> "idle", direct |-> FALSE, step |-> 1, round |-> 0, results |-> <<>>,
           left |-> {}]

WorkflowInit ==
  /\ tools = <<>> /\ toolMap = {} /\ prepared = FALSE
  /\ offered \in [skills : {{}, {"s"}}, mcp : {{"m", "n"}}, connectors : {{"s", "c"}}]
  /\ flow = [f \in Flows |-> Idling]
  /\ begun = 0 /\ changes = 0

\* remove_tool and add_tool.
Without(names, name) ==
  FoldLeft(LAMBDA kept, n : IF n = name THEN kept ELSE Append(kept, n), <<>>, names)

\* A wrong form: the tool is added without looking for its name.
AttachTwice(names, name) == Append(names, name)

Attach(names, name) == Append(Without(names, name), name)
WithBrowser(names) == Attach(names, Browser)

\* The tools of one source are attached one after another without an await.
Mounted(names, source) == FoldLeft(Attach, names, SetToSeq(source))

Mount(source) ==
  /\ tools' = Mounted(tools, source)
  /\ toolMap' = toolMap \cup source

MoveTo(f, at) == flow' = [flow EXCEPT ![f].at = at]

----------------------------------------------------------------------------
\* The endpoint awaits the entitlement and parses the file, which must be valid.
RunWorkflow(f) ==
  /\ flow[f].at = "idle" /\ begun < MaxRuns /\ Valid
  /\ MoveTo(f, "step") /\ begun' = begun + 1
  /\ UNCHANGED <<tools, toolMap, prepared, offered, changes>>

Finished(f) == flow[f].step > Len(Steps)

\* The step is over: its result is noted, and the run goes on or raises.
Note(f, status, goesOn) ==
  flow' = [flow EXCEPT ![f].at = IF goesOn THEN "step" ELSE "raised", ![f].step = @ + 1,
                       ![f].round = 0, ![f].left = {}, ![f].results = Append(@, status)]

\* The agent may be missing; the condition of a step may not hold.  A missing agent
\* that no on_error catches raises without a result.
BeginStep(f) ==
  /\ flow[f].at = "step" /\ ~Finished(f)
  /\ LET s == Steps[flow[f].step] IN
     \/ MoveTo(f, "prepare")
     \/ s.onError /\ Note(f, "skipped", TRUE)
     \/ ~s.onError /\ MoveTo(f, "raised")
     \/ s.conditional /\ Note(f, "skipped", TRUE)
  /\ UNCHANGED <<tools, toolMap, prepared, offered, begun, changes>>

\* _prepare_agent: skills are mounted before the first await.
Prepare(f) ==
  /\ flow[f].at = "prepare"
  /\ IF prepared THEN MoveTo(f, "agent") /\ UNCHANGED <<tools, toolMap>>
     ELSE /\ Mount(offered.skills)
          /\ flow' = [flow EXCEPT ![f].at = "mcp", ![f].left = offered.mcp]
  /\ UNCHANGED <<prepared, offered, begun, changes>>

\* attach_workspace_mcp_tools awaits one server after the other.  One that does not
\* answer fails the step; the tools of those before it stay.
MountMcp(f) ==
  /\ flow[f].at = "mcp"
  /\ \/ flow[f].left = {} /\ MoveTo(f, "connectors") /\ UNCHANGED <<tools, toolMap>>
     \/ \E m \in flow[f].left : Mount({m}) /\ flow' = [flow EXCEPT ![f].left = @ \ {m}]
     \/ /\ flow[f].left # {}
        /\ IF flow[f].direct THEN flow' = [flow EXCEPT ![f] = Idling]
           ELSE Note(f, "error", Steps[flow[f].step].onError)
        /\ UNCHANGED <<tools, toolMap>>
  /\ UNCHANGED <<prepared, offered, begun, changes>>

\* An exception on the way leaves the connectors out; the browser tool comes last,
\* whether or not the workspace has it enabled.
MountConnectors(f) ==
  /\ flow[f].at = "connectors"
  /\ \E found \in {offered.connectors, {}} :
       /\ tools' = WithBrowser(Mounted(tools, found))
       /\ toolMap' = toolMap \cup found \cup {Browser}
  /\ IF flow[f].direct THEN flow' = [flow EXCEPT ![f] = Idling] /\ UNCHANGED prepared
     ELSE prepared' = TRUE /\ MoveTo(f, "agent")
  /\ UNCHANGED <<offered, begun, changes>>

\* agent.run returns, also with a question for a human, or raises.
AgentAnswers(f) ==
  /\ flow[f].at = "agent"
  /\ LET s == Steps[flow[f].step] IN
     \/ IF s.pattern = "loop" /\ flow[f].round + 1 < MaxLoop
        THEN flow' = [flow EXCEPT ![f].at = "prepare", ![f].round = @ + 1]
        ELSE Note(f, "success", TRUE)
     \/ Note(f, "error", s.onError)
  /\ UNCHANGED <<tools, toolMap, prepared, offered, begun, changes>>

\* The response is returned, or the exception is.
EndWorkflow(f) ==
  /\ flow[f].at = "raised" \/ (flow[f].at = "step" /\ Finished(f))
  /\ flow' = [flow EXCEPT ![f] = Idling]
  /\ UNCHANGED <<tools, toolMap, prepared, offered, begun, changes>>

----------------------------------------------------------------------------
\* set_workspace_skill for the browser: loaded agents gain or lose the tool.
ToggleBrowser ==
  /\ changes < MaxChanges /\ changes' = changes + 1
  /\ \/ tools' = WithBrowser(tools) /\ toolMap' = toolMap \cup {Browser}
     \/ tools' = Without(tools, Browser) /\ toolMap' = toolMap \ {Browser}
  /\ UNCHANGED <<prepared, offered, flow, begun>>

\* Skills, servers and connectors are switched on and off; agents keep what they have.
ChangeOffer ==
  /\ changes < MaxChanges /\ changes' = changes + 1
  /\ offered' \in {[offered EXCEPT !.skills = IF @ = {} THEN {"s"} ELSE {}],
                   [offered EXCEPT !.connectors = {"c"}]}
  /\ UNCHANGED <<tools, toolMap, prepared, flow, begun>>

\* Other callers mount without the check: chats, bots, channels, tasks and RPC.
MountDirectly(f) ==
  /\ flow[f].at = "idle" /\ begun < MaxRuns /\ begun' = begun + 1
  /\ Mount(offered.skills)
  /\ flow' = [flow EXCEPT ![f].at = "mcp", ![f].direct = TRUE, ![f].left = offered.mcp]
  /\ UNCHANGED <<prepared, offered, changes>>

WorkflowNext ==
  \/ \E f \in Flows :
       \/ RunWorkflow(f) \/ BeginStep(f) \/ Prepare(f) \/ MountMcp(f) \/ MountConnectors(f)
       \/ AgentAnswers(f) \/ EndWorkflow(f) \/ MountDirectly(f)
  \/ ToggleBrowser \/ ChangeOffer

----------------------------------------------------------------------------
\* However many runs mount tools on the agent at once, while tools are switched on and
\* off, the model is offered every tool once, and exactly those that a call can reach.
OneToolPerName == IsInjective(tools) /\ ToSet(tools) = toolMap
=============================================================================
