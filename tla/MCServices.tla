----------------------------- MODULE MCServices ----------------------------
(***************************************************************************)
(* The services of one server process that share no state with each other,   *)
(* for TLC: subject says whose steps a behaviour is about; the others stay    *)
(* as they began.  The chats are split once more, so that independent halves   *)
(* are not multiplied with each other.                                      *)
(***************************************************************************)
EXTENDS Billing, Policy, BrowserRuns, ConnectorCalls, CodeSandbox, ContextPack,
        WorkflowRuns, Chats, TLC

CONSTANTS c1, c2, t1, t2, r1, r2    \* HTTP requests and coroutines

VARIABLE subject

serviceVars == <<billVars, policyVars, browserVars, connVars, sandboxVars, contextVars,
                 workflowVars, chatVars, subject>>

TwoSteps ==
  <<[pattern |-> "loop", onError |-> FALSE, conditional |-> FALSE],
    [pattern |-> "sequential", onError |-> TRUE, conditional |-> TRUE]>>

\* Browser runs are interchangeable: nothing chooses or compares them.
Alike == Permutations(Tabs)

ServicesInit ==
  /\ subject \in {"events", "decision", "browser", "connector", "sandbox",
                  "context", "workflow", "chat", "run"}
  /\ BillInit /\ PolicyInit /\ BrowserInit /\ ConnInit /\ SandboxInit /\ ContextInit
  /\ WorkflowInit /\ ChatInit
  /\ subject # "workflow" => offered.skills = {}

ButBilling == UNCHANGED <<policyVars, browserVars, connVars, sandboxVars, contextVars,
                          workflowVars, chatVars, subject>>
ButPolicy == UNCHANGED <<billVars, browserVars, connVars, sandboxVars, contextVars,
                         workflowVars, chatVars, subject>>
ButBrowser == UNCHANGED <<billVars, policyVars, connVars, sandboxVars, contextVars,
                          workflowVars, chatVars, subject>>
ButConnector == UNCHANGED <<billVars, policyVars, browserVars, sandboxVars, contextVars,
                            workflowVars, chatVars, subject>>
ButSandbox == UNCHANGED <<billVars, policyVars, browserVars, connVars, contextVars,
                          workflowVars, chatVars, subject>>
ButContext == UNCHANGED <<billVars, policyVars, browserVars, connVars, sandboxVars,
                          workflowVars, chatVars, subject>>
ButWorkflow == UNCHANGED <<billVars, policyVars, browserVars, connVars, sandboxVars,
                           contextVars, chatVars, subject>>
ButChat == UNCHANGED <<billVars, policyVars, browserVars, connVars, sandboxVars,
                       contextVars, workflowVars, subject>>

EventStep ==
  \/ subject = "events" /\ Issue /\ ButBilling
  \/ subject = "events" /\ Receive /\ ButBilling
  \/ subject = "events" /\ RequestCheckout /\ ButBilling
  \/ subject = "events" /\ BillingRestart /\ ButBilling
  \/ subject = "events" /\ (\E f \in flight : CommitUpdate(f)) /\ ButBilling
  \/ subject = "events" /\ (\E f \in flight : CommitInsert(f)) /\ ButBilling
  \/ subject = "events" /\ (\E f \in flight : CommitCheckout(f)) /\ ButBilling

PolicyStep ==
  \/ subject = "decision" /\ Decide /\ ButPolicy

BrowserStep ==
  \/ subject = "browser" /\ (\E t \in Tabs : RunBrowser(t)) /\ ButBrowser
  \/ subject = "browser" /\ (\E t \in Tabs : ApprovalOrNone(t)) /\ ButBrowser
  \/ subject = "browser" /\ (\E t \in Tabs : OpenOwnPage(t)) /\ ButBrowser
  \/ subject = "browser" /\ (\E t \in Tabs : OpenSharedPage(t)) /\ ButBrowser
  \/ subject = "browser" /\ (\E t \in Tabs : ReadPage(t)) /\ ButBrowser
  \/ subject = "browser" /\ (\E t \in Tabs : RunFails(t)) /\ ButBrowser
  \/ subject = "browser" /\ (\E t \in Tabs : CreateArtifact(t)) /\ ButBrowser
  \/ subject = "browser" /\ AgentAsks /\ ButBrowser
  \/ subject = "browser" /\ (\E q \in Req : Settle(q)) /\ ButBrowser

ConnectorStep ==
  \/ subject = "connector" /\ (\E c \in Clients : CallTool(c)) /\ ButConnector
  \/ subject = "connector" /\ (\E c \in Clients : PolicyAnswers(c)) /\ ButConnector
  \/ subject = "connector" /\ (\E c \in Clients : ResolveWorkspace(c)) /\ ButConnector
  \/ subject = "connector" /\ (\E c \in Clients : ResolveOwn(c)) /\ ButConnector
  \/ subject = "connector" /\ (\E c \in Clients : TokenReady(c)) /\ ButConnector
  \/ subject = "connector" /\ (\E c \in Clients : RefreshIfExpired(c)) /\ ButConnector
  \/ subject = "connector" /\ (\E c \in Clients : ProviderAnswers(c)) /\ ButConnector
  \/ subject = "connector" /\ (\E c \in Clients : ProviderRaises(c)) /\ ButConnector
  \/ subject = "connector" /\ (\E c \in Clients : OAuthCallback(c)) /\ ButConnector
  \/ subject = "connector" /\ (\E c \in Clients : StoreCredential(c)) /\ ButConnector
  \/ subject = "connector" /\ (\E c \in Clients : AddConfig(c)) /\ ButConnector
  \/ subject = "connector" /\ (\E c \in Clients : DeleteConfigs(c)) /\ ButConnector
  \/ subject = "connector" /\ (\E c \in Clients : DeleteRow(c)) /\ ButConnector
  \/ subject = "connector" /\ (\E call \in Calls : ToggleTool(call)) /\ ButConnector
  \/ subject = "connector" /\ Expire /\ ButConnector
  \/ subject = "connector" /\ (\E q \in Req : Consent(q)) /\ ButConnector

SandboxStep ==
  \/ subject = "sandbox" /\ (\E p \in Projects : CreateProject(p)) /\ ButSandbox
  \/ subject = "sandbox" /\ (\E p \in Projects : StopProject(p)) /\ ButSandbox
  \/ subject = "sandbox" /\ (\E s \in Starts, p \in Projects : AskStart(s, p)) /\ ButSandbox
  \/ subject = "sandbox" /\ (\E s \in Starts : Start(s)) /\ ButSandbox
  \/ subject = "sandbox" /\ (\E s \in Starts : StartUnwritten(s)) /\ ButSandbox
  \/ subject = "sandbox" /\ (\E s \in Starts : StartCrashes(s)) /\ ButSandbox
  \/ subject = "sandbox" /\ (\E i \in Pids : ProcessEnds(i)) /\ ButSandbox
  \/ subject = "sandbox" /\ (\E i \in Pids : Reaped(i)) /\ ButSandbox
  \/ subject = "sandbox" /\ (\E i \in Pids : PidReused(i)) /\ ButSandbox
  \/ subject = "sandbox" /\ ServerRestarts /\ ButSandbox

ContextStep ==
  \/ subject = "context" /\ Build /\ ButContext

WorkflowStep ==
  \/ subject = "workflow" /\ (\E f \in Flows : RunWorkflow(f)) /\ ButWorkflow
  \/ subject = "workflow" /\ (\E f \in Flows : BeginStep(f)) /\ ButWorkflow
  \/ subject = "workflow" /\ (\E f \in Flows : Prepare(f)) /\ ButWorkflow
  \/ subject = "workflow" /\ (\E f \in Flows : MountMcp(f)) /\ ButWorkflow
  \/ subject = "workflow" /\ (\E f \in Flows : MountConnectors(f)) /\ ButWorkflow
  \/ subject = "workflow" /\ (\E f \in Flows : AgentAnswers(f)) /\ ButWorkflow
  \/ subject = "workflow" /\ (\E f \in Flows : EndWorkflow(f)) /\ ButWorkflow
  \/ subject = "workflow" /\ (\E f \in Flows : MountDirectly(f)) /\ ButWorkflow
  \/ subject = "workflow" /\ ToggleBrowser /\ ButWorkflow
  \/ subject = "workflow" /\ ChangeOffer /\ ButWorkflow

ChatStep ==
  \/ subject = "chat" /\ CreateChat /\ ButChat
  \/ subject = "chat" /\ UpdateChat /\ ButChat
  \/ subject = "chat" /\ AppendRaw /\ ButChat
  \/ subject = "chat" /\ ChatRestart /\ ButChat
  \/ subject = "chat" /\ (\E r \in Askers : SendMessage(r)) /\ ButChat
  \/ subject = "chat" /\ (\E r \in Askers : StreamMessage(r)) /\ ButChat
  \/ subject = "chat" /\ (\E r \in Askers : StreamEnds(r)) /\ ButChat
  \/ subject = "chat" /\ (\E r \in Askers : EndRequest(r)) /\ ButChat
  \/ subject = "chat" /\ (\E r \in Askers, k \in 1..MaxModels : ModelResponds(r, k)) /\ ButChat
  \/ subject = "chat" /\ (\E r \in Askers, k \in 1..MaxModels : ModelRaises(r, k)) /\ ButChat

RunStep ==
  \/ subject = "run" /\ CreateChat /\ ButChat
  \/ subject = "run" /\ CreateRun /\ ButChat
  \/ subject = "run" /\ UpdateRun /\ ButChat

ServicesNext ==
  \/ EventStep \/ PolicyStep \/ BrowserStep \/ ConnectorStep
  \/ SandboxStep \/ ContextStep \/ WorkflowStep \/ ChatStep \/ RunStep

ServicesSpec == ServicesInit /\ [][ServicesNext]_serviceVars
=============================================================================
