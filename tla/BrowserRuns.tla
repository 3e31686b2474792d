----------------------------- MODULE BrowserRuns ----------------------------
(***************************************************************************)
(* The browser runs of cognix/browser/service.py: the endpoint, the         *)
(* scheduler and an agent's tool call run(), which awaits the network        *)
(* policy, asks a human through the approval store, drives a page and saves  *)
(* what it saw as an artifact.  An agent whose own gate stops the tool files  *)
(* a request of its own.  A run over CDP drives the one page of a browser     *)
(* that somebody else started; the others open a page of their own.          *)
(***************************************************************************)
EXTENDS Approvals, FiniteSets

CONSTANTS Tabs, Urls,     \* coroutines; the pages they are sent to
          MaxArtifacts    \* no run starts when so many artifacts are saved (a bound)

\* Requests are numbered by time of filing, and of any of them one is the newest.
ASSUME BrowserAssumption ==
  /\ Req \subseteq Nat /\ MaxArtifacts \in Nat
  /\ \A S \in SUBSET Req : S # {} => \E q \in S : \A p \in S : p <= q

VARIABLES asked,        \* the browser requests of the approval store, by time of filing
          byRun,        \* those of them that a run has filed itself
          permitted,    \* requests a human has approved or answered at some time
          run,          \* what each coroutine is doing
          page,         \* the page shown by the browser behind the CDP endpoint
          artifacts     \* the reports and logs saved

browserVars == <<asked, byRun, permitted, run, page, artifacts>>

NoRun == [at |-> "idle"]

BrowserInit ==
  /\ asked = [q \in Req |-> NoRequest] /\ byRun = {} /\ permitted = {}
  /\ run = [t \in Tabs |-> NoRun]
  /\ page = NULL /\ artifacts = {}

\* A wrong form: any approval of the tool will do.
BrowserMatchesTool(q, url) == q \in Stored(asked)

\* The tool, the workspace and the URL of the request are those of the call.
BrowserMatches(q, url) == q \in Stored(asked) /\ asked[q].work = url

Matching(url) == {q \in Req : BrowserMatches(q, url)}
MostRecent(url) == CHOOSE q \in Matching(url) : \A p \in Matching(url) : p <= q
NextRequest == CHOOSE q \in Unused(asked) : \A p \in Unused(asked) : q <= p

Settled(q) == asked[q].status \in {"approved", "completed"}

\* run_browser_automation: the URL, the engine and the approval the caller names.
RunBrowser(t) ==
  /\ run[t] = NoRun /\ Cardinality(artifacts) < MaxArtifacts
  /\ \E url \in Urls, shared \in BOOLEAN, given \in Stored(asked) \cup {NULL} :
       run' = [run EXCEPT ![t] = [at |-> "policy", url |-> url, shared |-> shared,
                                  given |-> given, leave |-> NULL, text |-> NULL]]
  /\ UNCHANGED <<asked, byRun, permitted, page, artifacts>>

Go(t, leave) ==
  run' = [run EXCEPT ![t].at = "opening", ![t].leave = leave, ![t].given = NULL]
Refuse(t) == run' = [run EXCEPT ![t] = NoRun]

\* _approval_or_none after its await of the network policy.  A named approval is
\* looked at even where the policy denies outright; otherwise the newest request for
\* the URL decides, and the first caller files it.
ApprovalOrNone(t) ==
  /\ run[t].at = "policy"
  /\ \E answer \in {"allow", "ask", "deny"} :
       LET url == run[t].url
           given == run[t].given
           byStore == answer = "ask" /\ given = NULL IN
       \/ answer = "allow" /\ Go(t, NULL) /\ UNCHANGED <<asked, byRun>>
       \/ /\ answer # "allow" /\ given # NULL
          /\ IF BrowserMatches(given, url) /\ Settled(given) THEN Go(t, given) ELSE Refuse(t)
          /\ UNCHANGED <<asked, byRun>>
       \/ /\ byStore /\ Matching(url) # {}
          /\ IF Settled(MostRecent(url)) THEN Go(t, MostRecent(url)) ELSE Refuse(t)
          /\ UNCHANGED <<asked, byRun>>
       \/ /\ byStore /\ Matching(url) = {} /\ Unused(asked) # {}
          /\ asked' = [asked EXCEPT ![NextRequest] = Created("tool_permission", url)]
          /\ byRun' = byRun \cup {NextRequest} /\ Refuse(t)
       \/ answer = "deny" /\ given = NULL /\ Refuse(t) /\ UNCHANGED <<asked, byRun>>
  /\ UNCHANGED <<permitted, page, artifacts>>

\* _create_approval_request of an agent that calls the mounted tool in a mode that
\* needs a human: it does not look for a request that is there already.  Its kind says
\* which mode it was; nothing here looks at the kind.
AgentAsks ==
  /\ Unused(asked) # {}
  /\ \E url \in Urls :
       asked' = [asked EXCEPT ![NextRequest] = Created("tool_permission", url)]
  /\ UNCHANGED <<byRun, permitted, run, page, artifacts>>

\* page.goto, which may fail, and so may the launch or the connection before it.
OpenOwnPage(t) ==
  /\ run[t].at = "opening" /\ ~run[t].shared
  /\ run' = [run EXCEPT ![t].at = "reading"]
  /\ UNCHANGED <<asked, byRun, permitted, page, artifacts>>

OpenSharedPage(t) ==
  /\ run[t].at = "opening" /\ run[t].shared
  /\ page' = run[t].url
  /\ run' = [run EXCEPT ![t].at = "reading"]
  /\ UNCHANGED <<asked, byRun, permitted, artifacts>>

\* The title, the text and the links are read after another await.
ReadPage(t) ==
  /\ run[t].at = "reading"
  /\ run' = [run EXCEPT ![t].at = "saving",
                        ![t].text = IF run[t].shared THEN page ELSE run[t].url]
  /\ UNCHANGED <<asked, byRun, permitted, page, artifacts>>

RunFails(t) ==
  /\ run[t].at \in {"opening", "reading"}
  /\ run' = [run EXCEPT ![t].at = "saving", ![t].text = NULL]
  /\ UNCHANGED <<asked, byRun, permitted, page, artifacts>>

\* create_artifact: a report, or a log of the failure; without a database the run
\* ends in an exception and leaves neither.
CreateArtifact(t) ==
  /\ run[t].at = "saving" /\ run' = [run EXCEPT ![t] = NoRun]
  /\ \/ artifacts' = artifacts \cup
          {[url |-> run[t].url, leave |-> run[t].leave, text |-> run[t].text]}
     \/ UNCHANGED artifacts
  /\ UNCHANGED <<asked, byRun, permitted, page>>

\* A human approves, answers or rejects; a resumed request is completed.
Settle(q) ==
  /\ q \in Stored(asked)
  /\ \/ /\ asked' = [asked EXCEPT ![q] = Approved(@)]
        /\ permitted' = permitted \cup {p \in {q} : asked[q].status = "pending"}
     \/ asked' = [asked EXCEPT ![q] = Responded(@)] /\ permitted' = permitted \cup {q}
     \/ asked' = [asked EXCEPT ![q] = Rejected(@)] /\ UNCHANGED permitted
     \/ /\ asked[q].status = "approved"
        /\ asked' = [asked EXCEPT ![q] = Completed(@)] /\ UNCHANGED permitted
  /\ UNCHANGED <<byRun, run, page, artifacts>>

BrowserNext ==
  \/ \E t \in Tabs :
       \/ RunBrowser(t) \/ ApprovalOrNone(t) \/ OpenOwnPage(t) \/ OpenSharedPage(t)
       \/ ReadPage(t) \/ RunFails(t) \/ CreateArtifact(t)
  \/ AgentAsks
  \/ \E q \in Req : Settle(q)

----------------------------------------------------------------------------
\* However runs, verdicts and policies interleave, what a run has saved of a page it
\* opened without the policy's leave stands under a request for this very page that a
\* human has approved.
OpenedByLeave ==
  \A a \in artifacts :
    a.leave # NULL => a.leave \in permitted /\ asked[a.leave].work = a.url

\* A run asks a human only for a page that nobody has asked for: runs that arrive while
\* a request waits, or after its verdict, join it instead of filing another.
AskedOnce ==
  \A q \in byRun, p \in Stored(asked) : asked[p].work = asked[q].work => q <= p

\* A page behind the policy is read only by an approval of this very page, and however
\* many runs want it, none of them asks for it again.
PageApprovals == OpenedByLeave /\ AskedOnce
=============================================================================
