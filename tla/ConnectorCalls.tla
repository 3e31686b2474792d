--------------------------- MODULE ConnectorCalls ---------------------------
(***************************************************************************)
(* Connectors: the calls of cognix/api/routes/connectors.py, which wait for  *)
(* an approval, a credential and the provider, and the credentials and       *)
(* workspace configurations behind them (cognix/connectors/manager.py).      *)
(* One platform in one workspace; a call is a tool with its arguments.       *)
(***************************************************************************)
EXTENDS Approvals, Sequences, FiniteSets

CONSTANTS Clients, Users, Calls,       \* HTTP requests; who sends them; what they call
          CredIds,        \* ids of credentials
          MaxFiled, MaxConfigs, MaxSpent \* requests filed, configurations, uses (bounds)

ASSUME ConnectorAssumption == Req \cup {MaxFiled, MaxConfigs, MaxSpent} \subseteq Nat

VARIABLES filed,      \* the approval requests
          consents,   \* how often a request has been approved or answered
          spent,      \* the calls made and completed for a request
          raced,      \* requests with two calls under way at once, or a failed one
          creds,      \* the credentials in the database
          configs,    \* the workspace's connectors.json
          conn        \* what each HTTP request is doing

connVars == <<filed, consents, spent, raced, creds, configs, conn>>

Off == [at |-> "idle"]

ConnInit ==
  /\ filed = [q \in Req |-> NoRequest] /\ raced = {}
  /\ consents = [q \in Req |-> 0] /\ spent = [q \in Req |-> 0]
  /\ creds = {} /\ configs = <<>>
  /\ conn = [c \in Clients |-> Off]

permits == <<filed, consents, spent, raced>>
Goto(c, at) == conn' = [conn EXCEPT ![c].at = at]
Leave(c) == conn' = [conn EXCEPT ![c] = Off]

----------------------------------------------------------------------------
\* Only the first configuration of the platform is asked whether a tool is on.
ToolDisabled(call) == configs # <<>> /\ call \in configs[1].off

CallTool(c) ==
  /\ conn[c] = Off
  /\ \E user \in Users, call \in Calls, given \in Stored(filed) \cup {NULL} :
       /\ ~ToolDisabled(call)
       /\ conn' = [conn EXCEPT ![c] = [at |-> "policy", user |-> user, call |-> call,
                                       given |-> given, leave |-> NULL, row |-> NULL]]
  /\ UNCHANGED <<permits, creds, configs>>

\* A wrong form: a completed approval is good as well.
UsableAgain(q, call) == filed[q].status \in {"approved", "completed"} /\ filed[q].work = call

Usable(q, call) == filed[q].status = "approved" /\ filed[q].work = call

Using(q) == {c \in Clients : conn[c] # Off /\ "leave" \in DOMAIN conn[c] /\ conn[c].leave = q}

Permit(c, leave) ==
  conn' = [conn EXCEPT ![c].at = "workspace", ![c].leave = leave, ![c].given = NULL]

\* After the await of the policy: go on, or with an approval, or file a request.
PolicyAnswers(c) ==
  /\ conn[c].at = "policy"
  /\ LET call == conn[c].call
         given == conn[c].given IN
     \/ Permit(c, NULL) /\ UNCHANGED <<filed, raced>>
     \/ /\ given # NULL /\ Usable(given, call) /\ Permit(c, given)
        /\ raced' = raced \cup {q \in {given} : Using(q) # {}}
        /\ UNCHANGED filed
     \/ /\ given = NULL /\ Cardinality(Stored(filed)) < MaxFiled
        /\ \E q \in Unused(filed) :
             /\ \A p \in Unused(filed) : q <= p
             /\ filed' = [filed EXCEPT ![q] = Created("tool_permission", call)]
        /\ Leave(c) /\ UNCHANGED raced
     \/ Leave(c) /\ UNCHANGED <<filed, raced>>
  /\ UNCHANGED <<consents, spent, creds, configs>>

\* resolve_credential: the workspace's credential, whoever's it is, else the
\* caller's own; two that fit raise.
OfWorkspace == {r \in creds : r.shared}
OwnOf(user) == {r \in creds : r.user = user /\ ~r.shared}

Resolve(c, fitting, none) ==
  \/ /\ Cardinality(fitting) = 1
     /\ \E r \in fitting : conn' = [conn EXCEPT ![c].at = "token", ![c].row = r]
  \/ Cardinality(fitting) = 0 /\ none
  \/ Cardinality(fitting) > 1 /\ Leave(c)

ResolveWorkspace(c) ==
  /\ conn[c].at = "workspace" /\ Resolve(c, OfWorkspace, Goto(c, "own"))
  /\ UNCHANGED <<permits, creds, configs>>

ResolveOwn(c) ==
  /\ conn[c].at = "own" /\ Resolve(c, OwnOf(conn[c].user), Leave(c))
  /\ UNCHANGED <<permits, creds, configs>>

WithToken(c) == conn' = [conn EXCEPT ![c].at = "calling", ![c].row = NULL]

\* get_decrypted_token: a valid token, or one that refresh_if_expired has renewed.
TokenReady(c) ==
  /\ conn[c].at = "token" /\ conn[c].row.fresh /\ WithToken(c)
  /\ UNCHANGED <<permits, creds, configs>>

\* The refresh saves the detached row: without one in the database nothing is saved,
\* and the call goes on with the renewed copy.
RefreshIfExpired(c) ==
  /\ conn[c].at = "token" /\ ~conn[c].row.fresh
  /\ \/ /\ WithToken(c)
        /\ creds' = {IF r.id = conn[c].row.id THEN [r EXCEPT !.fresh = TRUE] ELSE r : r \in creds}
     \/ Leave(c) /\ UNCHANGED creds
  /\ UNCHANGED <<permits, configs>>

\* provider.call_tool returns: only then the approval is completed.
ProviderAnswers(c) ==
  /\ conn[c].at = "calling"
  /\ LET q == conn[c].leave IN
     IF q = NULL THEN UNCHANGED permits
     ELSE /\ spent[q] < MaxSpent
          /\ filed' = [filed EXCEPT ![q] = Completed(@)]
          /\ spent' = [spent EXCEPT ![q] = @ + 1]
          /\ UNCHANGED <<consents, raced>>
  /\ Leave(c) /\ UNCHANGED <<creds, configs>>

ProviderRaises(c) ==
  /\ conn[c].at = "calling" /\ Leave(c)
  /\ raced' = raced \cup ({conn[c].leave} \ {NULL})
  /\ UNCHANGED <<filed, consents, spent, creds, configs>>

Consent(q) ==
  /\ q \in Stored(filed) /\ consents[q] < MaxSpent
  /\ \E verdict \in {Approved(filed[q]), Responded(filed[q]), Rejected(filed[q])} :
       /\ filed' = [filed EXCEPT ![q] = verdict]
       /\ consents' = [consents EXCEPT ![q] = @ +
            IF verdict.status = "approved" /\ filed[q].status # "approved" THEN 1 ELSE 0]
  /\ UNCHANGED <<spent, raced, creds, configs, conn>>

----------------------------------------------------------------------------
\* handle_callback has the token; store_credential looks for a row of the same user
\* and scope, and two of them raise.
OAuthCallback(c) ==
  /\ conn[c] = Off
  /\ \E user \in Users, shared \in BOOLEAN :
       LET same == {r \in creds : r.user = user /\ r.shared = shared} IN
       /\ Cardinality(same) <= 1
       /\ conn' = [conn EXCEPT ![c] = [at |-> "storing", user |-> user, shared |-> shared,
                                       found |-> {r.id : r \in same}]]
  /\ UNCHANGED <<permits, creds, configs>>

\* The commit: the row that was found is updated, and raises if it has gone meanwhile.
StoreCredential(c) ==
  /\ conn[c].at = "storing"
  /\ LET found == conn[c].found
         row(id) == [id |-> id, user |-> conn[c].user, shared |-> conn[c].shared,
                     fresh |-> TRUE]
         kept == {r \in creds : r.id \notin found}
         present == {r.id : r \in creds} IN
     \/ \E id \in IF found = {} THEN CredIds \ present ELSE found \cap present :
          /\ creds' = kept \cup {row(id)}
          /\ conn' = [conn EXCEPT ![c] =
                        IF conn[c].shared THEN [at |-> "configuring", id |-> id] ELSE Off]
     \/ found # {} /\ kept = creds /\ Leave(c) /\ UNCHANGED creds
  /\ UNCHANGED <<permits, configs>>

\* upsert_connector without an id: every callback of a workspace appends one.
AddConfig(c) ==
  /\ conn[c].at = "configuring" /\ Len(configs) < MaxConfigs
  /\ configs' = Append(configs, [cred |-> conn[c].id, off |-> {}]) /\ Leave(c)
  /\ UNCHANGED <<permits, creds>>

\* delete_credential: the owner's, first its configurations and then the row.
DeleteConfigs(c) ==
  /\ conn[c] = Off
  /\ \E r \in creds :
       /\ conn' = [conn EXCEPT ![c] = [at |-> "deleting", id |-> r.id]]
       /\ LET KeepsIt(x) == ~r.shared \/ x.cred # r.id IN configs' = SelectSeq(configs, KeepsIt)
  /\ UNCHANGED <<permits, creds>>

DeleteRow(c) ==
  /\ conn[c].at = "deleting" /\ creds' = {r \in creds : r.id # conn[c].id} /\ Leave(c)
  /\ UNCHANGED <<permits, configs>>

\* toggle: the first configuration of the platform, which moves to the end of the file.
ToggleTool(call) ==
  /\ configs # <<>>
  /\ \E off \in {configs[1].off \cup {call}, configs[1].off \ {call}} :
       IF off = configs[1].off THEN UNCHANGED configs
       ELSE configs' = Append(Tail(configs), [configs[1] EXCEPT !.off = off])
  /\ UNCHANGED <<permits, creds, conn>>

Expire ==
  /\ \E r \in creds : creds' = (creds \ {r}) \cup {[r EXCEPT !.fresh = FALSE]}
  /\ UNCHANGED <<permits, configs, conn>>

CallNext == \E c \in Clients :
  \/ CallTool(c) \/ PolicyAnswers(c) \/ ResolveWorkspace(c) \/ ResolveOwn(c)
  \/ TokenReady(c) \/ RefreshIfExpired(c) \/ ProviderAnswers(c) \/ ProviderRaises(c)
CredentialNext ==
  \/ \E c \in Clients : \/ OAuthCallback(c) \/ StoreCredential(c) \/ AddConfig(c)
                        \/ DeleteConfigs(c) \/ DeleteRow(c)
  \/ \E call \in Calls : ToggleTool(call)
  \/ Expire
ConnNext == CallNext \/ CredentialNext \/ \E q \in Req : Consent(q)

----------------------------------------------------------------------------
\* An approval is for one call that succeeds: however calls, verdicts and changes of
\* the credentials interleave, it serves as often as a human has said yes, unless two
\* calls use it at once or one of them ends in an error (connectors.py completes it
\* only after the call).
CallsCovered == \A q \in Req \ raced : spent[q] <= consents[q]
=============================================================================
