------------------------------- MODULE Policy -------------------------------
(***************************************************************************)
(* What an agent may do: the permission matrix (core/permissions.py), the    *)
(* checks of a workspace's policy (core/policy.py) and the gate the Claude    *)
(* SDK is given (claude/runtime.py).  Paths, URLs and commands are the facts  *)
(* the rules tell apart.  The time limit of check_command is left out: no     *)
(* caller passes the time-out it would be compared with.                     *)
(***************************************************************************)
EXTENDS Naturals

VARIABLES question, verdict    \* the operation put to the matrix and the policy, the answer

policyVars == <<question, verdict>>

Modes == {"read-only", "workspace-write", "ask", "plan", "unrestricted"}
Levels == {"read", "write", "dangerous"}
Unset == "unset"

NormalizeMode(m) == IF m \in Modes THEN m ELSE "workspace-write"
NormalizeLevel(l) == IF l \in Levels THEN l ELSE "read"

\* decide_permission: allow, ask a human, or deny.
DecidePermission(mode, level) ==
  LET m == NormalizeMode(mode)
      l == NormalizeLevel(level) IN
  CASE m = "unrestricted" \/ l = "read"      -> "allow"
    [] m = "read-only" /\ l # "read"         -> "deny"
    [] m \in {"ask", "plan"} /\ l # "read"   -> "ask"
    [] m = "workspace-write" /\ l = "dangerous" -> "ask"
    [] OTHER                                 -> "allow"

\* The ceiling of a role, by the rank of the modes.  "ask" and "plan" rank above
\* "workspace-write", though they allow less without a human.
Rank(m) == CASE m = "read-only" -> 0 [] m = "workspace-write" -> 1 [] m = "ask" -> 2
             [] m = "plan" -> 3 [] m = "unrestricted" -> 4
Ceiling(role) == CASE role = "admin" -> "unrestricted" [] role = "user" -> "plan"
                   [] role = "viewer" -> "read-only" [] OTHER -> "workspace-write"

ClampPermissionMode(requested, role) ==
  IF Rank(NormalizeMode(requested)) > Rank(Ceiling(role)) THEN Ceiling(role)
  ELSE NormalizeMode(requested)

----------------------------------------------------------------------------
\* A policy that cannot be read counts as empty: its keys and its lists do not apply.
Effective(q) == IF q.read /\ q.override # Unset THEN q.override ELSE q.mode

Lists(q) == IF q.read THEN q.facts \cap {"unlisted", "blocked"} ELSE {}

CheckFileAccess(q) ==
  DecidePermission(Effective(q), IF q.op \in {"write", "delete"} THEN "write" ELSE "read")

\* An allowlist of domains decides before the mode does, unless the URL cannot be
\* parsed: then the mode alone decides.
CheckNetworkAccess(q) ==
  IF "unlisted" \in Lists(q) /\ "unparsed" \notin q.facts THEN "deny"
  ELSE DecidePermission(Effective(q), "write")

CheckMcpTool(q) == DecidePermission(Effective(q), q.level)

CheckConnector(q) == DecidePermission(Effective(q), "write")

\* The allowlist and the blocklist bind in every mode; the policy has no key that
\* replaces the mode for commands.
CheckCommand(q) ==
  IF Lists(q) # {} THEN "deny" ELSE DecidePermission(q.mode, "dangerous")

\* The level the Claude gate gives a tool of the SDK; "shell" is no bash here.
ClaudeLevel(q) ==
  CASE q.tool \in {"read", "ls"}                                -> "read"
    [] q.tool \in {"bash", "web"}                               -> "dangerous"
    [] q.tool \notin {"read", "ls", "bash", "web"}
         /\ "unsandboxed" \in q.facts                           -> "dangerous"
    [] OTHER                                                    -> "write"

\* The workspace check the Claude gate makes for a tool; other tools pass.
ClaudePolicy(q) ==
  CASE q.tool \in {"bash", "shell"} -> CheckCommand(q)
    [] q.tool = "edit"              -> CheckFileAccess([q EXCEPT !.op = "write"])
    [] q.tool = "read"              -> CheckFileAccess([q EXCEPT !.op = "read"])
    [] q.tool = "web"               -> CheckNetworkAccess(q)
    [] q.tool = "mcp"               -> CheckMcpTool([q EXCEPT !.level = ClaudeLevel(q)])
    [] OTHER                        -> "allow"

\* A wrong form: one permission is enough.
CanUseToolEither(q) ==
  LET policy == ClaudePolicy(q)
      own == DecidePermission(q.mode, ClaudeLevel(q)) IN
  CASE policy = "deny"                     -> "deny"
    [] policy = "allow" \/ own = "allow"   -> "allow"
    [] OTHER                               -> "ask"

\* can_use_tool: only the policy's denial is final, everything short of two
\* permissions asks a human, a read-only agent's write included.
CanUseTool(q) ==
  LET policy == ClaudePolicy(q)
      own == DecidePermission(q.mode, ClaudeLevel(q)) IN
  CASE policy = "deny"                     -> "deny"
    [] policy = "allow" /\ own = "allow"   -> "allow"
    [] OTHER                               -> "ask"

\* A connector tool's level: the workspace's override, the provider's, or a guess by name.
ConnectorAccessLevel(override, spec, guess) ==
  IF override # Unset THEN override ELSE IF spec \in Levels THEN spec ELSE guess

Facts == {{}, {"unlisted"}, {"blocked"}, {"unlisted", "unparsed"}, {"unsandboxed"}}

Questions ==
  [kind : {"file", "network", "mcp", "connector", "command", "claude"},
   mode : Modes \cup {"unknown"}, read : BOOLEAN, override : {Unset, "read-only", "unrestricted"},
   op : {"read", "write"}, level : Levels \cup {"unknown"},
   tool : {"read", "ls", "edit", "bash", "shell", "web", "mcp", "other"},
   role : {"admin", "user", "viewer", Unset}, facts : Facts]

Verdict(q) ==
  CASE q.kind = "file"      -> CheckFileAccess(q)
    [] q.kind = "network"   -> CheckNetworkAccess(q)
    [] q.kind = "mcp"       -> CheckMcpTool(q)
    [] q.kind = "connector" -> CheckConnector(q)
    [] q.kind = "command"   -> CheckCommand(q)
    [] q.kind = "claude"    -> CanUseTool(q)

\* The endpoints for pages, connector calls and Claude runs put the mode they are
\* asked for under the ceiling of the user's role; agents and the scheduler do not.
Clamped(q) ==
  IF q.role = Unset THEN q ELSE [q EXCEPT !.mode = ClampPermissionMode(@, q.role)]

----------------------------------------------------------------------------
Nothing == [kind |-> "none"]

PolicyInit == question = Nothing /\ verdict = "none"

\* One check of the matrix and the policy, as its caller makes it.
Decide ==
  /\ question = Nothing
  /\ \E q \in Questions :
       /\ q.kind # "claude" => q.tool = "other"
       /\ q.kind = "file" \/ q.op = "read"
       /\ q.kind = "mcp" \/ q.level = "write"
       /\ q.role = Unset \/ q.kind \in {"network", "connector", "claude"}
       /\ "unsandboxed" \in q.facts => q.kind = "claude"
       /\ "blocked" \in q.facts => q.kind = "command" \/ q.tool \in {"bash", "shell"}
       /\ "unparsed" \in q.facts => q.kind = "network" \/ q.tool = "web"
       /\ question' = q
       /\ verdict' = Verdict(Clamped(q))

PolicyNext == Decide

----------------------------------------------------------------------------
\* The lists of a workspace bind whatever the mode, the override and the caller: while
\* the policy can be read, a command that is blocked or not on the list, and a URL that
\* parses to a domain not on the list, is neither carried out nor put to a human.
ListsBind ==
  (question # Nothing /\ question.read) =>
  /\ (\/ question.kind = "command"
      \/ question.kind = "claude" /\ question.tool \in {"bash", "shell"}) =>
       (question.facts \cap {"unlisted", "blocked"} # {} => verdict = "deny")
  /\ (\/ question.kind = "network"
      \/ question.kind = "claude" /\ question.tool = "web") =>
       (question.facts = {"unlisted"} => verdict = "deny")

\* Neither the mode a viewer asks for nor the level of a tool lets anything but a read
\* go without a human, where the workspace has no key that widens the mode.
ViewerOnlyReads ==
  (/\ question # Nothing /\ question.role = "viewer" /\ verdict = "allow"
   /\ ~(question.read /\ question.override = "unrestricted")) =>
  question.kind = "claude" /\ ClaudeLevel(question) = "read"

\* "ask" and "plan" rank above "workspace-write" and allow less; for the three roles
\* there are, a role's ceiling still never allows what the mode asked for would not.
CeilingNeverWidens ==
  question # Nothing /\ verdict = "allow" => Verdict(question) = "allow"

\* What no mode, override or caller gets around: the lists and the role.
PermissionsHold == ListsBind /\ ViewerOnlyReads /\ CeilingNeverWidens
=============================================================================
