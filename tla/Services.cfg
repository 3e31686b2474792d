SPECIFICATION ServicesSpec
CONSTANTS
  c1 = c1
  c2 = c2
  t1 = t1
  t2 = t2
  r1 = r1
  r2 = r2
  NULL = NULL
  StripeSubs = {"s1"}
  Prices = {"starter"}
  MaxCache = 1
  MaxEvents = 2
  MaxFlight = 2
  MaxLives = 2
  Req = {1, 2}
  Tabs = {t1, t2}
  Urls = {"u1", "u2"}
  MaxArtifacts = 1
  Clients = {c1, c2}
  Users = {"u1"}
  Calls = {"x"}
  CredIds = {1, 2}
  MaxFiled = 1
  MaxConfigs = 1
  MaxSpent = 2
  Projects = {"a", "b"}
  Pids = {1, 2, 3}
  Starts = {"s1", "s2"}
  Sizes = {1, 3}
  Budgets = {2, 7}
  MaxFacts = 2
  MaxSkills = 1
  MaxRecords = 2
  Flows = {"f1", "f2"}
  Steps <- TwoSteps
  MaxLoop = 2
  MaxRuns = 2
  MaxChanges = 1
  Askers = {r1, r2}
  RunStates = {"running", "completed"}
  MaxHistory = 1
  MaxRunEvents = 2
  MaxMessages = 3
  MaxModels = 2
  MaxUpdates = 3
SYMMETRY Alike
INVARIANT CallsCovered
INVARIANT RunningIsRecorded
INVARIANT PackFits
INVARIANT OneToolPerName
INVARIANT WebhookEffects
INVARIANT PermissionsHold
INVARIANT PageApprovals
 
CHECK_DEADLOCK FALSE
