SPECIFICATION Spec
CONSTANTS
  None = None
  Actions <- ThreeActions
  ActionKey <- SharedKey
  N = 2
  RuleProposals <- FourChanges
  RuleOp <- ChangeOp
  RuleOf <- ChangedRule
  MaxRevision = 1
  Humans = {h1, h2}
  Owner = h1
  Agent = agent
  Nobody = nobody
  MaxPeriod = 2
  MaxSerial = 2
  MaxPolicy = 2
  MaxControls = 4
  Managers = {m1, m2}
  Budgets <- TwoBudgets
  Asked <- SevenRequests
  MaxCalls = 3
  MaxFaults = 2
  MaxReconfigured = 1
  Transfers = {t1, t2}
  People = {person}
  Limit = 1
  MaxFindings = 3
  MaxVersion = 3
INVARIANTS ActionSafe RulesSafe ConnectionSafe
PROPERTIES  WritesBacked FindingsHeld
CHECK_DEADLOCK FALSE
