SPECIFICATION MCSpec
CONSTANTS
  Off = Off
  MaxFaults <- MCMaxFaults
  Draws = {"d1", "d2"}
  InitialCount = 1
  PerDay = 1
  MaxDay = 2
  MaxResets = 1
  Ops = {"o1", "o2"}
  Execs = {"e1", "e2"}
  OperationRequests <- MCOperationRequests
  MaxAccounts = 2
  Queries = {"q1", "q2"}
  ScoreCalls = {"c1", "c2", "c3"}
  Clients = {"c1", "c2", "c3"}
  Keys = {"path"}
  MaxVersion = 2
  Viewers = {"p1", "p2"}
  Sections = {"usage", "errors"}
  Usage = "usage"
  MaxBuilds = 2
  Yaml = "yaml"
  Templates = {"t1", "t2"}
  MaxProcesses = 2
  JobCount = 2
  KeptJobs = 1
  Quantity = 3
  Totals = {10, 11}
  Workers = {"p1", "p2"}
  MaxImports = 1
  Owned = {1, 2}
  Plans = {"team", "plus"}
  NoPlan = "none"
  Units = {1, 2}
  MaxLines = 3
  LedgerRecords <- MCLedgerRecords
  ConfiguredRecords <- MCConfiguredRecords
  RefundLists <- MCRefundLists
  NoBatch = "none"
  Isolated = {"a1", "a2"}
  Taken = {"a2"}
  Callers = {"route", "round"}
  Round = "round"
  MaxGroups = 2
  Answers <- MCAnswers
  Expected <- MCExpected
  HttpStatuses = {200, 401, 429, 500}
  Probed <- MCProbed
  CandidateLimit = 2
  RepairLimit = 2
  MaxLoops = 2
  Metered = {1, 2}
  Wallets = {1}
  WalletOf <- MCWalletOf
  WindowRounds = 2
  MaxRounds = 3
  MaxOutput = 1
  RankedAccounts <- Four
  RankingRows <- MCRankingRows
  Unscored = Unscored
  TargetAttempts = 2
  MinPriority = 1
  MaxPriority = 5
  TopK = 3
  ForceNormalized = FALSE
  MinUniformity = 50
  QualityWeight = 2
  CostWeight = 1
  ExplorationWeight = 3
  Prior = 50
  Fixed <- None
  Reserve <- None
  WritesEnabled = TRUE
  Synced <- Four
  Runners = {"r1", "r2"}
  BatchSize = 2
  Scopes = {"codex", "claude"}
  MaxPages = 2
  MaxRequests = 4
  Sources = {"z1", "j1", "j2"}
  Zips = {"z1"}
  MaxActions = 4
  MaxTime = 1
  MaxPasses = 2
  Ttl = 0
INVARIANTS
  PrizesAreHonest
  RechargesBookedOnce
  ConnectionsAreSound
  
  CommandsAreSafe
  SuppliesAreAccounted
  RoundsAreHonest
  ComputationsAgree
  TurnsAreFair
  PagesAreHonest
CHECK_DEADLOCK FALSE
