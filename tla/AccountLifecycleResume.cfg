SPECIFICATION FairSpec
CONSTANTS
  Accounts = {a1, a2}
  Runs = {r1}
  JobCount = 1
  Retained = 1
  BatchSize = 1
  MaxFaults = 1
  NoJob = NoJob
PROPERTIES
  ResumedSettlementEnds
CHECK_DEADLOCK FALSE
