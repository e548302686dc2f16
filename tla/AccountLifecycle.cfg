SPECIFICATION Spec
CONSTANTS
  Accounts = {a1, a2}
  Runs = {r1, r2}
  JobCount = 2
  Retained = 1
  BatchSize = 1
  MaxFaults = 2
  NoJob = NoJob
SYMMETRY Symmetry
INVARIANTS
  BookedBeforeDeleted
  BookedOnce
  SettledMeansGone
CHECK_DEADLOCK FALSE
