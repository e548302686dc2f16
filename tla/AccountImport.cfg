SPECIFICATION Spec
CONSTANTS
  Users = {u1, u2}
  Ids = {a1, a2}
  Nobody = Nobody
  JobCount = 2
  Retained = 1
  MaxFaults = 1
  MaxChanges = 1
SYMMETRY Symmetry
INVARIANTS
  ChargedOnce
  ChargesOnlyNew
PROPERTIES
  SuccessIsFullyCharged
CHECK_DEADLOCK FALSE
