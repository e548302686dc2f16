SPECIFICATION PunctualSpec
CONSTANTS
  Accounts = {a1, a2}
  Cutoffs = {c1}
  MaxFaults = 1
PROPERTIES
  ComesBackByItself
CHECK_DEADLOCK FALSE
