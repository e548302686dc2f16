SPECIFICATION LiveSpec
CONSTANTS
  Accounts = {a1}
  Cutoffs = {c1, c2}
  MaxFaults = 1
  Calls = {d1, d2}
  Keys = {k1, k2}
  NoCall = NoCall
  Unissued = Unissued
  Pending = Pending
  Rejected = Rejected
INVARIANTS
  HandsOff
  NothingLeftOff
PROPERTIES
  EndsOnRequest
  GuardProtects
  EveryCallSettles
  CloseReturns
CHECK_DEADLOCK FALSE
