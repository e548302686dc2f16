SPECIFICATION FairSpec
CONSTANTS
  r1 = r1
  r2 = r2
  q = q
  p = p
  a = a
  Score <- ScoreIds
  Quota <- QuotaIds
  IdleProbe <- ProbeIds
  Plain <- PlainIds
  Configs <- ThreeConfigs
  MaxFaults = 2
INVARIANTS
  OneRoundPerScope
  CadenceIsCurrent
  DisabledIsOff
PROPERTIES
  SamplingKeepsRunning
  RestoredInTheEnd
  ProbesKeepComing
