SPECIFICATION PlannedSpec
CONSTANTS
  Profiles = {p1, p2}
  Chains = {c1, c2}
  P1 = p1
  P2 = p2
  C1 = c1
  C2 = c2
  Topics = {newHeads}
  Configs <- MCConfigs
  MaxSockets = 2
  Concurrency = 2
  MaxRuns = 2
  MaxFetches = 2
  MaxQueue = 1
  MaxClicks = 4
  MaxBreaks = 2
INVARIANTS
  TypeOK
  RunAccounts
  PanelComesToRest
  PanelKeepsToProfile
PROPERTIES
  FinalOutcomeRetained
  RunsEnd
CHECK_DEADLOCK FALSE
