SPECIFICATION FairSpec
CONSTANTS
  s1 = s1
  s2 = s2
  Servers = {s1}
  None = None
  LegacySets <- SomeLegacy
  MaxHurdles = 1
  PlatformPrompt = FALSE
  LeaderPrompt = FALSE
INVARIANTS TypeOK RetryBudget SettledIsAnswered
PROPERTY LedgerSpec FlowEnds
