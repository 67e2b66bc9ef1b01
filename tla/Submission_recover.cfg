SPECIFICATION Spec
CONSTANTS
  s1 = s1
  s2 = s2
  Servers = {s1}
  None = None
  LegacySets <- NoLegacy
  MaxHurdles = 1
  PlatformPrompt = TRUE
  LeaderPrompt = TRUE
PROPERTY UncertainRecovers
