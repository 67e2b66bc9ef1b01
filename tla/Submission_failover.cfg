SPECIFICATION Spec
CONSTANTS
  s1 = s1
  s2 = s2
  Servers = {s1, s2}
  None = None
  LegacySets <- NoLegacy
  MaxHurdles = 1
  PlatformPrompt = TRUE
  LeaderPrompt = TRUE
INVARIANTS AtMostOnce SendableIsUnanswered
SYMMETRY ServerSymmetry
