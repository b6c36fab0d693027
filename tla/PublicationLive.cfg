SPECIFICATION FairSpec
CONSTANTS
  s1 = s1
  s2 = s2
  c1 = c1
  c2 = c2
  Sessions <- MCSessions
  Contents = {c1}
  BaseContent = c1
  NoSession = NoSession
  NoGeneration = NoGeneration
  NoPalette = NoPalette
  MaxId = 10
  Scripts <- MCFewScripts
PROPERTIES
  CommandsDrain
CHECK_DEADLOCK FALSE
