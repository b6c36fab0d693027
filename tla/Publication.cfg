SPECIFICATION Spec
CONSTANTS
  s1 = s1
  s2 = s2
  c1 = c1
  c2 = c2
  Sessions <- MCSessions
  Contents <- MCContents
  BaseContent = c1
  NoSession = NoSession
  NoGeneration = NoGeneration
  NoPalette = NoPalette
  MaxId = 10
  Scripts <- MCScripts
INVARIANTS
  TypeOK
  PublishedWasSettled
  PaletteIsFresh
PROPERTIES
  NeverAttachesBackwards
  LogRefinement
CHECK_DEADLOCK FALSE
SYMMETRY MCSymmetry
