SPECIFICATION LexiconSpec
CONSTANTS
  Programs <- MCPrograms
  Probes <- MCProbes
  MaxPhrases = 4
INVARIANTS TreeIsSound DefinitionIsUndone ImagesMean
PROPERTIES LogRefinement UndoIsExact
CHECK_DEADLOCK FALSE
