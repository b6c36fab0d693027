SPECIFICATION Spec
CONSTANTS
  b1 = b1
  b2 = b2
  root = root
  mid = mid
  leaf = leaf
  lib = lib
  Builders = {b1, b2}
  Sources = {root, mid, leaf}
  Libraries = {lib}
  Contents = {1, 2, 3}
  Root = root
  InitialContent = 1
  NoContent = NoContent
  NoEntry = NoEntry
  NoBuilder = NoBuilder
  NoModule = NoModule
  Scenes <- Shrinking
INVARIANTS
  HitIsFaithful
CHECK_DEADLOCK FALSE
