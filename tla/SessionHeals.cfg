SPECIFICATION FairSpec
CONSTANTS
  b1 = b1
  b2 = b2
  b3 = b3
  None = None
  Chain <- ThreeBoards
  Virtual = {b2}
  MaxBoards = 3
  MissThreshold = 1
  MissMod = 2
  RefreshIdle = TRUE
  SharedMedium = FALSE
  MaxInput = 1
PROPERTY SessionHeals
