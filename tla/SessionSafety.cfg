SPECIFICATION Spec
CONSTANTS
  b1 = b1
  b2 = b2
  b3 = b3
  None = None
  Chain <- TwoBoards
  Virtual = {}
  MaxBoards = 3
  MissThreshold = 3
  MissMod = 4
  RefreshIdle = FALSE
  SharedMedium = TRUE
  MaxInput = 2
INVARIANT TypeOK
PROPERTIES MisattributionNoticed BrokenSessionNotPolled
