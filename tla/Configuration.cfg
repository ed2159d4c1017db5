SPECIFICATION Spec
CONSTANTS
  None = None
  Configs <- MCConfigs
  BoardNumbers = {0, 1, 2}
  MaxBoards = 2
  MaxBits <- MCMaxBits
  MaxByte = 3
  MaxNumber = 4
  MaxConnects = 2
  SkipLists <- MCSkipLists
INVARIANTS TypeOK NothingIsStale NumbersAreServed  ChainAgrees SettingsTaken
