SPECIFICATION MCSpec
CONSTANTS
  small = small
  large = large
  NoEntry = NoEntry
  Entry <- MCEntry
  Size <- MCSize
  Capacity = 40
  PageSize = 16
  BufferSize = 8
  ConfigStrategy = "IGNORE"
  FlashFaults = TRUE
INVARIANTS
  TypeOK
  WritesGoToErasedFlash
  CellsAreDisjoint
  CellsAreInside
