\* Two alerts stored in one boot, nothing fails.
SPECIFICATION SpecDevice
CONSTANTS
  NoEntry = NoEntry
  Parts <- OneChunk
  MaxBoots = 2
  MaxAlerts = 2
  TaskEnd <- ToStore
  CrashEnd <- ToStore
  CloudFaults = FALSE
  PowerFaults = FALSE
  Capacity = 120
  PageSize = 24
  BufferSize = 20
  ConfigStrategy = "IGNORE"
  FlashFaults = FALSE
INVARIANTS
  SendAllSendsAll
