\* Alerts by the task, sent if possible and stored otherwise, and by the fault
\* handler, stored; sends fail, flash operations fail, power fails.
SPECIFICATION SpecDevice
CONSTANTS
  NoEntry = NoEntry
  Parts <- OneChunk
  MaxBoots = 2
  MaxAlerts = 2
  TaskEnd <- Attempt
  CrashEnd <- ToStore
  CloudFaults = TRUE
  PowerFaults = TRUE
  Capacity = 72
  PageSize = 24
  BufferSize = 20
  ConfigStrategy = "IGNORE"
  FlashFaults = TRUE
INVARIANTS
  DeviceTypeOK
  DeliveredIntact
  PayloadFollowsItsAlert
  SentAlertIsNotStored
