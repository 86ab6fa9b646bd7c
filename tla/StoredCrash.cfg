\* The task and the fault handler store alerts, two in a boot, of which the second
\* does not fit; the network works and the flash works; power may fail anywhere.
\* Three boots: what boot 1 stored, boot 3 uploads again after boot 2 was interrupted.
SPECIFICATION FairSpecDevice
CONSTANTS
  NoEntry = NoEntry
  Parts <- OnePayload
  MaxBoots = 3
  MaxAlerts = 2
  TaskEnd <- ToStore
  CrashEnd <- ToStore
  CloudFaults = FALSE
  PowerFaults = TRUE
  Capacity = 96
  PageSize = 24
  BufferSize = 20
  ConfigStrategy = "IGNORE"
  FlashFaults = FALSE
INVARIANTS
  StoredEntriesSurviveTheirBoot
  StoredAlertHasNoGap
  DeliveredIntact
  PayloadFollowsItsAlert
  OncePerBoot
PROPERTIES
  OldestErasedOnlyAfterDelivery
  OldestAlertReachesCloud
