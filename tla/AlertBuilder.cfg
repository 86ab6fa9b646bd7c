SPECIFICATION FairSpec
CONSTANTS
  NetworkFaults = TRUE
  CallbackFaults = TRUE
  StackCapture = 300
  ChunkSize = 2000
  TraceSize = 1200
  MaxSymptoms = 4
  MaxPayloads = 2
  MaxAlerts = 2
  TaskAlerts <- MCTaskAlerts
INVARIANTS
  BuilderTypeOK
  NothingOfAnotherAlert
  SameIdSameAlert
  OneSession
  ChunksTileTheirPayload
  DumpIsWhole
  SocketMatchesContext
  PublishesInSession
PROPERTY EndReturns
CHECK_DEADLOCK FALSE
