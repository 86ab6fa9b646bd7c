\* The device is reset anywhere; the log is read in lines.
SPECIFICATION FairSpec
CONSTANTS
  Rows <- TwoEntries
  MaxBoots = 2
  Pieces = FALSE
  SameSecond = FALSE
INVARIANTS
  SerialTypeOK
  SessionHoldsOneAlert
PROPERTIES
  ImplementsChannel
