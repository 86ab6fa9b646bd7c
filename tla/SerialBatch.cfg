\* Two alerts in a log that is read at once.
SPECIFICATION Spec
CONSTANTS
  Rows <- TwoEntries
  MaxBoots = 2
  Pieces = FALSE
  SameSecond = TRUE
INVARIANTS
  WrittenEntriesAreKept
