\* One alert; the log is read while it is being written.
SPECIFICATION Spec
CONSTANTS
  Rows <- TwoEntries
  MaxBoots = 1
  Pieces = TRUE
  SameSecond = FALSE
INVARIANTS
  PiecesArePutTogether
