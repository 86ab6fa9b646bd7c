SPECIFICATION Spec
CONSTANTS
  Size = 21
  EventSizes <- MCEventSizes
  HandlerEvents <- MCHandlerEvents
  MaxEvents = 12
INVARIANTS
  TraceTypeOK
  ReadableAtAnyInstant
  PopsOnlyWholeEvents
  ClaimedWordsAreFree
PROPERTY KeepsTheNewest
CHECK_DEADLOCK FALSE
