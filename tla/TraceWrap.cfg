SPECIFICATION Spec
CONSTANTS
  Size = 21
  EventSizes <- MCEventSizes
  HandlerEvents <- MCHandlerEvents
  MaxEvents = 12
INVARIANT HeadAndTailStayApart
CHECK_DEADLOCK FALSE
