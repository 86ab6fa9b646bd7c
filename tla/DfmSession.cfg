\* A port that keeps the session.
SPECIFICATION Spec
CONSTANTS
  PortKeepsSession = TRUE
INVARIANTS
  DisableIsRemembered
