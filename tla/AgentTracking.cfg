SPECIFICATION Spec
CONSTANTS
  Agents = {"finance"}
  MaxAttempts = 2
  Faults = {"audit", "lost_ack", "tracking", "tracing", "tool", "llm", "provider", "cancel"}
INVARIANT
  TrackingIsTransparent
