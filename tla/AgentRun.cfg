SPECIFICATION Spec
CONSTANTS
  Agents = {"finance", "marketing", "data_scientist", "report", "ceo"}
  MaxAttempts = 2
  Faults = {"audit", "lost_ack", "tracking", "tracing", "tool", "llm", "provider", "cancel"}
INVARIANTS
  TypeOK
  AuditFailuresSurface
  EveryCallAudited
  VerdictMatchesResult
  TrailClosed
  RetriesReported
  OutcomesAgree
PROPERTIES
  PrimaryKept
  ImplementsContract
  Termination
