SPECIFICATION Spec
CONSTANTS
  Agents = {"finance", "marketing"}
  MaxAttempts = 2
  MaxRetries = 1
  OllamaTimeout = TRUE
INVARIANTS
  TypeOK
  FailureExplained
  RequestBudget
PROPERTY
  ImplementsProvider
CHECK_DEADLOCK FALSE
