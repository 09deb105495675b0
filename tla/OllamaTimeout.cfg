SPECIFICATION Spec
CONSTANTS
  Agents = {"finance"}
  MaxAttempts = 2
  MaxRetries = 1
  OllamaTimeout = FALSE
PROPERTY
  TimeoutsSurface
CHECK_DEADLOCK FALSE
