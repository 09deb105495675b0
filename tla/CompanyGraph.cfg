SPECIFICATION Spec
CONSTANTS
  MaxAttempts = 2
  MayOmit = {"finance"}
  Faults = {"agent", "tracking", "disconnect"}
INVARIANTS
  TypeOK
  OutcomeEarned
  MergedTogether
  CEOKnowsGaps
  TrackerTree
PROPERTIES
  ImplementsWorkflow
  Answered
