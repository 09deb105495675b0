SPECIFICATION Spec
CONSTANTS
  Requests = {r1, r2}
  Agents = {finance, marketing}
  MaxTime = 1
  Lifetime = 1
  r1 = r1
  r2 = r2
  finance = finance
  marketing = marketing
SYMMETRY Interchangeable
INVARIANTS
  TypeOK
  GaugeCountsWorkflows
  OutcomesAgree
  SpansNest
  OnlyTokenHolders
CHECK_DEADLOCK FALSE
