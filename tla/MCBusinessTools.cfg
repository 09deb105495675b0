SPECIFICATION Spec
CONSTANTS
  Missing = Missing
  NotFinite = NotFinite
  Text = Text
  Limit = 100000
  SeriesLimit = 10
  Window = 3
  Horizon = 3
  SeasonLength = 2
  Threshold = 3
  SegmentLimit = 1
  Revenues = {4, 25, 1000}
  Costs = {6, 215}
  Observations <- AllObservations
  Common <- SmallObservations
  MaxRows = 3
  MaxSeries = 11
  MaxMixed = 4
INVARIANTS
  AnswersExplained
  OrdersReconcile
  SeriesReconcile
CHECK_DEADLOCK FALSE
