SPECIFICATION Spec
CONSTANTS
  Missing = Missing
  NotFinite = NotFinite
  Text = Text
  Limit = 100000
  SeriesLimit = 10
  Window = 3
  Horizon = 3
  SeasonLength = 2
  Threshold = 3
  SegmentLimit = 3
  Revenues = {25}
  Costs = {6}
  Observations = {15, 25}
  Common = {15, 25}
  MaxRows = 0
  MaxSeries = 4
  MaxMixed = 4
INVARIANT RejectionsAreDomainErrors
CHECK_DEADLOCK FALSE
