SPECIFICATION Spec
CONSTANTS
  League <- MCLeague
  TotalWeeks = 2
  PredictFrom = 1
  MaxClicks = 2
  MaxFailures = 0
  Unborn = Unborn
  Deleted = Deleted
  Nothing = Nothing
  Failed = Failed
  TooEarly = TooEarly
CHECK_DEADLOCK FALSE
INVARIANT PredictionRecomputed
