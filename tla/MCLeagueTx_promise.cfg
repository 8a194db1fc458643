SPECIFICATION ApartSpec
CONSTANTS
  Requests = {r1, r2, r3}
  TotalWeeks = 2
  m1 = m1
  m2 = m2
  m3 = m3
  before = before
  after = after
  Null = Null
  Matches <- MCMatches
  WeekOf <- MCWeekOf
  Simulated <- MCSimulatedThree
  Scores = {"1-0", "0-2"}
  Ratings = {before}
  Kinds = {"play", "playAll", "reset", "recalculate", "edit", "delete"}
SYMMETRY WeekSymmetry
INVARIANT LastAuditIsCurrent
PROPERTY ImplementsSeason
