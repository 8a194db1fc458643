SPECIFICATION Spec
CONSTANTS
  Requests = {r1, r2, r3}
  TotalWeeks = 2
  m1 = m1
  m2 = m2
  m3 = m3
  before = before
  after = after
  Null = Null
  Matches <- MCTwoMatches
  WeekOf <- MCTwoWeekOf
  Simulated <- MCSimulatedTwo
  Scores = {"1-0", "0-2"}
  Ratings = {before}
  Kinds = {"play", "reset", "edit"}
SYMMETRY RequestSymmetry
PROPERTY OnlyPlayedMatchesEdited
