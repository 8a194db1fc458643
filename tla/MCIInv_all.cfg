SPECIFICATION RatedSpec
CONSTANTS
  Requests = {r1, r2, r3}
  TotalWeeks = 2
  m1 = m1
  m2 = m2
  m3 = m3
  before = before
  after = after
  Null = Null
  Matches <- MCTwoMatches
  WeekOf <- MCTwoWeekOf
  Simulated <- MCSimulatedTwo
  Scores = {"1-0", "0-2"}
  Ratings = {before, after}
  Kinds = {"play", "playAll", "reset", "recalculate", "edit", "delete", "rate"}
SYMMETRY RequestSymmetry
INVARIANTS IInv TypeOK PlayedThroughWeek SnapshotsAgree
PROPERTIES PlayAdvances PlaysCommitWhole OnlyResetGoesBack ResultsChangeOnlyByAudit EarlierSnapshotsKept
