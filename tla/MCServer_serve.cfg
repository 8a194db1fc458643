SPECIFICATION ServerSpec
CONSTANTS
  Requests = {r1, r2}
  Probes = {p}
  PoolSize = 2
  TotalWeeks = 2
  m1 = m1
  m2 = m2
  m3 = m3
  before = before
  after = after
  Null = Null
  Matches <- MCTwoMatches
  WeekOf <- MCTwoWeekOf
  Simulated <- MCSimulatedTwo
  Scores = {"1-0"}
  Ratings = {before}
  Kinds = {"playAll", "edit", "delete", "rate"}
INVARIANTS ConnectionsMatchHandlers SomebodyGoesOn CleanExitCutsNobody ExitNamesItsCause SnapshotsAgree
PROPERTIES EveryRequestAnswered ShutdownEnds
