SPECIFICATION PredictionSpec
CONSTANTS
  Teams = {1, 2, 3, 4}
  Fixtures <- MCFixtures
  Goals = {0, 1, 2, 3}
  Null = Null
  Played = {2, 4}
  PlayedGoals <- MCPlayedGoals
  SimulatedGoals <- MCSimulatedGoals
  Asked <- MCAsked
  DefaultSimulations = 1
  MaxSimulations = 2
INVARIANTS PredictionTypeOK RowsCountTheMatches OrderedByTheRules PredictionsAddUp SettledTitleIsCertain OrderFollowsFromCounts
