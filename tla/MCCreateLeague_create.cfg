SPECIFICATION CreateSpec
CONSTANTS
  a = a
  b = b
  c = c
  d = d
  e = e
  f = f
  x = x
  Teams = {a, b, c, d, e, f}
  Half = 3
  Null = Null
  Requested <- MCRequested
INVARIANTS TypeOK OnceAWeek NoPairTwice DoubleRoundRobin StoredLeagueIsPlayable OnlyRepeatsRefused AnswerTellsWhatIsStored
