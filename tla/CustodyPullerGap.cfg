SPECIFICATION PullerSpec
CONSTANTS
  g1 = g1
  g2 = g2
  Nothing = Nothing
  GraphList <- MCGraphList
  Bad <- MCBad
  MaxCommits = 3
INVARIANT HoldsWhatIsCommitted
