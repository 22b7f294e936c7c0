SPECIFICATION LanesSpec
CONSTANTS
  Lanes = {"replica", "puller", "follower", "writer"}
  a = a
  b = b
  c = c
  d = d
  e = e
  g1 = g1
  g2 = g2
  w1 = w1
  w2 = w2
  x1 = x1
  x2 = x2
  va = va
  vb = vb
  None = None
  Nothing = Nothing
  Cids = {a, b, c, d, e}
  Rows <- TheRows
  Size <- TheSize
  PageSize = 2
  MaxPages = 2
  MaxNewBytes = 3
  Undecodable = {c}
  Shared = {a}
  LegacyCursors = {c, e}
  Late = {a}
  MaxFaults = 2
  GraphList <- TheGraphs
  Bad <- TheBad
  MaxCommits = 3
  MaxHeads = 3
  MaxOutages = 2
INVARIANTS CursorPassesOnlyHeld ReceiptMeansHeld CompleteMeansHeld
  HeldIsPinnedAndValid ExitZeroMeansHeadsHeld ReportIsComplete
PROPERTIES ReplicaLaneEnds RoundEnds FollowerLaneRepairs WriterLaneAnswers
