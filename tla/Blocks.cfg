SPECIFICATION BlocksSpec
CONSTANTS
  None = None
  Raw = {r}
  Dag = {d}
  Names = {head}
  Signers = {s1, s2}
  Mirrored = s1
  ReadsFail = FALSE
  Requests = {q1, q2, q3}
  MaxPuts = 2
  MaxSeq = 2
SYMMETRY ConnectionsAlike
INVARIANTS SlotsBalanced RawHoldIsStored
PROPERTIES DagHeadsNeverRollBack ReleaseFollowsSource
