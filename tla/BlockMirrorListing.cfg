SPECIFICATION Spec
CONSTANTS
  None = None
  Raw = {r}
  Dag = {d}
  Names = {head}
  Signers = {s1}
  Mirrored = s1
  ReadsFail = TRUE
  Requests = {q1}
  MaxPuts = 1
  MaxSeq = 1
PROPERTY ReleaseFollowsSource
