SPECIFICATION IngestSpec
CONSTANTS
  None = None
  Raw = {r}
  Dag = {d}
  Names = {head}
  Signers = {s1, s2}
  Requests = {q1, q2}
  MaxPuts = 2
  MaxSeq = 2
  ReadsFail = FALSE
INVARIANT DagHoldIsPinned
