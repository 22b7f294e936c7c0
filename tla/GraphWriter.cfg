SPECIFICATION Spec
CONSTANTS
  w1 = w1
  w2 = w2
  x1 = x1
  x2 = x2
  x3 = x3
  va = va
  vb = vb
  nil = nil
  Writers = {w1, w2}
  Witnesses = {x1, x2, x3}
  MinAgree = 2
  Getters = {w1}
  Landed = 1
  MaxAttempts = 1
  Values <- MCValues
  Requests <- MCRequests
  None = nil
SYMMETRY Symmetry
INVARIANTS ChainLinked CommittedIsHeld
PROPERTIES RegisterSpec AnsweredIsCommitted ProvedNeverGoesBack
