SPECIFICATION LockSpec
CONSTANTS
  Processes = {p1, p2}
  NoLock = NoLock
  NoPid = NoPid
INVARIANT OneProcessPerRun
CHECK_DEADLOCK FALSE
