SPECIFICATION LanesSpec
CONSTANTS
  Lanes = {"ship", "reader", "threads", "audit", "readback", "export", "import", "bridge", "standby"}
  Count = 3
  Kinds = {"car", "native", "large"}
  Large = {2}
  Manifests <- TheManifests
  Limits = {2}
  Modes = {"plain", "zstd", "s3"}
  MaxFaults = 2
  MaxCollects = 1
  CarRanges <- TheRanges
  NativeEnd = 1
  NativeLimits = {1}
  DirectRows = {2}
  RawRows = {1}
  LargeRows = {2}
  MaxClock = 1
  MaxReleases = 1
  MaxKills = 1
  Threads = {"t", "u"}
  Slots = 2
  HugeRows = {0}
  AuditModes = {"receipts", "pins"}
  GapModes = {TRUE, FALSE}
  MaxRows = 2
  LaneRows = 2
  MaxNew = 1
  MaxCuts = 3
  LargeCount = 2
  MaxPerRun = 1
  MaxStops = 2
  MaxLoosened = 1
  MaxSweeps = 1
  Clients = {"c1", "c2", "c3"}
  Objects = {"small", "large"}
  SizeOf <- TheSizes
  Budget = 4
  MaxGets = 3
  MaxTurns = 4
  MaxMishaps = 2
INVARIANTS PassedRowsAreKept MirroredRowsAreKept ReceiptsAreNoticed AnswersMatchCustody
  ReportIsTrue MirroredOnBothNodes ImportedIsKept BudgetIsExact NotStranded
PROPERTIES ShipImports ShipLaneEnds ReadbackLaneEnds ExportLaneEnds
  ImportLaneEnds StandbyLaneTakesOver
CHECK_DEADLOCK FALSE
