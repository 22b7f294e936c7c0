SPECIFICATION FairSpec
CONSTANTS
  None = None
  Cids <- MCCids
  Base = {1}
  Uploaded = {1, 2}
  Reuploads = {}
  PageSize = 2
  Drill = {}
  MaxFaults = 1
PROPERTY InterruptedRunsFinish
