SPECIFICATION FairSpec
CONSTANTS
  None = None
  Cids <- MCCids
  Base = {1}
  Uploaded = {1, 2}
  Reuploads = {1, 2}
  PageSize = 2
  Drill <- MCDrill
  MaxFaults = 2
INVARIANTS WalkIsExact LogIsChained CommittedIsInCustody FinishedMeansCovered
PROPERTY RunsFinish
