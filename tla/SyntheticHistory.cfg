SPECIFICATION Spec
CONSTANTS
  NComp = 1
  NSnap = 2
  MaxCommit = 4
  Inputs = {1, 2}
  Absent = Absent
  Corrupt = Corrupt
  None = None
  Mainline <- MCMainline
  Authored <- MCAuthored
  Resolves <- MCResolves
  SpecRelease <- MCSpecRelease
  Choices <- MCChoices
  MaxEdits = 2
  MaxBump = 1
  MaxLog = 3
  MaxFaults = 1
INVARIANTS
  TypeOK
  HistoryIsComplete
  OverlaysComeLast
  RefusalIsJustified
  DirtyPreviewsCommit
PROPERTIES
  ReleaseRises
CHECK_DEADLOCK FALSE
