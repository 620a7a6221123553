SPECIFICATION FairSpec
CONSTANTS
  NComp = 2
  NSnap = 2
  MaxCommit = 2
  Inputs = {1, 2}
  Absent = Absent
  Corrupt = Corrupt
  None = None
  Choices <- MCChoices
  Initial <- MCInitial
  MaxEdits = 1
  MaxFaults = 1
  MaxBump = 0
PROPERTIES
 Converges
