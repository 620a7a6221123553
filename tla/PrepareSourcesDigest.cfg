SPECIFICATION Spec
CONSTANTS
  NFiles = 2
  NContents = 2
  MaxAttempts = 2
  MaxLoose = 2
  Commands <- MCCommands
  Absent = Absent
  None = None
INVARIANTS
  RehashedAfterOverlays
