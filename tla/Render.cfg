SPECIFICATION Spec
CONSTANTS
  NComp = 2
  Workers = 2
  Files = {"spec", "patch"}
  Marker = "RENDER_FAILED"
  Absent = {"absent"}
  Broken = {"broken"}
  Choices <- MCChoices
  NeedsMock = {2}
  DryRuns = {FALSE}
  MaxEdits = 1
  MaxFaults = 1
  MaxStops = 1
INVARIANTS
  TypeOK
  ReportIsTrue
  CheckPassMeansRendered
  SuccessMeansRendered
  IInv
PROPERTIES
  WritesAreJustified
