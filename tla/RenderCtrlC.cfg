SPECIFICATION Spec
CONSTANTS
  NComp = 2
  Workers = 2
  Files = {"spec", "patch"}
  Marker = "RENDER_FAILED"
  Absent = {"absent"}
  Broken = {"broken"}
  Choices <- MCChoices
  NeedsMock = {2}
  DryRuns = {FALSE}
  MaxEdits = 0
  MaxFaults = 0
  MaxStops = 1
PROPERTIES
  MarkersMeanFailure
