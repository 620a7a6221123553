SPECIFICATION Spec
CONSTANTS
  Logs = {build_log}
  PipeSize = 1
  MaxLines = 2
INVARIANTS
  TypeOK
  OutputDelivered
  QuietAfterReturn
PROPERTIES
  RunReturns
  ChildNeverStuck
