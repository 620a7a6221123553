SPECIFICATION FairSpec
CONSTANTS
  N = 4
  RawLimit = 2
INVARIANTS
  TypeOK
  BoundedGoroutines
  AtMostOneLateLaunch
  ReturnedMeansReported
  IInv
PROPERTIES
  ProgressInOrder
  Terminates
  ImplementsBatch
