\* Two jobs that may overlap, a buffer that overflows.
CONSTANTS
  j1 = j1
  j2 = j2
  Jobs <- MCJobs
  Limit = 2
  MaxReports = 4
  OutCapacity = 1
  InCapacity = 1
SPECIFICATION Spec
INVARIANTS
  TypeOK
  BufferWithinLimit
  EveryReportInOnePlace
  WrittenAtMostOnce
PROPERTIES
  RestoreLosesOnlyWhenFull
  ContextMovesForward
