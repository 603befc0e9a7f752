\* Any batch of up to two updates over two events, again and again.
CONSTANTS
  e1 = e1
  e2 = e2
  e3 = e3
  Events = {e1, e2}
  NoResult = NoResult
  Updates <- MCUpdates
  MaxBatch = 2
SPECIFICATION Spec
INVARIANTS TypeOK ReportExplainsRows CleanBatchCatchesUp
PROPERTY ImplementsEventLife
