SPECIFICATION Spec
CONSTANTS
  Dates = {1, 2}
  Events = {e1, e2}
  Reports <- MCReports
  BatchSize = 1
  MaxRuns = 3
  Null = Null
  e1 = e1
  e2 = e2
INVARIANTS
  FailedRunLeavesNoRows
