SPECIFICATION Spec
CONSTANTS
  Runner = runner
  Requests = {}
  Orphan = orphan
  Today = 4
  RunDates = {1, 2, 3}
  DryDates = {}
  EventDays = {1, 2, 4}
  Trusted = {}
  Null = null
INVARIANTS
  NothingLeaksBetweenRuns
