SPECIFICATION FairSpec
CONSTANTS
  Runner = runner
  Requests = {request}
  Orphan = orphan
  Today = 4
  RunDates = {1}
  DryDates = {2, 3}
  EventDays = {1, 2, 4}
  Trusted = {request}
  Null = null
INVARIANTS
  TypeOK
  ParsesOwnReport
  EmptyMeansNoEvents
  LoginProvesCredentials
  TakenFileStays
PROPERTIES
  FlowsEnd
