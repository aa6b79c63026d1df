SPECIFICATION Spec
CONSTANTS
  Requests = {r1, r2}
  PoolSize = 1
  DryThreads = 1
  None = None
INVARIANTS
  TypeOK
  LockIsBrief
PROPERTIES
  LightRequestsAnswered
  EveryRequestAnswered
