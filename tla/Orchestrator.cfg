SPECIFICATION FairSpec
CONSTANTS
  Dates = {1, 2, 3}
  CapDays = 2
  Threads = {t1, t2}
  NoDate = NoDate
  NoThread = NoThread
INVARIANTS
  TypeOK
  SingleFlight
  NoDateTwice
PROPERTIES
  CatchupLeavesNoGap
  DrainsWhileLooping
  RefinesDateQueue
