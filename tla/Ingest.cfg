SPECIFICATION FairSpec
CONSTANTS
  FirstDay = 2
  LastDay = 3
  CapDays = 2
  ManualDays = {1}
  Configs <- MCConfigs
  NoDay = NoDay
INVARIANTS
  TypeOK
  DaysAccountedFor
  OnlyPastDays
PROPERTIES
  RefinesDateQueue
  BootCatchesUp
