SPECIFICATION FairSpec
CONSTANTS
  Dates = {1, 2, 3}
  CapDays = 2
  Threads = {t1, t2}
  NoDate = NoDate
  NoThread = NoThread
PROPERTIES
  AcceptedIsTaken
