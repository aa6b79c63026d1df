SPECIFICATION Spec
CONSTANTS
  Malformed = Malformed
  Chars <- MCChars
  Sep = Sep
  Blank = Blank
  HostZone <- MCHostZone
  Zones <- MCZones
  Reports <- MCReports
  MaxRuns = 2
INVARIANTS
  TypeOK
  EveryLineStored
  StoredInstantsTrue
PROPERTIES
  OnlyNewLinesAdded
  PreviewHolds
