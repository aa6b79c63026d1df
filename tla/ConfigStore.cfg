SPECIFICATION Spec
CONSTANTS
  Keys = {k1, k2, k3}
  Passwords = {p1, p2}
  Settings = {s1, s2}
  Blank = Blank
  NoConfig = NoConfig
INVARIANTS
  TypeOK
  AlwaysReadable
  LastSaveHolds
PROPERTIES
  StaysConfigured
