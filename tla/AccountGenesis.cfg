SPECIFICATION Spec
CONSTANTS
  Browser = {A, B}
  Collection = {C, D}
  MaxKey = 4
  MaxFaults = 2
  None = None
CHECK_DEADLOCK FALSE
INVARIANTS
  TypeOK
  KeyedByRoster
  PointerIsReachable
  BoundIsWhole
PROPERTY
  TornIsMended
