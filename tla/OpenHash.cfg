\* Five keys, tables created with 5 places that grow to 7, 8 or 15.
CONSTANTS
  Keys <- MCKeys
  None = None
  Vacated = Vacated
  Primary <- MCPrimary
  Secondary <- MCSecondary
  InitSizes = {5}
  GrowTargets = {8, 15}
  MaxSize = 15
  MaxLoad = 80
  Growth = 150
  CarefulRemoval = TRUE
SPECIFICATION Spec
INVARIANTS
  FoundExactly
  CountExact
  PlaceReached
PROPERTIES
  CallsReturn
CHECK_DEADLOCK FALSE
