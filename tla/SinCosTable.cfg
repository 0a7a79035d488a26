CONSTANTS
  Null = Null
  Setters = {s1, s2}
  Precisions <- MCPrecisions
  Angles <- MCAngles
  Parts = 4
  Turn = 2
  Base = 2
  IntMax = 8
  MaxCalls = 2
SPECIFICATION TableSpec
CHECK_DEADLOCK FALSE
INVARIANTS
  TablesMatch
  LookUpRight
PROPERTIES
  CallsReturn
