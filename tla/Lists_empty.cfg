CONSTANTS
  NullPtr = NullPtr
  Elements <- MCElements
  Value <- MCValue
  Indexes <- MCIndexes
  OtherLists <- MCOtherLists
  Uses <- MCUses
SPECIFICATION ListSpec
CHECK_DEADLOCK FALSE
INVARIANTS
  LastComesOut
