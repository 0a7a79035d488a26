CONSTANTS
  Nil = Nil
  Targets <- MCTargets
  Short <- MCShort
  Long <- MCLong
  Type <- MCType
  Callbacks <- MCCallbacks
  SetType <- MCSetType
  HasParam <- MCHasParam
  Setups <- MCSetups
  PassInit <- MCPassInit
  Lines <- MCLines
  Buckets <- MCBuckets
  MaxParses = 2
SPECIFICATION Spec
CHECK_DEADLOCK FALSE
INVARIANTS
  MandatoryReported
