CONSTANTS
  Work <- ProxyAndStream
  Opening = 10
  CreditLimit = 2
  Limit <- Limits
  Unit = 10
  LastDay = 1
  DaysPerMonth = 2
  Cold = TRUE
  MayFail = TRUE
  MayExpire = TRUE
  NoOne = NoOne
  NoHash = NoHash
SPECIFICATION Spec
INVARIANTS
  NeverOverdrawn
PROPERTIES
  EveryRequestEnds
CHECK_DEADLOCK FALSE
