CONSTANTS
  Work <- TwoProxies
  Opening = 25
  CreditLimit = 2
  Limit <- Limits
  Unit = 10
  LastDay = 0
  DaysPerMonth = 2
  Cold = TRUE
  MayFail = FALSE
  MayExpire = FALSE
  NoOne = NoOne
  NoHash = NoHash
SPECIFICATION Spec
INVARIANTS
  BooksBalance
CHECK_DEADLOCK FALSE
