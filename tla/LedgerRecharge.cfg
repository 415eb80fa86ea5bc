CONSTANTS
  Work <- PurchaseAndRecharges
  Opening = 10
  CreditLimit = 2
  Limit <- Limits
  Unit = 10
  LastDay = 0
  DaysPerMonth = 2
  Cold = TRUE
  MayFail = TRUE
  MayExpire = FALSE
  NoOne = NoOne
  NoHash = NoHash
SPECIFICATION Spec
PROPERTIES
  BooksAreFinal
  StoresConverge
CHECK_DEADLOCK FALSE
