CONSTANTS
  Work <- ThreeProxies
  Opening = 15
  CreditLimit = 2
  Limit <- Limits
  Unit = 10
  LastDay = 0
  DaysPerMonth = 2
  Cold = FALSE
  MayFail = FALSE
  MayExpire = FALSE
  NoOne = NoOne
  NoHash = NoHash
SPECIFICATION Spec
INVARIANTS
  TypeOK
  NeverOverdrawn
  BooksBalance
  AdmittedCounted
  ServedIsRecorded
