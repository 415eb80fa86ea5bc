CONSTANTS
  Work <- TurnsAndClear
  Crowds <- Three
  Texts <- Saying
  Opening <- Session
  MaxTurns = 2
  MaxOverflow = 3
  FlushAt = 4
  MaxLoad = 3
  NoOne = NoOne
SPECIFICATION Spec
INVARIANTS
  TypeOK
  
  TurnsAgree
PROPERTIES
  HistoryKept
  
CHECK_DEADLOCK FALSE
