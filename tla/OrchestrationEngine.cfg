CONSTANTS
  Step <- Diamond
  OrderIdx <- Place
  DependsOn <- Needs
  MaxRetries <- OneRetry
  OnFailure <- Answers
  MarksError <- Caller
  Failover <- Caller
  Skippable <- Optional
  Sessions = {TRUE, FALSE}
  NoStep = NoStep
SPECIFICATION Spec
INVARIANTS
  TypeOK
  DependenciesFirst
  SerialSession
  VerdictSound
  ExecutedOnce
PROPERTIES
  NoLateStart
  ImplementsContract
  EveryRunEnds
