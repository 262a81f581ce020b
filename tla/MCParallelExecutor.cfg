SPECIFICATION FairSpec
CONSTANTS
  Requested = 3
  MaxCalls = 2
INVARIANTS
  TypeOK
  TaskPointerRaceFree
  TaskObjectAlive
  NoLostWakeup
PROPERTIES
  IsForkJoin
  ExecuteReturns
  DestroyReturns
  IdleWorkersSleep
