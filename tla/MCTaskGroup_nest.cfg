SPECIFICATION FairSpec
CONSTANTS
  Task <- NestTask
  Group <- NestGroup
  Root = "root"
  Pool <- OnePool
  Limit <- OneSlot
  Home <- NestHome
  Kind <- NestKind
  Desc <- NestDesc
  DescOf <- NestDescOf
  DepKeys <- NestDeps
  Spawner <- NestSpawner
  Owner <- NestOwner
  Below <- NestBelow
  MayEnd <- NestMayEnd
  Main = "main"
  Control = "control"
  NoTask = "none"
INVARIANTS
  WaitIsAJoin FailureStaysBelow
PROPERTIES
  EveryWaitReturns
