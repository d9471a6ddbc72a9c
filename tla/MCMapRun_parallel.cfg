SPECIFICATION MapFairSpec
CONSTANTS
  Task <- MTask
  Group <- MGroup
  Root = "root"
  Pool <- OnePool
  Limit <- OneSlot
  Home <- MHome
  Kind <- MKind
  Desc <- MDesc
  DescOf <- MDescOf
  DepKeys <- ParallelDeps
  Spawner <- MSpawner
  Owner <- MOwner
  Below <- MBelow
  MayEnd <- AtRoot
  Main = "main"
  Control = "control"
  NoTask = "none"
  Orch = "orch"
  Sub = "sub"
  Item <- MItem
  Bystander <- MBystander
INVARIANTS
  ResultsAreTrue
PROPERTIES
  RunEnds
