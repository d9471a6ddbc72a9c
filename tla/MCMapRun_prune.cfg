SPECIFICATION MapSpec
CONSTANTS
  Task <- MTask
  Group <- MGroup
  Root = "root"
  Pool <- OnePool
  Limit <- OneSlot
  Home <- MHome
  Kind <- MKind
  Desc <- MDesc
  DescOf <- MDescOf
  DepKeys <- SerialDeps
  Spawner <- MSpawner
  Owner <- MOwner
  Below <- MBelow
  MayEnd <- Nowhere
  Main = "main"
  Control = "control"
  NoTask = "none"
  Orch = "orch"
  Sub = "sub"
  Item <- MItem
  Bystander <- MBystander
INVARIANT SerialMapSucceeds
