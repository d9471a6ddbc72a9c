SPECIFICATION Spec
CONSTANTS
  Task <- ChainTask
  Group <- ChainGroup
  Root = "root"
  Pool <- OnePool
  Limit <- OneSlot
  Home <- ChainHome
  Kind <- ChainKind
  Desc <- ChainDesc
  DescOf <- ChainDescOf
  DepKeys <- ChainDeps
  Spawner <- ChainSpawner
  Owner <- ChainOwner
  Below <- ChainBelow
  MayEnd <- ChainMayEnd
  Main = "main"
  Control = "control"
  NoTask = "none"
INVARIANTS
  TypeOK PoolAccounting RunsAfterDependencies CollectionExact VerdictIsTrue
PROPERTIES
  ImplementsContract
