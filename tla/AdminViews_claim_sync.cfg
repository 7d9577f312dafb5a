CONSTANTS
  i1 = i1
  i2 = i2
  p1 = p1
  x1 = x1
  Never = Never
  Entities <- SmallShop
  Kind <- Kinds
  Owner <- Owners
  Second = 2
  Delay = 1
  Amounts <- SomeAmounts
  PerPage = 1
  SortOrder = "Desc"
  U32 = 1000
  MaxTime = 5
  MaxStamps = 2
  MaxVersion <- SomeVersions
SPECIFICATION ViewsSpec
INVARIANT SyncMissesNothing
CHECK_DEADLOCK FALSE
