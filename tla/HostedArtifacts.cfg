SPECIFICATION Spec
CONSTANTS
  parent = parent
  child = child
  c1 = c1
  c2 = c2
  Parent = parent
  Child = child
  Keys = {1, 2}
  SizeOf <- MCSizeOf
  Callers = {c1, c2}
  PageSize = 2
  MaxCalls = 4
  MaxLiveBytes = 3
  MaxObjects = 2
  MaxPuts = 2
  MaxGets = 2
  MaxLists = 3
  MaxDeletes = 2
INVARIANTS
  BucketIsCharged
  IndexedArtifactIsStored
  ExposedBranchIsWhole
  CompletionIsProven
SYMMETRY MCCallers
CHECK_DEADLOCK FALSE
