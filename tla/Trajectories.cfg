SPECIFICATION TrajectorySpec
CONSTANTS
  reader = reader
  begun = begun
  granted = granted
  retracted = retracted
  forked = forked
  None = None
  Records = {begun, granted, retracted, forked}
  PrevOf <- MCPrevOf
  IdOf <- MCIdOf
  Reward <- MCReward
  Supersedes <- MCSupersedes
  Batches <- MCBatches
  Readers = {reader}
  Selections <- MCSelections
  SchemaOf <- MCSchemaOf
  PageSize = 2
  MaxEvents = 3
  MaxCalls = 1
INVARIANTS
  SnapshotHoldsItsBoundary
  MembersWereEligible
  DatasetPagesAreExact
PROPERTIES
  ImplementsJournal
CHECK_DEADLOCK FALSE
