SPECIFICATION Spec
CONSTANTS
  alice = alice
  t1 = t1
  t2 = t2
  alpha = alpha
  Participants = {alice}
  Independent = {alice}
  Runners = {t1, t2}
  Owners = {alpha}
  Nobody = nobody
  OwnerOf <- MCTwoRunners
  Payloads = {good, other}
  WellFormed = {good}
  PhaseDeadline = "coordinator"
  MissingAction = "noop"
  MaxTurns = 2
  MaxEpoch = 2
  MaxGeneration = 1
  MaxCheckpoints = 1
  Saving = {0}
  None = none
SYMMETRY MCRunners
INVARIANTS
  CancelledWorkIsResolvedOrReported
PROPERTIES
  ContinuationNeverRewinds
  ImplementsInvocations
  CheckpointsLoseNoDecision
CHECK_DEADLOCK FALSE
