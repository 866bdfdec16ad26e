SPECIFICATION Spec
CONSTANTS
  alice = alice
  bob = bob
  o1 = o1
  o2 = o2
  o3 = o3
  runner = runner
  admin = admin
  t1 = t1
  t2 = t2
  t3 = t3
  none = none
  nobody = nobody
  None = none
  Nobody = nobody
  Participants = {alice}
  Threads = {t1, t2}
  Owners = {runner}
  OwnerOf <- MCSharedOwner
  OpIds = {o1, o2}
  Memories = {0, 1}
  NoMemory = 0
  Results <- MCContinue
  Scheduling = "sequential"
  PhaseDeadline = "wall"
  MissingAction = "reject"
  MaxTurns = 2
  MaxEpoch = 1
  MaxGeneration = 1
  MaxCursor = 0
SYMMETRY MCCallers
INVARIANTS
  OneComputationPerLease
  AcceptedActionsAreLive
PROPERTIES
  CommitsAgainstFrozenInputs
CHECK_DEADLOCK FALSE
