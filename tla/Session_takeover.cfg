SPECIFICATION Spec
CONSTANTS
  alice = alice
  bob = bob
  o1 = o1
  o2 = o2
  o3 = o3
  runner = runner
  admin = admin
  t1 = t1
  t2 = t2
  t3 = t3
  none = none
  nobody = nobody
  None = none
  Nobody = nobody
  Participants = {alice}
  Threads = {t1, t2, t3}
  Owners = {runner, admin}
  OwnerOf <- MCThreeCallers
  OpIds = {}
  Memories = {0}
  NoMemory = 0
  Results <- MCContinueOrEnd
  Scheduling = "event"
  PhaseDeadline = "coordinator"
  MissingAction = "noop"
  MaxTurns = 2
  MaxEpoch = 2
  MaxGeneration = 0
  MaxCursor = 1
SYMMETRY MCCallers
INVARIANTS
  CommitsAreExact
  CommitsFollowEpochs
CHECK_DEADLOCK FALSE
