SPECIFICATION Spec
CONSTANTS
  alice = alice
  bob = bob
  o1 = o1
  o2 = o2
  o3 = o3
  runner = runner
  admin = admin
  t1 = t1
  t2 = t2
  t3 = t3
  none = none
  nobody = nobody
  None = none
  Nobody = nobody
  Participants = {alice, bob}
  Threads = {t1}
  Owners = {runner}
  OwnerOf <- MCOneOwner
  OpIds = {o1, o2}
  Memories = {0}
  NoMemory = 0
  Results <- MCResults
  Scheduling = "simultaneous"
  PhaseDeadline = "coordinator"
  MissingAction = "noop"
  MaxTurns = 2
  MaxEpoch = 2
  MaxGeneration = 0
  MaxCursor = 0
SYMMETRY MCOperations
INVARIANTS
  CommittedActionsExecuteOnce
PROPERTIES
  ImplementsLedger
CHECK_DEADLOCK FALSE
