SPECIFICATION Spec
CONSTANTS
  alice = alice
  bob = bob
  Participants = {alice, bob}
  Anyone = anyone
  Nobody = nobody
  MaxGeneration = 1
  MaxTokens = 1
  Level = "training"
  Budget = 1
  Sizes = {1}
  MaxRevision = 1
  MaxInvoked = 2
  MaxCalls = 2
  MaxRequests = 2
  Deployments <- MCDeployments
INVARIANTS
  EvidencePairsUp
  OvershootIsBounded
  NoProgramOutlivesItsCall
PROPERTIES
  AnswersMatchRequests
  AuthorityIsCurrent
  EveryCallReturns
CHECK_DEADLOCK FALSE
