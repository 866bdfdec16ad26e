SPECIFICATION Spec
CONSTANTS
  o1 = o1
  o2 = o2
  t1 = t1
  t2 = t2
  Callers = {t1, t2}
  Nobody = nobody
  Participants = {alice}
  OpIds = {o1, o2}
  Amounts = {1, 2}
  Costs = {1, 2}
  MaxCost = 2
  MaxEpoch = 2
  MaxGeneration = 1
  MaxCheckpoints = 1
  None = none
SYMMETRY MCSymmetry
INVARIANTS
  BudgetIsConserved
  EffectsAreAccountedFor
  EndedOwesNothing
PROPERTIES
  ImplementsEffectLedger
  CheckpointsAreQuiescent
CHECK_DEADLOCK FALSE
