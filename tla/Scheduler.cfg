SPECIFICATION Spec
CONSTANTS
  study = study
  first = first
  child = child
  single = single
  c1 = c1
  w1 = w1
  w2 = w2
  none = none
  None = none
  Experiments = {study}
  Trials <- MCTrials
  Origin <- MCOrigin
  Standalone = {single}
  Slots = {w1, w2}
  Callers = {c1}
  MaxSessions = 2
  Failures = {"interrupted"}
  MaxDisturbances = 2
  MaxOfAKind = 1
INVARIANTS
  NoRowIsOrphaned
  NeverExecutedTwiceAutomatically
  AggregateLagsOnlyCompletions
PROPERTIES
  EveryJobIsServed
CHECK_DEADLOCK FALSE
