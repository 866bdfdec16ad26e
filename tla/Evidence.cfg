SPECIFICATION EvidenceSpec
CONSTANTS
  root = root
  child = child
  grandchild = grandchild
  buyer = buyer
  Absent = Absent
  Sessions = {root, child, grandchild}
  Root = root
  Participants = {buyer}
  Classes <- MCClasses
  Audiences <- MCAudiences
  PageRows = 2
  MaxWrites = 6
INVARIANTS
  LineageIsExact
  HandlesResolve
  ReplayIsWhole
  LocalOverviewRecovers
SYMMETRY MCBranches
CHECK_DEADLOCK FALSE
