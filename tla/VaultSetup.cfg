SPECIFICATION Spec
CONSTANTS
  Families = {f1, f2}
  NoFamily = NoFamily
  ZeroFamily = ZeroFamily
  NumCards = 2
  MaxLosses = 2
INVARIANTS
  TypeOK
  Earned
  FlowMatches
  FamilyRecoverable
PROPERTIES
  ReachesMenu
