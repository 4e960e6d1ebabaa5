CONSTANTS
  ManualCaps = {1, 2}
  Speeds <- MCSpeeds
  Percents = {80, 90}
  Hasty = FALSE
  MaxActs = 2
  MaxConnects = 1
SPECIFICATION Spec
INVARIANT AppliedIsEnforced
CHECK_DEADLOCK FALSE
