CONSTANTS
  ManualCaps = {1}
  Speeds <- MCSpeeds
  Percents = {80, 90}
  Hasty = FALSE
  MaxActs = 2
  MaxConnects = 2
SPECIFICATION Spec
INVARIANTS SettingsSound LastRequestWins ScreenShowsSettings SavedCapsEnforced
CHECK_DEADLOCK FALSE
