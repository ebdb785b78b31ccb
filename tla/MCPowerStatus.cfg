CONSTANTS
  Readings <- TwoReadings
  MaxAge = 1

SPECIFICATION FairPowerSpec

INVARIANTS
  BadgeIsSteady
  BadgeIsFresh

PROPERTIES
  RecoveryIsReported
