SPECIFICATION EveningSpec
CONSTANTS
  DayLength = 12
  Midnight <- MCMidnight
  NextMidnight <- MCNextMidnight
  Schedules <- Evening
  CountsSleep = FALSE
  Suspends = FALSE
  MaxTime = 48
INVARIANTS
  RotationServed
