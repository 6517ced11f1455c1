SPECIFICATION Spec
CONSTANTS
  DayLength = 12
  Midnight <- MCMidnight
  NextMidnight <- MCNextMidnight
  Schedules <- DayTime
  CountsSleep = TRUE
  Suspends = TRUE
  MaxTime = 30
INVARIANTS
  TypeOK
  RotationServed
  SafetyNetHolds
PROPERTIES
  TimerForces
