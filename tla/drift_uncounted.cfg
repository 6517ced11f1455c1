SPECIFICATION Spec
CONSTANTS
  DayLength = 12
  Midnight <- MCMidnight
  NextMidnight <- MCNextMidnight
  Schedules <- DayTime
  CountsSleep = FALSE
  Suspends = TRUE
  MaxTime = 36
PROPERTIES
  DriftForces
