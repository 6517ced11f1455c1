SPECIFICATION ConfigSpec
CONSTANTS
  FirstYear = 1
  LastYear = 2
  LeapYears = {2}
  Length <- ThreeMonths
  LeapMonth = 2
  Absent = Absent
  Bad = Bad
  Raws <- Files
\* The calendar ends.
CHECK_DEADLOCK FALSE
INVARIANTS
  WinnerOutranks
  ConflictsAreReal
  NextMatchIsFirst
  LoadedSchedulable
  NoDeadSeason
