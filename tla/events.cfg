SPECIFICATION FairSpec
CONSTANTS
  plain = plain
  seasonal = seasonal
  Source <- MCSource
  File <- MCFile
  Key <- MCKey
  RelKey <- MCRelKey
  HistoryCap = 1
  Config = {plain, seasonal}
  SourceOf <- MCSourceOf
  Scans <- SingleScans
  MaxDay = 2
  NoFile <- NoName
  Missing = Missing
  Corrupt = Corrupt
  Watched = {plain, seasonal}
  Invalid = Invalid
  Signals = {"kick", "terminate"}
  Edits = {seasonal, Invalid}
  MaxCrashes = 0
INVARIANTS
  KickNotLost
  EditNoticed
PROPERTIES
  EditTakesEffect
  KickServed
  ShutsDown
  NewDayNoticed
