SPECIFICATION Spec
CONSTANTS
  plain = plain
  seasonal = seasonal
  Source <- MCSource
  File <- MCFile
  Key <- MCKey
  RelKey <- MCRelKey
  HistoryCap = 2
  Config = {plain, seasonal}
  SourceOf <- MCSourceOf
  Scans <- MCScans
  MaxDay = 2
  NoFile <- NoName
  Missing = Missing
  Corrupt = Corrupt
  Watched = {}
  Invalid = Invalid
  Signals = {"reload", "wake"}
  Edits = {plain, seasonal}
  MaxCrashes = 1
INVARIANTS
  TypeOK
  MemoryMirrorsDisk
  DecisionStillHolds
  NoRedundantApply
  ScreenOnRecord
  NoRepeat
  RecentDistinct
PROPERTIES
  HistorySpec
