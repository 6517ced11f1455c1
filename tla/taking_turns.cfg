SPECIFICATION SeasonedSpec
CONSTANTS
  plain = plain
  p1 = p1
  p2 = p2
  Source <- MCSource
  File <- MCFile
  Key <- MCKey
  RelKey <- MCRelKey
  HistoryCap = 5
  Config = {plain}
  SourceOf <- MCSourceOf
  Scans <- MCScans
  MaxDay = 2
  NoFile <- NoName
  Missing = Missing
  Corrupt = Corrupt
  Watched = {}
  Invalid = Invalid
  Signals = {"terminate"}
  Edits = {}
  MaxCrashes = 1
  Proc = {p1}
  Commands = {"run", "next"}
  Overlap = FALSE
INVARIANTS
  ScreenAgrees
PROPERTIES
  HistorySpec
