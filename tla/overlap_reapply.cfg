SPECIFICATION SeasonedSpec
CONSTANTS
  plain = plain
  p1 = p1
  p2 = p2
  Source <- MCSource
  File <- MCFile
  Key <- MCKey
  RelKey <- MCRelKey
  HistoryCap = 5
  Config = {plain}
  SourceOf <- MCSourceOf
  Scans <- MCScans
  MaxDay = 2
  NoFile <- NoName
  Missing = Missing
  Corrupt = Corrupt
  Watched = {}
  Invalid = Invalid
  Signals = {}
  Edits = {}
  MaxCrashes = 0
  Proc = {p1}
  Commands = {"run"}
  Overlap = TRUE
PROPERTIES
  TimerHarmless
