SPECIFICATION SetterSpec
CONSTANTS
  second = second
  plain = plain
  p1 = p1
  p2 = p2
  Source <- MCSource
  File <- MCFile
  Key <- MCKey
  RelKey <- MCRelKey
  HistoryCap = 5
  Config = {plain}
  SourceOf <- MCSourceOf
  Scans <- MCScans
  MaxDay = 2
  NoFile <- NoName
  Missing = Missing
  Corrupt = Corrupt
  Proc = {p1, p2}
  Commands = {"run"}
  Hosts <- MCHosts
  Panels = {second}
INVARIANTS
  TypeOK
  RunIdempotent
  SuccessShown
PROPERTIES
  ApplyEnds
