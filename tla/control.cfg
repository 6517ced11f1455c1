SPECIFICATION ControlSpec
CONSTANTS
  plain = plain
  Source <- OneSource
  File <- OneFile
  Key <- OneKey
  RelKey <- OneRelKey
  HistoryCap = 1
  Config = {plain}
  SourceOf <- OneSourceOf
  Scans <- OneScans
  MaxDay = 1
  NoFile <- NoName
  Missing = Missing
  Corrupt = Corrupt
  Watched = {}
  Invalid = Invalid
  Signals = {"kick", "terminate"}
  Edits = {}
  MaxCrashes = 1
  Posix = {"kick", "terminate"}
  SigCap = 2
  Kind = {"kick"}
  Sentinel = {plain}
INVARIANTS
  ControlTypeOK
  RequestUnderWay
  DirectorySwept
PROPERTIES
  KickFileServed
  TermHeard
