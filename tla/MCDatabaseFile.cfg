CONSTANTS
  Clients = {c1, c2}
  NoFile = NoFile
  MaxMark = 4
  MaxFiles = 4
SPECIFICATION DatabaseSpec
SYMMETRY ClientSymmetry
INVARIANTS DatabaseTypeOK NothingLost NoStaleLog
PROPERTIES ReportsTruthfully ReplacedIsKept ImplementsDurableStore
