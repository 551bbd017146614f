CONSTANTS
  Agents = {alice}
  Veterans = {alice}
  Messages = {}
  Tasks = {t1, t2, t3}
  NoTask = NoTask
  Team = Team
  PageLimit = 1
  MaxHead = 8
  MaxEdition = 0
  MaxFiles = 2
  MayCrash = FALSE
SPECIFICATION ReadyArchiveSpec
SYMMETRY ArchiveSymmetry
CHECK_DEADLOCK FALSE
INVARIANTS FilesAgree
