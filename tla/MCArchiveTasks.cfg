CONSTANTS
  Agents = {alice}
  Veterans = {alice}
  Messages = {m1}
  Tasks = {t1, t2, t3}
  NoTask = NoTask
  Team = Team
  PageLimit = 1
  MaxHead = 9
  MaxEdition = 1
  MaxFiles = 2
  MayCrash = TRUE
SPECIFICATION ReadyArchiveSpec
SYMMETRY ArchiveSymmetry
CHECK_DEADLOCK FALSE
INVARIANTS ReferencesResolve
PROPERTIES RowsLeaveArchived
