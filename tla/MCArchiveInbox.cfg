CONSTANTS
  Agents = {alice, bob}
  Veterans = {alice}
  Messages = {m1, m2}
  Tasks = {}
  NoTask = NoTask
  Team = Team
  PageLimit = 1
  MaxHead = 6
  MaxEdition = 0
  MaxFiles = 2
  MayCrash = TRUE
SPECIFICATION ReadyArchiveSpec
SYMMETRY ArchiveSymmetry
CHECK_DEADLOCK FALSE
INVARIANTS ArchiveTypeOK NothingPassedOver
PROPERTIES ReadBeforeRemoved
