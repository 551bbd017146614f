CONSTANTS
  Installers = {i1, i2, i3, i4}
  Prior = Prior
  Nothing = Nothing
  Torn = Torn
  Nobody = Nobody
  MaxKills = 2
SPECIFICATION InstallerSpec
CHECK_DEADLOCK FALSE
INVARIANTS InstallerTypeOK BundleSurvives OneAtATime SqliteBySqlite
PROPERTIES EndsWholly
SYMMETRY InstallerSymmetry
