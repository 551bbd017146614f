CONSTANTS
  Clients = {c1}
  NoFile = NoFile
  MaxMark = 2
  MaxFiles = 2
SPECIFICATION DatabaseSpec
SYMMETRY ClientSymmetry
PROPERTIES InterruptedBeforeReplacement
