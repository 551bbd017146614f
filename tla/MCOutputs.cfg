CONSTANTS
  Processes = {p1, p2}
  Nobody = Nobody
  NoPath = NoPath
  NoFile = NoFile
  MaxFaults = 1
  Directories <- MCDirectories
  Roots <- MCRoots
  Cwd <- MCCwd
  Spelling <- MCSpelling
  OnDisk <- MCOnDisk
  Settings <- MCSettings
  Requests <- MCRequests
SPECIFICATION OutputsSpec
CHECK_DEADLOCK FALSE
INVARIANTS OutputsTypeOK ToldTruly
PROPERTIES OutputsKeepFiles NothingUnderfoot WaitsEnd
