CONSTANTS
  Agents = {alice, bob}
  Sessions = {s1, s2}
  Tasks = {t1}
  NoAgent = NoAgent
  NoSession = NoSession
  Lease = 2
  StaleThresholds = {1, 2}
  SweepLimits = {1}
  MaxSilence = 2
  MaxRevision = 4
SPECIFICATION FairSpec
PROPERTIES SilentHolderLosesTask
