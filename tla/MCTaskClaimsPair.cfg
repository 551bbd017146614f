CONSTANTS
  Agents = {alice, bob}
  Sessions = {s1, s2}
  Tasks = {t1, t2}
  NoAgent = NoAgent
  NoSession = NoSession
  Lease = 2
  StaleThresholds = {2}
  SweepLimits = {1, 2}
  MaxSilence = 2
  MaxRevision = 4
SPECIFICATION ReadySpec
SYMMETRY Symmetry
INVARIANTS CoordinationInvariants
