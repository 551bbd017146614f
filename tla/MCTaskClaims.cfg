CONSTANTS
  Agents = {alice, bob}
  Sessions = {s1, s2, s3}
  Tasks = {t1}
  NoAgent = NoAgent
  NoSession = NoSession
  Lease = 2
  StaleThresholds = {1}
  SweepLimits = {1, 2}
  MaxSilence = 2
  MaxRevision = 4
SPECIFICATION Spec
SYMMETRY Symmetry
INVARIANTS TypeOK ClaimantIsAssigned AuditNamesOwnSession
PROPERTIES RevisionStandsForTask OnlyHolderChangesTask TakeoverOnlyAfterLease ImplementsFencedLease
