CONSTANTS
  Agents = {alice, bob}
  Sessions = {s1, s2}
  Tasks = {t1}
  NoAgent = NoAgent
  NoSession = NoSession
  Lease = 1
  StaleThresholds = {1}
  SweepLimits = {1}
  MaxSilence = 1
  MaxRevision = 4
  Clients = {s1}
  Kinds = {"claim", "update"}
  Idle = Idle
SPECIFICATION ReadyClientsSpec
SYMMETRY ClientSymmetry
INVARIANTS AppliedOnce PlainClaimReplays
PROPERTIES NoLostUpdate
