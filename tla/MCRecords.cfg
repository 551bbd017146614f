CONSTANTS
  Artifacts = {art, brt}
  Decisions = {dec}
  Escalations = {esc}
  Reviews = {rev}
  Statuses = {s1, s2}
  Texts = {x, y}
  NoText = NoText
  NoReference = NoReference
  AnyStatus = AnyStatus
  MaxAudit = 4
  MaxClock = 1
SPECIFICATION RecordsSpec
SYMMETRY RecordsSymmetry
CHECK_DEADLOCK FALSE
INVARIANTS RecordsTypeOK ChangesRebuildPast TombstonesResolve NoOutOfBandFindings CausesCameFirst OpenResolvedOnce
PROPERTIES ImplementsLedger
