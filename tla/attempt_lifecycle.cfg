SPECIFICATION AttemptSpec
CONSTANTS
  FixtureTimeout = 1
  CleanupTimeout = 1
  CloseOutcomes = {TRUE, FALSE}
  MaxRecords = 2
INVARIANTS
  EvidenceNeverRefused
  CleanupClaimIsTrue
  VerdictIsEarned
  SubreaperUntilEmpty
PROPERTIES
  SignalsOnlyItsChild
  AttemptReturns
