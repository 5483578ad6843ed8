SPECIFICATION LaunchSpec
CONSTANTS
  Workers = {w1}
  Intents <- MCIntents
  Payload <- MCPayload
  Stores <- MCStores
  Binding = "b1"
  MaxLifetime = 4
  ClaimIds = {c1}
  Nonces = {x1}
  Launchers = {l1, l2}
  AttemptIds = {a1}
  AttemptNonces = {y1}
  MaxTime = 2
  Zero = Zero
  None = None
INVARIANTS
  RecoveryExact
  LaunchNeverLockedOut
  AttemptsRestOnClaims
  AttemptRecoveryExact
PROPERTY
  LaunchImplementsOneShot
SYMMETRY Symmetry
VIEW View
