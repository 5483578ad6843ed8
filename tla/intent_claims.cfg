SPECIFICATION IntentSpec
CONSTANTS
  Workers = {w1, w2}
  Intents <- MCIntents
  Payload <- MCPayload
  Stores <- MCStores
  Binding = "b1"
  MaxLifetime = 4
  ClaimIds = {c1, c2}
  Nonces = {x1, x2}
  MaxTime = 2
  Zero = Zero
  None = None
INVARIANTS
  NeverLockedOut
  SubmittedIsConsumed
PROPERTIES
  IntentImplementsOneShot
SYMMETRY Symmetry
