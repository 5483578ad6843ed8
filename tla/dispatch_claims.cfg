SPECIFICATION Spec
CONSTANTS
  Workers = {w1, w2}
  Envelopes <- MCEnvelopes
  Payload <- MCPayload
  Keys <- MCKeys
  Binding = "b1"
  ClaimIds = {c1, c2}
  Nonces = {x1, x2}
  MaxTime = 1
  MaxLifetime = 5
  MaxRetry = 2
  Zero = Zero
  None = None
  Unissued = Unissued
INVARIANTS
  SomeWinner
  RetryLineage
PROPERTY
  ImplementsOneShot
SYMMETRY Symmetry
