SPECIFICATION Spec
CONSTANTS
  Workers = {w1, w2, w3}
  Envelopes <- MCTwoEnvelopes
  Payload <- MCTwoPayload
  Keys <- MCKeys
  Binding = "b1"
  ClaimIds = {c1}
  Nonces = {x1}
  MaxTime = 2
  MaxLifetime = 5
  MaxRetry = 2
  Zero = Zero
  None = None
  Unissued = Unissued
INVARIANT
  ExactlyOneWinner
SYMMETRY Symmetry
