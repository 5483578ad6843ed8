--------------------------- MODULE MCIntentLedger ---------------------------
(* Three intents, two of which carry one signed id.                        *)
EXTENDS IntentLedger, TLC

Symmetry ==
  Permutations(Workers) \cup Permutations(ClaimIds) \cup Permutations(Nonces)

\* The second store is a rotation that revokes the signing key.
Key(revoked) == [k1 |-> [revoked |-> revoked, validFrom |-> 0, validUntil |-> 4]]
MCStores == [s1 |-> Key(FALSE), s2 |-> Key(TRUE)]

Signed(id, nonce, from, until) ==
  [id |-> id, nonce |-> nonce, key |-> "k1", binding |-> "b1",
   issued |-> 0, notBefore |-> from, expires |-> until]

MCIntents == {"i1", "i2", "i3"}
MCPayload ==
  [i1 |-> Signed("a1", "n1", 0, 1), i2 |-> Signed("a1", "n2", 0, 2),
   i3 |-> Signed("a2", "n3", 1, 2)]
=============================================================================
