----------------------------- MODULE MCDispatch -----------------------------
(* A root authorization and a retry of it, or two unrelated authorizations, *)
(* submitted by several callers at once.                                    *)
EXTENDS DispatchLedger, TLC

\* Callers, claim identifiers and nonces are interchangeable.
Symmetry ==
  Permutations(Workers) \cup Permutations(ClaimIds) \cup Permutations(Nonces)

MCKeys == [k1 |-> [revoked |-> FALSE, validFrom |-> 0, validUntil |-> 9]]

Authorization(id, expires, retry, parent) ==
  [id |-> id, nonce |-> id, key |-> "k1", binding |-> "b1",
   issued |-> 0, notBefore |-> 0, expires |-> expires,
   retry |-> retry, parent |-> parent]

\* The retry is signed at time 0, perhaps before its parent is claimed.
MCEnvelopes == {"root", "retry"}
MCPayload ==
  [root  |-> Authorization("a0", 2, 0, None),
   retry |-> Authorization("a1", 2, 1, "a0")]

\* Two independent authorizations valid at the same time.
MCTwoEnvelopes == {"e1", "e2"}
MCTwoPayload ==
  [e1 |-> Authorization("a1", 3, 0, None),
   e2 |-> Authorization("a2", 3, 0, None)]
=============================================================================
