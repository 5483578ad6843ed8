--------------------------- MODULE MCLaunchLedger ---------------------------
(* Launch attempts on a claimed intent under a trust store that rotates.   *)
EXTENDS LaunchLedger, TLC

\* The submission histories of the intent ledger play no part here.
View == <<clock, ledger, tables, store, worker, told, launchVars>>

\* The second store is a rotation that still trusts the signing key.
Key(until) == [k1 |-> [revoked |-> FALSE, validFrom |-> 0, validUntil |-> until]]
MCStores == [s1 |-> Key(4), s2 |-> Key(5)]

MCIntents == {"i1"}
MCPayload ==
  [i1 |-> [id |-> "a1", nonce |-> "a1", key |-> "k1", binding |-> "b1",
           issued |-> 0, notBefore |-> 0, expires |-> 2]]

Symmetry == Permutations(Launchers)
=============================================================================
