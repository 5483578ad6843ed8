------------------------------ MODULE OneShot ------------------------------
(***************************************************************************)
(* What a durable one-shot ledger of bpe promises, whatever its tables,    *)
(* transactions and callers are: a key is taken at most once, by a receipt *)
(* or by a tombstone, for ever; a receipt handed to a caller is a          *)
(* committed one; receipts are committed in the order of the durable clock.*)
(* DispatchLedger, IntentLedger and LaunchLedger implement it.             *)
(***************************************************************************)
EXTENDS Naturals

CONSTANTS
  Keys,       \* what may be consumed once
  Receipts,   \* evidence of a consumption
  KeyOf(_),   \* the key a receipt consumes
  At(_)       \* the durable time a receipt carries

VARIABLES
  taken,      \* keys consumed, with a receipt or with a tombstone
  receipts,   \* committed receipts
  told,       \* receipts some caller holds
  horizon     \* the durable clock

vars == <<taken, receipts, told, horizon>>

Init ==
  /\ taken = {}
  /\ receipts = {}
  /\ told = {}
  /\ horizon = 0

\* A key is consumed with a receipt; the caller may die before it learns so.
Consume(r) ==
  /\ KeyOf(r) \notin taken
  /\ At(r) >= horizon
  /\ taken' = taken \cup {KeyOf(r)}
  /\ receipts' = receipts \cup {r}
  /\ told' \in {told, told \cup {r}}
  /\ horizon' = At(r)

\* A key is consumed without a receipt: nobody will ever hold one for it.
Burn(k) ==
  /\ k \notin taken
  /\ taken' = taken \cup {k}
  /\ horizon' \in Nat /\ horizon' >= horizon
  /\ UNCHANGED <<receipts, told>>

\* A committed receipt is recovered.
Tell(r) ==
  /\ r \in receipts
  /\ told' = told \cup {r}
  /\ UNCHANGED <<taken, receipts, horizon>>

\* A call that consumes nothing still advances the durable clock.
Advance ==
  /\ horizon' \in Nat /\ horizon' >= horizon
  /\ UNCHANGED <<taken, receipts, told>>

Next ==
  \/ \E r \in Receipts : Consume(r) \/ Tell(r)
  \/ \E k \in Keys : Burn(k)
  \/ Advance

Spec == Init /\ [][Next]_vars
=============================================================================
