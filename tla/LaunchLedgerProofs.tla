------------------------- MODULE LaunchLedgerProofs -------------------------
(***************************************************************************)
(* Proofs about the two ledgers of the fixture for all callers, launchers, *)
(* intents, trust stores and identifiers, and every bound on the clock.    *)
(* First the intent ledger by itself.  Its invariant carries over          *)
(* unchanged to the two ledgers side by side; what the launch ledger adds  *)
(* rests on it through the receipts a caller authenticates.                *)
(***************************************************************************)
EXTENDS LaunchLedger, TLAPS

(***************************************************************************)
(* The intent ledger.                                                      *)
(***************************************************************************)
\* The tables exist before a call uses them and hold nothing before.
ProvisionedInOrder ==
  /\ ledger # "ready" => highWater = 0 /\ reservations = {} /\ claims = {} /\ told = {}
  /\ \A w \in Workers :
       /\ worker[w].pc = "create" => ledger # "absent"
       /\ worker[w].pc \in {"claim", "transact"} =>
            /\ ledger = "ready"
            /\ worker[w].intent \in Intents
            /\ worker[w].store \in StoreIds
            /\ worker[w].claimId \in ClaimIds \cup {Zero}

\* Every reservation, claimed or tombstoned, was made inside its window.
ReservedInWindow == \A r \in reservations : InWindow(r.intent, r.at)

\* Every claim row holds a receipt its own validators accept.
ClaimsValid == \A c \in claims : ReceiptValid(c)

\* The inductive invariant.
IntentInv ==
  /\ IntentTypeOK
  /\ ProvisionedInOrder
  /\ SchemaTrusted
  /\ ReservedInWindow
  /\ ClaimsValid
  /\ told \subseteq claims

\* A fresh host has no ledger and no calls.
LEMMA IntentInitInv == Init => IntentInv
  <1> SUFFICES ASSUME Init PROVE IntentInv
    OBVIOUS
  <1>1. 0 \in Time
    BY IntentAssumption DEF Time
  <1>2. IntentTypeOK
    BY <1>1 DEF Init, IntentTypeOK, Idle, Pcs
  <1>3. ProvisionedInOrder
    BY DEF Init, ProvisionedInOrder, Idle
  <1>4. SchemaTrusted /\ ReservedInWindow /\ ClaimsValid /\ told \subseteq claims
    BY DEF Init, SchemaTrusted, SnapshotIntact, ReservedInWindow, ClaimsValid
  <1> QED BY <1>2, <1>3, <1>4 DEF IntentInv

\* Reserving an unconsumed intent at the current time keeps the rows trusted,
\* with or without a claim row beside the reservation.
LEMMA ReserveKeeps ==
  ASSUME IntentInv, NEW w \in Workers, Reserve(w),
         \/ claims' = claims
         \/ \E n \in Nonces : /\ Recordable(NewClaim(w, n))
                              /\ claims' = claims \cup {NewClaim(w, n)}
  PROVE  /\ NewReservation(w) \in Reservation
         /\ SchemaTrusted'
         /\ ReservedInWindow'
         /\ ClaimsValid'
         /\ highWater' \in Time /\ highWater' >= highWater
  <1> DEFINE i == worker[w].intent
             r == NewReservation(w)
             ClaimsUnique == \A c, d \in claims' :
                               \/ SameIdentity(c.intent, d.intent)
                               \/ c.claimId = d.claimId
                               \/ c.nonce = d.nonce
                               => c = d
             ClaimsReserved == \A c \in claims' :
                                 [intent |-> c.intent, store |-> c.store, at |-> c.at]
                                   \in reservations'
  <1> USE DEF Reserve
  <1>1. i \in Intents /\ worker[w].store \in StoreIds /\ clock \in Time
    BY DEF IntentInv, ProvisionedInOrder, IntentTypeOK
  <1>2. r \in Reservation /\ r.intent = i /\ r.at = clock
    BY <1>1 DEF NewReservation, Reservation
  <1>3. highWater' \in Time /\ highWater' >= highWater /\ highWater \in Nat /\ clock \in Nat
    BY <1>1, IntentAssumption DEF IntentInv, IntentTypeOK, ClockAccepted, Time
  <1>4. \A q \in reservations : ~SameIdentity(q.intent, i) /\ ~SameIdentity(i, q.intent)
    BY DEF Reservable, SignedIdentityTaken, SameIdentity
  <1>5. \A p, q \in reservations' : SameIdentity(p.intent, q.intent) => p = q
    BY <1>2, <1>4 DEF IntentInv, SchemaTrusted, SnapshotIntact
  <1>6. \A q \in reservations' : q.at <= highWater'
    BY <1>2, <1>3, IntentAssumption
    DEF IntentInv, SchemaTrusted, SnapshotIntact, IntentTypeOK, Reservation, Time
  <1>7. ASSUME NEW c \in claims
        PROVE  ~SameIdentity(c.intent, i) /\ ~SameIdentity(i, c.intent)
    <2>1. [intent |-> c.intent, store |-> c.store, at |-> c.at] \in reservations
      BY DEF IntentInv, SchemaTrusted, SnapshotIntact
    <2> QED BY <1>4, <2>1
  <1>8. ClaimsUnique /\ ClaimsReserved
    <2>1. CASE claims' = claims
      BY <2>1 DEF IntentInv, SchemaTrusted, SnapshotIntact
    <2>2. ASSUME NEW n \in Nonces, Recordable(NewClaim(w, n)),
                 claims' = claims \cup {NewClaim(w, n)}
          PROVE  ClaimsUnique /\ ClaimsReserved
      <3> DEFINE k == NewClaim(w, n)
      <3>1. /\ k.intent = i /\ k.claimId = worker[w].claimId /\ k.nonce = n
            /\ [intent |-> k.intent, store |-> k.store, at |-> k.at] = r
        BY DEF NewClaim, NewReservation
      <3>2. \A c \in claims : c.claimId # k.claimId /\ c.nonce # k.nonce
        BY <2>2 DEF Recordable
      <3>3. claims' = claims \cup {k} /\ reservations' = reservations \cup {r}
        BY <2>2
      <3> HIDE DEF k, r, i
      <3>4. ClaimsUnique
        BY <1>7, <3>1, <3>2, <3>3 DEF IntentInv, SchemaTrusted, SnapshotIntact
      <3>5. ClaimsReserved
        BY <3>1, <3>3 DEF IntentInv, SchemaTrusted, SnapshotIntact
      <3> QED BY <3>4, <3>5
    <2> QED BY <2>1, <2>2
  <1>9. SchemaTrusted'
    BY <1>5, <1>6, <1>8 DEF SchemaTrusted, SnapshotIntact, SameIdentity
  <1>10. ReservedInWindow'
    BY <1>2 DEF IntentInv, ReservedInWindow, Reservable, InWindow
  <1>11. ClaimsValid'
    BY DEF IntentInv, ClaimsValid, Recordable, ReceiptValid, WellFormed, InWindow
  <1> QED BY <1>2, <1>3, <1>9, <1>10, <1>11

\* A step that changes no table, or only raises the high-water mark, keeps what
\* the invariant says of the rows.
LEMMA RowsKept ==
  ASSUME IntentInv, UNCHANGED <<reservations, claims, told>>,
         highWater' \in Time, highWater' >= highWater
  PROVE  SchemaTrusted' /\ ReservedInWindow' /\ ClaimsValid' /\ (told \subseteq claims)'
  <1>1. SchemaTrusted'
    BY IntentAssumption DEF IntentInv, SchemaTrusted, SnapshotIntact, SameIdentity, IntentTypeOK, Reservation, Time
  <1> QED BY <1>1 DEF IntentInv, ReservedInWindow, ClaimsValid, ReceiptValid, WellFormed, InWindow

\* A caller that returns to idle keeps the caller part of the invariant.
LEMMA ReturnKeeps ==
  ASSUME IntentInv, NEW w \in Workers, Return(w)
  PROVE  /\ worker' \in [Workers -> [pc : Pcs, intent : Intents \cup {None},
                                     store : StoreIds \cup {None},
                                     claimId : ClaimIds \cup {Zero, None}, t : Time]]
         /\ (ledger' = ledger /\ ledger = "ready") => ProvisionedInOrder'
  <1>1. 0 \in Time
    BY IntentAssumption DEF Time
  <1> QED BY <1>1 DEF IntentInv, IntentTypeOK, ProvisionedInOrder, Return, Idle, Pcs

\* Every step of a caller or of the environment preserves the invariant.
LEMMA IntentNextInv == IntentInv /\ [IntentNext]_intentVars => IntentInv'
  <1> SUFFICES ASSUME IntentInv, [IntentNext]_intentVars PROVE IntentInv'
    OBVIOUS
  <1> USE DEF tables, history
  <1>1. highWater \in Time /\ highWater >= highWater
    BY IntentAssumption DEF IntentInv, IntentTypeOK, Time
  <1>2. ASSUME NEW w \in Workers, CreateDatabaseFile(w) PROVE IntentInv'
    <2> USE <1>2 DEF CreateDatabaseFile
    <2>1. IntentTypeOK' /\ ProvisionedInOrder'
      BY DEF IntentInv, IntentTypeOK, ProvisionedInOrder, Pcs
    <2> QED BY <1>1, <2>1, RowsKept DEF IntentInv
  <1>3. ASSUME NEW w \in Workers, CreateTables(w) PROVE IntentInv'
    <2> USE <1>3 DEF CreateTables
    <2>1. UNCHANGED tables
      BY DEF IntentInv, ProvisionedInOrder
    <2>2. IntentTypeOK'
      BY <2>1, ReturnKeeps DEF IntentInv, IntentTypeOK
    <2>3. ProvisionedInOrder'
      BY <2>1 DEF IntentInv, IntentTypeOK, ProvisionedInOrder, Return, Idle
    <2> QED BY <1>1, <2>1, <2>2, <2>3, RowsKept DEF IntentInv
  <1>4. ASSUME NEW w \in Workers, AdmitIntent(w) PROVE IntentInv'
    <2> USE <1>4 DEF AdmitIntent
    <2>1. 0 \in Time
      BY IntentAssumption DEF Time
    <2>2. IntentTypeOK'
      BY <2>1 DEF IntentInv, IntentTypeOK, Pcs
    <2>3. ProvisionedInOrder'
      BY DEF IntentInv, IntentTypeOK, ProvisionedInOrder
    <2> QED BY <1>1, <2>2, <2>3, RowsKept DEF IntentInv
  <1>5. ASSUME NEW w \in Workers, VerifyIntent(w) PROVE IntentInv'
    <2> USE <1>5 DEF VerifyIntent
    <2>1. ledger = "ready"
      BY DEF IntentInv, ProvisionedInOrder
    <2>2. CASE Return(w)
      <3>1. IntentTypeOK' /\ ProvisionedInOrder'
        BY <2>1, <2>2, ReturnKeeps DEF IntentInv, IntentTypeOK
      <3> QED BY <1>1, <3>1, RowsKept DEF IntentInv
    <2>3. CASE worker' = [worker EXCEPT ![w].pc = "transact", ![w].t = clock]
      <3>1. IntentTypeOK'
        <4> DEFINE Locals == [pc : Pcs, intent : Intents \cup {None}, store : StoreIds \cup {None},
                              claimId : ClaimIds \cup {Zero, None}, t : Time]
        <4>1. worker \in [Workers -> Locals] /\ clock \in Time /\ "transact" \in Pcs
          BY DEF IntentInv, IntentTypeOK, Pcs
        <4>2. [worker[w] EXCEPT !.pc = "transact", !.t = clock] \in Locals
          BY <4>1
        <4>3. worker' = [worker EXCEPT ![w] = [worker[w] EXCEPT !.pc = "transact", !.t = clock]]
          BY <2>3, <4>1
        <4> HIDE DEF Locals
        <4>4. worker' \in [Workers -> Locals]
          BY <4>1, <4>2, <4>3
        <4> QED BY <4>4 DEF IntentInv, IntentTypeOK, Locals
      <3>2. ProvisionedInOrder'
        BY <2>1, <2>3 DEF IntentInv, IntentTypeOK, ProvisionedInOrder
      <3> QED BY <1>1, <3>1, <3>2, RowsKept DEF IntentInv
    <2> QED BY <2>2, <2>3
  <1>6. ASSUME NEW w \in Workers, ClaimRolledBack(w) \/ ClaimRefused(w) PROVE IntentInv'
    <2> USE <1>6 DEF ClaimRolledBack, ClaimRefused
    <2>1. highWater' \in Time /\ highWater' >= highWater
      BY <1>1 DEF IntentInv, IntentTypeOK, ClockAccepted, Time
    <2>2. ledger = "ready"
      BY DEF IntentInv, ProvisionedInOrder
    <2>3. ProvisionedInOrder'
      BY <2>2, ReturnKeeps
    <2>4. IntentTypeOK'
      BY <2>1, ReturnKeeps DEF IntentInv, IntentTypeOK
    <2>5. SchemaTrusted' /\ ReservedInWindow' /\ ClaimsValid' /\ (told \subseteq claims)'
      BY <2>1, RowsKept
    <2> QED BY <2>3, <2>4, <2>5 DEF IntentInv
  <1>7. ASSUME NEW w \in Workers, ClaimTombstoned(w) PROVE IntentInv'
    <2> USE <1>7 DEF ClaimTombstoned
    <2>1. /\ NewReservation(w) \in Reservation /\ highWater' \in Time
          /\ SchemaTrusted' /\ ReservedInWindow' /\ ClaimsValid'
      BY ReserveKeeps
    <2>2. ledger = "ready"
      BY DEF IntentInv, ProvisionedInOrder, Reserve
    <2>3. IntentTypeOK' /\ ProvisionedInOrder'
      BY <2>1, <2>2, ReturnKeeps DEF IntentInv, IntentTypeOK, Reserve
    <2> QED BY <2>1, <2>3 DEF IntentInv
  <1>8. ASSUME NEW w \in Workers, NEW replied \in BOOLEAN, ClaimCommitted(w, replied)
        PROVE  IntentInv'
    <2> USE <1>8 DEF ClaimCommitted
    <2>1. PICK n \in Nonces :
            /\ Recordable(NewClaim(w, n))
            /\ claims' = claims \cup {NewClaim(w, n)}
            /\ told' = IF replied THEN told \cup {NewClaim(w, n)} ELSE told
      OBVIOUS
    <2>2. /\ NewReservation(w) \in Reservation /\ highWater' \in Time
          /\ SchemaTrusted' /\ ReservedInWindow' /\ ClaimsValid'
      BY <2>1, ReserveKeeps
    <2>3. ledger = "ready"
      BY DEF IntentInv, ProvisionedInOrder, Reserve
    <2>4. NewClaim(w, n) \in Claim
      BY <2>1 DEF IntentInv, IntentTypeOK, ProvisionedInOrder, Reserve, Recordable, ReceiptValid,
                  NewClaim, Claim
    <2>5. claims' \subseteq Claim /\ told' \subseteq Claim /\ told' \subseteq claims'
      BY <2>1, <2>4 DEF IntentInv, IntentTypeOK
    <2>6. excused' \in BOOLEAN
      BY DEF IntentInv, IntentTypeOK
    <2>7. IntentTypeOK' /\ ProvisionedInOrder'
      BY <2>2, <2>3, <2>5, <2>6, ReturnKeeps DEF IntentInv, IntentTypeOK, Reserve
    <2> QED BY <2>2, <2>5, <2>7 DEF IntentInv
  <1>9. ASSUME NEW w \in Workers, Recover(w) PROVE IntentInv'
    <2> USE <1>9 DEF Recover
    <2>1. told' \subseteq claims'
      BY DEF IntentInv, Recoverable
    <2>2. IntentTypeOK' /\ ProvisionedInOrder'
      BY <2>1 DEF IntentInv, IntentTypeOK, ProvisionedInOrder
    <2>3. SchemaTrusted' /\ ReservedInWindow' /\ ClaimsValid'
      BY DEF IntentInv, SchemaTrusted, SnapshotIntact, SameIdentity, ReservedInWindow, InWindow,
             ClaimsValid, ReceiptValid, WellFormed
    <2> QED BY <2>1, <2>2, <2>3 DEF IntentInv
  <1>10. ASSUME NEW w \in Workers, Abort(w) PROVE IntentInv'
    <2> USE <1>10 DEF Abort
    <2>1. IntentTypeOK'
      BY ReturnKeeps DEF IntentInv, IntentTypeOK
    <2>2. ProvisionedInOrder'
      BY DEF IntentInv, IntentTypeOK, ProvisionedInOrder, Return, Idle
    <2> QED BY <1>1, <2>1, <2>2, RowsKept DEF IntentInv
  <1>11. ASSUME Rotate \/ Tick \/ UNCHANGED intentVars PROVE IntentInv'
    <2> USE <1>11 DEF Rotate, Tick, intentVars
    <2>1. excused' \in BOOLEAN
      BY DEF IntentInv, IntentTypeOK
    <2>2. IntentTypeOK' /\ ProvisionedInOrder'
      BY <2>1 DEF IntentInv, IntentTypeOK, ProvisionedInOrder
    <2> QED BY <1>1, <2>2, RowsKept DEF IntentInv
  <1> QED
    BY <1>2, <1>3, <1>4, <1>5, <1>6, <1>7, <1>8, <1>9, <1>10, <1>11
    DEF IntentNext, IntentStep, ClaimIntent

\* The invariant of the intent ledger holds throughout.
LEMMA IntentSpecInv == IntentSpec => []IntentInv
  BY IntentInitInv, IntentNextInv, PTL DEF IntentSpec

\* The ledger's state always has its type.
THEOREM IntentTypeCorrect == IntentSpec => []IntentTypeOK
  <1>1. IntentInv => IntentTypeOK
    BY DEF IntentInv
  <1> QED BY <1>1, IntentSpecInv, PTL

\* No interleaving of legal calls makes the ledger's own validation refuse its
\* rows, so the ledger stays usable and its INSERTs never conflict.
THEOREM IntentNeverLockedOut == IntentSpec => []NeverLockedOut
  <1>1. IntentInv => NeverLockedOut
    BY DEF IntentInv, NeverLockedOut
  <1> QED BY <1>1, IntentSpecInv, PTL

\* Every committed receipt can be recovered, exactly, with the inputs it was
\* claimed with, and callers hold committed receipts only.
LEMMA RecoverableIsExact == IntentInv => RecoveryExact
  <1> SUFFICES ASSUME IntentInv PROVE RecoveryExact
    OBVIOUS
  <1>1. ASSUME NEW c \in claims PROVE Recoverable(c.intent, c.store) = {c}
    <2> DEFINE r == [intent |-> c.intent, store |-> c.store, at |-> c.at]
    <2>1. r \in reservations /\ InWindow(r.intent, r.at)
      BY DEF IntentInv, SchemaTrusted, SnapshotIntact, ReservedInWindow
    <2>2. {d \in claims : Payload[d.intent].id = Payload[c.intent].id} = {c}
      BY DEF IntentInv, SchemaTrusted, SnapshotIntact, SameIdentity
    <2>3. VerifyCommitted(c)
      BY <2>2 DEF VerifyCommitted, IntentInv, ClaimsValid
    <2>4. c \in Recoverable(c.intent, c.store)
      BY <2>1, <2>3 DEF Recoverable, Existing, Mirrors
    <2>5. \A d \in Recoverable(c.intent, c.store) : d = c
      BY <2>2 DEF Recoverable, Mirrors
    <2> QED BY <2>4, <2>5
  <1> QED BY <1>1 DEF RecoveryExact, IntentInv

\* Recovery after a lost reply returns the committed receipt and no other.
THEOREM IntentRecovery == IntentSpec => []RecoveryExact
  BY RecoverableIsExact, IntentSpecInv, PTL

\* What any step does to the rows: nothing, a reservation alone, a reservation
\* with its claim, or a recovery.
LEMMA IntentStepShape ==
  ASSUME IntentInv, [IntentNext]_intentVars
  PROVE  /\ highWater \in Nat /\ highWater' \in Nat /\ highWater' >= highWater
         /\ \/ reservations' = reservations /\ claims' = claims /\ told' = told
            \/ /\ reservations' = reservations /\ claims' = claims /\ highWater' = highWater
               /\ \E c \in claims : told' = told \cup {c}
            \/ \E r \in Reservation :
                 /\ reservations' = reservations \cup {r}
                 /\ \A q \in reservations : IntentIdOf(q) # IntentIdOf(r)
                 /\ \/ claims' = claims /\ told' = told
                    \/ \E c \in Claim :
                         /\ claims' = claims \cup {c}
                         /\ c.intent = r.intent /\ highWater' = c.at
                         /\ told' \in {told, told \cup {c}}
  <1> USE DEF tables, history
  <1>1. IntentInv'
    BY IntentNextInv
  <1>2. highWater \in Nat /\ highWater' \in Nat /\ clock \in Nat
    BY SMTT(30), <1>1, IntentAssumption DEF IntentInv, IntentTypeOK, Time
  <1>3. ASSUME NEW w \in Workers, Reserve(w)
        PROVE  /\ highWater' >= highWater
               /\ NewReservation(w) \in Reservation
               /\ reservations' = reservations \cup {NewReservation(w)}
               /\ \A q \in reservations : IntentIdOf(q) # IntentIdOf(NewReservation(w))
    BY <1>2, <1>3 DEF Reserve, Reservable, SignedIdentityTaken, SameIdentity, NewReservation,
       IntentIdOf, IntentInv, ProvisionedInOrder, IntentTypeOK, Reservation, ClockAccepted
  <1>4. ASSUME NEW w \in Workers, NEW replied \in BOOLEAN, ClaimCommitted(w, replied)
        PROVE  \E c \in Claim :
                 /\ claims' = claims \cup {c}
                 /\ c.intent = NewReservation(w).intent /\ highWater' = c.at
                 /\ told' \in {told, told \cup {c}}
    <2>1. PICK n \in Nonces :
            /\ Recordable(NewClaim(w, n))
            /\ claims' = claims \cup {NewClaim(w, n)}
            /\ told' = IF replied THEN told \cup {NewClaim(w, n)} ELSE told
      BY <1>4 DEF ClaimCommitted
    <2>2. NewClaim(w, n) \in Claim
      BY <1>4, <2>1 DEF ClaimCommitted, IntentInv, IntentTypeOK, ProvisionedInOrder, Reserve,
                        Recordable, ReceiptValid, NewClaim, Claim
    <2>3. NewClaim(w, n).intent = NewReservation(w).intent /\ highWater' = NewClaim(w, n).at
      BY <1>4 DEF ClaimCommitted, Reserve, NewClaim, NewReservation
    <2> QED BY <2>1, <2>2, <2>3
  <1>5. ASSUME NEW w \in Workers, ClaimTombstoned(w)
        PROVE  Reserve(w) /\ claims' = claims /\ told' = told
    BY <1>5 DEF ClaimTombstoned
  <1>6. ASSUME NEW w \in Workers, Recover(w)
        PROVE  /\ UNCHANGED tables
               /\ \E c \in claims : told' = told \cup {c}
    BY <1>6 DEF Recover, Recoverable
  <1>7. ASSUME NEW w \in Workers, CreateTables(w) PROVE UNCHANGED tables /\ told' = told
    BY <1>7 DEF CreateTables, IntentInv, ProvisionedInOrder
  <1>8. ASSUME NEW w \in Workers,
               \/ CreateDatabaseFile(w) \/ AdmitIntent(w) \/ VerifyIntent(w)
               \/ ClaimRolledBack(w) \/ Abort(w)
        PROVE  UNCHANGED tables /\ told' = told
    BY <1>8 DEF CreateDatabaseFile, AdmitIntent, VerifyIntent, ClaimRolledBack, Abort
  <1>9. ASSUME NEW w \in Workers, ClaimRefused(w)
        PROVE  /\ highWater' >= highWater
               /\ reservations' = reservations /\ claims' = claims /\ told' = told
    BY <1>2, <1>9 DEF ClaimRefused, ClockAccepted
  <1>10. ASSUME Rotate \/ Tick \/ UNCHANGED intentVars
         PROVE  UNCHANGED tables /\ told' = told
    BY <1>10 DEF Rotate, Tick, intentVars
  <1>11. ASSUME NEW w \in Workers, NEW replied \in BOOLEAN, ClaimCommitted(w, replied)
         PROVE  Reserve(w)
    BY <1>11 DEF ClaimCommitted
  <1>12. UNCHANGED tables => highWater' >= highWater
    BY <1>2
  <1>13. CASE \E w \in Workers : ClaimTombstoned(w)
    BY <1>2, <1>3, <1>5, <1>13
  <1>14. CASE \E w \in Workers, replied \in BOOLEAN : ClaimCommitted(w, replied)
    <2>1. PICK w \in Workers, replied \in BOOLEAN : ClaimCommitted(w, replied)
      BY <1>14
    <2>2. Reserve(w)
      BY <1>11, <2>1
    <2> QED BY <1>2, <1>3, <1>4, <2>1, <2>2
  <1>15. CASE \E w \in Workers : Recover(w)
    BY <1>2, <1>6, <1>12, <1>15
  <1>16. CASE \/ \E w \in Workers :
                   \/ CreateTables(w) \/ CreateDatabaseFile(w) \/ AdmitIntent(w)
                   \/ VerifyIntent(w) \/ ClaimRolledBack(w) \/ Abort(w)
              \/ Rotate \/ Tick \/ UNCHANGED intentVars
    BY <1>2, <1>7, <1>8, <1>10, <1>12, <1>16
  <1>17. CASE \E w \in Workers : ClaimRefused(w)
    BY <1>2, <1>9, <1>17
  <1> QED
    BY <1>13, <1>14, <1>15, <1>16, <1>17 DEF IntentNext, IntentStep, ClaimIntent

\* The ledger implements the one-shot register: an intent id is consumed at
\* most once, and a tombstone bars its receipt for ever.
THEOREM IntentRefinement == IntentSpec => IntentImplementsOneShot
  <1>1. Init => Abstract!Init
    BY DEF Init, Abstract!Init
  <1>2. IntentInv /\ [IntentNext]_intentVars => [Abstract!Next]_(Abstract!vars)
    <2> SUFFICES ASSUME IntentInv, [IntentNext]_intentVars
                 PROVE  [Abstract!Next]_(Abstract!vars)
      OBVIOUS
    <2>1. highWater \in Nat /\ highWater' \in Nat /\ highWater' >= highWater
      BY IntentStepShape
    <2>2. CASE reservations' = reservations /\ claims' = claims /\ told' = told
      <3>1. Abstract!Advance
        BY <2>1, <2>2 DEF Abstract!Advance
      <3> QED BY <3>1 DEF Abstract!Next
    <2>3. CASE /\ reservations' = reservations /\ claims' = claims /\ highWater' = highWater
               /\ \E c \in claims : told' = told \cup {c}
      <3>1. PICK c \in claims : told' = told \cup {c}
        BY <2>3
      <3>2. Abstract!Tell(c)
        BY <2>3, <3>1 DEF Abstract!Tell
      <3>3. c \in Claim
        BY DEF IntentInv, IntentTypeOK
      <3> QED BY <3>2, <3>3 DEF Abstract!Next
    <2>4. ASSUME NEW r \in Reservation,
                 reservations' = reservations \cup {r},
                 \A q \in reservations : IntentIdOf(q) # IntentIdOf(r),
                 \/ claims' = claims /\ told' = told
                 \/ \E c \in Claim :
                      /\ claims' = claims \cup {c}
                      /\ c.intent = r.intent /\ highWater' = c.at
                      /\ told' \in {told, told \cup {c}}
          PROVE  Abstract!Next
      <3>1. /\ {IntentIdOf(q) : q \in reservations'} =
                 {IntentIdOf(q) : q \in reservations} \cup {IntentIdOf(r)}
            /\ IntentIdOf(r) \notin {IntentIdOf(q) : q \in reservations}
        BY <2>4
      <3>2. CASE claims' = claims /\ told' = told
        <4>1. Abstract!Burn(IntentIdOf(r))
          BY <2>1, <3>1, <3>2 DEF Abstract!Burn
        <4>2. IntentIdOf(r) \in IntentIds
          BY DEF IntentIds, IntentIdOf, Reservation
        <4> QED BY <4>1, <4>2 DEF Abstract!Next
      <3>3. ASSUME NEW c \in Claim,
                   claims' = claims \cup {c},
                   c.intent = r.intent, highWater' = c.at,
                   told' \in {told, told \cup {c}}
            PROVE  Abstract!Next
        <4>1. IntentIdOf(c) = IntentIdOf(r)
          BY <3>3 DEF IntentIdOf
        <4>2. Abstract!Consume(c)
          BY <2>1, <3>1, <3>3, <4>1 DEF Abstract!Consume, ClaimTime
        <4> QED BY <4>2 DEF Abstract!Next
      <3> QED BY <2>4, <3>2, <3>3
    <2> QED BY <2>2, <2>3, <2>4, IntentStepShape
  <1> QED BY <1>1, <1>2, IntentSpecInv, PTL
          DEF IntentSpec, IntentImplementsOneShot, Abstract!Spec

\* Reservations and claims are never removed, the durable clock never moves
\* back, and a provisioned ledger is never provisioned again.
THEOREM IntentOnlyGrows == IntentSpec => IntentLedgerOnlyGrows
  <1>1. ASSUME IntentInv, [IntentNext]_intentVars
        PROVE  /\ reservations \subseteq reservations'
               /\ claims \subseteq claims'
               /\ highWater' >= highWater
               /\ ledger = "ready" => ledger' = "ready"
    <2>1. /\ reservations \subseteq reservations' /\ claims \subseteq claims'
          /\ highWater' >= highWater
      BY <1>1, IntentStepShape
    <2>2. ledger = "ready" => ledger' = "ready"
      BY <1>1
      DEF IntentNext, IntentStep, ClaimIntent, CreateDatabaseFile, CreateTables, AdmitIntent,
          VerifyIntent, ClaimRolledBack, ClaimRefused, ClaimTombstoned, ClaimCommitted, Reserve,
          Recover, Abort, Rotate, Tick, intentVars
    <2> QED BY <2>1, <2>2
  <1> QED BY <1>1, IntentSpecInv, PTL DEF IntentSpec, IntentLedgerOnlyGrows


-----------------------------------------------------------------------------
(* A submitted intent is consumed.  As long as the clock only advances and  *)
(* no call dies, the clock is level with every time the ledger and its      *)
(* callers remember, so that no comparison in claim_intent fails; a call    *)
(* for an intent can then only end by consuming it, or because its signed   *)
(* identity was consumed before or its window has closed.                   *)

\* A call of claim_intent that has not returned.
RunningCall(w) == worker[w].pc \in {"claim", "transact"}

\* The clock is behind nothing that was read from it.
CallsCurrent ==
  ~excused =>
    /\ highWater <= clock
    /\ \A w \in Workers : RunningCall(w) =>
         /\ worker[w].t <= clock
         /\ Payload[worker[w].intent].notBefore <= clock
         /\ Authentic(worker[w].intent, worker[w].store)

\* A submitted intent still has a call, or its identity is consumed.
InFlightOrTaken ==
  \A i \in tried :
    ~excused /\ clock < Payload[i].expires =>
      \/ SignedIdentityTaken(i)
      \/ \E w \in Workers : RunningCall(w) /\ worker[w].intent = i

\* Inductive together with IntentInv.
ConsumeInv == CallsCurrent /\ InFlightOrTaken


\* While the clock only advances, every call stays level with it.
LEMMA CallsCurrentKept ==
  ASSUME IntentInv, CallsCurrent, [IntentNext]_intentVars
  PROVE  CallsCurrent'
  <1> SUFFICES ASSUME ~excused' PROVE CallsCurrent'
    BY DEF CallsCurrent
  <1> USE DEF tables, history
  <1>0. ASSUME highWater' <= clock',
               \A w \in Workers : RunningCall(w)' =>
                 /\ worker'[w].t <= clock'
                 /\ Payload[worker'[w].intent].notBefore <= clock'
                 /\ Authentic(worker'[w].intent, worker'[w].store)
        PROVE  CallsCurrent'
    <2>1. \A w \in Workers : Authentic(worker'[w].intent, worker'[w].store) =>
            Authentic(worker[w].intent, worker[w].store)'
      BY DEF Authentic, WellFormed, KeyAccepted
    <2> QED BY <1>0, <2>1 DEF CallsCurrent
  <1>1. clock \in Nat /\ highWater \in Nat /\ \A w \in Workers : worker[w].t \in Nat
    BY SMTT(30), IntentAssumption DEF IntentInv, IntentTypeOK, Time
  <1>2. \A w \in Workers : RunningCall(w) => Payload[worker[w].intent].notBefore \in Nat
    BY IntentAssumption DEF IntentInv, ProvisionedInOrder, RunningCall
  <1>3. ASSUME ~excused, clock' = clock, highWater' <= clock,
               \A w \in Workers :
                 \/ worker'[w] = worker[w]
                 \/ worker'[w].pc \notin {"claim", "transact"}
                 \/ /\ RunningCall(w) /\ worker'[w].t = clock
                    /\ worker'[w].intent = worker[w].intent
                    /\ worker'[w].store = worker[w].store
        PROVE  CallsCurrent'
    <2>1. highWater' <= clock'
      BY <1>1, <1>3
    <2>2. ASSUME NEW w \in Workers, RunningCall(w)'
          PROVE  /\ RunningCall(w) /\ worker'[w].t <= clock'
                 /\ worker'[w].intent = worker[w].intent
                 /\ worker'[w].store = worker[w].store
      BY <1>1, <1>3, <2>2 DEF CallsCurrent, RunningCall
    <2>3. ASSUME NEW w \in Workers, RunningCall(w)'
          PROVE  /\ Payload[worker'[w].intent].notBefore <= clock'
                 /\ Authentic(worker'[w].intent, worker'[w].store)
      BY <1>3, <2>2, <2>3 DEF CallsCurrent
    <2> QED BY <1>0, <2>1, <2>2, <2>3
  <1>4. ASSUME NEW w \in Workers, AdmitIntent(w) PROVE CallsCurrent'
    <2>1. PICK i \in Intents, c \in ClaimIds \cup {Zero} :
            /\ Verified(i, store, clock)
            /\ worker' = [worker EXCEPT ![w] =
                 [pc |-> "claim", intent |-> i, store |-> store, claimId |-> c, t |-> 0]]
      BY <1>4 DEF AdmitIntent
    <2>2. /\ worker'[w].intent = i /\ worker'[w].store = store /\ worker'[w].t = 0
          /\ \A v \in Workers \ {w} : worker'[v] = worker[v]
      BY <2>1 DEF IntentInv, IntentTypeOK
    <2>3. ~excused /\ clock' = clock /\ highWater' = highWater
      BY <1>4 DEF AdmitIntent
    <2>4. Authentic(i, store) /\ Payload[i].notBefore <= clock
      BY <2>1 DEF Verified, InWindow
    <2>5. ASSUME NEW v \in Workers, v # w, RunningCall(v)'
          PROVE  /\ worker'[v].t <= clock'
                 /\ Payload[worker'[v].intent].notBefore <= clock'
                 /\ Authentic(worker'[v].intent, worker'[v].store)
      BY <2>2, <2>3, <2>5 DEF CallsCurrent, RunningCall
    <2>6. highWater' <= clock' /\ worker'[w].t <= clock'
      BY <1>1, <2>2, <2>3 DEF CallsCurrent
    <2> QED BY <1>0, <2>2, <2>3, <2>4, <2>5, <2>6
  <1>5. ASSUME NEW w \in Workers, VerifyIntent(w) PROVE CallsCurrent'
    <2>1. \A v \in Workers :
            \/ worker'[v] = worker[v]
            \/ worker'[v].pc \notin {"claim", "transact"}
            \/ /\ RunningCall(v) /\ worker'[v].t = clock
               /\ worker'[v].intent = worker[v].intent
               /\ worker'[v].store = worker[v].store
      BY <1>5 DEF VerifyIntent, Return, Idle, RunningCall, IntentInv, IntentTypeOK
    <2>2. ~excused /\ clock' = clock /\ highWater' <= clock
      BY <1>1, <1>5 DEF VerifyIntent, CallsCurrent
    <2> QED BY <1>3, <2>1, <2>2
  <1>6. ASSUME NEW w \in Workers, NEW replied \in BOOLEAN,
               \/ CreateDatabaseFile(w) \/ CreateTables(w)
               \/ ClaimRolledBack(w) \/ ClaimRefused(w) \/ ClaimTombstoned(w)
               \/ ClaimCommitted(w, replied) \/ Recover(w)
        PROVE  CallsCurrent'
    <2>1. \A v \in Workers :
            \/ worker'[v] = worker[v]
            \/ worker'[v].pc \notin {"claim", "transact"}
      BY <1>6 DEF CreateDatabaseFile, CreateTables, ClaimRolledBack, ClaimRefused,
         ClaimTombstoned, ClaimCommitted, Recover, Reserve, Return, Idle,
         IntentInv, IntentTypeOK
    <2>2. ~excused
      BY <1>6 DEF CreateDatabaseFile, CreateTables, ClaimRolledBack, ClaimRefused,
         ClaimTombstoned, ClaimCommitted, Recover
    <2>3. clock' = clock
      BY <1>6 DEF CreateDatabaseFile, CreateTables, ClaimRolledBack, ClaimRefused,
         ClaimTombstoned, ClaimCommitted, Recover, Reserve
    <2>4. highWater' \in {0, highWater, clock}
      BY <1>6 DEF CreateDatabaseFile, CreateTables, ClaimRolledBack, ClaimRefused,
         ClaimTombstoned, ClaimCommitted, Recover, Reserve
    <2>5. highWater' <= clock
      BY <1>1, <2>2, <2>4 DEF CallsCurrent
    <2> QED BY <1>3, <2>1, <2>2, <2>3, <2>5
  <1>7. ASSUME NEW w \in Workers, Abort(w) PROVE FALSE
    BY <1>7 DEF Abort
  <1>8. ASSUME Rotate \/ UNCHANGED intentVars PROVE CallsCurrent'
    BY <1>1, <1>3, <1>8 DEF Rotate, intentVars, CallsCurrent
  <1>9. ASSUME Tick PROVE CallsCurrent'
    <2>1. clock' \in Nat
      BY <1>9, IntentAssumption DEF Tick, Time
    <2>2. ~excused /\ ~(clock' < clock)
      BY <1>9 DEF Tick
    <2>3. worker' = worker /\ highWater' = highWater
      BY <1>9 DEF Tick
    <2>4. highWater' <= clock'
      BY <1>1, <2>1, <2>2, <2>3 DEF CallsCurrent
    <2>5. ASSUME NEW w \in Workers, RunningCall(w)'
          PROVE  /\ worker'[w].t <= clock'
                 /\ Payload[worker'[w].intent].notBefore <= clock'
                 /\ Authentic(worker'[w].intent, worker'[w].store)
      <3>1. RunningCall(w)
        BY <2>3, <2>5 DEF RunningCall
      <3>2. /\ worker[w].t <= clock /\ Payload[worker[w].intent].notBefore <= clock
            /\ Authentic(worker[w].intent, worker[w].store)
        BY <2>2, <3>1 DEF CallsCurrent
      <3> QED BY <1>1, <1>2, <2>1, <2>2, <2>3, <3>1, <3>2
    <2> QED BY <1>0, <2>4, <2>5
  <1> QED BY <1>4, <1>5, <1>6, <1>7, <1>8, <1>9 DEF IntentNext, IntentStep, ClaimIntent

\* A reservation is never dropped, so a consumed identity stays consumed.
LEMMA TakenForever ==
  ASSUME IntentInv, [IntentNext]_intentVars, NEW i, SignedIdentityTaken(i)
  PROVE  SignedIdentityTaken(i)'
  <1>1. reservations \subseteq reservations'
    BY IntentStepShape
  <1> QED BY <1>1 DEF SignedIdentityTaken, SameIdentity

\* A call that is level with the clock ends its transaction only with its
\* identity consumed, by itself or before, while the window is open.
LEMMA TransactionConsumes ==
  ASSUME IntentInv, CallsCurrent, NEW w \in Workers, NEW replied \in BOOLEAN,
         ~excused, clock < Payload[worker[w].intent].expires,
         \/ ClaimRolledBack(w) \/ ClaimRefused(w) \/ ClaimTombstoned(w)
         \/ ClaimCommitted(w, replied)
  PROVE  SignedIdentityTaken(worker[w].intent) \/ Reserve(w)
  <1>1. worker[w].pc = "transact"
    BY DEF ClaimRolledBack, ClaimRefused, ClaimTombstoned, ClaimCommitted, Reserve
  <1>2. clock \in Nat /\ highWater \in Nat /\ worker[w].t \in Nat
    BY IntentAssumption DEF IntentInv, IntentTypeOK, Time
  <1>3. ClockAccepted(w) /\ InWindow(worker[w].intent, clock)
    BY <1>1, <1>2 DEF CallsCurrent, RunningCall, ClockAccepted, InWindow
  <1>4. CASE ClaimRolledBack(w)
    <2>1. ReservationDiffers(w)
      BY <1>3, <1>4 DEF ClaimRolledBack, IntentInv
    <2> QED BY <2>1 DEF ReservationDiffers, Existing, SignedIdentityTaken, SameIdentity
  <1>5. CASE ClaimRefused(w)
    BY <1>3, <1>5 DEF ClaimRefused, Reservable, Existing, SignedIdentityTaken, SameIdentity
  <1>6. CASE ClaimTombstoned(w) \/ ClaimCommitted(w, replied)
    BY <1>6 DEF ClaimTombstoned, ClaimCommitted
  <1> QED BY <1>4, <1>5, <1>6


\* No step leaves a submitted intent without a call or a reservation.
LEMMA InFlightKept ==
  ASSUME IntentInv, ConsumeInv, [IntentNext]_intentVars
  PROVE  InFlightOrTaken'
  <1> SUFFICES ASSUME NEW i \in tried', ~excused', clock' < Payload[i].expires
               PROVE  \/ SignedIdentityTaken(i)'
                      \/ \E w \in Workers : RunningCall(w)' /\ worker'[w].intent = i
    BY DEF InFlightOrTaken
  <1> USE DEF tables, history
  <1>1. ASSUME NEW w \in Workers, AdmitIntent(w), i \notin tried
        PROVE  RunningCall(w)' /\ worker'[w].intent = i
    BY <1>1 DEF AdmitIntent, RunningCall, IntentInv, IntentTypeOK
  <1>2. CASE i \notin tried
    <2>1. PICK w \in Workers : AdmitIntent(w)
      BY <1>2 DEF IntentNext, IntentStep, ClaimIntent, CreateDatabaseFile, CreateTables,
         VerifyIntent, ClaimRolledBack, ClaimRefused, ClaimTombstoned, ClaimCommitted,
         Reserve, Recover, Abort, Rotate, Tick, intentVars
    <2> QED BY <1>1, <1>2, <2>1
  <1>3. CASE i \in tried
    <2>1. i \in Intents /\ Payload[i].expires \in Nat /\ clock \in Nat
      BY <1>3, IntentAssumption DEF IntentInv, IntentTypeOK, Time
    <2>2. ~excused /\ clock < Payload[i].expires
      <3>1. CASE Tick
        <4>1. clock' \in Nat
          BY <3>1, IntentAssumption DEF Tick, Time
        <4>2. ~excused /\ ~(clock' < clock)
          BY <3>1 DEF Tick
        <4> QED BY <2>1, <4>1, <4>2
      <3>2. ASSUME NEW w \in Workers, NEW replied \in BOOLEAN,
                   \/ ClaimTombstoned(w) \/ ClaimCommitted(w, replied)
            PROVE  ~excused /\ clock' = clock
        <4>1. ~excused
          BY <3>2 DEF ClaimTombstoned, ClaimCommitted
        <4>2. Reserve(w)
          BY <3>2 DEF ClaimTombstoned, ClaimCommitted
        <4> QED BY <4>1, <4>2 DEF Reserve
      <3>3. ASSUME NEW w \in Workers,
                   \/ CreateDatabaseFile(w) \/ CreateTables(w) \/ AdmitIntent(w)
                   \/ VerifyIntent(w) \/ ClaimRolledBack(w) \/ ClaimRefused(w)
                   \/ Recover(w)
            PROVE  ~excused /\ clock' = clock
        BY <3>3 DEF CreateDatabaseFile, CreateTables, AdmitIntent, VerifyIntent,
           ClaimRolledBack, ClaimRefused, Recover
      <3>4. ASSUME Rotate \/ UNCHANGED intentVars PROVE ~excused /\ clock' = clock
        BY SMTT(30), <3>4 DEF Rotate, intentVars
      <3>5. ASSUME NEW w \in Workers, Abort(w) PROVE FALSE
        BY <3>5 DEF Abort
      <3> QED BY <3>1, <3>2, <3>3, <3>4, <3>5 DEF IntentNext, IntentStep, ClaimIntent
    <2>3. CASE SignedIdentityTaken(i)
      BY <2>3, TakenForever
    <2>4. CASE ~SignedIdentityTaken(i)
      <3>1. PICK w \in Workers : RunningCall(w) /\ worker[w].intent = i
        BY <1>3, <2>2, <2>4 DEF ConsumeInv, InFlightOrTaken
      <3>2. CASE worker'[w] = worker[w]
        BY <3>1, <3>2 DEF RunningCall
      <3>3. CASE worker'[w] # worker[w]
        <4>1. \/ VerifyIntent(w) \/ ClaimIntent(w) \/ ClaimCommitted(w, FALSE)
          <5>1. ASSUME NEW v \in Workers, v # w,
                       \/ CreateDatabaseFile(v) \/ AdmitIntent(v) \/ IntentStep(v)
                       \/ ClaimCommitted(v, FALSE) \/ Recover(v) \/ Abort(v)
                PROVE  worker'[w] = worker[w]
            BY <5>1 DEF CreateDatabaseFile, AdmitIntent, IntentStep, CreateTables,
               VerifyIntent, ClaimIntent, ClaimRolledBack, ClaimRefused, ClaimTombstoned,
               ClaimCommitted, Reserve, Recover, Abort, Return, IntentInv, IntentTypeOK
          <5>2. ~CreateDatabaseFile(w) /\ ~AdmitIntent(w) /\ ~CreateTables(w) /\ ~Recover(w)
            BY <3>1 DEF RunningCall, CreateDatabaseFile, AdmitIntent, CreateTables, Recover
          <5>3. ~Abort(w)
            BY DEF Abort
          <5>4. ~(Rotate \/ Tick \/ UNCHANGED intentVars)
            BY <3>3 DEF Rotate, Tick, intentVars
          <5> QED BY <3>3, <5>1, <5>2, <5>3, <5>4 DEF IntentNext, IntentStep
        <4>2. CASE VerifyIntent(w)
          <5>1. Verified(i, worker[w].store, clock)
            BY <2>2, <3>1 DEF ConsumeInv, CallsCurrent, Verified, InWindow
          <5>2. RunningCall(w)' /\ worker'[w].intent = i
            BY <3>1, <4>2, <5>1 DEF VerifyIntent, RunningCall, IntentInv, IntentTypeOK
          <5> QED BY <5>2
        <4>3. CASE ClaimIntent(w) \/ ClaimCommitted(w, FALSE)
          <5>1. Reserve(w)
            BY <2>2, <2>4, <3>1, <4>3, TransactionConsumes DEF ConsumeInv, ClaimIntent
          <5>2. NewReservation(w) \in reservations' /\ NewReservation(w).intent = i
            BY <3>1, <5>1 DEF Reserve, NewReservation
          <5> QED BY <5>2 DEF SignedIdentityTaken, SameIdentity
        <4> QED BY <4>1, <4>2, <4>3
      <3> QED BY <3>2, <3>3
    <2> QED BY <2>3, <2>4
  <1> QED BY <1>2, <1>3

\* Every submitted intent is consumed, or its window closes: whatever other
\* intents are claimed and whatever trust store is installed in between, a
\* clock that only advances never makes claim_intent refuse it.
THEOREM IntentConsumed == IntentSpec => []SubmittedIsConsumed
  <1>1. Init => ConsumeInv
    <2> SUFFICES ASSUME Init PROVE ConsumeInv
      OBVIOUS
    <2>1. clock \in Nat
      BY IntentAssumption DEF Init, Time
    <2> QED BY <2>1 DEF Init, Idle, ConsumeInv, CallsCurrent, InFlightOrTaken, RunningCall
  <1>2. IntentInv /\ ConsumeInv /\ [IntentNext]_intentVars => ConsumeInv'
    BY CallsCurrentKept, InFlightKept DEF ConsumeInv
  <1>3. ConsumeInv => SubmittedIsConsumed
    BY DEF ConsumeInv, InFlightOrTaken, SubmittedIsConsumed
  <1> QED BY <1>1, <1>2, <1>3, IntentSpecInv, PTL DEF IntentSpec

(***************************************************************************)
(* The launch ledger beside the intent ledger.                             *)
(***************************************************************************)
\* The launch tables exist before a call uses them, and a call inside its
\* transaction holds a committed claim under the trust store of that claim.
LaunchCallsInOrder ==
  /\ launchLedger # "ready" =>
       launchHighWater = 0 /\ launchReservations = {} /\ attempts = {} /\ launchTold = {}
  /\ \A l \in Launchers :
       /\ launcher[l].pc = "create" => launchLedger # "absent"
       /\ launcher[l].pc \in {"consume", "transact"} =>
            /\ launchLedger = "ready"
            /\ launcher[l].claim \in claims
            /\ launcher[l].store \in StoreIds
            /\ launcher[l].attemptId \in AttemptIds \cup {Zero}
       /\ launcher[l].pc = "transact" => launcher[l].store = launcher[l].claim.store

\* Every reservation rests on a committed claim, under the claim's trust store
\* and between the claim and the expiry.
ReservationsRest ==
  \A r \in launchReservations :
    /\ r.claim \in claims
    /\ r.store = r.claim.store
    /\ r.claim.at <= r.at /\ r.at < Expires(r.claim)

\* The inductive invariant.
LaunchInv ==
  /\ IntentInv
  /\ LaunchTypeOK
  /\ LaunchCallsInOrder
  /\ LaunchSchemaTrusted
  /\ ReservationsRest
  /\ launchTold \subseteq attempts

\* A fresh host has no launch ledger and no calls.
LEMMA LaunchInitInv == LaunchInit => LaunchInv
  <1> SUFFICES ASSUME LaunchInit PROVE LaunchInv
    OBVIOUS
  <1>1. IntentInv
    BY IntentInitInv DEF LaunchInit
  <1>2. 0 \in Time
    BY IntentAssumption DEF Time
  <1>3. LaunchTypeOK
    BY <1>2 DEF LaunchInit, LaunchTypeOK, LaunchIdle, LaunchPcs
  <1>4. LaunchCallsInOrder
    BY DEF LaunchInit, LaunchCallsInOrder, LaunchIdle
  <1>5. LaunchSchemaTrusted /\ ReservationsRest /\ launchTold \subseteq attempts
    BY DEF LaunchInit, LaunchSchemaTrusted, LaunchSnapshotIntact, ReservationsRest
  <1> QED BY <1>1, <1>3, <1>4, <1>5 DEF LaunchInv

\* A step of the intent ledger only adds claims, so everything that rests on
\* committed claims keeps resting on them.
LEMMA IntentStepKeepsLaunch ==
  ASSUME LaunchInv, IntentNext, UNCHANGED launchVars
  PROVE  LaunchInv'
  <1> USE DEF launchVars, launchTables
  <1>1. IntentInv'
    BY IntentNextInv DEF LaunchInv
  <1>2. claims \subseteq claims'
    BY IntentStepShape DEF LaunchInv
  <1>3. LaunchTypeOK'
    BY DEF LaunchInv, LaunchTypeOK
  <1>4. LaunchCallsInOrder'
    BY <1>2 DEF LaunchInv, LaunchCallsInOrder
  <1>5. LaunchSchemaTrusted' /\ ReservationsRest' /\ (launchTold \subseteq attempts)'
    BY <1>2 DEF LaunchInv, LaunchSchemaTrusted, LaunchSnapshotIntact, SameClaimIdentity, SameIdentity,
                ReservationsRest, Expires
  <1> QED BY <1>1, <1>3, <1>4, <1>5 DEF LaunchInv

\* A step of a launch caller leaves the intent ledger as it is.
LEMMA IntentUnchanged ==
  ASSUME LaunchInv, UNCHANGED intentVars
  PROVE  IntentInv' /\ claims' = claims
  BY IntentNextInv DEF LaunchInv, intentVars, tables

\* A launch caller that returns keeps the caller part of the invariant.
LEMMA LaunchReturnKeeps ==
  ASSUME LaunchInv, NEW l \in Launchers, LaunchReturn(l), UNCHANGED intentVars
  PROVE  /\ launcher' \in [Launchers -> [pc : LaunchPcs, claim : Claim \cup {None},
                                         store : StoreIds \cup {None},
                                         attemptId : AttemptIds \cup {Zero, None}, t : Time]]
         /\ (launchLedger' = launchLedger /\ launchLedger = "ready") => LaunchCallsInOrder'
  <1>1. 0 \in Time
    BY IntentAssumption DEF Time
  <1> QED BY <1>1 DEF LaunchInv, LaunchTypeOK, LaunchCallsInOrder, LaunchReturn, LaunchIdle,
                      LaunchPcs, intentVars, tables

\* A step that changes no launch row, or only raises the high-water mark.
LEMMA LaunchRowsKept ==
  ASSUME LaunchInv, UNCHANGED <<intentVars, launchReservations, attempts, launchTold>>,
         launchHighWater' \in Time, launchHighWater' >= launchHighWater
  PROVE  LaunchSchemaTrusted' /\ ReservationsRest' /\ (launchTold \subseteq attempts)'
  <1>1. LaunchSchemaTrusted'
    <2>1. LaunchSnapshotIntact'
      BY DEF LaunchInv, LaunchSchemaTrusted, LaunchSnapshotIntact, SameClaimIdentity, SameIdentity
    <2>2. launchHighWater \in Nat /\ launchHighWater' \in Nat
      BY IntentAssumption DEF LaunchInv, LaunchTypeOK, Time
    <2>3. \A r \in launchReservations : r.at \in Nat /\ r.at <= launchHighWater
      BY IntentAssumption DEF LaunchInv, LaunchSchemaTrusted, LaunchTypeOK, LaunchReservation, Time
    <2> QED BY <2>1, <2>2, <2>3 DEF LaunchSchemaTrusted
  <1> QED BY <1>1 DEF LaunchInv, ReservationsRest, Expires, intentVars, tables

\* Reserving an attempt keeps the rows trusted and resting on claims, with or
\* without an attempt row beside the reservation.
LEMMA ReserveAttemptKeeps ==
  ASSUME LaunchInv, NEW l \in Launchers, ReserveAttempt(l),
         \/ attempts' = attempts
         \/ \E n \in AttemptNonces : /\ AttemptRecordable(NewAttempt(l, n))
                                     /\ attempts' = attempts \cup {NewAttempt(l, n)}
  PROVE  /\ launchReservations' \subseteq LaunchReservation
         /\ LaunchSchemaTrusted'
         /\ ReservationsRest'
         /\ launchHighWater' \in Time /\ launchHighWater' >= launchHighWater
  <1> DEFINE c == launcher[l].claim
             r == [claim |-> launcher[l].claim, store |-> launcher[l].store, at |-> clock]
             AttemptsUnique == \A a, b \in attempts' :
                                 \/ SameClaimIdentity(a.claim, b.claim)
                                 \/ a.attemptId = b.attemptId
                                 \/ a.nonce = b.nonce
                                 => a = b
             AttemptsReserved == \A a \in attempts' :
                                   [claim |-> a.claim, store |-> a.store, at |-> a.at]
                                     \in launchReservations'
  <1>0. ASSUME NEW q \in launchReservations
        PROVE  q.at \in Nat
    <2>1. q \in LaunchReservation
      BY <1>0 DEF LaunchInv, LaunchTypeOK
    <2>2. q.at \in Time
      BY <2>1 DEF LaunchReservation
    <2> QED
      BY SMTT(30), <2>2, IntentAssumption DEF Time
  <1> USE DEF ReserveAttempt
  <1>1. /\ c \in claims /\ c \in Claim /\ launcher[l].store \in StoreIds
        /\ launcher[l].store = c.store /\ clock \in Time
    BY DEF LaunchInv, LaunchCallsInOrder, IntentInv, IntentTypeOK
  <1>2. r \in LaunchReservation /\ r.claim = c /\ r.store = c.store /\ r.at = clock
    BY <1>1 DEF LaunchReservation
  <1>3. /\ launchHighWater' \in Time /\ launchHighWater' >= launchHighWater
        /\ launchHighWater \in Nat /\ clock \in Nat /\ launchHighWater' = clock
    BY <1>1, IntentAssumption DEF LaunchInv, LaunchTypeOK, LaunchClockAccepted, Time
  <1>4. \A q \in launchReservations :
          ~SameClaimIdentity(q.claim, c) /\ ~SameClaimIdentity(c, q.claim)
    BY DEF AttemptReservable, ClaimIdentityTaken, SameClaimIdentity, SameIdentity
  <1>5. c.at <= clock /\ clock < Expires(c)
    BY DEF LaunchClockAccepted, AttemptReservable
  <1>6. \A p, q \in launchReservations' : SameClaimIdentity(p.claim, q.claim) => p = q
    BY <1>2, <1>4 DEF LaunchInv, LaunchSchemaTrusted, LaunchSnapshotIntact
  <1>7. \A q \in launchReservations' : q.claim.at <= q.at /\ q.at <= launchHighWater'
    <2> SUFFICES ASSUME NEW q \in launchReservations'
                 PROVE  q.claim.at <= q.at /\ q.at <= launchHighWater'
      OBVIOUS
    <2>1. CASE q = r
      BY SMTT(30), <1>2, <1>3, <1>5, <2>1
    <2>2. CASE q \in launchReservations
      <3>1. q.at \in Nat
        BY <1>0, <2>2
      <3>2. q.claim.at <= q.at /\ q.at <= launchHighWater
        BY <2>2 DEF LaunchInv, LaunchSchemaTrusted, LaunchSnapshotIntact
      <3> QED BY SMTT(30), <1>3, <3>1, <3>2
    <2> QED BY <2>1, <2>2
  <1>8. ASSUME NEW a \in attempts
        PROVE  ~SameClaimIdentity(a.claim, c) /\ ~SameClaimIdentity(c, a.claim)
    <2>1. [claim |-> a.claim, store |-> a.store, at |-> a.at] \in launchReservations
      BY DEF LaunchInv, LaunchSchemaTrusted, LaunchSnapshotIntact
    <2> QED BY <1>4, <2>1
  <1>9. AttemptsUnique /\ AttemptsReserved
    <2>1. CASE attempts' = attempts
      BY <2>1 DEF LaunchInv, LaunchSchemaTrusted, LaunchSnapshotIntact
    <2>2. ASSUME NEW n \in AttemptNonces, AttemptRecordable(NewAttempt(l, n)),
                 attempts' = attempts \cup {NewAttempt(l, n)}
          PROVE  AttemptsUnique /\ AttemptsReserved
      <3> DEFINE k == NewAttempt(l, n)
      <3>1. /\ k.claim = c /\ k.attemptId = launcher[l].attemptId /\ k.nonce = n
            /\ [claim |-> k.claim, store |-> k.store, at |-> k.at] = r
        BY DEF NewAttempt
      <3>2. \A a \in attempts : a.attemptId # k.attemptId /\ a.nonce # k.nonce
        BY <2>2 DEF AttemptRecordable
      <3>3. attempts' = attempts \cup {k} /\ launchReservations' = launchReservations \cup {r}
        BY <2>2
      <3> HIDE DEF k, r, c
      <3>4. AttemptsUnique
        BY <1>8, <3>1, <3>2, <3>3 DEF LaunchInv, LaunchSchemaTrusted, LaunchSnapshotIntact
      <3>5. AttemptsReserved
        BY <3>1, <3>3 DEF LaunchInv, LaunchSchemaTrusted, LaunchSnapshotIntact
      <3> QED BY <3>4, <3>5
    <2> QED BY <2>1, <2>2
  <1>10. LaunchSchemaTrusted'
    BY <1>6, <1>7, <1>9 DEF LaunchSchemaTrusted, LaunchSnapshotIntact, SameClaimIdentity, SameIdentity
  <1>11. ReservationsRest'
    BY <1>1, <1>2, <1>5 DEF LaunchInv, ReservationsRest, Expires, intentVars, tables
  <1>12. launchReservations' \subseteq LaunchReservation
    BY <1>2 DEF LaunchInv, LaunchTypeOK
  <1> QED BY <1>3, <1>10, <1>11, <1>12

\* Every step of either ledger keeps the invariant.
LEMMA LaunchNextInv == LaunchInv /\ [LaunchNext]_vars => LaunchInv'
  <1> SUFFICES ASSUME LaunchInv, [LaunchNext]_vars PROVE LaunchInv'
    OBVIOUS
  <1> USE DEF launchTables
  <1>1. /\ launchHighWater \in Time /\ launchHighWater >= launchHighWater
        /\ 0 \in Time /\ clock \in Time
    <2>1. launchHighWater \in Time /\ clock \in Time
      BY DEF LaunchInv, LaunchTypeOK, IntentInv, IntentTypeOK
    <2> QED BY <2>1, IntentAssumption DEF Time
  <1>2. ASSUME IntentNext, UNCHANGED launchVars PROVE LaunchInv'
    BY <1>2, IntentStepKeepsLaunch
  <1>3. ASSUME NEW l \in Launchers, CreateLaunchFile(l) PROVE LaunchInv'
    <2> USE <1>3 DEF CreateLaunchFile
    <2>1. LaunchTypeOK'
      BY DEF LaunchInv, LaunchTypeOK, LaunchPcs
    <2>2. LaunchCallsInOrder'
      BY IntentUnchanged DEF LaunchInv, LaunchTypeOK, LaunchCallsInOrder
    <2> QED BY <1>1, <2>1, <2>2, IntentUnchanged, LaunchRowsKept DEF LaunchInv
  <1>4. ASSUME NEW l \in Launchers, CreateLaunchTables(l) PROVE LaunchInv'
    <2> USE <1>4 DEF CreateLaunchTables
    <2>1. UNCHANGED <<launchHighWater, launchReservations, attempts>>
      BY DEF LaunchInv, LaunchCallsInOrder
    <2>2. LaunchTypeOK'
      BY <2>1, LaunchReturnKeeps DEF LaunchInv, LaunchTypeOK
    <2>3. LaunchCallsInOrder'
      BY <2>1, IntentUnchanged
      DEF LaunchInv, LaunchTypeOK, LaunchCallsInOrder, LaunchReturn, LaunchIdle
    <2> QED BY <1>1, <2>1, <2>2, <2>3, IntentUnchanged, LaunchRowsKept DEF LaunchInv
  <1>5. ASSUME NEW l \in Launchers, AdmitAttempt(l) PROVE LaunchInv'
    <2> USE <1>5 DEF AdmitAttempt
    <2>1. PICK c \in told, a \in AttemptIds \cup {Zero} :
            launcher' = [launcher EXCEPT ![l] =
              [pc |-> "consume", claim |-> c, store |-> store, attemptId |-> a, t |-> 0]]
      OBVIOUS
    <2>2. c \in claims /\ c \in Claim /\ store \in StoreIds
      BY DEF LaunchInv, IntentInv, IntentTypeOK
    <2>3. LaunchTypeOK'
      BY <1>1, <2>1, <2>2 DEF LaunchInv, LaunchTypeOK, LaunchPcs
    <2>4. LaunchCallsInOrder'
      BY <2>1, <2>2, IntentUnchanged DEF LaunchInv, LaunchTypeOK, LaunchCallsInOrder
    <2> QED BY <1>1, <2>3, <2>4, IntentUnchanged, LaunchRowsKept DEF LaunchInv
  <1>6. ASSUME NEW l \in Launchers, AuthenticateAttempt(l) PROVE LaunchInv'
    <2> USE <1>6 DEF AuthenticateAttempt
    <2>1. launchLedger = "ready"
      BY DEF LaunchInv, LaunchCallsInOrder
    <2>2. CASE LaunchReturn(l)
      <3>1. LaunchTypeOK' /\ LaunchCallsInOrder'
        BY <2>1, <2>2, LaunchReturnKeeps DEF LaunchInv, LaunchTypeOK
      <3> QED BY <1>1, <3>1, IntentUnchanged, LaunchRowsKept DEF LaunchInv
    <2>3. CASE /\ Authenticated(launcher[l].claim, launcher[l].store, clock)
               /\ launcher' = [launcher EXCEPT ![l].pc = "transact", ![l].t = clock]
      <3>1. launcher[l].store = launcher[l].claim.store
        <4>1. launcher[l].claim \in Recoverable(launcher[l].claim.intent, launcher[l].store)
          BY <2>3 DEF Authenticated, Committed
        <4>2. launcher[l].claim \in claims
          BY DEF LaunchInv, LaunchCallsInOrder
        <4>3. PICK r \in Existing(launcher[l].claim.intent) : r.store = launcher[l].store
          BY <4>1 DEF Recoverable
        <4> DEFINE c == launcher[l].claim
                   q == [intent |-> c.intent, store |-> c.store, at |-> c.at]
        <4>4. q \in reservations /\ q.intent = c.intent /\ q.store = c.store
          BY <4>2 DEF LaunchInv, IntentInv, SchemaTrusted, SnapshotIntact
        <4>5. r \in reservations /\ r.intent = c.intent
          BY <4>3 DEF Existing
        <4>6. SameIdentity(q.intent, r.intent)
          BY <4>4, <4>5 DEF SameIdentity
        <4>7. q = r
          BY <4>4, <4>5, <4>6 DEF LaunchInv, IntentInv, SchemaTrusted, SnapshotIntact
        <4> QED BY <4>3, <4>4, <4>7
      <3> DEFINE Locals == [pc : LaunchPcs, claim : Claim \cup {None},
                            store : StoreIds \cup {None},
                            attemptId : AttemptIds \cup {Zero, None}, t : Time]
                 moved == [launcher[l] EXCEPT !.pc = "transact", !.t = clock]
      <3>2. launcher' \in [Launchers -> Locals]
        <4>1. launcher \in [Launchers -> Locals] /\ "transact" \in LaunchPcs
          BY DEF LaunchInv, LaunchTypeOK, LaunchPcs
        <4>2. moved \in Locals
          BY <1>1, <4>1
        <4>3. launcher' = [launcher EXCEPT ![l] = moved]
          BY <2>3, <4>1
        <4> HIDE DEF Locals, moved
        <4> QED BY <4>1, <4>2, <4>3
      <3>3. LaunchTypeOK'
        BY <3>2 DEF LaunchInv, LaunchTypeOK
      <3>4. LaunchCallsInOrder'
        BY <2>1, <2>3, <3>1, IntentUnchanged DEF LaunchInv, LaunchTypeOK, LaunchCallsInOrder
      <3> QED BY <1>1, <3>3, <3>4, IntentUnchanged, LaunchRowsKept DEF LaunchInv
    <2> QED BY <2>2, <2>3
  <1>7. ASSUME NEW l \in Launchers, AttemptRolledBack(l) \/ AttemptRefused(l) PROVE LaunchInv'
    <2> USE <1>7 DEF AttemptRolledBack, AttemptRefused
    <2>1. launchHighWater' \in Time /\ launchHighWater' >= launchHighWater
      BY <1>1 DEF LaunchClockAccepted
    <2>2. launchLedger = "ready"
      BY DEF LaunchInv, LaunchCallsInOrder
    <2>3. LaunchTypeOK' /\ LaunchCallsInOrder'
      BY <2>1, <2>2, LaunchReturnKeeps DEF LaunchInv, LaunchTypeOK
    <2> QED BY <2>1, <2>3, IntentUnchanged, LaunchRowsKept DEF LaunchInv
  <1>8. ASSUME NEW l \in Launchers, AttemptTombstoned(l) PROVE LaunchInv'
    <2> USE <1>8 DEF AttemptTombstoned
    <2>1. UNCHANGED intentVars /\ LaunchReturn(l) /\ UNCHANGED launchLedger
      BY DEF ReserveAttempt
    <2>2. launchLedger = "ready"
      BY DEF LaunchInv, LaunchCallsInOrder, ReserveAttempt
    <2>3. LaunchTypeOK' /\ LaunchCallsInOrder'
      BY <2>1, <2>2, LaunchReturnKeeps, ReserveAttemptKeeps DEF LaunchInv, LaunchTypeOK
    <2> QED BY <2>1, <2>3, IntentUnchanged, ReserveAttemptKeeps DEF LaunchInv
  <1>9. ASSUME NEW l \in Launchers, NEW replied \in BOOLEAN, AttemptCommitted(l, replied)
        PROVE  LaunchInv'
    <2> USE <1>9 DEF AttemptCommitted
    <2>1. PICK n \in AttemptNonces :
            /\ AttemptRecordable(NewAttempt(l, n))
            /\ attempts' = attempts \cup {NewAttempt(l, n)}
            /\ launchTold' = IF replied THEN launchTold \cup {NewAttempt(l, n)} ELSE launchTold
      OBVIOUS
    <2>2. UNCHANGED intentVars /\ LaunchReturn(l) /\ UNCHANGED launchLedger
      BY DEF ReserveAttempt
    <2>3. launchLedger = "ready"
      BY DEF LaunchInv, LaunchCallsInOrder, ReserveAttempt
    <2>4. NewAttempt(l, n) \in Attempt
      BY <1>1, <2>1
      DEF LaunchInv, IntentInv, IntentTypeOK, LaunchCallsInOrder, ReserveAttempt,
          AttemptRecordable, AttemptReceiptValid, NewAttempt, Attempt
    <2>5. attempts' \subseteq Attempt /\ launchTold' \subseteq Attempt /\ launchTold' \subseteq attempts'
      BY <2>1, <2>4 DEF LaunchInv, LaunchTypeOK
    <2>6. /\ launchReservations' \subseteq LaunchReservation /\ launchHighWater' \in Time
          /\ LaunchSchemaTrusted' /\ ReservationsRest'
      BY <2>1, ReserveAttemptKeeps
    <2>7. LaunchTypeOK' /\ LaunchCallsInOrder'
      BY <2>2, <2>3, <2>5, <2>6, LaunchReturnKeeps DEF LaunchInv, LaunchTypeOK
    <2> QED BY <2>2, <2>5, <2>6, <2>7, IntentUnchanged DEF LaunchInv
  <1>10. ASSUME NEW l \in Launchers, RecoverAttempt(l) PROVE LaunchInv'
    <2> USE <1>10 DEF RecoverAttempt
    <2>1. launchTold' \subseteq attempts'
      BY DEF LaunchInv, RecoverableAttempts
    <2>2. LaunchTypeOK' /\ LaunchCallsInOrder'
      BY <2>1, IntentUnchanged DEF LaunchInv, LaunchTypeOK, LaunchCallsInOrder
    <2>3. LaunchSchemaTrusted' /\ ReservationsRest'
      BY IntentUnchanged
      DEF LaunchInv, LaunchSchemaTrusted, LaunchSnapshotIntact, SameClaimIdentity, SameIdentity, ReservationsRest,
          Expires
    <2> QED BY <2>1, <2>2, <2>3, IntentUnchanged DEF LaunchInv
  <1>11. ASSUME NEW l \in Launchers, AttemptAborted(l) PROVE LaunchInv'
    <2> USE <1>11 DEF AttemptAborted
    <2>1. LaunchTypeOK'
      BY LaunchReturnKeeps DEF LaunchInv, LaunchTypeOK
    <2>2. LaunchCallsInOrder'
      BY IntentUnchanged DEF LaunchInv, LaunchTypeOK, LaunchCallsInOrder, LaunchReturn, LaunchIdle
    <2> QED BY <1>1, <2>1, <2>2, IntentUnchanged, LaunchRowsKept DEF LaunchInv
  <1>12. CASE UNCHANGED vars
    <2> USE <1>12 DEF vars, launchVars
    <2>1. LaunchTypeOK' /\ LaunchCallsInOrder'
      BY IntentUnchanged DEF LaunchInv, LaunchTypeOK, LaunchCallsInOrder
    <2> QED BY <1>1, <2>1, IntentUnchanged, LaunchRowsKept DEF LaunchInv
  <1> QED
    BY <1>2, <1>3, <1>4, <1>5, <1>6, <1>7, <1>8, <1>9, <1>10, <1>11, <1>12
    DEF LaunchNext, LaunchStep, ConsumeLaunchAttempt

\* The invariant of both ledgers holds throughout.
LEMMA LaunchSpecInv == LaunchSpec => []LaunchInv
  BY LaunchInitInv, LaunchNextInv, PTL DEF LaunchSpec

\* The launch ledger's state always has its type.
THEOREM LaunchTypeCorrect == LaunchSpec => []LaunchTypeOK
  <1>1. LaunchInv => LaunchTypeOK
    BY DEF LaunchInv
  <1> QED BY <1>1, LaunchSpecInv, PTL

\* Legal calls on the two ledgers never make the launch ledger refuse its rows.
THEOREM LaunchStaysTrusted == LaunchSpec => []LaunchNeverLockedOut
  <1>1. LaunchInv => LaunchNeverLockedOut
    BY DEF LaunchInv, LaunchNeverLockedOut
  <1> QED BY <1>1, LaunchSpecInv, PTL

\* Every consumed attempt rests on a committed claim inside its window, and no
\* signed intent is attempted twice.
THEOREM AttemptsRest == LaunchSpec => []AttemptsRestOnClaims
  <1>1. LaunchInv => AttemptsRestOnClaims
    BY DEF LaunchInv, ReservationsRest, AttemptsRestOnClaims, LaunchSchemaTrusted, LaunchSnapshotIntact,
           SameClaimIdentity
  <1> QED BY <1>1, LaunchSpecInv, PTL

\* consume_launch_attempt never meets a reservation that differs from its inputs.
THEOREM NeverDiffers == LaunchSpec => []ReservationNeverDiffers
  <1>1. LaunchInv => ReservationNeverDiffers
    BY DEF LaunchInv, ReservationsRest, ReservationNeverDiffers, LaunchReservationDiffers,
           LaunchExisting, LaunchCallsInOrder
  <1> QED BY <1>1, LaunchSpecInv, PTL

\* A lost attempt receipt can be recovered, exactly, from the claim it rests on.
THEOREM AttemptRecovery == LaunchSpec => []AttemptRecoveryExact
  <1>1. ASSUME LaunchInv PROVE AttemptRecoveryExact
    <2>1. ASSUME NEW a \in attempts PROVE RecoverableAttempts(a.claim, a.store) = {a}
      <3> DEFINE r == [claim |-> a.claim, store |-> a.store, at |-> a.at]
      <3>1. r \in launchReservations /\ r.claim = a.claim /\ r.store = a.store
        BY <1>1 DEF LaunchInv, LaunchSchemaTrusted, LaunchSnapshotIntact
      <3>2. a.claim.at <= r.at /\ r.at < Expires(a.claim)
        BY <1>1, <3>1 DEF LaunchInv, ReservationsRest
      <3>3. AttemptReceiptValid(a)
        <4>1. a.attemptId # Zero /\ a.nonce # Zero
          BY <1>1, LaunchAssumption DEF LaunchInv, LaunchTypeOK, Attempt
        <4>2. ReceiptValid(a.claim)
          BY <1>1, <3>1 DEF LaunchInv, ReservationsRest, IntentInv, ClaimsValid
        <4> QED BY <3>1, <3>2, <4>1, <4>2 DEF AttemptReceiptValid
      <3>4. {b \in attempts : Payload[b.claim.intent].id = Payload[a.claim.intent].id} = {a}
        BY <1>1 DEF LaunchInv, LaunchSchemaTrusted, LaunchSnapshotIntact, SameClaimIdentity,
                    SameIdentity
      <3>5. a.store = a.claim.store
        BY <1>1, <3>1 DEF LaunchInv, ReservationsRest
      <3>6. VerifyAttempt(a)
        BY <1>1, <3>3, <3>4, <3>5 DEF VerifyAttempt, LaunchInv
      <3>7. a \in RecoverableAttempts(a.claim, a.store)
        BY <3>1, <3>2, <3>6 DEF RecoverableAttempts, LaunchExisting
      <3>8. \A b \in RecoverableAttempts(a.claim, a.store) : b = a
        BY <3>4 DEF RecoverableAttempts
      <3> QED BY <3>7, <3>8
    <2> QED BY <1>1, <2>1 DEF LaunchInv, AttemptRecoveryExact
  <1> QED BY <1>1, LaunchSpecInv, PTL

\* The three things a step may do to the launch rows.
AttemptRowsKept == UNCHANGED <<launchReservations, attempts, launchTold>>

\* A committed attempt is told to a caller again.
AttemptRowTold ==
  /\ UNCHANGED launchTables
  /\ \E a \in attempts : launchTold' = launchTold \cup {a}

\* A reservation is added, with or without an attempt.
AttemptRowAdded ==
  \E r \in LaunchReservation :
    /\ launchReservations' = launchReservations \cup {r}
    /\ \A q \in launchReservations : AttemptIdOf(q) # AttemptIdOf(r)
    /\ \/ attempts' = attempts /\ launchTold' = launchTold
       \/ \E a \in Attempt :
            /\ attempts' = attempts \cup {a}
            /\ a.claim = r.claim /\ launchHighWater' = a.at
            /\ launchTold' \in {launchTold, launchTold \cup {a}}

\* What any step does to the launch rows.
LEMMA LaunchStepShape ==
  ASSUME LaunchInv, [LaunchNext]_vars
  PROVE  /\ launchHighWater \in Nat /\ launchHighWater' \in Nat
         /\ launchHighWater' >= launchHighWater
         /\ AttemptRowsKept \/ AttemptRowTold \/ AttemptRowAdded
  <1> USE DEF launchTables
  <1>1. LaunchInv'
    BY LaunchNextInv
  <1>2. /\ launchHighWater \in Nat /\ launchHighWater' \in Nat /\ clock \in Time
        /\ clock \in Nat
    <2>1. launchHighWater \in Time /\ clock \in Time
      BY DEF LaunchInv, LaunchTypeOK, IntentInv, IntentTypeOK
    <2>2. launchHighWater' \in Time
      BY <1>1 DEF LaunchInv, LaunchTypeOK
    <2> QED BY <2>1, <2>2, IntentAssumption DEF Time
  <1>3. ASSUME NEW l \in Launchers, ReserveAttempt(l)
        PROVE  LET r == [claim |-> launcher[l].claim, store |-> launcher[l].store, at |-> clock]
               IN  /\ launchHighWater' >= launchHighWater
                   /\ r \in LaunchReservation
                   /\ launchReservations' = launchReservations \cup {r}
                   /\ \A q \in launchReservations : AttemptIdOf(q) # AttemptIdOf(r)
    <2>1. launcher[l].claim \in Claim /\ launcher[l].store \in StoreIds
      BY <1>3 DEF ReserveAttempt, LaunchInv, LaunchCallsInOrder, IntentInv, IntentTypeOK
    <2> QED
      BY <1>2, <1>3, <2>1 DEF ReserveAttempt, AttemptReservable, ClaimIdentityTaken,
         SameClaimIdentity, SameIdentity, AttemptIdOf, LaunchReservation, LaunchClockAccepted
  <1>4. ASSUME NEW l \in Launchers, NEW replied \in BOOLEAN, AttemptCommitted(l, replied)
        PROVE  \E a \in Attempt :
                 /\ attempts' = attempts \cup {a}
                 /\ a.claim = launcher[l].claim /\ launchHighWater' = a.at
                 /\ launchTold' \in {launchTold, launchTold \cup {a}}
    <2>1. PICK n \in AttemptNonces :
            /\ AttemptRecordable(NewAttempt(l, n))
            /\ attempts' = attempts \cup {NewAttempt(l, n)}
            /\ launchTold' = IF replied THEN launchTold \cup {NewAttempt(l, n)} ELSE launchTold
      BY <1>4 DEF AttemptCommitted
    <2>2. NewAttempt(l, n) \in Attempt
      BY <1>2, <1>4, <2>1
      DEF AttemptCommitted, LaunchInv, IntentInv, IntentTypeOK, LaunchCallsInOrder,
          ReserveAttempt, AttemptRecordable, AttemptReceiptValid, NewAttempt, Attempt
    <2>3. NewAttempt(l, n).claim = launcher[l].claim /\ launchHighWater' = NewAttempt(l, n).at
      BY <1>4 DEF AttemptCommitted, ReserveAttempt, NewAttempt
    <2> QED BY <2>1, <2>2, <2>3
  <1>5. CASE \E l \in Launchers : AttemptTombstoned(l)
    <2>1. PICK l \in Launchers : AttemptTombstoned(l)
      BY <1>5
    <2>2. ReserveAttempt(l) /\ attempts' = attempts /\ launchTold' = launchTold
      BY <2>1 DEF AttemptTombstoned
    <2> QED BY <1>2, <1>3, <2>2 DEF AttemptRowAdded
  <1>6. CASE \E l \in Launchers, replied \in BOOLEAN : AttemptCommitted(l, replied)
    <2>1. PICK l \in Launchers, replied \in BOOLEAN : AttemptCommitted(l, replied)
      BY <1>6
    <2>2. ReserveAttempt(l)
      BY <2>1 DEF AttemptCommitted
    <2> DEFINE r == [claim |-> launcher[l].claim, store |-> launcher[l].store, at |-> clock]
    <2>3. r.claim = launcher[l].claim
      OBVIOUS
    <2>4. /\ launchHighWater' >= launchHighWater
          /\ r \in LaunchReservation
          /\ launchReservations' = launchReservations \cup {r}
          /\ \A q \in launchReservations : AttemptIdOf(q) # AttemptIdOf(r)
      BY <1>3, <2>2
    <2>5. \E a \in Attempt :
             /\ attempts' = attempts \cup {a}
             /\ a.claim = launcher[l].claim /\ launchHighWater' = a.at
             /\ launchTold' \in {launchTold, launchTold \cup {a}}
      BY <1>4, <2>1
    <2> HIDE DEF r
    <2>6. AttemptRowAdded
      BY <2>3, <2>4, <2>5 DEF AttemptRowAdded
    <2> QED BY <1>2, <2>4, <2>6
  <1>7. CASE \E l \in Launchers : RecoverAttempt(l)
    <2>1. AttemptRowTold /\ launchHighWater' = launchHighWater
      BY <1>7 DEF RecoverAttempt, RecoverableAttempts, AttemptRowTold
    <2> QED BY <1>2, <2>1
  <1>8. CASE \E l \in Launchers : CreateLaunchTables(l)
    <2>1. UNCHANGED launchTables /\ launchTold' = launchTold
      BY <1>8 DEF CreateLaunchTables, LaunchInv, LaunchCallsInOrder
    <2>2. AttemptRowsKept /\ launchHighWater' = launchHighWater
      BY <2>1 DEF AttemptRowsKept
    <2> QED BY <1>2, <2>2
  <1>9. CASE \E l \in Launchers :
               \/ CreateLaunchFile(l) \/ AdmitAttempt(l) \/ AuthenticateAttempt(l)
               \/ AttemptRolledBack(l) \/ AttemptAborted(l)
    BY <1>2, <1>9 DEF CreateLaunchFile, AdmitAttempt, AuthenticateAttempt, AttemptRolledBack,
                      AttemptAborted, AttemptRowsKept
  <1>10. CASE \E l \in Launchers : AttemptRefused(l)
    BY <1>2, <1>10 DEF AttemptRefused, LaunchClockAccepted, AttemptRowsKept
  <1>11. CASE UNCHANGED launchVars
    BY <1>2, <1>11 DEF launchVars, AttemptRowsKept
  <1> QED
    BY <1>5, <1>6, <1>7, <1>8, <1>9, <1>10, <1>11
    DEF LaunchNext, LaunchStep, ConsumeLaunchAttempt, vars

\* The launch ledger implements the one-shot register keyed by the intent id,
\* so across both ledgers an intent is launched at most once.
THEOREM LaunchRefinement == LaunchSpec => LaunchImplementsOneShot
  <1>1. LaunchInit => LaunchAbstract!Init
    BY DEF LaunchInit, LaunchAbstract!Init
  <1>2. LaunchInv /\ [LaunchNext]_vars => [LaunchAbstract!Next]_(LaunchAbstract!vars)
    <2> SUFFICES ASSUME LaunchInv, [LaunchNext]_vars
                 PROVE  [LaunchAbstract!Next]_(LaunchAbstract!vars)
      OBVIOUS
    <2>1. /\ launchHighWater \in Nat /\ launchHighWater' \in Nat
          /\ launchHighWater' >= launchHighWater
      BY LaunchStepShape
    <2>2. CASE AttemptRowsKept
      <3>1. LaunchAbstract!Advance
        BY <2>1, <2>2 DEF LaunchAbstract!Advance, AttemptRowsKept
      <3> QED BY <3>1 DEF LaunchAbstract!Next
    <2>3. CASE AttemptRowTold
      <3>1. PICK a \in attempts : launchTold' = launchTold \cup {a}
        BY <2>3 DEF AttemptRowTold
      <3>2. LaunchAbstract!Tell(a)
        BY <2>3, <3>1 DEF LaunchAbstract!Tell, launchTables, AttemptRowTold
      <3>3. a \in Attempt
        BY DEF LaunchInv, LaunchTypeOK
      <3> QED BY <3>2, <3>3 DEF LaunchAbstract!Next
    <2>4. ASSUME NEW r \in LaunchReservation,
                 launchReservations' = launchReservations \cup {r},
                 \A q \in launchReservations : AttemptIdOf(q) # AttemptIdOf(r),
                 \/ attempts' = attempts /\ launchTold' = launchTold
                 \/ \E a \in Attempt :
                      /\ attempts' = attempts \cup {a}
                      /\ a.claim = r.claim /\ launchHighWater' = a.at
                      /\ launchTold' \in {launchTold, launchTold \cup {a}}
          PROVE  LaunchAbstract!Next
      <3>1. /\ {AttemptIdOf(q) : q \in launchReservations'} =
                 {AttemptIdOf(q) : q \in launchReservations} \cup {AttemptIdOf(r)}
            /\ AttemptIdOf(r) \notin {AttemptIdOf(q) : q \in launchReservations}
        BY <2>4
      <3>2. CASE attempts' = attempts /\ launchTold' = launchTold
        <4>1. LaunchAbstract!Burn(AttemptIdOf(r))
          BY <2>1, <3>1, <3>2 DEF LaunchAbstract!Burn
        <4>2. AttemptIdOf(r) \in IntentIds
          BY DEF AttemptIdOf, IntentIds, LaunchReservation, Claim
        <4> QED BY <4>1, <4>2 DEF LaunchAbstract!Next
      <3>3. ASSUME NEW a \in Attempt,
                   attempts' = attempts \cup {a},
                   a.claim = r.claim, launchHighWater' = a.at,
                   launchTold' \in {launchTold, launchTold \cup {a}}
            PROVE  LaunchAbstract!Next
        <4>1. AttemptIdOf(a) = AttemptIdOf(r)
          BY <3>3 DEF AttemptIdOf
        <4>2. LaunchAbstract!Consume(a)
          BY <2>1, <3>1, <3>3, <4>1 DEF LaunchAbstract!Consume, AttemptTime
        <4> QED BY <4>2 DEF LaunchAbstract!Next
      <3> QED BY <2>4, <3>2, <3>3
    <2> QED BY <2>2, <2>3, <2>4, LaunchStepShape DEF AttemptRowAdded
  <1> QED
    BY <1>1, <1>2, LaunchSpecInv, PTL
    DEF LaunchSpec, LaunchImplementsOneShot, LaunchAbstract!Spec
=============================================================================
