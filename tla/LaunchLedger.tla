---------------------------- MODULE LaunchLedger ----------------------------
(***************************************************************************)
(* The launch-attempt ledger of bpe.inert_launch beside the intent ledger  *)
(* it depends on.  Consuming an attempt reads the intent ledger in one     *)
(* transaction and writes the launch ledger in a later one; the two have   *)
(* separate files, locks and high-water marks and share only the clock.    *)
(***************************************************************************)
EXTENDS IntentLedger

CONSTANTS
  Launchers,      \* callers of admit_inert_fixture_launch_attempt
  AttemptIds,     \* caller-supplied launch_attempt_id values
  AttemptNonces   \* worker-generated launch_attempt_nonce values

ASSUME LaunchAssumption == Zero \notin AttemptIds /\ Zero \notin AttemptNonces

\* A row of inert_fixture_launch_reservations; claim stands for the columns
\* copied from the claim receipt, store for trust_store_sha256.
LaunchReservation == [claim : Claim, store : StoreIds, at : Time]

\* A row of inert_fixture_launch_attempts; it also stands for its receipt.
Attempt == [claim : Claim, store : StoreIds, attemptId : AttemptIds,
            nonce : AttemptNonces, at : Time]

VARIABLES
  launchLedger,        \* the launch database: absent, empty or ready
  launchHighWater,     \* inert_fixture_launch_state.clock_high_water_unix
  launchReservations,  \* rows of inert_fixture_launch_reservations
  attempts,            \* rows of inert_fixture_launch_attempts
  launcher,            \* each caller's control state and locals
  launchTold           \* history: attempt receipts returned to a caller

launchTables == <<launchHighWater, launchReservations, attempts>>
launchVars == <<launchLedger, launchTables, launcher, launchTold>>
vars == <<intentVars, launchVars>>

LaunchIdle == [pc |-> "idle", claim |-> None, store |-> None, attemptId |-> None, t |-> 0]

LaunchPcs == {"idle", "create", "consume", "transact"}

LaunchInit ==
  /\ Init
  /\ launchLedger = "absent"
  /\ launchHighWater = 0
  /\ launchReservations = {}
  /\ attempts = {}
  /\ launcher = [l \in Launchers |-> LaunchIdle]
  /\ launchTold = {}

LaunchReturn(l) == launcher' = [launcher EXCEPT ![l] = LaunchIdle]

Expires(c) == Payload[c.intent].expires

-----------------------------------------------------------------------------
(* Pure checks                                                             *)

\* Two claim receipts agree on a column that only one reservation may carry.
SameClaimIdentity(c, d) ==
  SameIdentity(c.intent, d.intent) \/ c.claimId = d.claimId \/ c.nonce = d.nonce

\* The integrity and foreign-key checks of _validate_schema: UNIQUE columns, the
\* CHECK on the times and the composite FOREIGN KEY.
LaunchSnapshotIntact ==
  /\ \A r, q \in launchReservations : SameClaimIdentity(r.claim, q.claim) => r = q
  /\ \A a, b \in attempts :
       \/ SameClaimIdentity(a.claim, b.claim)
       \/ a.attemptId = b.attemptId
       \/ a.nonce = b.nonce
       => a = b
  /\ \A a \in attempts : [claim |-> a.claim, store |-> a.store, at |-> a.at] \in launchReservations
  /\ \A r \in launchReservations : r.claim.at <= r.at

\* The part of _validate_schema that depends on the rows: an intact snapshot
\* whose high-water mark is not behind the newest row.
LaunchSchemaTrusted ==
  /\ LaunchSnapshotIntact
  /\ \A r \in launchReservations : r.at <= launchHighWater

\* _authenticate_launch_inputs with enforce_validity=False: the intent ledger
\* recovers exactly the receipt the caller presents.
Committed(c, s) ==
  /\ ledger = "ready"
  /\ SchemaTrusted
  /\ Authentic(c.intent, s)
  /\ c \in Recoverable(c.intent, s)

\* _authenticate_launch_inputs with enforce_validity=True at time t.
Authenticated(c, s, t) == InWindow(c.intent, t) /\ Committed(c, s) /\ t >= c.at

-----------------------------------------------------------------------------
(* Provisioning                                                            *)

\* InertFixtureLaunchLedger.provision: O_CREAT | O_EXCL.
CreateLaunchFile(l) ==
  /\ launcher[l].pc = "idle"
  /\ launchLedger = "absent"
  /\ launchLedger' = "empty"
  /\ launcher' = [launcher EXCEPT ![l].pc = "create"]
  /\ UNCHANGED <<intentVars, launchTables, launchTold>>

\* _initialize_or_validate(require_empty=True).
CreateLaunchTables(l) ==
  /\ launcher[l].pc = "create"
  /\ IF launchLedger = "empty"
     THEN /\ launchLedger' = "ready"
          /\ launchHighWater' = 0
          /\ launchReservations' = {}
          /\ attempts' = {}
     ELSE UNCHANGED <<launchLedger, launchTables>>
  /\ LaunchReturn(l)
  /\ UNCHANGED <<intentVars, launchTold>>

-----------------------------------------------------------------------------
(* Consuming an attempt                                                    *)

\* admit_inert_fixture_launch_attempt: authenticate a receipt some caller
\* holds before the configured launch ledger is used.
AdmitAttempt(l) ==
  /\ launcher[l].pc = "idle"
  /\ launchLedger = "ready"
  /\ \E c \in told, a \in AttemptIds \cup {Zero} :
       /\ Authenticated(c, store, clock)
       /\ launcher' = [launcher EXCEPT ![l] =
            [pc |-> "consume", claim |-> c, store |-> store, attemptId |-> a, t |-> 0]]
  /\ UNCHANGED <<intentVars, launchLedger, launchTables, launchTold>>

\* consume_launch_attempt: read the clock and authenticate again.
AuthenticateAttempt(l) ==
  /\ launcher[l].pc = "consume"
  /\ IF Authenticated(launcher[l].claim, launcher[l].store, clock)
     THEN launcher' = [launcher EXCEPT ![l].pc = "transact", ![l].t = clock]
     ELSE LaunchReturn(l)
  /\ UNCHANGED <<intentVars, launchLedger, launchTables, launchTold>>

\* Mutant: only the launch ledger's own high-water mark is consulted.
LaunchClockOwnMark(l) == clock >= launchHighWater

\* The clock check of the transaction.
LaunchClockAccepted(l) ==
  /\ clock >= launcher[l].t
  /\ clock >= launcher[l].claim.at
  /\ clock >= launchHighWater

LaunchExisting(c) == {r \in launchReservations : r.claim = c}

LaunchReservationDiffers(l) ==
  \E r \in LaunchExisting(launcher[l].claim) :
    \/ r.store # launcher[l].store
    \/ ~(r.claim.at <= r.at /\ r.at < Expires(r.claim))

ClaimIdentityTaken(c) == \E r \in launchReservations : SameClaimIdentity(r.claim, c)

\* Mutant: expiry is not checked again under the lock.
AttemptReservableLate(l) ==
  LaunchExisting(launcher[l].claim) = {} /\ ~ClaimIdentityTaken(launcher[l].claim)

\* Mutant: the attempts table, not the reservations, decides.
AttemptReservableUntilRecorded(l) ==
  /\ clock < Expires(launcher[l].claim)
  /\ \A a \in attempts : a.claim # launcher[l].claim

AttemptReservable(l) ==
  /\ clock < Expires(launcher[l].claim)
  /\ LaunchExisting(launcher[l].claim) = {}
  /\ ~ClaimIdentityTaken(launcher[l].claim)

\* A ROLLBACK: untrusted schema, clock behind, or a differing reservation.
AttemptRolledBack(l) ==
  /\ launcher[l].pc = "transact"
  /\ \/ ~LaunchSchemaTrusted
     \/ ~LaunchClockAccepted(l)
     \/ clock < Expires(launcher[l].claim) /\ LaunchReservationDiffers(l)
  /\ LaunchReturn(l)
  /\ UNCHANGED <<intentVars, launchLedger, launchTables, launchTold>>

\* COMMIT of the advanced clock alone: expired, or already consumed.
AttemptRefused(l) ==
  /\ launcher[l].pc = "transact"
  /\ LaunchSchemaTrusted
  /\ LaunchClockAccepted(l)
  /\ ~AttemptReservable(l)
  /\ clock < Expires(launcher[l].claim) => ~LaunchReservationDiffers(l)
  /\ launchHighWater' = clock
  /\ LaunchReturn(l)
  /\ UNCHANGED <<intentVars, launchLedger, launchReservations, attempts, launchTold>>

\* The validators of InertFixtureLaunchAttemptReceipt.
AttemptReceiptValid(a) ==
  /\ a.attemptId # Zero /\ a.nonce # Zero
  /\ ReceiptValid(a.claim)
  /\ a.claim.at <= a.at /\ a.at < Expires(a.claim)

\* The attempt row can be written.
AttemptRecordable(a) ==
  /\ AttemptReceiptValid(a)
  /\ \A b \in attempts : b.attemptId # a.attemptId /\ b.nonce # a.nonce

NewAttempt(l, n) ==
  [claim |-> launcher[l].claim, store |-> launcher[l].store,
   attemptId |-> launcher[l].attemptId, nonce |-> n, at |-> clock]

\* Everything that lets the transaction write a reservation.
ReserveAttempt(l) ==
  /\ launcher[l].pc = "transact"
  /\ LaunchSchemaTrusted
  /\ LaunchClockAccepted(l)
  /\ AttemptReservable(l)
  /\ launchHighWater' = clock
  /\ launchReservations' = launchReservations \cup
       {[claim |-> launcher[l].claim, store |-> launcher[l].store, at |-> clock]}
  /\ LaunchReturn(l)
  /\ UNCHANGED <<intentVars, launchLedger>>

\* COMMIT of a reservation without an attempt row.
AttemptTombstoned(l) ==
  /\ ReserveAttempt(l)
  /\ \E n \in AttemptNonces \cup {Zero} : ~AttemptRecordable(NewAttempt(l, n))
  /\ UNCHANGED <<attempts, launchTold>>

\* COMMIT of reservation and attempt; the caller may die before it learns so.
AttemptCommitted(l, replied) ==
  /\ ReserveAttempt(l)
  /\ \E n \in AttemptNonces :
       /\ AttemptRecordable(NewAttempt(l, n))
       /\ attempts' = attempts \cup {NewAttempt(l, n)}
       /\ launchTold' = IF replied THEN launchTold \cup {NewAttempt(l, n)} ELSE launchTold

ConsumeLaunchAttempt(l) ==
  \/ AttemptRolledBack(l)
  \/ AttemptRefused(l)
  \/ AttemptTombstoned(l)
  \/ AttemptCommitted(l, TRUE)

\* Mutant: an attempt in the second of its claim is not recovered.
RecoverableAttemptsLater(c, s) ==
  {a \in attempts :
     /\ a.claim = c
     /\ \E r \in LaunchExisting(c) : r.store = s /\ c.at < r.at /\ r.at < Expires(c)}

\* verify_committed_receipt: a valid receipt that is the row of its intent id;
\* the trust store of the row must be the one the claim was made under.
VerifyAttempt(a) ==
  /\ AttemptReceiptValid(a)
  /\ LaunchSchemaTrusted
  /\ a.store = a.claim.store
  /\ {b \in attempts : Payload[b.claim.intent].id = Payload[a.claim.intent].id} = {a}

\* recover_committed_receipt: what it returns for claim c under store s.
RecoverableAttempts(c, s) ==
  {a \in attempts :
     /\ a.claim = c
     /\ \E r \in LaunchExisting(c) : r.store = s /\ c.at <= r.at /\ r.at < Expires(c)
     /\ VerifyAttempt(a)}

\* A call of recover_committed_receipt that returns evidence of an attempt.
RecoverAttempt(l) ==
  /\ launcher[l].pc = "idle"
  /\ launchLedger = "ready"
  /\ LaunchSchemaTrusted
  /\ \E c \in told :
       /\ Committed(c, store)
       /\ \E a \in RecoverableAttempts(c, store) : launchTold' = launchTold \cup {a}
  /\ UNCHANGED <<intentVars, launchLedger, launchTables, launcher>>

\* The call dies before its commit point.
AttemptAborted(l) ==
  /\ launcher[l].pc # "idle"
  /\ LaunchReturn(l)
  /\ UNCHANGED <<intentVars, launchLedger, launchTables, launchTold>>

LaunchStep(l) ==
  \/ CreateLaunchFile(l)
  \/ CreateLaunchTables(l)
  \/ AdmitAttempt(l)
  \/ AuthenticateAttempt(l)
  \/ ConsumeLaunchAttempt(l)
  \/ AttemptCommitted(l, FALSE)
  \/ RecoverAttempt(l)
  \/ AttemptAborted(l)

LaunchNext ==
  \/ IntentNext /\ UNCHANGED launchVars
  \/ \E l \in Launchers : LaunchStep(l)

LaunchSpec == LaunchInit /\ [][LaunchNext]_vars

-----------------------------------------------------------------------------
(* Properties                                                              *)

\* Every variable of the launch ledger has its type.
LaunchTypeOK ==
  /\ launchLedger \in {"absent", "empty", "ready"}
  /\ launchHighWater \in Time
  /\ launchReservations \subseteq LaunchReservation
  /\ attempts \subseteq Attempt
  /\ launcher \in [Launchers -> [pc : LaunchPcs, claim : Claim \cup {None},
                                 store : StoreIds \cup {None},
                                 attemptId : AttemptIds \cup {Zero, None}, t : Time]]
  /\ launchTold \subseteq Attempt

\* No sequence of legal calls on the two ledgers leads to launch rows that
\* _validate_schema refuses.
LaunchNeverLockedOut == LaunchSchemaTrusted

\* End to end, over both ledgers: every consumed attempt rests on a committed
\* claim, falls between that claim and the intent's expiry although each side
\* has its own durable clock, and no signed intent is ever attempted twice.
AttemptsRestOnClaims ==
  /\ \A r \in launchReservations :
       /\ r.claim \in claims
       /\ r.claim.at <= r.at /\ r.at < Expires(r.claim)
  /\ \A r, q \in launchReservations :
       SameIdentity(r.claim.intent, q.claim.intent) => r = q

\* A caller inside its transaction never meets a reservation that differs from
\* its inputs: that error of consume_launch_attempt needs a corrupted file.
ReservationNeverDiffers ==
  \A l \in Launchers : launcher[l].pc = "transact" => ~LaunchReservationDiffers(l)

\* An attempt whose reply was lost stays recoverable, exactly, for the caller
\* that still holds the claim and the trust store; nothing else is recovered.
AttemptRecoveryExact ==
  /\ \A a \in attempts : RecoverableAttempts(a.claim, a.store) = {a}
  /\ launchTold \subseteq attempts

AttemptIdOf(r) == Payload[r.claim.intent].id

AttemptTime(a) == a.at

LaunchAbstract ==
  INSTANCE OneShot WITH
    Keys <- IntentIds, Receipts <- Attempt, KeyOf <- AttemptIdOf, At <- AttemptTime,
    taken <- {AttemptIdOf(r) : r \in launchReservations}, receipts <- attempts,
    told <- launchTold, horizon <- launchHighWater

\* The launch ledger implements the one-shot register keyed by intent id.
LaunchImplementsOneShot == LaunchAbstract!Spec
=============================================================================
