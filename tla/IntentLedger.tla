---------------------------- MODULE IntentLedger ----------------------------
(***************************************************************************)
(* The one-shot fixture-intent claim ledger of bpe.inert_fixture.          *)
(*                                                                         *)
(* Unlike the dispatch ledger it is provisioned once and then only opened, *)
(* and consuming an intent has two halves: a reservation, and the claim    *)
(* row.  A reservation without a claim row is a tombstone: the intent is   *)
(* consumed and nobody will ever hold a receipt for it.  The trust store   *)
(* is part of the reservation's identity and may be rotated between calls. *)
(***************************************************************************)
EXTENDS Naturals, FiniteSets

CONSTANTS
  Workers,      \* callers
  Intents,      \* signed intents, named by intent_sha256
  Payload,      \* Intent -> [id, nonce, issued, notBefore, expires, key, binding]
  Stores,       \* trust_store_sha256 -> key_id -> [revoked, validFrom, validUntil]
  Binding,      \* the policy binding the worker's expectation demands
  MaxLifetime,  \* MAX_INERT_FIXTURE_INTENT_LIFETIME_SECONDS
  ClaimIds,     \* caller-supplied claim identifiers
  Nonces,       \* worker-generated claim nonces
  MaxTime,      \* bound on the wall clock
  Zero,         \* the all-zero placeholder identifier
  None          \* no value

Time == 0..MaxTime

StoreIds == DOMAIN Stores

\* A row of inert_fixture_intent_reservations.
Reservation == [intent : Intents, store : StoreIds, at : Time]

\* A row of inert_fixture_intent_claims; it also stands for its receipt.
Claim == [intent : Intents, store : StoreIds, claimId : ClaimIds, nonce : Nonces, at : Time]

ASSUME IntentAssumption ==
  /\ MaxTime \in Nat
  /\ Zero \notin ClaimIds /\ Zero \notin Nonces
  /\ \A i \in Intents :
       Payload[i].issued \in Nat /\ Payload[i].notBefore \in Nat /\ Payload[i].expires \in Nat

VARIABLES
  clock,         \* the host's wall clock
  ledger,        \* the database file: absent, empty, or ready (tables created)
  highWater,     \* inert_fixture_intent_state.clock_high_water_unix
  reservations,  \* rows of inert_fixture_intent_reservations
  claims,        \* rows of inert_fixture_intent_claims
  store,         \* the trust store a new call is given
  worker,        \* each caller's control state and locals
  told,          \* history: receipts returned by a claim or a recovery
  tried,         \* history: intents submitted inside their window
  excused        \* history: the clock stepped back or a call died

tables == <<highWater, reservations, claims>>
history == <<told, tried, excused>>
intentVars == <<clock, ledger, tables, store, worker, history>>

Idle == [pc |-> "idle", intent |-> None, store |-> None, claimId |-> None, t |-> 0]

Pcs == {"idle", "create", "claim", "transact"}

Init ==
  /\ clock \in Time
  /\ ledger = "absent"
  /\ highWater = 0
  /\ reservations = {}
  /\ claims = {}
  /\ store \in StoreIds
  /\ worker = [w \in Workers |-> Idle]
  /\ told = {}
  /\ tried = {}
  /\ excused = FALSE

-----------------------------------------------------------------------------
(* Pure checks                                                             *)

InWindow(i, t) == Payload[i].notBefore <= t /\ t < Payload[i].expires

\* The validators of InertFixtureIntentPayload.
WellFormed(i) ==
  LET p == Payload[i] IN
  /\ p.nonce # Zero
  /\ p.issued <= p.notBefore
  /\ p.notBefore < p.expires
  /\ p.expires - p.issued <= MaxLifetime

\* One trusted, unrevoked key of store s whose validity interval contains the
\* intent's.
KeyAccepted(i, s) ==
  LET p == Payload[i] IN
  /\ p.key \in DOMAIN Stores[s]
  /\ ~Stores[s][p.key].revoked
  /\ Stores[s][p.key].validFrom <= p.issued
  /\ p.expires <= Stores[s][p.key].validUntil

\* _verify_inert_fixture_intent with enforce_validity=False.
Authentic(i, s) ==
  /\ WellFormed(i)
  /\ Payload[i].binding = Binding
  /\ KeyAccepted(i, s)

\* verify_inert_fixture_intent at time t.
Verified(i, s, t) == Authentic(i, s) /\ InWindow(i, t)

SameIdentity(i, j) == Payload[i].id = Payload[j].id \/ Payload[i].nonce = Payload[j].nonce

\* The integrity and foreign-key checks of _validate_schema over its snapshot:
\* the UNIQUE columns, and the composite FOREIGN KEY of a claim to its
\* reservation.
SnapshotIntact ==
  /\ \A r, q \in reservations : SameIdentity(r.intent, q.intent) => r = q
  /\ \A c, d \in claims :
       \/ SameIdentity(c.intent, d.intent)
       \/ c.claimId = d.claimId
       \/ c.nonce = d.nonce
       => c = d
  /\ \A c \in claims : [intent |-> c.intent, store |-> c.store, at |-> c.at] \in reservations

\* The part of _validate_schema that depends on the rows: an intact snapshot
\* whose high-water mark is not behind the newest row.
SchemaTrusted ==
  /\ SnapshotIntact
  /\ \A r \in reservations : r.at <= highWater

-----------------------------------------------------------------------------
(* Provisioning                                                            *)

Return(w) == worker' = [worker EXCEPT ![w] = Idle]

\* provision, _create_database_file: O_CREAT | O_EXCL.  On an existing path the
\* call raises and changes nothing.
CreateDatabaseFile(w) ==
  /\ worker[w].pc = "idle"
  /\ ledger = "absent"
  /\ ledger' = "empty"
  /\ worker' = [worker EXCEPT ![w].pc = "create"]
  /\ UNCHANGED <<clock, tables, store, history>>

\* provision, _initialize_or_validate(require_empty=True).
CreateTables(w) ==
  /\ worker[w].pc = "create"
  /\ IF ledger = "empty"
     THEN /\ ledger' = "ready"
          /\ highWater' = 0
          /\ reservations' = {}
          /\ claims' = {}
     ELSE UNCHANGED <<ledger, tables>>
  /\ Return(w)
  /\ UNCHANGED <<clock, store, history>>

-----------------------------------------------------------------------------
(* Claiming                                                                *)

\* admit_inert_fixture_intent: verify before the configured ledger is used.
\* An instance exists only once the ledger is provisioned.
AdmitIntent(w) ==
  /\ worker[w].pc = "idle"
  /\ ledger = "ready"
  /\ \E i \in Intents, c \in ClaimIds \cup {Zero} :
       /\ Verified(i, store, clock)
       /\ worker' = [worker EXCEPT ![w] =
            [pc |-> "claim", intent |-> i, store |-> store, claimId |-> c, t |-> 0]]
       /\ tried' = tried \cup {i}
  /\ UNCHANGED <<clock, ledger, tables, store, told, excused>>

\* claim_intent: read the clock and verify again, outside any transaction.
VerifyIntent(w) ==
  /\ worker[w].pc = "claim"
  /\ IF Verified(worker[w].intent, worker[w].store, clock)
     THEN worker' = [worker EXCEPT ![w].pc = "transact", ![w].t = clock]
     ELSE Return(w)
  /\ UNCHANGED <<clock, ledger, tables, store, history>>

\* The clock check of the transaction: neither behind the verification nor
\* behind the durable high-water mark.
ClockAccepted(w) == clock >= worker[w].t /\ clock >= highWater

\* The reservation this intent already has, if any.
Existing(i) == {r \in reservations : r.intent = i}

\* The existing reservation carries other inputs than the authenticated ones.
ReservationDiffers(w) ==
  \E r \in Existing(worker[w].intent) :
    r.store # worker[w].store \/ ~InWindow(r.intent, r.at)

\* The signed id or nonce was consumed by another intent.
SignedIdentityTaken(i) == \E r \in reservations : SameIdentity(r.intent, i)

\* Mutant: only the intent's own reservation counts, not its signed identity.
ReservableSameIdentity(w) ==
  InWindow(worker[w].intent, clock) /\ Existing(worker[w].intent) = {}

\* The transaction goes on to reserve the intent.
Reservable(w) ==
  /\ InWindow(worker[w].intent, clock)
  /\ Existing(worker[w].intent) = {}
  /\ ~SignedIdentityTaken(worker[w].intent)

\* A ROLLBACK: untrusted schema, clock behind, or a differing reservation.
ClaimRolledBack(w) ==
  /\ worker[w].pc = "transact"
  /\ \/ ~SchemaTrusted
     \/ ~ClockAccepted(w)
     \/ InWindow(worker[w].intent, clock) /\ ReservationDiffers(w)
  /\ Return(w)
  /\ UNCHANGED <<clock, ledger, tables, store, history>>

\* COMMIT of the advanced clock alone: out of window, or already consumed.
ClaimRefused(w) ==
  /\ worker[w].pc = "transact"
  /\ SchemaTrusted
  /\ ClockAccepted(w)
  /\ ~Reservable(w)
  /\ InWindow(worker[w].intent, clock) => ~ReservationDiffers(w)
  /\ highWater' = clock
  /\ Return(w)
  /\ UNCHANGED <<clock, ledger, reservations, claims, store, history>>

\* The validators of InertFixtureIntentClaimReceipt.
ReceiptValid(c) ==
  /\ c.claimId # Zero /\ c.nonce # Zero
  /\ WellFormed(c.intent)
  /\ InWindow(c.intent, c.at)

\* The claim row can be written: a valid receipt whose caller-supplied id and
\* nonce were not claimed before.
Recordable(c) ==
  /\ ReceiptValid(c)
  /\ \A d \in claims : d.claimId # c.claimId /\ d.nonce # c.nonce

NewReservation(w) ==
  [intent |-> worker[w].intent, store |-> worker[w].store, at |-> clock]

\* Mutant: the claim is dated when the intent was verified.
NewClaimAtVerification(w, n) ==
  [intent |-> worker[w].intent, store |-> worker[w].store,
   claimId |-> worker[w].claimId, nonce |-> n, at |-> worker[w].t]

NewClaim(w, n) ==
  [intent |-> worker[w].intent, store |-> worker[w].store,
   claimId |-> worker[w].claimId, nonce |-> n, at |-> clock]

\* Everything that lets the transaction write a reservation.
Reserve(w) ==
  /\ worker[w].pc = "transact"
  /\ SchemaTrusted
  /\ ClockAccepted(w)
  /\ Reservable(w)
  /\ highWater' = clock
  /\ reservations' = reservations \cup {NewReservation(w)}
  /\ Return(w)
  /\ UNCHANGED <<clock, ledger, store, tried>>

\* Mutant: an unusable claim identity rolls the reservation back.
ClaimTombstonedForgets(w) ==
  /\ worker[w].pc = "transact"
  /\ ClockAccepted(w)
  /\ Reservable(w)
  /\ \E n \in Nonces \cup {Zero} : ~Recordable(NewClaim(w, n))
  /\ Return(w)
  /\ UNCHANGED <<clock, ledger, tables, store, history>>

\* Mutant: the receipt that could not be recorded is returned all the same.
ClaimTombstonedTells(w) ==
  /\ Reserve(w)
  /\ \E n \in Nonces \cup {Zero} :
       ~Recordable(NewClaim(w, n)) /\ told' = told \cup {NewClaim(w, n)}
  /\ UNCHANGED <<claims, excused>>

\* COMMIT of a reservation without a claim: no valid or unused receipt.
ClaimTombstoned(w) ==
  /\ Reserve(w)
  /\ \E n \in Nonces \cup {Zero} : ~Recordable(NewClaim(w, n))
  /\ UNCHANGED <<claims, told, excused>>

\* COMMIT of reservation and claim.  The caller gets the receipt, or dies
\* between the commit and the return (replied = FALSE).
ClaimCommitted(w, replied) ==
  /\ Reserve(w)
  /\ \E n \in Nonces :
       /\ Recordable(NewClaim(w, n))
       /\ claims' = claims \cup {NewClaim(w, n)}
       /\ told' = IF replied THEN told \cup {NewClaim(w, n)} ELSE told
  /\ excused' = (excused \/ ~replied)

ClaimIntent(w) ==
  \/ ClaimRolledBack(w)
  \/ ClaimRefused(w)
  \/ ClaimTombstoned(w)
  \/ ClaimCommitted(w, TRUE)

-----------------------------------------------------------------------------
(* Recovery                                                                *)

\* verify_committed_receipt: a valid receipt that is the row of its intent id.
VerifyCommitted(c) ==
  /\ ReceiptValid(c)
  /\ SchemaTrusted
  /\ {d \in claims : Payload[d.intent].id = Payload[c.intent].id} = {c}

\* The receipt repeats the authenticated intent, every field of its payload
\* (_receipt_mirrors_authenticated_payload) and the trust store.
Mirrors(c, i, s) == c.intent = i /\ c.store = s

\* recover_committed_receipt: the reservation must match the authenticated
\* inputs, and the claim joined to it is returned if it exists, mirrors them
\* and is verified once more.
Recoverable(i, s) ==
  {c \in claims :
     /\ \E r \in Existing(i) : r.store = s /\ InWindow(i, r.at)
     /\ Mirrors(c, i, s)
     /\ VerifyCommitted(c)}

\* A call of recover_committed_receipt that returns a receipt.  Authentication
\* ignores the window; a call that finds nothing raises and changes nothing.
Recover(w) ==
  /\ worker[w].pc = "idle"
  /\ ledger = "ready"
  /\ SchemaTrusted
  /\ \E i \in Intents :
       /\ Authentic(i, store)
       /\ \E c \in Recoverable(i, store) : told' = told \cup {c}
  /\ UNCHANGED <<clock, ledger, tables, store, worker, tried, excused>>

-----------------------------------------------------------------------------
(* The environment                                                         *)

\* The call dies before its commit point: an open transaction rolls back.
Abort(w) ==
  /\ worker[w].pc # "idle"
  /\ Return(w)
  /\ excused' = TRUE
  /\ UNCHANGED <<clock, ledger, tables, store, told, tried>>

\* The operator installs another trust store.
Rotate ==
  /\ store' \in StoreIds \ {store}
  /\ UNCHANGED <<clock, ledger, tables, worker, history>>

\* The host clock moves, forwards or backwards.
Tick ==
  /\ clock' \in Time \ {clock}
  /\ excused' = (excused \/ clock' < clock)
  /\ UNCHANGED <<ledger, tables, store, worker, told, tried>>

IntentStep(w) ==
  \/ CreateTables(w)
  \/ VerifyIntent(w)
  \/ ClaimIntent(w)

IntentNext ==
  \/ \E w \in Workers :
       \/ CreateDatabaseFile(w)
       \/ AdmitIntent(w)
       \/ IntentStep(w)
       \/ ClaimCommitted(w, FALSE)
       \/ Recover(w)
       \/ Abort(w)
  \/ Rotate
  \/ Tick

IntentSpec == Init /\ [][IntentNext]_intentVars

-----------------------------------------------------------------------------
(* Properties                                                              *)

\* Every variable has its type.
IntentTypeOK ==
  /\ clock \in Time
  /\ ledger \in {"absent", "empty", "ready"}
  /\ highWater \in Time
  /\ reservations \subseteq Reservation
  /\ claims \subseteq Claim
  /\ store \in StoreIds
  /\ worker \in [Workers -> [pc : Pcs, intent : Intents \cup {None},
                             store : StoreIds \cup {None},
                             claimId : ClaimIds \cup {Zero, None}, t : Time]]
  /\ told \subseteq Claim
  /\ tried \subseteq Intents
  /\ excused \in BOOLEAN

\* No sequence of legal calls leads to rows that _validate_schema refuses: a
\* ledger never locks itself out, and the INSERT of the claim row never raises
\* sqlite3.IntegrityError.
NeverLockedOut == SchemaTrusted

\* A receipt that was committed stays recoverable, exactly, under the inputs
\* it was claimed with, whatever was claimed, tombstoned or rotated since, and
\* every receipt a caller ever held is such a receipt.
RecoveryExact ==
  /\ \A c \in claims : Recoverable(c.intent, c.store) = {c}
  /\ \A c \in told : c \in claims

\* An intent submitted in its window ends up consumed once every call for it
\* has returned, unless the clock stepped back, a call died, the window closed
\* or its identity was taken: under a monotone clock concurrent claims of
\* other intents never make the ledger refuse it.
SubmittedIsConsumed ==
  \A i \in tried :
    (/\ ~excused
     /\ clock < Payload[i].expires
     /\ \A w \in Workers : worker[w].intent # i)
    => SignedIdentityTaken(i)

\* Reservations and claims are never forgotten, the durable clock never goes
\* back, and the tables are created at most once, by the caller that created
\* the file.
IntentLedgerOnlyGrows ==
  [][ /\ reservations \subseteq reservations'
      /\ claims \subseteq claims'
      /\ highWater' >= highWater
      /\ ledger = "ready" => ledger' = "ready" ]_intentVars

IntentIds == {Payload[i].id : i \in Intents}

IntentIdOf(r) == Payload[r.intent].id

ClaimTime(c) == c.at

Abstract ==
  INSTANCE OneShot WITH
    Keys <- IntentIds, Receipts <- Claim, KeyOf <- IntentIdOf, At <- ClaimTime,
    taken <- {IntentIdOf(r) : r \in reservations}, receipts <- claims,
    told <- told, horizon <- highWater

\* The ledger implements the one-shot register keyed by intent id: a
\* reservation burns the id, and a tombstoned id never yields a receipt.
IntentImplementsOneShot == Abstract!Spec
=============================================================================
