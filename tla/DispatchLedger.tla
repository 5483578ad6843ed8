--------------------------- MODULE DispatchLedger ---------------------------
(***************************************************************************)
(* The one-shot dispatch claim ledger of bpe.dispatch.                     *)
(*                                                                         *)
(* Workers run admit_dispatch concurrently against one SQLite database.    *)
(* Every write transaction opens with BEGIN IMMEDIATE, so a transaction is *)
(* one atomic step here; the reads of the wall clock and the verification  *)
(* that happen between transactions are steps of their own.  The wall      *)
(* clock is not monotonic: it may step backwards at any time.              *)
(***************************************************************************)
EXTENDS Naturals, FiniteSets

CONSTANTS
  Workers,      \* callers of admit_dispatch
  Envelopes,    \* signed authorizations, named by authorization_sha256
  Payload,      \* Envelope -> the fields its signer fixed
  Keys,         \* key_id -> [revoked, validFrom, validUntil] of the trust store
  Binding,      \* the binding digest the worker's expectation demands
  ClaimIds,     \* caller-supplied claim identifiers
  Nonces,       \* worker-generated claim nonces
  MaxTime,      \* bound on the wall clock
  MaxLifetime,  \* MAX_AUTHORIZATION_LIFETIME_SECONDS
  MaxRetry,     \* largest retry_index the payload schema admits
  Zero,         \* the all-zero placeholder identifier
  None,         \* SQL NULL
  Unissued      \* quote of an envelope nobody has signed yet

Time == 0..MaxTime

\* A row of dispatch_claims.  The columns that copy the envelope are read
\* through Payload and quote; the record itself stands for receipt_sha256, the
\* digest of exactly these values.
Row == [env : Envelopes, claimId : ClaimIds, nonce : Nonces, at : Time]

\* Payload[e] holds the payload fields except retry_of_claim_sha256, which
\* quotes a receipt that exists only once the parent is claimed.
ASSUME PayloadAssumption ==
  /\ MaxTime \in Nat
  /\ Zero \notin ClaimIds /\ Zero \notin Nonces
  /\ None \notin Row /\ Unissued \notin Row /\ None # Unissued
  /\ \A e \in Envelopes :
       /\ Payload[e].issued \in Nat
       /\ Payload[e].notBefore \in Nat
       /\ Payload[e].expires \in Nat
       /\ Payload[e].retry \in Nat

VARIABLES
  clock,      \* the host's wall clock, in whole seconds
  ledger,     \* the database file: absent, empty, or ready (tables created)
  highWater,  \* dispatch_state.clock_high_water_unix
  claims,     \* the rows of dispatch_claims
  quote,      \* Envelope -> its retry_of_claim_sha256
  worker,     \* each caller's control state and locals
  granted,    \* history: receipts returned to a caller
  tried,      \* history: who submitted which envelope inside its window
  excused     \* history: the clock stepped back, a call died or failed on
              \* I/O, or a claim identity was unusable

store == <<ledger, highWater, claims>>
history == <<granted, tried, excused>>
vars == <<clock, store, quote, worker, history>>

Idle == [pc |-> "idle", env |-> None, claimId |-> None, t |-> 0]

Pcs == {"idle", "open", "initialize", "admit", "sample", "advance", "verify", "claim"}

Init ==
  /\ clock \in Time
  /\ ledger = "absent"
  /\ highWater = 0
  /\ claims = {}
  /\ quote = [e \in Envelopes |-> Unissued]
  /\ worker = [w \in Workers |-> Idle]
  /\ granted = {}
  /\ tried = {}
  /\ excused = FALSE

-----------------------------------------------------------------------------
(* Verification: pure checks on one envelope                               *)

\* The validators of DispatchAuthorizationPayload.
WellFormed(e) ==
  LET p == Payload[e] IN
  /\ p.issued <= p.notBefore
  /\ p.notBefore < p.expires
  /\ p.expires - p.issued <= MaxLifetime
  /\ p.nonce # Zero
  /\ p.retry <= MaxRetry
  /\ (p.retry = 0) <=> (p.parent = None)
  /\ (p.retry = 0) <=> (quote[e] = None)
  /\ p.parent # p.id

InWindow(e, t) == Payload[e].notBefore <= t /\ t < Payload[e].expires

\* Exactly one trusted key has the envelope's key id, it is not revoked, and
\* its validity interval contains the authorization's.
KeyAccepted(e) ==
  LET p == Payload[e] IN
  /\ p.key \in DOMAIN Keys
  /\ ~Keys[p.key].revoked
  /\ Keys[p.key].validFrom <= p.issued
  /\ p.expires <= Keys[p.key].validUntil

\* _verify_dispatch_authorization with enforce_validity=False.  A signature is
\* genuine exactly when the control plane signed the envelope.
Authentic(e) ==
  /\ quote[e] # Unissued
  /\ WellFormed(e)
  /\ Payload[e].binding = Binding
  /\ KeyAccepted(e)

\* verify_dispatch_authorization: authentic and inside the window at time t.
Verified(e, t) == Authentic(e) /\ InWindow(e, t)

-----------------------------------------------------------------------------
(* The rows                                                                *)

Id(r) == Payload[r.env].id

\* Two envelopes agree on a column that at most one claim may carry.
EnvelopesCollide(e, f) ==
  \/ e = f
  \/ Payload[e].id = Payload[f].id
  \/ Payload[e].nonce = Payload[f].nonce
  \/ Payload[e].parent # None /\ Payload[e].parent = Payload[f].parent
  \/ quote[e] # None /\ quote[e] = quote[f]

\* The part of _validate_schema that depends on the rows: the UNIQUE columns,
\* and the FOREIGN KEY of a retry to its parent's id and receipt digest.
SchemaTrusted ==
  /\ \A r, q \in claims :
       \/ EnvelopesCollide(r.env, q.env)
       \/ r.claimId = q.claimId
       \/ r.nonce = q.nonce
       => r = q
  /\ \A r \in claims :
       Payload[r.env].parent # None =>
         quote[r.env] \in claims /\ Id(quote[r.env]) = Payload[r.env].parent

\* DispatchAdmissionReceipt refuses a placeholder identity and a lineage that
\* does not fit the retry index.
ReceiptValid(r) ==
  /\ r.claimId # Zero /\ r.nonce # Zero
  /\ Payload[r.env].nonce # Zero
  /\ (Payload[r.env].retry = 0) <=> (Payload[r.env].parent = None)
  /\ (Payload[r.env].retry = 0) <=> (quote[r.env] = None)

\* verify_committed_receipt: a valid receipt that is the row of its
\* authorization id.
VerifyCommitted(r) ==
  /\ ReceiptValid(r)
  /\ SchemaTrusted
  /\ {q \in claims : Id(q) = Id(r)} = {r}

-----------------------------------------------------------------------------
(* The caller                                                              *)

Return(w) == worker' = [worker EXCEPT ![w] = Idle]

GoTo(w, pc) == worker' = [worker EXCEPT ![w].pc = pc]

\* admit_dispatch reads the clock and authenticates without the validity
\* window.  A failure raises before the ledger is opened.
AdmitDispatch(w) ==
  /\ worker[w].pc = "idle"
  /\ \E e \in Envelopes, c \in ClaimIds \cup {Zero} :
       /\ Authentic(e)
       /\ worker' = [worker EXCEPT
            ![w] = [pc |-> "open", env |-> e, claimId |-> c, t |-> clock]]
       /\ tried' = IF InWindow(e, clock) THEN tried \cup {<<w, e>>} ELSE tried
  /\ UNCHANGED <<clock, store, quote, granted, excused>>

\* _prepare_database_path: O_CREAT | O_EXCL; an existing file is kept.
PrepareDatabasePath(w) ==
  /\ worker[w].pc = "open"
  /\ ledger' = IF ledger = "absent" THEN "empty" ELSE ledger
  /\ GoTo(w, "initialize")
  /\ UNCHANGED <<clock, highWater, claims, quote, history>>

\* DispatchClaimLedger.__init__: one immediate transaction creates the tables
\* and the singleton row if the schema has no object yet, and validates what it
\* finds otherwise; an untrusted schema fails the call (Abort).
Initialize(w) ==
  /\ worker[w].pc = "initialize"
  /\ ledger = "ready" => SchemaTrusted
  /\ ledger' = "ready"
  /\ highWater' = IF ledger = "empty" THEN 0 ELSE highWater
  /\ claims' = IF ledger = "empty" THEN {} ELSE claims
  /\ GoTo(w, "admit")
  /\ UNCHANGED <<clock, quote, history>>

\* Mutant: an observation equal to the high-water mark is refused.
AdvanceClockStrict(w, pc, next) ==
  /\ worker[w].pc = pc
  /\ IF worker[w].t <= highWater
     THEN Return(w) /\ UNCHANGED highWater
     ELSE GoTo(w, next) /\ highWater' = worker[w].t
  /\ UNCHANGED <<clock, ledger, claims, quote, history>>

\* Mutant: the high-water mark follows the clock back.
AdvanceClockUnguarded(w, pc, next) ==
  /\ worker[w].pc = pc
  /\ GoTo(w, next)
  /\ highWater' = worker[w].t
  /\ UNCHANGED <<clock, ledger, claims, quote, history>>

\* _advance_clock: an immediate transaction on the singleton row.  An
\* observation behind the high-water mark rolls back and raises.
AdvanceClock(w, pc, next) ==
  /\ worker[w].pc = pc
  /\ IF worker[w].t < highWater
     THEN Return(w) /\ UNCHANGED highWater
     ELSE GoTo(w, next) /\ highWater' = worker[w].t
  /\ UNCHANGED <<clock, ledger, claims, quote, history>>

\* claim_authorization: verification_time = _current_unix_time().
SampleClock(w) ==
  /\ worker[w].pc = "sample"
  /\ worker' = [worker EXCEPT ![w].pc = "advance", ![w].t = clock]
  /\ UNCHANGED <<clock, store, quote, history>>

\* claim_authorization: verify_dispatch_authorization at the sampled time.
VerifyAtSample(w) ==
  /\ worker[w].pc = "verify"
  /\ IF Verified(worker[w].env, worker[w].t) THEN GoTo(w, "claim") ELSE Return(w)
  /\ UNCHANGED <<clock, store, quote, history>>

-----------------------------------------------------------------------------
(* The claim transaction                                                   *)

\* The conflict SELECT: row r against the committed rows.
Conflict(r) ==
  \E q \in claims :
    \/ EnvelopesCollide(r.env, q.env)
    \/ r.claimId = q.claimId
    \/ r.nonce = q.nonce

\* Mutant: a retry may be issued before its parent is claimed.
ParentAcceptedEarly(e) ==
  Payload[e].parent # None =>
    \E q \in claims :
      /\ Id(q) = Payload[e].parent
      /\ Payload[q.env].retry + 1 = Payload[e].retry
      /\ Payload[q.env].binding = Payload[e].binding
      /\ quote[e] = q

\* The retry-parent SELECT and the checks on the row it returns.
ParentAccepted(e) ==
  Payload[e].parent # None =>
    \E q \in claims :
      /\ Id(q) = Payload[e].parent
      /\ Payload[q.env].retry + 1 = Payload[e].retry
      /\ Payload[q.env].binding = Payload[e].binding
      /\ q.at <= Payload[e].issued
      /\ quote[e] = q

NewRow(w, n) ==
  [env |-> worker[w].env, claimId |-> worker[w].claimId, nonce |-> n, at |-> clock]

\* Everything the transaction requires before it inserts the row.
Insertable(w, n) ==
  /\ InWindow(worker[w].env, clock)
  /\ ReceiptValid(NewRow(w, n))
  /\ ~Conflict(NewRow(w, n))
  /\ ParentAccepted(worker[w].env)

\* The claim identity itself, not the envelope, is what cannot be used.
BadIdentity(w, n) ==
  \/ ~ReceiptValid(NewRow(w, n))
  \/ \E q \in claims : q.claimId = worker[w].claimId \/ q.nonce = n

\* BEGIN IMMEDIATE ... ROLLBACK: the clock read under the lock is behind the
\* durable high-water mark.  Nothing changes and the call raises.
ClaimClockBehind(w) ==
  /\ worker[w].pc = "claim"
  /\ clock < highWater
  /\ Return(w)
  /\ UNCHANGED <<clock, store, quote, history>>

\* The transaction commits the advanced clock but no claim: out of window,
\* placeholder identity, conflict, or unacceptable retry parent.
ClaimRejected(w) ==
  /\ worker[w].pc = "claim"
  /\ clock >= highWater
  /\ \E n \in Nonces \cup {Zero} :
       /\ ~Insertable(w, n)
       /\ excused' = (excused \/ BadIdentity(w, n))
  /\ highWater' = clock
  /\ Return(w)
  /\ UNCHANGED <<clock, ledger, claims, quote, granted, tried>>

\* The transaction inserts the row and commits.  The caller receives the
\* receipt, or dies between COMMIT and return (replied = FALSE).
ClaimCommitted(w, replied) ==
  /\ worker[w].pc = "claim"
  /\ clock >= highWater
  /\ \E n \in Nonces :
       /\ Insertable(w, n)
       /\ claims' = claims \cup {NewRow(w, n)}
       /\ granted' = IF replied
                     THEN granted \cup {[worker |-> w, receipt |-> NewRow(w, n)]}
                     ELSE granted
  /\ highWater' = clock
  /\ excused' = (excused \/ ~replied)
  /\ Return(w)
  /\ UNCHANGED <<clock, ledger, quote, tried>>

\* The transaction of claim_authorization.
ClaimAuthorization(w) ==
  \/ ClaimClockBehind(w)
  \/ ClaimRejected(w)
  \/ ClaimCommitted(w, TRUE)

\* The call dies, or SQLite fails before the commit point: an open transaction
\* rolls back.  ClaimCommitted(w, FALSE) is the other side of that point.
Abort(w) ==
  /\ worker[w].pc # "idle"
  /\ Return(w)
  /\ excused' = TRUE
  /\ UNCHANGED <<clock, store, quote, granted, tried>>

-----------------------------------------------------------------------------
(* The environment                                                         *)

\* The control plane signs envelope e.  A retry quotes the digest of some
\* committed receipt; whether it is the right one is the ledger's business.
Issue(e) ==
  /\ quote[e] = Unissued
  /\ \E q \in claims \cup {None} : quote' = [quote EXCEPT ![e] = q]
  /\ UNCHANGED <<clock, store, worker, history>>

\* The host clock moves, forwards or backwards.
Tick ==
  /\ clock' \in Time \ {clock}
  /\ excused' = (excused \/ clock' < clock)
  /\ UNCHANGED <<store, quote, worker, granted, tried>>

Step(w) ==
  \/ PrepareDatabasePath(w)
  \/ Initialize(w)
  \/ AdvanceClock(w, "admit", "sample")
  \/ SampleClock(w)
  \/ AdvanceClock(w, "advance", "verify")
  \/ VerifyAtSample(w)
  \/ ClaimAuthorization(w)

Next ==
  \/ \E w \in Workers :
       \/ AdmitDispatch(w)
       \/ Step(w)
       \/ ClaimCommitted(w, FALSE)
       \/ Abort(w)
  \/ \E e \in Envelopes : Issue(e)
  \/ Tick

Spec == Init /\ [][Next]_vars

-----------------------------------------------------------------------------
(* Properties                                                              *)

\* Every variable has its type.
TypeOK ==
  /\ clock \in Time
  /\ ledger \in {"absent", "empty", "ready"}
  /\ highWater \in Time
  /\ claims \subseteq Row
  /\ quote \in [Envelopes -> Row \cup {None, Unissued}]
  /\ worker \in [Workers -> [pc : Pcs, env : Envelopes \cup {None},
                             claimId : ClaimIds \cup {Zero, None}, t : Time]]
  /\ granted \subseteq [worker : Workers, receipt : Row]
  /\ tried \subseteq Workers \X Envelopes
  /\ excused \in BOOLEAN

\* The rows the conflict query and the parent checks let through always meet
\* the UNIQUE columns and the FOREIGN KEY of the schema, so that the INSERT
\* never raises sqlite3.IntegrityError whatever calls raced before it.
SchemaHolds == SchemaTrusted

\* Concurrent, repeated and retried calls never hand out two receipts for one
\* authorization id or one dispatch nonce, and verify_committed_receipt accepts
\* a receipt that was handed out ever after.
OneReceiptPerAuthorization ==
  \A g \in granted :
    /\ VerifyCommitted(g.receipt)
    /\ \A h \in granted :
         \/ Id(g.receipt) = Id(h.receipt)
         \/ Payload[g.receipt.env].nonce = Payload[h.receipt.env].nonce
         => g = h

\* No claim is made outside its authorization's window or ahead of the durable
\* clock, although the clock was first read before the lock was taken.
ClaimedInWindow ==
  \A r \in claims : InWindow(r.env, r.at) /\ r.at <= highWater

\* A retry was issued no earlier than its parent was claimed, keeps the
\* parent's binding and comes one index later: claims of a lineage are
\* ordered in time although the wall clock is not.
RetryLineage ==
  \A r \in claims : Payload[r.env].retry > 0 =>
    \E q \in claims :
      /\ quote[r.env] = q
      /\ Payload[q.env].retry + 1 = Payload[r.env].retry
      /\ Payload[q.env].binding = Payload[r.env].binding
      /\ q.at <= Payload[r.env].issued
      /\ q.at <= r.at

\* A step never forgets a claim or lowers the durable clock, and a new claim
\* is never dated before one already committed: reopening, concurrent
\* initialisation and a clock that steps back all preserve commit order.
LedgerOnlyGrows ==
  [][ /\ claims \subseteq claims'
      /\ highWater' >= highWater
      /\ \A r \in claims' \ claims, q \in claims : q.at <= r.at ]_vars

\* Every call for envelope e has returned without a claim, although the clock
\* never stepped back, no call crashed, every claim identity was usable, no
\* colliding envelope was claimed and e's own retry parent is acceptable.
NoWinner(e) ==
  /\ ~excused
  /\ clock < Payload[e].expires
  /\ \A w \in Workers : worker[w].env # e
  /\ \A r \in claims : ~EnvelopesCollide(e, r.env)
  /\ ParentAccepted(e)

\* An authorization that is the only one in play and was submitted inside its
\* window gets claimed by some caller: _advance_clock and the checks under the
\* lock cannot make all its callers reject each other.
SomeWinner ==
  \A w \in Workers, e \in Envelopes :
    <<w, e>> \in tried /\ (\A f \in Envelopes \ {e} : quote[f] = Unissued) => ~NoWinner(e)

\* docs/dispatch-admission.md: "Concurrent attempts to consume the same
\* authorization therefore have exactly one winner".
ExactlyOneWinner ==
  \A v, w \in Workers, e \in Envelopes :
    v # w /\ {<<v, e>>, <<w, e>>} \subseteq tried => ~NoWinner(e)

AuthorizationIds == {Payload[e].id : e \in Envelopes}

RowTime(r) == r.at

Abstract ==
  INSTANCE OneShot WITH
    Keys <- AuthorizationIds, Receipts <- Row, KeyOf <- Id, At <- RowTime,
    taken <- {Id(r) : r \in claims}, receipts <- claims,
    told <- {g.receipt : g \in granted}, horizon <- highWater

\* The ledger implements the one-shot register keyed by authorization id.
ImplementsOneShot == Abstract!Spec
=============================================================================
