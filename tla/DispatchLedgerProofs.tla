------------------------ MODULE DispatchLedgerProofs ------------------------
(***************************************************************************)
(* Proofs about DispatchLedger for every set of workers, envelopes, claim  *)
(* identifiers and nonces and every bound on the clock.                    *)
(***************************************************************************)
EXTENDS DispatchLedger, TLAPS

\* The tables exist before any transaction uses them, and hold nothing before.
OpenedInOrder ==
  /\ ledger # "ready" => claims = {} /\ highWater = 0 /\ granted = {}
  /\ \A w \in Workers :
       /\ worker[w].pc = "initialize" => ledger # "absent"
       /\ worker[w].pc \notin {"idle", "open", "initialize"} => ledger = "ready"

\* A running call carries an authentic envelope; authenticity is stable
\* because an issued envelope is never signed again.
CallsAuthentic ==
  \A w \in Workers : worker[w].pc # "idle" =>
    /\ worker[w].env \in Envelopes
    /\ worker[w].claimId \in ClaimIds \cup {Zero}
    /\ Authentic(worker[w].env)

\* What the conflict query and the parent checks established for each row.
ClaimsAuthentic ==
  \A r \in claims : Authentic(r.env) /\ ParentAccepted(r.env)

\* A receipt is handed out once, when its row is committed.
ReceiptsCommitted ==
  \A g \in granted :
    /\ g.receipt \in claims
    /\ \A h \in granted : g.receipt = h.receipt => g = h

\* The inductive invariant.
Inv ==
  /\ TypeOK
  /\ OpenedInOrder
  /\ CallsAuthentic
  /\ ClaimsAuthentic
  /\ SchemaHolds
  /\ ClaimedInWindow
  /\ ReceiptsCommitted

\* Initially no table, no call and no claim exists.
LEMMA InitInv == Init => Inv
  <1> SUFFICES ASSUME Init PROVE Inv
    OBVIOUS
  <1>1. TypeOK
    <2>1. 0 \in Time
      BY PayloadAssumption DEF Time
    <2>2. worker \in [Workers -> [pc : Pcs, env : Envelopes \cup {None},
                                  claimId : ClaimIds \cup {Zero, None}, t : Time]]
      BY <2>1 DEF Init, Idle, Pcs
    <2> QED BY <2>1, <2>2 DEF Init, TypeOK
  <1>2. OpenedInOrder /\ CallsAuthentic
    BY DEF Init, Idle, OpenedInOrder, CallsAuthentic
  <1>3. ClaimsAuthentic /\ SchemaHolds /\ ClaimedInWindow /\ ReceiptsCommitted
    BY DEF Init, ClaimsAuthentic, SchemaHolds, SchemaTrusted, ClaimedInWindow, ReceiptsCommitted
  <1> QED BY <1>1, <1>2, <1>3 DEF Inv

\* A step that leaves the tables alone (apart from the high-water mark, which
\* it may raise) preserves what the invariant says of claims and receipts.
LEMMA TablesKept ==
  ASSUME Inv, UNCHANGED <<claims, quote, granted>>, highWater' \in Time, highWater' >= highWater
  PROVE  ClaimsAuthentic' /\ SchemaHolds' /\ ClaimedInWindow' /\ ReceiptsCommitted'
  <1>1. ClaimsAuthentic'
    BY DEF Inv, ClaimsAuthentic, Authentic, WellFormed, KeyAccepted, ParentAccepted, Id
  <1>2. SchemaHolds'
    BY DEF Inv, SchemaHolds, SchemaTrusted, EnvelopesCollide, Id
  <1>3. ClaimedInWindow'
    BY DEF Inv, ClaimedInWindow, InWindow, TypeOK, Row, Time
  <1>4. ReceiptsCommitted'
    BY DEF Inv, ReceiptsCommitted
  <1> QED BY <1>1, <1>2, <1>3, <1>4

\* A worker that returns, or moves on with the same call, keeps CallsAuthentic.
LEMMA CallsKept ==
  ASSUME Inv, NEW w \in Workers, NEW pc, quote' = quote,
         worker[w].pc # "idle",
         \/ Return(w)
         \/ GoTo(w, pc)
         \/ worker' = [worker EXCEPT ![w].pc = "advance", ![w].t = clock]
  PROVE  CallsAuthentic'
  <1>1. ASSUME NEW v \in Workers, worker'[v].pc # "idle"
        PROVE  /\ worker'[v].env = worker[v].env
               /\ worker'[v].claimId = worker[v].claimId
               /\ worker[v].pc # "idle"
    BY <1>1 DEF Inv, Return, GoTo, TypeOK, Idle
  <1>2. ASSUME NEW v \in Workers, worker'[v].pc # "idle"
        PROVE  Authentic(worker[v].env)'
    <2> DEFINE e == worker'[v].env
    <2>1. Authentic(e)
      BY <1>1, <1>2 DEF Inv, CallsAuthentic
    <2> QED BY <2>1 DEF Authentic, WellFormed, KeyAccepted
  <1> QED BY <1>1, <1>2 DEF Inv, CallsAuthentic

\* Inserting an insertable row keeps every claim authentic and unique, in its
\* window and dated no earlier than the claims before it.
LEMMA InsertKeeps ==
  ASSUME Inv, NEW w \in Workers, NEW n \in Nonces,
         worker[w].pc = "claim", clock >= highWater, Insertable(w, n),
         claims' = claims \cup {NewRow(w, n)}, highWater' = clock, quote' = quote
  PROVE  /\ NewRow(w, n) \in Row
         /\ ClaimsAuthentic' /\ SchemaHolds' /\ ClaimedInWindow'
  <1> DEFINE e == worker[w].env
             r == NewRow(w, n)
  <1>1. r \in Row /\ r.env = e /\ r.at = clock /\ e \in Envelopes
    BY DEF Inv, CallsAuthentic, Insertable, ReceiptValid, NewRow, TypeOK, Row
  <1>2. \A q \in claims : q \in Row
    BY DEF Inv, TypeOK
  <1>3. ClaimsAuthentic'
    <2>1. Authentic(e) /\ ParentAccepted(e)
      BY DEF Inv, CallsAuthentic, Insertable
    <2>2. \A q \in claims' : Authentic(q.env) /\ ParentAccepted(q.env)
      BY <1>1, <2>1 DEF Inv, ClaimsAuthentic
    <2>3. \A q \in claims' : Authentic(q.env)' /\ ParentAccepted(q.env)'
      BY <2>2 DEF Authentic, WellFormed, KeyAccepted, ParentAccepted, Id
    <2> QED BY <2>3 DEF ClaimsAuthentic
  <1>4. SchemaHolds'
    <2>1. \A q \in claims : ~EnvelopesCollide(e, q.env) /\ ~EnvelopesCollide(q.env, e)
      BY <1>1 DEF Insertable, Conflict, EnvelopesCollide
    <2>2. \A q \in claims : r.claimId # q.claimId /\ r.nonce # q.nonce
      BY DEF Insertable, Conflict
    <2>3. \A p, q \in claims' :
            \/ EnvelopesCollide(p.env, q.env)
            \/ p.claimId = q.claimId
            \/ p.nonce = q.nonce
            => p = q
      BY <1>1, <2>1, <2>2 DEF Inv, SchemaHolds, SchemaTrusted
    <2>4. \A q \in claims' :
            Payload[q.env].parent # None =>
              quote[q.env] \in claims' /\ Id(quote[q.env]) = Payload[q.env].parent
      BY <1>1 DEF Inv, SchemaHolds, SchemaTrusted, Insertable, ParentAccepted
    <2> QED BY <2>3, <2>4 DEF SchemaHolds, SchemaTrusted, EnvelopesCollide, Id
  <1>5. ClaimedInWindow'
    <2>1. InWindow(e, clock)
      BY DEF Insertable
    <2> QED BY <1>1, <1>2, <2>1, PayloadAssumption
            DEF Inv, ClaimedInWindow, InWindow, TypeOK, Row, Time
  <1> QED BY <1>1, <1>3, <1>4, <1>5

\* Every step of every caller and of the environment preserves the invariant.
LEMMA NextInv == Inv /\ [Next]_vars => Inv'
  <1> SUFFICES ASSUME Inv, [Next]_vars PROVE Inv'
    OBVIOUS
  <1> USE DEF store, history
  <1>1. ASSUME NEW w \in Workers, AdmitDispatch(w) PROVE Inv'
    <2> USE <1>1 DEF AdmitDispatch
    <2>1. TypeOK'
      BY DEF Inv, TypeOK, Pcs
    <2>2. OpenedInOrder'
      BY DEF Inv, OpenedInOrder, TypeOK
    <2>3. CallsAuthentic'
      <3>1. PICK e \in Envelopes, c \in ClaimIds \cup {Zero} :
              /\ Authentic(e)
              /\ worker' = [worker EXCEPT
                   ![w] = [pc |-> "open", env |-> e, claimId |-> c, t |-> clock]]
        OBVIOUS
      <3>2. ASSUME NEW v \in Workers, worker'[v].pc # "idle"
            PROVE  /\ worker'[v].env \in Envelopes
                   /\ worker'[v].claimId \in ClaimIds \cup {Zero}
                   /\ Authentic(worker'[v].env)
        BY <3>1, <3>2 DEF Inv, CallsAuthentic, TypeOK
      <3>3. ASSUME NEW v \in Workers, worker'[v].pc # "idle"
            PROVE  Authentic(worker[v].env)'
        BY <3>2, <3>3 DEF Authentic, WellFormed, KeyAccepted
      <3> QED BY <3>2, <3>3 DEF CallsAuthentic
    <2> QED BY <2>1, <2>2, <2>3, TablesKept DEF Inv, TypeOK, Time
  <1>2. ASSUME NEW w \in Workers, PrepareDatabasePath(w) PROVE Inv'
    <2> USE <1>2 DEF PrepareDatabasePath
    <2>1. TypeOK'
      BY DEF Inv, TypeOK, Pcs, GoTo
    <2>2. OpenedInOrder'
      BY DEF Inv, OpenedInOrder, TypeOK, GoTo
    <2>3. CallsAuthentic'
      BY CallsKept
    <2> QED BY <2>1, <2>2, <2>3, TablesKept DEF Inv, TypeOK, Time
  <1>3. ASSUME NEW w \in Workers, Initialize(w) PROVE Inv'
    <2> USE <1>3 DEF Initialize
    <2>1. claims' = claims /\ highWater' = highWater
      BY DEF Inv, OpenedInOrder
    <2>2. TypeOK'
      BY <2>1 DEF Inv, TypeOK, Pcs, GoTo
    <2>3. OpenedInOrder'
      BY DEF Inv, OpenedInOrder, TypeOK, GoTo
    <2>4. CallsAuthentic'
      BY CallsKept
    <2> QED BY <2>1, <2>2, <2>3, <2>4, TablesKept DEF Inv, TypeOK, Time
  <1>4. ASSUME NEW w \in Workers, NEW pc \in {"admit", "advance"},
               NEW next \in {"sample", "verify"}, AdvanceClock(w, pc, next)
        PROVE Inv'
    <2> USE <1>4 DEF AdvanceClock
    <2>1. highWater' \in Time /\ highWater' >= highWater
      BY PayloadAssumption DEF Inv, TypeOK, Time
    <2>2. TypeOK'
      BY <2>1, PayloadAssumption DEF Inv, TypeOK, Pcs, GoTo, Return, Idle, Time
    <2>3. OpenedInOrder'
      BY DEF Inv, OpenedInOrder, TypeOK, GoTo, Return, Idle
    <2>4. CallsAuthentic'
      BY CallsKept
    <2> QED BY <2>1, <2>2, <2>3, <2>4, TablesKept DEF Inv
  <1>5. ASSUME NEW w \in Workers, SampleClock(w) PROVE Inv'
    <2> USE <1>5 DEF SampleClock
    <2>1. TypeOK'
      <3> DEFINE Locals == [pc : Pcs, env : Envelopes \cup {None},
                            claimId : ClaimIds \cup {Zero, None}, t : Time]
                 moved == [worker[w] EXCEPT !.pc = "advance", !.t = clock]
      <3>1. worker[w] \in Locals /\ clock \in Time
        BY DEF Inv, TypeOK
      <3>2. moved \in Locals
        BY <3>1 DEF Pcs
      <3>3. worker' = [worker EXCEPT ![w] = moved]
        OBVIOUS
      <3>4. worker \in [Workers -> Locals]
        BY DEF Inv, TypeOK
      <3> HIDE DEF Locals, moved
      <3>5. worker' \in [Workers -> Locals]
        BY <3>2, <3>3, <3>4
      <3> QED BY <3>5 DEF Inv, TypeOK, Locals
    <2>2. OpenedInOrder'
      BY DEF Inv, OpenedInOrder, TypeOK
    <2>3. CallsAuthentic'
      BY CallsKept
    <2> QED BY <2>1, <2>2, <2>3, TablesKept DEF Inv, TypeOK, Time
  <1>6. ASSUME NEW w \in Workers, VerifyAtSample(w) PROVE Inv'
    <2> USE <1>6 DEF VerifyAtSample
    <2>1. TypeOK'
      BY PayloadAssumption DEF Inv, TypeOK, Pcs, GoTo, Return, Idle, Time
    <2>2. OpenedInOrder'
      BY DEF Inv, OpenedInOrder, TypeOK, GoTo, Return, Idle
    <2>3. CallsAuthentic'
      BY CallsKept
    <2> QED BY <2>1, <2>2, <2>3, TablesKept DEF Inv, TypeOK, Time
  <1>7. ASSUME NEW w \in Workers, ClaimClockBehind(w) \/ ClaimRejected(w) \/ Abort(w)
        PROVE Inv'
    <2> USE <1>7 DEF ClaimClockBehind, ClaimRejected, Abort
    <2>1. highWater' \in Time /\ highWater' >= highWater
      BY DEF Inv, TypeOK, Time
    <2>2. TypeOK'
      <3>1. excused' \in BOOLEAN
        BY DEF Inv, TypeOK, BadIdentity
      <3> QED BY <2>1, <3>1, PayloadAssumption DEF Inv, TypeOK, Pcs, Return, Idle, Time
    <2>3. OpenedInOrder'
      BY DEF Inv, OpenedInOrder, TypeOK, Return, Idle
    <2>4. CallsAuthentic'
      BY CallsKept
    <2> QED BY <2>1, <2>2, <2>3, <2>4, TablesKept DEF Inv
  <1>8. ASSUME NEW w \in Workers, NEW replied \in BOOLEAN, ClaimCommitted(w, replied)
        PROVE Inv'
    <2> USE <1>8 DEF ClaimCommitted
    <2>1. PICK n \in Nonces :
            /\ Insertable(w, n)
            /\ claims' = claims \cup {NewRow(w, n)}
            /\ granted' = IF replied
                          THEN granted \cup {[worker |-> w, receipt |-> NewRow(w, n)]}
                          ELSE granted
      OBVIOUS
    <2>2. NewRow(w, n) \in Row /\ ClaimsAuthentic' /\ SchemaHolds' /\ ClaimedInWindow'
      BY <2>1, InsertKeeps
    <2>3. TypeOK'
      <3>1. granted' \subseteq [worker : Workers, receipt : Row]
        BY <2>1, <2>2 DEF Inv, TypeOK
      <3>2. excused' \in BOOLEAN
        BY DEF Inv, TypeOK
      <3> QED BY <2>1, <2>2, <3>1, <3>2, PayloadAssumption
              DEF Inv, TypeOK, Pcs, Return, Idle, Time
    <2>4. OpenedInOrder'
      BY DEF Inv, OpenedInOrder, TypeOK, Return, Idle
    <2>5. CallsAuthentic'
      BY CallsKept
    <2>6. ReceiptsCommitted'
      <3>1. NewRow(w, n) \notin claims
        BY <2>1 DEF Insertable, Conflict
      <3> QED BY <2>1, <3>1 DEF Inv, ReceiptsCommitted
    <2> QED BY <2>2, <2>3, <2>4, <2>5, <2>6 DEF Inv
  <1>9. ASSUME NEW e \in Envelopes, Issue(e) PROVE Inv'
    <2> USE <1>9 DEF Issue
    <2>1. TypeOK'
      BY DEF Inv, TypeOK
    <2>2. OpenedInOrder'
      BY DEF Inv, OpenedInOrder
    <2>3. \A f \in Envelopes : quote[f] # Unissued => quote'[f] = quote[f]
      BY DEF Inv, TypeOK
    <2>4. CallsAuthentic'
      <3>1. ASSUME NEW v \in Workers, worker[v].pc # "idle"
            PROVE  Authentic(worker[v].env)'
        <4> DEFINE f == worker'[v].env
        <4>1. f \in Envelopes /\ Authentic(f)
          BY <3>1 DEF Inv, CallsAuthentic
        <4>2. quote'[f] = quote[f]
          BY <2>3, <4>1 DEF Authentic
        <4> QED BY <4>1, <4>2 DEF Authentic, WellFormed, KeyAccepted
      <3> QED BY <3>1 DEF Inv, CallsAuthentic
    <2>5. \A r \in claims : r.env \in Envelopes /\ quote'[r.env] = quote[r.env]
      BY <2>3 DEF Inv, TypeOK, Row, ClaimsAuthentic, Authentic
    <2>6. ClaimsAuthentic'
      <3>1. \A r \in claims : Authentic(r.env) /\ ParentAccepted(r.env)
        BY DEF Inv, ClaimsAuthentic
      <3>2. \A r \in claims : Authentic(r.env)'
        BY <2>5, <3>1 DEF Authentic, WellFormed, KeyAccepted
      <3>3. \A r \in claims : ParentAccepted(r.env)'
        BY <2>5, <3>1 DEF ParentAccepted, Id
      <3> QED BY <3>2, <3>3 DEF ClaimsAuthentic
    <2>7. SchemaHolds'
      <3>1. SchemaTrusted
        BY DEF Inv, SchemaHolds
      <3> HIDE <1>9 DEF Issue
      <3>2. claims' = claims
        BY <1>9 DEF Issue
      <3> QED BY <2>5, <3>1, <3>2 DEF SchemaHolds, SchemaTrusted, EnvelopesCollide, Id
    <2>8. ClaimedInWindow' /\ ReceiptsCommitted'
      BY DEF Inv, ClaimedInWindow, InWindow, ReceiptsCommitted
    <2> QED BY <2>1, <2>2, <2>4, <2>6, <2>7, <2>8 DEF Inv
  <1>10. ASSUME Tick PROVE Inv'
    <2> USE <1>10 DEF Tick
    <2>1. TypeOK'
      BY DEF Inv, TypeOK
    <2>2. OpenedInOrder' /\ CallsAuthentic'
      BY DEF Inv, OpenedInOrder, CallsAuthentic, Authentic, WellFormed, KeyAccepted
    <2> QED BY <2>1, <2>2, TablesKept DEF Inv, TypeOK, Time
  <1>11. ASSUME UNCHANGED vars PROVE Inv'
    <2> USE <1>11 DEF vars
    <2>1. TypeOK' /\ OpenedInOrder' /\ CallsAuthentic'
      BY DEF Inv, TypeOK, OpenedInOrder, CallsAuthentic, Authentic, WellFormed, KeyAccepted
    <2> QED BY <2>1, TablesKept DEF Inv, TypeOK, Time
  <1> QED
    BY <1>1, <1>2, <1>3, <1>4, <1>5, <1>6, <1>7, <1>8, <1>9, <1>10, <1>11
    DEF Next, Step, ClaimAuthorization

\* The invariant holds throughout.
LEMMA SpecInv == Spec => []Inv
  BY InitInv, NextInv, PTL DEF Spec

\* The ledger's state always has its type.
THEOREM TypeCorrect == Spec => []TypeOK
  <1>1. Inv => TypeOK
    BY DEF Inv
  <1> QED BY <1>1, SpecInv, PTL

\* No interleaving of callers makes the INSERT of claim_authorization meet a
\* UNIQUE or FOREIGN KEY violation: its sqlite3.IntegrityError branch is dead.
THEOREM InsertNeverConflicts == Spec => []SchemaHolds
  <1>1. Inv => SchemaHolds
    BY DEF Inv
  <1> QED BY <1>1, SpecInv, PTL

\* However many callers race, one authorization id and one dispatch nonce
\* yield at most one receipt to one caller, which verify_committed_receipt
\* accepts from then on.
THEOREM ReceiptsUnique == Spec => []OneReceiptPerAuthorization
  <1>1. ASSUME Inv PROVE OneReceiptPerAuthorization
    <2>1. ASSUME NEW g \in granted PROVE VerifyCommitted(g.receipt)
      <3> DEFINE r == g.receipt
      <3>1. r \in claims /\ r \in Row
        BY <1>1 DEF Inv, ReceiptsCommitted, TypeOK
      <3>2. r.claimId # Zero /\ r.nonce # Zero
        BY <3>1, PayloadAssumption DEF Row
      <3>3. WellFormed(r.env)
        BY <1>1, <3>1 DEF Inv, ClaimsAuthentic, Authentic
      <3>4. ReceiptValid(r)
        BY <3>2, <3>3 DEF ReceiptValid, WellFormed
      <3>5. {q \in claims : Id(q) = Id(r)} = {r}
        BY <1>1, <3>1 DEF Inv, SchemaHolds, SchemaTrusted, EnvelopesCollide, Id
      <3> QED BY <1>1, <3>4, <3>5 DEF VerifyCommitted, Inv, SchemaHolds
    <2>2. \A g, h \in granted :
            \/ Id(g.receipt) = Id(h.receipt)
            \/ Payload[g.receipt.env].nonce = Payload[h.receipt.env].nonce
            => g = h
      BY <1>1 DEF Inv, ReceiptsCommitted, SchemaHolds, SchemaTrusted, EnvelopesCollide, Id
    <2> QED BY <2>1, <2>2 DEF OneReceiptPerAuthorization
  <1> QED BY <1>1, SpecInv, PTL

\* Claims are made inside the window and never ahead of the durable clock.
THEOREM WindowRespected == Spec => []ClaimedInWindow
  <1>1. Inv => ClaimedInWindow
    BY DEF Inv
  <1> QED BY <1>1, SpecInv, PTL

\* Retry lineages are chains, ordered in time.
THEOREM LineageOrdered == Spec => []RetryLineage
  <1>1. Inv => RetryLineage
    <2> SUFFICES ASSUME Inv, NEW r \in claims, Payload[r.env].retry > 0
                 PROVE  \E q \in claims :
                          /\ quote[r.env] = q
                          /\ Payload[q.env].retry + 1 = Payload[r.env].retry
                          /\ Payload[q.env].binding = Payload[r.env].binding
                          /\ q.at <= Payload[r.env].issued
                          /\ q.at <= r.at
      BY DEF RetryLineage
    <2>1. Authentic(r.env) /\ ParentAccepted(r.env) /\ InWindow(r.env, r.at)
      BY DEF Inv, ClaimsAuthentic, ClaimedInWindow
    <2>2. r.env \in Envelopes /\ r.at \in Nat /\ \A q \in claims : q.at \in Nat
      BY PayloadAssumption DEF Inv, TypeOK, Row, Time
    <2>3. Payload[r.env].parent # None
      BY <2>1, <2>2, PayloadAssumption DEF Authentic, WellFormed
    <2>4. Payload[r.env].issued <= r.at
      BY <2>1, <2>2, PayloadAssumption DEF Authentic, WellFormed, InWindow
    <2> QED BY <2>1, <2>2, <2>3, <2>4, PayloadAssumption DEF ParentAccepted
  <1> QED BY <1>1, SpecInv, PTL

\* Any step from a state of the invariant either leaves the claims alone or
\* adds one row dated at the new high-water mark for an unclaimed id.
LEMMA StepShape ==
  ASSUME Inv, Inv', [Next]_vars
  PROVE  /\ highWater \in Nat /\ highWater' \in Nat /\ highWater' >= highWater
         /\ \/ claims' = claims /\ granted' = granted
            \/ \E r \in Row :
                 /\ claims' = claims \cup {r}
                 /\ \A q \in claims : Id(q) # Id(r)
                 /\ highWater' = r.at
                 /\ \/ granted' = granted
                    \/ \E w \in Workers :
                         granted' = granted \cup {[worker |-> w, receipt |-> r]}
  <1> USE DEF store, history
  <1>1. highWater \in Nat /\ highWater' \in Nat
    BY PayloadAssumption DEF Inv, TypeOK, Time
  <1>2. ASSUME NEW w \in Workers, NEW replied \in BOOLEAN, ClaimCommitted(w, replied)
        PROVE  /\ highWater' >= highWater
               /\ \E r \in Row :
                    /\ claims' = claims \cup {r}
                    /\ \A q \in claims : Id(q) # Id(r)
                    /\ highWater' = r.at
                    /\ \/ granted' = granted
                       \/ \E v \in Workers :
                            granted' = granted \cup {[worker |-> v, receipt |-> r]}
    <2> USE <1>2 DEF ClaimCommitted
    <2>1. PICK n \in Nonces :
            /\ Insertable(w, n)
            /\ claims' = claims \cup {NewRow(w, n)}
            /\ granted' = IF replied
                          THEN granted \cup {[worker |-> w, receipt |-> NewRow(w, n)]}
                          ELSE granted
      OBVIOUS
    <2>2. NewRow(w, n) \in Row /\ NewRow(w, n).at = clock
      BY <2>1, InsertKeeps DEF NewRow
    <2>3. \A q \in claims : Id(q) # Id(NewRow(w, n))
      BY <2>1 DEF Insertable, Conflict, EnvelopesCollide, Id
    <2> QED BY <1>1, <2>1, <2>2, <2>3
  <1>3. ASSUME NEW w \in Workers, Initialize(w)
        PROVE  highWater' >= highWater /\ claims' = claims /\ granted' = granted
    <2>1. ledger = "empty" => claims = {} /\ highWater = 0
      BY DEF Inv, OpenedInOrder
    <2>2. granted' = granted
      BY <1>3 DEF Initialize
    <2>3. highWater' = highWater /\ claims' = claims
      BY <1>3, <2>1 DEF Initialize
    <2> QED BY <1>1, <2>2, <2>3
  <1>4. ASSUME NEW w \in Workers,
               \/ AdmitDispatch(w) \/ PrepareDatabasePath(w) \/ SampleClock(w)
               \/ VerifyAtSample(w) \/ ClaimClockBehind(w) \/ Abort(w)
        PROVE  highWater' >= highWater /\ claims' = claims /\ granted' = granted
    BY <1>1, <1>4 DEF AdmitDispatch, PrepareDatabasePath, SampleClock, VerifyAtSample,
                ClaimClockBehind, Abort
  <1>5. ASSUME NEW w \in Workers, NEW pc, NEW next,
               AdvanceClock(w, pc, next) \/ ClaimRejected(w)
        PROVE  highWater' >= highWater /\ claims' = claims /\ granted' = granted
    BY <1>1, <1>5 DEF AdvanceClock, ClaimRejected, Inv, TypeOK, Time
  <1>6. ASSUME \/ \E e \in Envelopes : Issue(e)
               \/ Tick
               \/ UNCHANGED vars
        PROVE  highWater' >= highWater /\ claims' = claims /\ granted' = granted
    BY <1>1, <1>6 DEF Issue, Tick, vars
  <1> QED
    BY <1>1, <1>2, <1>3, <1>4, <1>5, <1>6 DEF Next, Step, ClaimAuthorization

\* Claims are never lost, the durable clock never goes back and claims are
\* committed in the order of their times.
THEOREM OnlyGrows == Spec => LedgerOnlyGrows
  <1>1. Inv /\ Inv' /\ [Next]_vars =>
          [ /\ claims \subseteq claims'
            /\ highWater' >= highWater
            /\ \A r \in claims' \ claims, q \in claims : q.at <= r.at ]_vars
    <2> SUFFICES ASSUME Inv, Inv', [Next]_vars
                 PROVE  /\ claims \subseteq claims'
                        /\ highWater' >= highWater
                        /\ \A r \in claims' \ claims, q \in claims : q.at <= r.at
      OBVIOUS
    <2>1. \A q \in claims : q.at \in Nat /\ q.at <= highWater
      BY PayloadAssumption DEF Inv, TypeOK, Row, Time, ClaimedInWindow
    <2> QED BY <2>1, StepShape
  <1> QED BY <1>1, SpecInv, PTL DEF Spec, LedgerOnlyGrows

\* The ledger implements the one-shot register keyed by authorization id.
THEOREM Refinement == Spec => ImplementsOneShot
  <1>1. Init => Abstract!Init
    BY DEF Init, Abstract!Init
  <1>2. Inv /\ Inv' /\ [Next]_vars => [Abstract!Next]_(Abstract!vars)
    <2> SUFFICES ASSUME Inv, Inv', [Next]_vars
                 PROVE  [Abstract!Next]_(Abstract!vars)
      OBVIOUS
    <2>1. highWater \in Nat /\ highWater' \in Nat /\ highWater' >= highWater
      BY StepShape
    <2>2. CASE claims' = claims /\ granted' = granted
      <3>1. Abstract!Advance
        BY <2>1, <2>2 DEF Abstract!Advance
      <3> QED BY <3>1 DEF Abstract!Next
    <2>3. ASSUME NEW r \in Row,
                 claims' = claims \cup {r},
                 \A q \in claims : Id(q) # Id(r),
                 highWater' = r.at,
                 \/ granted' = granted
                 \/ \E w \in Workers :
                      granted' = granted \cup {[worker |-> w, receipt |-> r]}
          PROVE  Abstract!Consume(r)
      <3>1. {Id(q) : q \in claims'} = {Id(q) : q \in claims} \cup {Id(r)}
        BY <2>3
      <3>2. Id(r) \notin {Id(q) : q \in claims}
        BY <2>3
      <3>3. {g.receipt : g \in granted'} \in
              {{g.receipt : g \in granted}, {g.receipt : g \in granted} \cup {r}}
        BY <2>3
      <3> QED BY <2>1, <2>3, <3>1, <3>2, <3>3 DEF Abstract!Consume, RowTime
    <2> QED BY <2>2, <2>3, StepShape DEF Abstract!Next
  <1> QED BY <1>1, <1>2, SpecInv, PTL DEF Spec, ImplementsOneShot, Abstract!Spec

-----------------------------------------------------------------------------
(***************************************************************************)
(* Some caller wins.  As long as nothing excuses a loss, the clock never   *)
(* went back, so it is level with the durable clock; and a caller that is  *)
(* overtaken in _advance_clock is overtaken by one that observed a later   *)
(* time for the same envelope.  One of them always still has its way to    *)
(* the claim open.                                                         *)
(***************************************************************************)

\* Envelope e is the only one signed; it is a root, was submitted inside its
\* window, has not expired and is not claimed, and nothing excuses that.
Awaited(e) ==
  /\ ~excused /\ claims = {}
  /\ clock < Payload[e].expires /\ Payload[e].parent = None
  /\ \E w \in Workers : <<w, e>> \in tried
  /\ \A f \in Envelopes \ {e} : quote[f] = Unissued

\* Call v for e can still reach the claim: the next comparison with the
\* durable clock and the check of the window cannot fail.
OnItsWay(v, e) ==
  /\ worker[v].env = e
  /\ \/ worker[v].pc \in {"open", "initialize", "admit", "advance"}
          /\ worker[v].t >= highWater /\ worker[v].t >= Payload[e].notBefore
     \/ worker[v].pc = "verify" /\ worker[v].t >= Payload[e].notBefore
     \/ worker[v].pc \in {"sample", "claim"}

\* The clock is behind nothing that was read from it.
ClockLevel ==
  ~excused =>
    /\ highWater <= clock
    /\ \A w \in Workers : worker[w].t <= clock
    /\ \A w \in Workers, e \in Envelopes :
         <<w, e>> \in tried => Payload[e].notBefore <= clock

\* An awaited envelope has a call that can still claim it.
SomeoneOnTheWay ==
  \A e \in Envelopes : Awaited(e) => \E v \in Workers : OnItsWay(v, e)

\* Inductive together with Inv.
WinnerInv == ClockLevel /\ SomeoneOnTheWay

\* While nothing is excused, the clock and the durable clock stay level.
LEMMA ClockLevelKept ==
  ASSUME Inv, Inv', ClockLevel, [Next]_vars
  PROVE  ClockLevel'
  <1> SUFFICES ASSUME ~excused'
               PROVE  /\ highWater' <= clock'
                      /\ \A w \in Workers : worker'[w].t <= clock'
                      /\ \A w \in Workers, e \in Envelopes :
                           <<w, e>> \in tried' => Payload[e].notBefore <= clock'
    BY DEF ClockLevel
  <1> USE DEF store, history
  <1>1. /\ clock \in Nat /\ highWater \in Nat
        /\ \A w \in Workers : worker[w].t \in Nat
        /\ \A e \in Envelopes : Payload[e].notBefore \in Nat
    BY PayloadAssumption DEF Inv, TypeOK, Time
  <1>2. ASSUME ~excused, clock' = clock, highWater' <= clock, tried' = tried,
               \A w \in Workers : worker'[w].t \in {0, clock, worker[w].t}
        PROVE  /\ highWater' <= clock'
               /\ \A w \in Workers : worker'[w].t <= clock'
               /\ \A w \in Workers, e \in Envelopes :
                    <<w, e>> \in tried' => Payload[e].notBefore <= clock'
    BY <1>1, <1>2 DEF ClockLevel
  <1>3. ASSUME NEW w \in Workers, AdmitDispatch(w)
        PROVE  /\ highWater' <= clock'
               /\ \A v \in Workers : worker'[v].t <= clock'
               /\ \A v \in Workers, e \in Envelopes :
                    <<v, e>> \in tried' => Payload[e].notBefore <= clock'
    BY SMTT(30), <1>1, <1>3 DEF AdmitDispatch, ClockLevel, InWindow, Inv, TypeOK
  <1>4. ASSUME NEW w \in Workers,
               \/ PrepareDatabasePath(w) \/ SampleClock(w)
               \/ VerifyAtSample(w) \/ ClaimClockBehind(w)
        PROVE  /\ ~excused /\ clock' = clock /\ highWater' <= clock /\ tried' = tried
               /\ \A v \in Workers : worker'[v].t \in {0, clock, worker[v].t}
    BY <1>1, <1>4 DEF PrepareDatabasePath, SampleClock, VerifyAtSample,
       ClaimClockBehind, Return, GoTo, Idle, ClockLevel, Inv, TypeOK
  <1>5. ASSUME NEW w \in Workers, Initialize(w)
        PROVE  /\ ~excused /\ clock' = clock /\ highWater' <= clock /\ tried' = tried
               /\ \A v \in Workers : worker'[v].t \in {0, clock, worker[v].t}
    BY <1>1, <1>5 DEF Initialize, GoTo, ClockLevel, Inv, TypeOK
  <1>6. ASSUME NEW w \in Workers, NEW pc, NEW next, AdvanceClock(w, pc, next)
        PROVE  /\ ~excused /\ clock' = clock /\ highWater' <= clock /\ tried' = tried
               /\ \A v \in Workers : worker'[v].t \in {0, clock, worker[v].t}
    BY <1>1, <1>6 DEF AdvanceClock, Return, GoTo, Idle, ClockLevel, Inv, TypeOK
  <1>7. ASSUME NEW w \in Workers, NEW replied \in BOOLEAN,
               ClaimRejected(w) \/ ClaimCommitted(w, replied)
        PROVE  /\ ~excused /\ clock' = clock /\ highWater' <= clock /\ tried' = tried
               /\ \A v \in Workers : worker'[v].t \in {0, clock, worker[v].t}
    BY SMTT(30), <1>1, <1>7 DEF ClaimRejected, ClaimCommitted, Return, Idle, ClockLevel,
       Inv, TypeOK
  <1>8. ASSUME NEW w \in Workers, Abort(w) PROVE FALSE
    BY <1>8 DEF Abort
  <1>9. ASSUME (\E e \in Envelopes : Issue(e)) \/ UNCHANGED vars
        PROVE  /\ ~excused /\ clock' = clock /\ highWater' <= clock /\ tried' = tried
               /\ \A v \in Workers : worker'[v].t \in {0, clock, worker[v].t}
    BY <1>1, <1>9 DEF Issue, vars, ClockLevel
  <1>10. ASSUME Tick
         PROVE  /\ highWater' <= clock'
                /\ \A v \in Workers : worker'[v].t <= clock'
                /\ \A v \in Workers, e \in Envelopes :
                     <<v, e>> \in tried' => Payload[e].notBefore <= clock'
    <2>0. clock' \in Nat
      BY <1>10, PayloadAssumption DEF Tick, Time
    <2>1. ~excused /\ ~(clock' < clock)
      BY <1>10 DEF Tick
    <2> QED BY SMTT(30), <1>1, <1>10, <2>0, <2>1 DEF Tick, ClockLevel
  <1> QED
    BY <1>2, <1>3, <1>4, <1>5, <1>6, <1>7, <1>8, <1>9, <1>10
    DEF Next, Step, ClaimAuthorization


\* A call that does not move stays on its way while the durable clock rests.
LEMMA StaysOnItsWay ==
  ASSUME NEW v, NEW e, OnItsWay(v, e), worker'[v] = worker[v], highWater' = highWater
  PROVE  OnItsWay(v, e)'
  BY DEF OnItsWay

\* While e is the only envelope signed, every running call is one for e.
LEMMA OnlyCallsFor ==
  ASSUME Inv, NEW e \in Envelopes, \A f \in Envelopes \ {e} : quote[f] = Unissued,
         NEW w \in Workers, worker[w].pc # "idle"
  PROVE  worker[w].env = e /\ Authentic(e)
  BY DEF Inv, CallsAuthentic, Authentic

\* A new call inside the window is on its way; the others are not disturbed.
LEMMA AdmitKeepsOne ==
  ASSUME Inv, WinnerInv, NEW w \in Workers, AdmitDispatch(w),
         NEW e \in Envelopes, Awaited(e)'
  PROVE  \E v \in Workers : OnItsWay(v, e)'
  <1> USE DEF store, history
  <1>1. PICK f \in Envelopes, c \in ClaimIds \cup {Zero} :
          /\ worker' = [worker EXCEPT
               ![w] = [pc |-> "open", env |-> f, claimId |-> c, t |-> clock]]
          /\ tried' = IF InWindow(f, clock) THEN tried \cup {<<w, f>>} ELSE tried
    BY DEF AdmitDispatch
  <1>2. /\ worker'[w] = [pc |-> "open", env |-> f, claimId |-> c, t |-> clock]
        /\ \A v \in Workers \ {w} : worker'[v] = worker[v]
    BY <1>1 DEF Inv, TypeOK
  <1>3. clock \in Nat /\ highWater \in Nat /\ highWater' = highWater /\ highWater <= clock
    BY PayloadAssumption DEF Inv, TypeOK, Time, AdmitDispatch, WinnerInv, ClockLevel, Awaited
  <1>4. CASE \E v \in Workers : <<v, e>> \in tried
    <2>1. Awaited(e)
      BY <1>4 DEF Awaited, AdmitDispatch
    <2>2. PICK v \in Workers : OnItsWay(v, e)
      BY <2>1 DEF WinnerInv, SomeoneOnTheWay
    <2>3. v # w
      BY <2>2 DEF OnItsWay, AdmitDispatch
    <2> QED BY <1>2, <1>3, <2>2, <2>3, StaysOnItsWay
  <1>5. CASE \A v \in Workers : <<v, e>> \notin tried
    <2>1. f = e /\ InWindow(e, clock)
      BY <1>1, <1>5 DEF Awaited
    <2>2. OnItsWay(w, e)'
      BY <1>2, <1>3, <2>1, PayloadAssumption DEF OnItsWay, InWindow
    <2> QED BY <2>2
  <1> QED BY <1>4, <1>5

\* The transaction that raises the durable clock past a call's observation is
\* itself one of a call that goes on, with an observation that is later still.
LEMMA AdvanceKeepsOne ==
  ASSUME Inv, NEW e \in Envelopes, Awaited(e), NEW v \in Workers, OnItsWay(v, e),
         NEW u \in Workers,
         AdvanceClock(u, "admit", "sample") \/ AdvanceClock(u, "advance", "verify")
  PROVE  \E x \in Workers : OnItsWay(x, e)'
  <1>1. /\ highWater \in Nat /\ \A x \in Workers : worker[x].t \in Nat
        /\ Payload[e].notBefore \in Nat
    BY SMTT(30), PayloadAssumption DEF Inv, TypeOK, Time
  <1>2. worker[u].env = e
    BY OnlyCallsFor DEF AdvanceClock, Awaited
  <1>3. \A x \in Workers \ {u} : worker'[x] = worker[x]
    BY DEF AdvanceClock, Return, GoTo, Inv, TypeOK
  <1>4. CASE worker[u].t < highWater
    <2>0. worker[u].pc \in {"admit", "advance"} /\ ~(worker[u].t >= highWater)
      <3>1. worker[u].t \in Nat
        BY <1>1
      <3>2. ~(worker[u].t >= highWater)
        BY <1>1, <1>4, <3>1
      <3>3. worker[u].pc \in {"admit", "advance"}
        BY DEF AdvanceClock
      <3> QED BY <3>2, <3>3
    <2>1. v # u
      BY <2>0 DEF OnItsWay
    <2>2. highWater' = highWater
      BY <1>4 DEF AdvanceClock
    <2> QED BY <1>3, <2>1, <2>2, StaysOnItsWay
  <1>5. CASE worker[u].t >= highWater
    <2>1. highWater' = worker[u].t
      BY <1>1, <1>5 DEF AdvanceClock
    <2>2. /\ worker'[u].env = e /\ worker'[u].t = worker[u].t
          /\ worker[u].pc = "admit" => worker'[u].pc = "sample"
          /\ worker[u].pc = "advance" => worker'[u].pc = "verify"
          /\ worker[u].pc \in {"admit", "advance"}
      BY <1>1, <1>2, <1>5 DEF AdvanceClock, GoTo, Inv, TypeOK
    <2>3. CASE worker[u].pc = "admit" \/ worker[u].t >= Payload[e].notBefore
      BY <2>2, <2>3 DEF OnItsWay
    <2>4. CASE worker[u].pc = "advance" /\ worker[u].t < Payload[e].notBefore
      <3>1. v # u
        BY <1>1, <2>4 DEF OnItsWay
      <3>2. worker'[v] = worker[v]
        BY <1>3, <3>1
      <3>3. OnItsWay(v, e)'
        BY <1>1, <2>1, <2>4, <3>2 DEF OnItsWay
      <3> QED BY <3>3
    <2> QED BY SMTT(30), <1>1, <2>2, <2>3, <2>4
  <1> QED BY <1>1, <1>4, <1>5

\* The sampled time is in the window while the clock has not left it, so that
\* the verification of a call on its way succeeds.
LEMMA VerifyKeepsOne ==
  ASSUME Inv, ClockLevel, NEW e \in Envelopes, Awaited(e),
         NEW v \in Workers, OnItsWay(v, e), NEW u \in Workers,
         SampleClock(u) \/ VerifyAtSample(u)
  PROVE  \E x \in Workers : OnItsWay(x, e)'
  <1> USE DEF store, history
  <1>1. /\ highWater \in Nat /\ \A x \in Workers : worker[x].t \in Nat
        /\ Payload[e].notBefore \in Nat /\ Payload[e].expires \in Nat /\ clock \in Nat
    BY SMTT(30), PayloadAssumption DEF Inv, TypeOK, Time
  <1>2. worker[u].env = e /\ Authentic(e)
    BY OnlyCallsFor DEF SampleClock, VerifyAtSample, Awaited
  <1>3. highWater' = highWater /\ \A x \in Workers \ {u} : worker'[x] = worker[x]
    BY DEF SampleClock, VerifyAtSample, Return, GoTo, Inv, TypeOK
  <1>4. CASE v # u
    BY <1>3, <1>4, StaysOnItsWay
  <1>5. CASE v = u /\ SampleClock(u)
    <2>1. worker'[u].env = e /\ worker'[u].t = clock /\ worker'[u].pc = "advance"
      BY <1>2, <1>5 DEF SampleClock, Inv, TypeOK
    <2>2. highWater <= clock /\ Payload[e].notBefore <= clock
      BY DEF ClockLevel, Awaited
    <2>3. OnItsWay(u, e)'
      BY <1>1, <1>3, <2>1, <2>2 DEF OnItsWay
    <2> QED BY <2>3
  <1>6. CASE v = u /\ VerifyAtSample(u)
    <2>1. worker[u].t >= Payload[e].notBefore /\ worker[u].t <= clock
      BY <1>6 DEF VerifyAtSample, OnItsWay, ClockLevel, Awaited
    <2>0. clock < Payload[e].expires /\ worker[u].t \in Nat
      BY <1>1 DEF Awaited
    <2>2. Verified(e, worker[u].t)
      BY <1>1, <1>2, <2>0, <2>1 DEF Verified, InWindow
    <2>3. worker'[u].env = e /\ worker'[u].pc = "claim"
      BY <1>2, <1>6, <2>2 DEF VerifyAtSample, GoTo, Inv, TypeOK
    <2>4. OnItsWay(u, e)'
      BY <2>3 DEF OnItsWay
    <2> QED BY <2>4
  <1> QED BY <1>4, <1>5, <1>6


\* With no claim yet and the clock level, the transaction of the only envelope
\* in play rejects nothing but a claim identity that cannot be used.
LEMMA ClaimSucceeds ==
  ASSUME Inv, ClockLevel, NEW e \in Envelopes, Awaited(e), NEW u \in Workers,
         ~excused', \/ ClaimClockBehind(u) \/ ClaimRejected(u)
  PROVE  FALSE
  <1>1. /\ highWater \in Nat /\ clock \in Nat
        /\ Payload[e].notBefore \in Nat /\ Payload[e].expires \in Nat
    BY SMTT(30), PayloadAssumption DEF Inv, TypeOK, Time
  <1>2. highWater <= clock /\ Payload[e].notBefore <= clock
    BY DEF ClockLevel, Awaited
  <1>3. worker[u].env = e
    BY OnlyCallsFor DEF ClaimClockBehind, ClaimRejected, Awaited
  <1>4. ClaimRejected(u)
    BY <1>1, <1>2 DEF ClaimClockBehind
  <1>5. PICK n \in Nonces \cup {Zero} :
          ~Insertable(u, n) /\ excused' = (excused \/ BadIdentity(u, n))
    BY <1>4 DEF ClaimRejected
  <1>6. ReceiptValid(NewRow(u, n))
    BY <1>5 DEF BadIdentity
  <1>7. InWindow(e, clock) /\ ParentAccepted(e) /\ ~Conflict(NewRow(u, n))
    BY <1>1, <1>2 DEF InWindow, ParentAccepted, Conflict, Awaited
  <1> QED BY <1>3, <1>5, <1>6, <1>7 DEF Insertable

\* Whatever step is taken, some call stays on its way while e is awaited.
LEMMA OnTheWayKept ==
  ASSUME Inv, WinnerInv, [Next]_vars
  PROVE  SomeoneOnTheWay'
  <1> SUFFICES ASSUME NEW e \in Envelopes, Awaited(e)'
               PROVE  \E v \in Workers : OnItsWay(v, e)'
    BY DEF SomeoneOnTheWay
  <1> USE DEF store, history
  <1>1. ASSUME NEW w \in Workers, AdmitDispatch(w)
        PROVE  \E v \in Workers : OnItsWay(v, e)'
    BY <1>1, AdmitKeepsOne
  <1>2. ASSUME NEW w \in Workers, Initialize(w)
        PROVE  highWater' = highWater /\ claims' = claims
    <2>1. ledger = "empty" => claims = {} /\ highWater = 0
      BY DEF Inv, OpenedInOrder
    <2> QED BY <1>2, <2>1 DEF Initialize
  <1>3. ASSUME \/ \E w \in Workers : Step(w) \/ ClaimCommitted(w, FALSE) \/ Abort(w)
               \/ \E f \in Envelopes : Issue(f)
               \/ Tick
               \/ UNCHANGED vars
        PROVE  Awaited(e)
    <2>1. ASSUME NEW w \in Workers, Abort(w) PROVE FALSE
      BY <2>1 DEF Abort, Awaited
    <2>2. ASSUME NEW w \in Workers, NEW replied \in BOOLEAN, ClaimCommitted(w, replied)
          PROVE  FALSE
      BY <2>2 DEF ClaimCommitted, Awaited
    <2>3. ASSUME NEW w \in Workers, Initialize(w) PROVE Awaited(e)
      BY <1>2, <2>3 DEF Initialize, Awaited
    <2>4. ASSUME NEW w \in Workers,
                 \/ PrepareDatabasePath(w) \/ SampleClock(w) \/ VerifyAtSample(w)
                 \/ ClaimClockBehind(w) \/ ClaimRejected(w)
          PROVE  Awaited(e)
      <3>1. UNCHANGED <<clock, claims, quote, tried>>
        BY <2>4 DEF PrepareDatabasePath, SampleClock, VerifyAtSample, ClaimClockBehind,
           ClaimRejected
      <3>2. ASSUME ~ClaimRejected(w) PROVE excused' = excused
        BY <2>4, <3>2 DEF PrepareDatabasePath, SampleClock, VerifyAtSample,
           ClaimClockBehind
      <3>3. ASSUME ClaimRejected(w) PROVE ~excused
        BY <3>3 DEF ClaimRejected, Awaited
      <3> QED BY <3>1, <3>2, <3>3 DEF Awaited
    <2>5. ASSUME NEW w \in Workers, NEW pc, NEW next, AdvanceClock(w, pc, next)
          PROVE  Awaited(e)
      BY <2>5 DEF AdvanceClock, Awaited
    <2>6. ASSUME NEW f \in Envelopes, Issue(f) PROVE Awaited(e)
      <3>1. \A g \in Envelopes \ {e} : quote[g] = Unissued
        BY <2>6 DEF Issue, Awaited, Inv, TypeOK
      <3> QED BY <2>6, <3>1 DEF Issue, Awaited
    <2>7. ASSUME Tick PROVE Awaited(e)
      <3>1. clock \in Nat /\ clock' \in Nat /\ Payload[e].expires \in Nat
        BY <2>7, PayloadAssumption DEF Tick, Inv, TypeOK, Time
      <3>2. ~excused /\ ~(clock' < clock)
        BY <2>7 DEF Tick, Awaited
      <3> QED BY <2>7, <3>1, <3>2 DEF Tick, Awaited
    <2>8. ASSUME UNCHANGED vars PROVE Awaited(e)
      BY <2>8 DEF vars, Awaited
    <2> QED BY <1>3, <2>1, <2>2, <2>3, <2>4, <2>5, <2>6, <2>7, <2>8
            DEF Step, ClaimAuthorization
  <1>4. ASSUME Awaited(e), NEW v \in Workers, OnItsWay(v, e), NEW w \in Workers,
               PrepareDatabasePath(w) \/ Initialize(w)
        PROVE  OnItsWay(v, e)'
    <2>1. highWater' = highWater
      BY <1>2, <1>4 DEF PrepareDatabasePath
    <2>2. CASE v # w
      <3>1. worker'[v] = worker[v]
        BY <1>4, <2>2 DEF PrepareDatabasePath, Initialize, GoTo, Inv, TypeOK
      <3> QED BY <1>4, <2>1, <3>1, StaysOnItsWay
    <2>3. CASE v = w
      <3>1. /\ worker[w].pc \in {"open", "initialize"}
            /\ worker'[w].pc \in {"initialize", "admit"}
            /\ worker'[w].env = worker[w].env /\ worker'[w].t = worker[w].t
        BY <1>4 DEF PrepareDatabasePath, Initialize, GoTo, Inv, TypeOK
      <3> QED BY <1>4, <2>1, <2>3, <3>1 DEF OnItsWay
    <2> QED BY <2>2, <2>3
  <1>5. ASSUME Awaited(e), NEW v \in Workers, OnItsWay(v, e),
               (\E f \in Envelopes : Issue(f)) \/ Tick \/ UNCHANGED vars
        PROVE  OnItsWay(v, e)'
    <2>1. worker' = worker /\ highWater' = highWater
      BY <1>5 DEF Issue, Tick, vars
    <2> QED BY <1>5, <2>1, StaysOnItsWay
  <1>6. ASSUME NEW w \in Workers, \/ Abort(w) \/ ClaimCommitted(w, FALSE)
                                  \/ ClaimCommitted(w, TRUE)
        PROVE  FALSE
    BY <1>6 DEF Abort, ClaimCommitted, Awaited
  <1>7. CASE \E w \in Workers : AdmitDispatch(w)
    BY <1>1, <1>7
  <1>8. CASE ~ \E w \in Workers : AdmitDispatch(w)
    <2>1. Awaited(e)
      BY <1>3, <1>8 DEF Next
    <2>2. PICK v \in Workers : OnItsWay(v, e)
      BY <2>1 DEF WinnerInv, SomeoneOnTheWay
    <2>3. ASSUME NEW w \in Workers, ClaimClockBehind(w) \/ ClaimRejected(w) PROVE FALSE
      BY <2>1, <2>3, ClaimSucceeds DEF WinnerInv, Awaited
    <2>4. ASSUME NEW w \in Workers,
                 \/ AdvanceClock(w, "admit", "sample") \/ AdvanceClock(w, "advance", "verify")
                 \/ SampleClock(w) \/ VerifyAtSample(w)
          PROVE  \E x \in Workers : OnItsWay(x, e)'
      BY <2>1, <2>2, <2>4, AdvanceKeepsOne, VerifyKeepsOne DEF WinnerInv
    <2> QED BY <1>4, <1>5, <1>6, <1>8, <2>1, <2>2, <2>3, <2>4
            DEF Next, Step, ClaimAuthorization
  <1> QED BY <1>7, <1>8

\* The invariant holds from the start and in every step.
LEMMA WinnerInvHolds == Spec => []WinnerInv
  <1>1. Init => WinnerInv
    <2> SUFFICES ASSUME Init PROVE WinnerInv
      OBVIOUS
    <2>1. clock \in Nat
      BY PayloadAssumption DEF Init, Time
    <2> QED BY <2>1 DEF Init, Idle, WinnerInv, ClockLevel, SomeoneOnTheWay, Awaited
  <1>2. Inv /\ Inv' /\ WinnerInv /\ [Next]_vars => WinnerInv'
    BY ClockLevelKept, OnTheWayKept DEF WinnerInv
  <1> QED BY <1>1, <1>2, SpecInv, PTL DEF Spec

\* Some caller of an authorization that is alone in play wins: with any number
\* of callers racing through _advance_clock and the checks under the lock, and
\* whenever the clock advances, they never all reject each other.
THEOREM SomeCallerWins == Spec => []SomeWinner
  <1>1. Inv /\ WinnerInv => SomeWinner
    <2> SUFFICES ASSUME Inv, WinnerInv, NEW w \in Workers, NEW e \in Envelopes,
                        <<w, e>> \in tried,
                        \A f \in Envelopes \ {e} : quote[f] = Unissued,
                        NoWinner(e)
                 PROVE  FALSE
      BY DEF SomeWinner
    <2>1. claims = {}
      <3>1. ASSUME NEW r \in claims PROVE FALSE
        <4>1. r.env \in Envelopes /\ quote[r.env] # Unissued
          BY DEF Inv, TypeOK, Row, ClaimsAuthentic, Authentic
        <4>2. r.env = e
          BY <4>1
        <4> QED BY <4>2 DEF NoWinner, EnvelopesCollide
      <3> QED BY <3>1
    <2>2. Payload[e].parent = None
      BY <2>1 DEF NoWinner, ParentAccepted
    <2>3. Awaited(e)
      BY <2>1, <2>2 DEF NoWinner, Awaited
    <2> QED BY <2>3 DEF WinnerInv, SomeoneOnTheWay, OnItsWay, NoWinner
  <1> QED BY <1>1, SpecInv, WinnerInvHolds, PTL
=============================================================================
