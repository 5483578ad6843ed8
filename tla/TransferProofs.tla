--------------------------- MODULE TransferProofs ---------------------------
(***************************************************************************)
(* A job on its way to the worker: the bundle the controller publishes and *)
(* the copy that ingress takes of it.  The two halves share no state; each *)
(* has an inductive invariant and a proof of its own.                      *)
(***************************************************************************)
EXTENDS JobBundle, Ingress, TLAPS

(***************************************************************************)
(* Publication of a bundle for any number of writers and readers.  The     *)
(* invariants are not inductive: they do not say how far a writer that is  *)
(* still publishing has come, nor that it is alone.  BundleIInv adds that  *)
(* a writer past mkdir owns the target, alone, and that what the target    *)
(* holds is what its progress says.                                        *)
(***************************************************************************)
\* Writers that have reserved the target and are still at it, or returned.
Owns(w) == writer[w] \in {"blobs", "manifest", "syncing", "verifying", "receipt"}

\* A reader past the manifest has one.
HasManifest ==
    \A r \in Readers : reader[r] = "blobs" => read[r].manifest # None

\* How far each owner has come.
Progress ==
    \A w \in Writers :
        /\ Owns(w) => target.dir /\ \A v \in Writers : Owns(v) => v = w
        /\ writer[w] = "blobs" => target.blobs = None /\ target.manifest = None
        /\ writer[w] = "manifest" => target.blobs = w /\ target.manifest = None
        /\ writer[w] \in {"syncing", "verifying", "receipt"} => target = Whole(w)
        /\ writer[w] \in {"verifying", "receipt"} => durable = Whole(w)

\* The inductive invariant.
BundleIInv ==
    BundleTypeOK /\ Progress /\ HasManifest /\ ReadyMeansWhole /\ LoadedIsOneBundle

\* Nothing is published before a writer has begun.
LEMMA BundleInitInv == BundleInit => BundleIInv
<1> SUFFICES ASSUME BundleInit PROVE BundleIInv
  OBVIOUS
<1>1. Absent \in Target
  BY DEF Absent, Target
<1>2. BundleTypeOK
  BY <1>1 DEF BundleInit, BundleTypeOK
<1>3. Progress /\ HasManifest /\ LoadedIsOneBundle
  BY DEF BundleInit, Progress, Owns, HasManifest, LoadedIsOneBundle
<1>4. ReadyMeansWhole
  BY DEF BundleInit, ReadyMeansWhole, Absent
<1> QED
  BY <1>2, <1>3, <1>4 DEF BundleIInv

\* Every step keeps the types.
LEMMA BundleTypeStep == BundleIInv /\ [BundleNext]_bundleVars => BundleTypeOK'
<1> SUFFICES ASSUME BundleIInv, [BundleNext]_bundleVars PROVE BundleTypeOK'
  OBVIOUS
<1> USE BundleAssumption
     DEF BundleIInv, BundleTypeOK, Progress, Owns, Target, WriterMoves, ReaderMoves
<1>1. CASE UNCHANGED bundleVars
  BY <1>1 DEF bundleVars
<1>2. ASSUME NEW w \in Writers, Begin(w) PROVE BundleTypeOK'
  BY <1>2 DEF Begin
<1>3. ASSUME NEW w \in Writers, Stage(w) PROVE BundleTypeOK'
  BY <1>3 DEF Stage
<1>4. ASSUME NEW w \in Writers, Reserve(w) PROVE BundleTypeOK'
  BY <1>4 DEF Reserve
<1>5. ASSUME NEW w \in Writers, MoveBlobs(w) PROVE BundleTypeOK'
  BY <1>5 DEF MoveBlobs
<1>6. ASSUME NEW w \in Writers, MoveManifest(w) PROVE BundleTypeOK'
  BY <1>6 DEF MoveManifest
<1>7. ASSUME NEW w \in Writers, SyncTarget(w) PROVE BundleTypeOK'
  BY <1>7 DEF SyncTarget
<1>8. ASSUME NEW w \in Writers, Finish(w) PROVE BundleTypeOK'
  BY <1>8 DEF Finish
<1>9. ASSUME NEW w \in Writers, WriterFails(w) PROVE BundleTypeOK'
  BY <1>9 DEF WriterFails
<1>10. ASSUME NEW w \in Writers, Die(w) PROVE BundleTypeOK'
  BY <1>10 DEF Die
<1>11. ASSUME NEW r \in Readers, ReadManifest(r) PROVE BundleTypeOK'
  BY <1>11 DEF ReadManifest
<1>12. ASSUME NEW r \in Readers, ReadBlobs(r) PROVE BundleTypeOK'
  BY <1>12 DEF ReadBlobs
<1>13. ASSUME NEW r \in Readers, ReaderFails(r) PROVE BundleTypeOK'
  BY <1>13 DEF ReaderFails
<1>14. CASE LosePower
  BY <1>14 DEF LosePower, Survivors
<1> QED
  BY <1>1, <1>2, <1>3, <1>4, <1>5, <1>6, <1>7, <1>8, <1>9, <1>10, <1>11, <1>12, <1>13, <1>14
  DEF BundleNext, Write, Load

\* Every step keeps the invariant.
LEMMA BundleStep == BundleIInv /\ [BundleNext]_bundleVars => BundleIInv'
<1> SUFFICES ASSUME BundleIInv, [BundleNext]_bundleVars PROVE BundleIInv'
  OBVIOUS
<1>0. BundleTypeOK /\ BundleTypeOK'
  BY BundleTypeStep DEF BundleIInv
<1> USE <1>0, BundleAssumption
     DEF BundleIInv, BundleTypeOK, Target, Progress, Owns, Whole, HasManifest,
         ReadyMeansWhole,
         LoadedIsOneBundle, WriterMoves, ReaderMoves
<1>1. CASE UNCHANGED bundleVars
  BY <1>1 DEF bundleVars
<1>2. ASSUME NEW w \in Writers, Begin(w) PROVE BundleIInv'
  BY <1>2 DEF Begin
<1>3. ASSUME NEW w \in Writers, Stage(w) PROVE BundleIInv'
  BY <1>3 DEF Stage
<1>4. ASSUME NEW w \in Writers, Reserve(w) PROVE BundleIInv'
  BY <1>4 DEF Reserve
<1>5. ASSUME NEW w \in Writers, MoveBlobs(w) PROVE BundleIInv'
  BY <1>5 DEF MoveBlobs
<1>6. ASSUME NEW w \in Writers, MoveManifest(w) PROVE BundleIInv'
  <2>1. target' = Whole(w)
    BY <1>6 DEF MoveManifest
  <2>2. ReadyMeansWhole' /\ LoadedIsOneBundle' /\ HasManifest'
    BY <1>6, <2>1 DEF MoveManifest
  <2>3. Progress'
    <3>1. writer'[w] = "syncing"
      BY <1>6 DEF MoveManifest
    <3>2. \A v \in Writers : v # w => writer'[v] = writer[v] /\ ~Owns(v)
      BY <1>6 DEF MoveManifest
    <3>3. \A v \in Writers : Owns(v)' <=> v = w
      BY <3>1, <3>2
    <3>4. target'.dir
      BY <2>1
    <3>5. ASSUME NEW v \in Writers, v # w
          PROVE  writer'[v] \notin {"blobs", "manifest", "syncing", "verifying", "receipt"}
      BY <3>2, <3>5
    <3> HIDE DEF BundleIInv, BundleTypeOK, Whole, ReadyMeansWhole,
                 LoadedIsOneBundle, HasManifest
    <3>6. writer'[w] = "syncing" /\ target' = Whole(w)' /\ target'.dir
      BY <2>1, <3>1, <3>4 DEF Whole
    <3> QED
      BY <3>3, <3>5, <3>6
  <2> QED
    BY <2>2, <2>3
<1>7. ASSUME NEW w \in Writers, SyncTarget(w) PROVE BundleIInv'
  BY <1>7 DEF SyncTarget
<1>8. ASSUME NEW w \in Writers, Finish(w) PROVE BundleIInv'
  BY <1>8 DEF Finish
<1>9. ASSUME NEW w \in Writers, WriterFails(w) PROVE BundleIInv'
  BY <1>9 DEF WriterFails
<1>10. ASSUME NEW w \in Writers, Die(w) PROVE BundleIInv'
  BY <1>10 DEF Die
<1>11. ASSUME NEW r \in Readers, ReadManifest(r) PROVE BundleIInv'
  BY <1>11 DEF ReadManifest
<1>12. ASSUME NEW r \in Readers, ReadBlobs(r) PROVE BundleIInv'
  BY <1>12 DEF ReadBlobs
<1>13. ASSUME NEW r \in Readers, ReaderFails(r) PROVE BundleIInv'
  BY <1>13 DEF ReaderFails
<1>14. CASE LosePower
  BY <1>14 DEF LosePower, Survivors
<1> QED
  BY <1>1, <1>2, <1>3, <1>4, <1>5, <1>6, <1>7, <1>8, <1>9, <1>10, <1>11, <1>12, <1>13, <1>14
  DEF BundleNext, Write, Load

\* The invariant holds in every reachable state.
THEOREM BundleInvariant == BundleSpec => []BundleIInv
  BY BundleInitInv, BundleStep, PTL DEF BundleSpec

\* write_evaluation_job_bundle and load_evaluation_job_bundle keep the types.
THEOREM BundleTypes == BundleSpec => []BundleTypeOK
<1>1. BundleIInv => BundleTypeOK
  BY DEF BundleIInv
<1> QED BY <1>1, BundleInvariant, PTL

\* _publish_staged_bundle: the manifest marks a complete bundle.
THEOREM BundleReadiness == BundleSpec => []ReadyMeansWhole
<1>1. BundleIInv => ReadyMeansWhole
  BY DEF BundleIInv
<1> QED BY <1>1, BundleInvariant, PTL

\* load_evaluation_job_bundle never mixes two bundles.
THEOREM BundleLoads == BundleSpec => []LoadedIsOneBundle
<1>1. BundleIInv => LoadedIsOneBundle
  BY DEF BundleIInv
<1> QED BY <1>1, BundleInvariant, PTL

\* A bundle whose receipt was returned is complete and survives.
THEOREM BundleDurable == BundleSpec => []ReceiptIsDurable
<1>1. BundleIInv => ReceiptIsDurable
  BY DEF BundleIInv, Progress, ReceiptIsDurable
<1> QED BY <1>1, BundleInvariant, PTL

(***************************************************************************)
(* Ingress for any number of calls and claims and any retry limit.  The    *)
(* invariants say only how calls end; IngressIInv adds what a call that is *)
(* still running has established: its claim is committed, the object it is *)
(* about to return has the name, and a staging directory exists only where *)
(* the call can still discard or publish it.                               *)
(***************************************************************************)
\* What each place of a call implies about store and disk.
Established ==
    \A c \in Calls :
        /\ at[c] \in (Running \ {"verify"}) \cup {"returned"} => claim[c] \in committed
        /\ at[c] \in {"sync", "check", "resync", "returned"} => store[claim[c]] = "object"
        /\ at[c] \in {"check", "returned"} => disk[claim[c]] = "object"
        /\ at[c] = "existing" => store[claim[c]] # "absent"
        /\ at[c] \in {"verify", "open", "stage", "sync", "check"} \cup Refusals => ~staged[c]
        /\ at[c] = "failed" => fault[c]

\* What has a foreign name keeps it through a loss of power.
ForeignIsDurable == \A k \in Claims : store[k] = "foreign" => disk[k] = "foreign"

\* The inductive invariant.
IngressIInv ==
    /\ IngressTypeOK
    /\ Established
    /\ ForeignIsDurable
    /\ UndisturbedCallReturns
    /\ StagingIsDiscarded

\* Before any call, nothing is published or staged.
LEMMA IngressInitInv == IngressInit => IngressIInv
<1> SUFFICES ASSUME IngressInit PROVE IngressIInv
  OBVIOUS
<1> USE IngressAssumption DEF IngressInit, Running, Endings, Refusals
<1>1. /\ store \in [Claims -> {"absent", "foreign", "object"}]
      /\ disk \in [Claims -> {"absent", "foreign", "object"}]
  OBVIOUS
<1>2. IngressTypeOK
  <2>1. /\ staged \in [Calls -> BOOLEAN]
        /\ fault \in [Calls -> BOOLEAN]
    BY Zenon
  <2>2. tries \in [Calls -> 0..Retries]
    OBVIOUS
  <2>3. at \in [Calls -> Running \cup Endings]
    OBVIOUS
  <2> QED
    BY <1>1, <2>1, <2>2, <2>3 DEF IngressTypeOK
<1>3. Established
  BY DEF Established
<1>4. ForeignIsDurable /\ UndisturbedCallReturns /\ StagingIsDiscarded
  BY DEF ForeignIsDurable, UndisturbedCallReturns, StagingIsDiscarded
<1> QED
  BY <1>2, <1>3, <1>4 DEF IngressIInv

\* Every step keeps the types.
LEMMA IngressTypeStep == IngressTypeOK /\ [IngressNext]_ingressVars => IngressTypeOK'
<1> SUFFICES ASSUME IngressTypeOK, [IngressNext]_ingressVars PROVE IngressTypeOK'
  OBVIOUS
<1> USE IngressAssumption DEF IngressTypeOK, Running, Endings, Refusals, Go, world
<1>1. CASE UNCHANGED ingressVars
  BY <1>1 DEF ingressVars
<1>2. ASSUME NEW c \in Calls, VerifyClaim(c) PROVE IngressTypeOK'
  BY <1>2 DEF VerifyClaim
<1>3. ASSUME NEW c \in Calls, OpenSource(c) PROVE IngressTypeOK'
  BY <1>3 DEF OpenSource
<1>4. ASSUME NEW c \in Calls, OpenAgain(c) PROVE IngressTypeOK'
  BY <1>4 DEF OpenAgain
<1>5. ASSUME NEW c \in Calls, StageCopy(c) PROVE IngressTypeOK'
  BY <1>5 DEF StageCopy
<1>6. ASSUME NEW c \in Calls, Rename(c) PROVE IngressTypeOK'
  <2>1. CASE store[claim[c]] = "absent"
    <3>1. staged' = [staged EXCEPT ![c] = FALSE]
      BY <1>6, <2>1 DEF Rename
    <3>2. staged' \in [Calls -> BOOLEAN]
      BY <3>1
    <3>3. store' \in [Claims -> {"absent", "foreign", "object"}]
      BY <1>6, <2>1 DEF Rename
    <3> QED
      BY <1>6, <2>1, <3>2, <3>3 DEF Rename
  <2>2. CASE store[claim[c]] # "absent"
    BY <1>6, <2>2 DEF Rename
  <2> QED
    BY <2>1, <2>2
<1>7. ASSUME NEW c \in Calls, OpenExisting(c) PROVE IngressTypeOK'
  BY <1>7 DEF OpenExisting, EndUnpublished, Discard, DiscardFails
<1>8. ASSUME NEW c \in Calls, ReturnExisting(c) PROVE IngressTypeOK'
  BY <1>8 DEF ReturnExisting, Synced, EndUnpublished, Discard, DiscardFails
<1>9. ASSUME NEW c \in Calls, SyncRoot(c) PROVE IngressTypeOK'
  BY <1>9 DEF SyncRoot, Synced
<1>10. ASSUME NEW c \in Calls, ReturnPublished(c) PROVE IngressTypeOK'
  BY <1>10 DEF ReturnPublished
<1>11. ASSUME NEW c \in Calls, Fault(c) PROVE IngressTypeOK'
  BY <1>11 DEF Fault, FaultEndings
<1>12. ASSUME NEW c \in Calls, CallDies(c) PROVE IngressTypeOK'
  BY <1>12 DEF CallDies
<1>13. ASSUME NEW k \in Claims, CommitClaim(k) PROVE IngressTypeOK'
  BY <1>13 DEF CommitClaim
<1>14. ASSUME NEW k \in Claims, SpoolBreaks(k) PROVE IngressTypeOK'
  BY <1>14 DEF SpoolBreaks
<1>15. CASE PowerLost
  BY <1>15 DEF PowerLost
<1> QED
  BY <1>1, <1>2, <1>3, <1>4, <1>5, <1>6, <1>7, <1>8, <1>9, <1>10, <1>11, <1>12, <1>13, <1>14, <1>15
  DEF IngressNext, CallStep

\* Every step keeps the invariant.
LEMMA IngressStep == IngressIInv /\ [IngressNext]_ingressVars => IngressIInv'
<1> SUFFICES ASSUME IngressIInv, [IngressNext]_ingressVars PROVE IngressIInv'
  OBVIOUS
<1>0. IngressTypeOK /\ IngressTypeOK'
  BY IngressTypeStep DEF IngressIInv
<1> USE <1>0, IngressAssumption
     DEF IngressIInv, IngressTypeOK, Established, ForeignIsDurable, UndisturbedCallReturns,
         StagingIsDiscarded, Running, Endings, Refusals, Go, world
<1>1. CASE UNCHANGED ingressVars
  BY <1>1 DEF ingressVars
<1>2. ASSUME NEW c \in Calls, VerifyClaim(c) PROVE IngressIInv'
  BY <1>2 DEF VerifyClaim
<1>3. ASSUME NEW c \in Calls, OpenSource(c) PROVE IngressIInv'
  BY <1>3 DEF OpenSource
<1>4. ASSUME NEW c \in Calls, OpenAgain(c) PROVE IngressIInv'
  BY <1>4 DEF OpenAgain
<1>5. ASSUME NEW c \in Calls, StageCopy(c) PROVE IngressIInv'
  BY <1>5 DEF StageCopy
<1>6. ASSUME NEW c \in Calls, Rename(c) PROVE IngressIInv'
  BY <1>6 DEF Rename
<1>7. ASSUME NEW c \in Calls, OpenExisting(c) PROVE IngressIInv'
  BY <1>7 DEF OpenExisting, EndUnpublished, Discard, DiscardFails
<1>8. ASSUME NEW c \in Calls, ReturnExisting(c) PROVE IngressIInv'
  BY <1>8 DEF ReturnExisting, Synced, EndUnpublished, Discard, DiscardFails
<1>9. ASSUME NEW c \in Calls, SyncRoot(c) PROVE IngressIInv'
  BY <1>9 DEF SyncRoot, Synced
<1>10. ASSUME NEW c \in Calls, ReturnPublished(c) PROVE IngressIInv'
  BY <1>10 DEF ReturnPublished
<1>11. ASSUME NEW c \in Calls, Fault(c) PROVE IngressIInv'
  BY <1>11 DEF Fault, FaultEndings
<1>12. ASSUME NEW c \in Calls, CallDies(c) PROVE IngressIInv'
  BY <1>12 DEF CallDies
<1>13. ASSUME NEW k \in Claims, CommitClaim(k) PROVE IngressIInv'
  BY <1>13 DEF CommitClaim
<1>14. ASSUME NEW k \in Claims, SpoolBreaks(k) PROVE IngressIInv'
  BY <1>14 DEF SpoolBreaks
<1>15. CASE PowerLost
  BY <1>15 DEF PowerLost
<1> QED
  BY <1>1, <1>2, <1>3, <1>4, <1>5, <1>6, <1>7, <1>8, <1>9, <1>10, <1>11, <1>12, <1>13, <1>14, <1>15
  DEF IngressNext, CallStep

\* The invariant holds in every reachable state.
THEOREM IngressInvariant == IngressSpec => []IngressIInv
  BY IngressInitInv, IngressStep, PTL DEF IngressSpec

\* Types and the retry limit of _openat2 are kept.
THEOREM IngressTypes == IngressSpec => []IngressTypeOK
<1>1. IngressIInv => IngressTypeOK
  BY DEF IngressIInv
<1> QED BY <1>1, IngressInvariant, PTL

\* A returned receipt of ingress_claimed_evaluation_job is for a committed claim
\* and a durable object.
THEOREM IngressDurable == IngressSpec => []ReturnedIsDurable
<1>1. IngressIInv => ReturnedIsDurable
  BY DEF IngressIInv, Established, ReturnedIsDurable
<1> QED BY <1>1, IngressInvariant, PTL

\* A repeated call succeeds however the earlier ones ended.
THEOREM IngressIdempotent == IngressSpec => []UndisturbedCallReturns
<1>1. IngressIInv => UndisturbedCallReturns
  BY DEF IngressIInv
<1> QED BY <1>1, IngressInvariant, PTL

\* _stage_and_publish leaves no staging directory unless a call failed it.
THEOREM IngressCleans == IngressSpec => []StagingIsDiscarded
<1>1. IngressIInv => StagingIsDiscarded
  BY DEF IngressIInv
<1> QED BY <1>1, IngressInvariant, PTL

\* renameat2 without replacement: no step but a loss of power changes what has
\* a name in the worker store.
THEOREM IngressNeverReplaces == IngressSpec => NeverReplaced
<1>1. IngressIInv /\ [IngressNext]_ingressVars =>
        [\A k \in Claims : store[k] # "absent" /\ store'[k] # store[k] =>
            lost' # lost /\ store'[k] = disk[k]]_ingressVars
  <2> SUFFICES ASSUME IngressIInv, IngressNext, NEW k \in Claims,
                      store[k] # "absent", store'[k] # store[k]
               PROVE lost' # lost /\ store'[k] = disk[k]
    OBVIOUS
  <2>1. ASSUME NEW c \in Calls, Rename(c) PROVE FALSE
    BY <2>1 DEF Rename, IngressIInv, IngressTypeOK
  <2>2. ASSUME NEW c \in Calls, CallStep(c) \/ Fault(c) \/ CallDies(c) PROVE FALSE
    BY <2>1, <2>2
    DEF CallStep, VerifyClaim, OpenSource, OpenAgain, StageCopy, OpenExisting,
        ReturnExisting, SyncRoot, ReturnPublished, Fault, CallDies
  <2>3. ASSUME NEW j \in Claims, CommitClaim(j) \/ SpoolBreaks(j) PROVE FALSE
    BY <2>3 DEF CommitClaim, SpoolBreaks
  <2>4. CASE PowerLost
    BY <2>4 DEF PowerLost, IngressIInv, IngressTypeOK
  <2> QED
    BY <2>2, <2>3, <2>4 DEF IngressNext
<1> QED
  BY <1>1, IngressInvariant, PTL DEF IngressSpec, NeverReplaced
=============================================================================
