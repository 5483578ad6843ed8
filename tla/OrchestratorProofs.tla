-------------------------- MODULE OrchestratorProofs --------------------------
(***************************************************************************)
(* For any number of controllers, claims, chunks and rewrites the launcher *)
(* is started at most once per claim, and from the expected bytes.         *)
(*                                                                         *)
(* LaunchedAtMostOnce is not inductive: it does not say who may be about   *)
(* to launch.  CallInv adds that a controller that launched or is about to *)
(* is the owner of its claim's committed receipt, and a receipt has one    *)
(* owner.  LaunchedIsExpected needs ArtifactInv, which follows the bytes   *)
(* from the digest check through the sealed copy to the launch, and the    *)
(* descriptors through every step.                                         *)
(***************************************************************************)
EXTENDS Orchestrator, FiniteSetTheorems, WellFoundedInduction, TLAPS

\* Who owns what, and how far each call is.
CallInv ==
    /\ \A c \in Controllers : at[c] = "verify" => receipt[c] = c
    /\ \A c \in Controllers :
          c \in launched \/ at[c] = "launch" => ledger[claim[c]] = c
    /\ \A c \in Controllers :
          at[c] \in {"start", "artifact", "stage", "guard", "admit"}
             \/ ending[c] = "raised" => \A k \in Claims : ledger[k] # c
    /\ \A c \in Controllers : at[c] # "ended" => ending[c] = "none"

\* Past the preflight.
Prepared == {"admit", "recover", "verify", "launch", "finalize"}

\* The descriptors of a call that has not ended, by the place it is at.
Holding(c) ==
    /\ at[c] = "start" => step[c] = "idle" /\ fds[c] = {}
    /\ at[c] = "artifact" =>
          /\ step[c] \in {"source", "failed"} => fds[c] = {}
          /\ step[c] \in {"stat", "read", "check", "copy"} => fds[c] = {"source"}
          /\ step[c] = "reopen" => fds[c] = {"source", "writable"}
          /\ step[c] = "retain" => fds[c] = {"source", "writable", "procfd", "sealed"}
          /\ step[c] = "ready" => fds[c] = {"sealed"}
          /\ step[c] # "idle"
    /\ at[c] = "stage" => fds[c] = {"sealed"}
    /\ at[c] = "guard" => fds[c] = {"sealed", "staged"}
    /\ at[c] \in {"stage", "guard"} \cup Prepared => step[c] = "ready"
    /\ at[c] \in {"start", "artifact", "stage", "guard"} => altered[c] = {}

\* The bytes of each call.
Carrying(c) ==
    /\ step[c] = "copy" => Expected(content[c])
    /\ step[c] \in {"reopen", "retain", "ready"} => Expected(copy[c])
    /\ c \in launched => at[c] = "ended" /\ Expected(copy[c])

\* What HeldExactly says of one call.
Exactly(c) ==
    /\ at[c] \in Prepared =>
          fds[c] = {"sealed", "staged"} /\ altered[c] = ProcessState
    /\ at[c] = "ended" => fds[c] = {} /\ altered[c] \subseteq told[c]

\* All of it, for one call and for every call.
Intact(c) == Holding(c) /\ Carrying(c) /\ Exactly(c)

ArtifactInv == \A c \in Controllers : Intact(c)

\* The inductive invariant.
OrchIInv == OrchTypeOK /\ CallInv /\ ArtifactInv

\* Before any controller has started, nothing is consumed, open or altered.
LEMMA OrchInitInv == OrchInit => OrchIInv
<1> SUFFICES ASSUME OrchInit PROVE OrchIInv
  OBVIOUS
<1> USE OrchestratorAssumption, ArtifactAssumption DEF OrchInit, ArtifactInit
<1>1. OrchTypeOK
  BY DEF OrchTypeOK, ArtifactTypes, HostTypes, CallTypes, Bytes
<1>2. CallInv
  BY DEF CallInv
<1>3. ArtifactInv
  BY DEF ArtifactInv, Intact, Holding, Carrying, Exactly, Prepared
<1> QED BY <1>1, <1>2, <1>3 DEF OrchIInv

\* Every step of preflight_inert_launcher_artifact keeps the types.
LEMMA ArtifactTypeStep ==
    ASSUME ArtifactTypes, NEW c \in Controllers, ArtifactStep(c)
    PROVE  ArtifactTypes'
<1> USE ArtifactAssumption DEF ArtifactTypes, Advance, Descriptors
<1>1. CASE DuplicateSource(c)
  BY <1>1 DEF DuplicateSource
<1>2. CASE StatBeforeRead(c)
  BY <1>2 DEF StatBeforeRead
<1>3. CASE ReadChunk(c)
  <2>1. Len(content[c]) + 1 \in 1 .. Chunks
    BY <1>3 DEF ReadChunk
  <2>2. Append(content[c], file[Len(content[c]) + 1]) \in Seq(Bytes)
    BY <2>1
  <2> QED BY <1>3, <2>2 DEF ReadChunk
<1>4. CASE StatAfterRead(c)
  BY <1>4 DEF StatAfterRead
<1>5. CASE CheckContent(c)
  BY <1>5 DEF CheckContent
<1>6. CASE WriteAndSeal(c)
  BY <1>6 DEF WriteAndSeal
<1>7. CASE ReopenReadOnly(c)
  BY <1>7 DEF ReopenReadOnly
<1>8. CASE RetainSealed(c)
  BY <1>8 DEF RetainSealed
<1>9. CASE GiveUp(c)
  BY <1>9 DEF GiveUp, Forget
<1> QED
  BY <1>1, <1>2, <1>3, <1>4, <1>5, <1>6, <1>7, <1>8, <1>9 DEF ArtifactStep

\* Every handler of every controller keeps the types.
LEMMA OrchTypeStep == OrchTypeOK /\ [OrchNext]_orchVars => OrchTypeOK'
<1> SUFFICES ASSUME OrchTypeOK, [OrchNext]_orchVars PROVE OrchTypeOK'
  OBVIOUS
<1>0. ArtifactTypes
  BY DEF OrchTypeOK
<1>h. HostTypes
  BY DEF OrchTypeOK
<1>k. ASSUME Keep PROVE ArtifactTypes' /\ HostTypes'
  BY <1>0, <1>h, <1>k DEF Keep, artifactVars, ArtifactTypes, HostTypes
<1>o. ASSUME NEW c \in Controllers, NEW set \in SUBSET Descriptors, OpenIs(c, set)
      PROVE  ArtifactTypes'
  BY <1>0, <1>o DEF OpenIs, ArtifactTypes
<1>r. ASSUME NEW c \in Controllers, Release(c) \/ CleanUp(c)
      PROVE  ArtifactTypes' /\ HostTypes'
  <2>1. ArtifactTypes'
    BY <1>o, <1>r DEF Release, CleanUp
  <2>2. HostTypes'
    BY <1>h, <1>r DEF Release, CleanUp, RestoreHost, HostTypes
  <2> QED BY <2>1, <2>2
<1>c. CallTypes
  BY DEF OrchTypeOK
<1>g. ASSUME ArtifactTypes', HostTypes', CallTypes' PROVE OrchTypeOK'
  BY <1>g DEF OrchTypeOK
<1> USE OrchestratorAssumption DEF CallTypes, Move, End
<1>1. CASE UNCHANGED orchVars
  BY <1>1 DEF orchVars, artifactVars, callVars, OrchTypeOK, ArtifactTypes, HostTypes
<1>2. CASE RewriteSource /\ UNCHANGED callVars
  BY <1>2 DEF RewriteSource, callVars, OrchTypeOK, ArtifactTypes, HostTypes
<1>3. ASSUME NEW c \in Controllers, VerifyInputs(c) PROVE OrchTypeOK'
  <2>1. ArtifactTypes' /\ HostTypes'
    BY <1>3, <1>0, <1>h DEF VerifyInputs, Advance, ArtifactTypes, HostTypes
  <2>2. CallTypes'
    BY <1>3, <1>c DEF VerifyInputs
  <2> QED BY <1>g, <2>1, <2>2
<1>4. ASSUME NEW c \in Controllers, PreflightArtifact(c) PROVE OrchTypeOK'
  <2>1. CASE ArtifactStep(c) /\ UNCHANGED callVars
    <3>1. ArtifactTypes'
      BY <2>1, <1>0, ArtifactTypeStep
    <3> QED BY <2>1, <3>1, <1>g, <1>h, <1>c DEF callVars, HostTypes
  <2>2. CASE UNCHANGED <<artifactVars, claim, ledger, altered, told, receipt,
                         launched>> /\ ~(ArtifactStep(c) /\ UNCHANGED callVars)
    <3>1. ArtifactTypes' /\ HostTypes'
      BY <2>2, <1>0, <1>h DEF artifactVars, ArtifactTypes, HostTypes
    <3>2. CallTypes'
      BY <1>4, <2>2, <1>c DEF PreflightArtifact
    <3> QED BY <1>g, <3>1, <3>2
  <2> QED BY <1>4, <2>1, <2>2 DEF PreflightArtifact
<1>5. ASSUME NEW c \in Controllers, StageExecutable(c) PROVE OrchTypeOK'
  <2>1. ArtifactTypes' /\ HostTypes'
    <3>1. fds[c] \cup {"staged"} \in SUBSET Descriptors
      BY <1>0 DEF ArtifactTypes, Descriptors
    <3>2. \E set \in SUBSET Descriptors : OpenIs(c, set)
      BY <1>5, <3>1 DEF StageExecutable
    <3> QED BY <1>5, <1>h, <1>o, <3>2 DEF StageExecutable, HostTypes
  <2>2. CallTypes'
    BY <1>5, <1>c DEF StageExecutable
  <2> QED BY <1>g, <2>1, <2>2
<1>6. ASSUME NEW c \in Controllers, PrepareHostGuard(c) PROVE OrchTypeOK'
  <2>1. ArtifactTypes'
    BY <1>6, <1>0, <1>o DEF PrepareHostGuard, artifactVars, ArtifactTypes
  <2>2. HostTypes'
    BY <1>6, <1>h DEF PrepareHostGuard, HostTypes
  <2>3. CallTypes'
    BY <1>6, <1>c DEF PrepareHostGuard
  <2> QED BY <1>g, <2>1, <2>2, <2>3
<1>7. ASSUME NEW c \in Controllers, Admit(c) PROVE OrchTypeOK'
  <2>1. ArtifactTypes' /\ HostTypes'
    BY <1>7, <1>k, <1>r DEF Admit
  <2>2. CallTypes'
    BY <1>7, <1>c DEF Admit, Taken
  <2> QED BY <1>g, <2>1, <2>2
<1>8. ASSUME NEW c \in Controllers, Recover(c) PROVE OrchTypeOK'
  <2>1. ArtifactTypes' /\ HostTypes'
    BY <1>8, <1>k, <1>r DEF Recover
  <2>2. CallTypes'
    BY <1>8, <1>c DEF Recover, Committed
  <2> QED BY <1>g, <2>1, <2>2
<1>9. ASSUME NEW c \in Controllers, Verify(c) PROVE OrchTypeOK'
  <2>1. ArtifactTypes' /\ HostTypes'
    BY <1>9, <1>k, <1>r DEF Verify
  <2>2. CallTypes'
    BY <1>9, <1>c DEF Verify
  <2> QED BY <1>g, <2>1, <2>2
<1>10. ASSUME NEW c \in Controllers, Launch(c) PROVE OrchTypeOK'
  <2>1. CallTypes'
    BY <1>10, <1>c DEF Launch
  <2> QED BY <1>g, <1>r, <1>10, <2>1 DEF Launch
<1>11. ASSUME NEW c \in Controllers, FinalizeWithoutLaunch(c) PROVE OrchTypeOK'
  <2>1. CallTypes'
    BY <1>11, <1>c DEF FinalizeWithoutLaunch
  <2> QED BY <1>g, <1>r, <1>11, <2>1 DEF FinalizeWithoutLaunch
<1>12. ASSUME NEW c \in Controllers, Die(c) PROVE OrchTypeOK'
  <2>1. ArtifactTypes' /\ HostTypes'
    BY <1>12, <1>o, <1>h DEF Die, HostTypes
  <2>2. CallTypes'
    BY <1>12, <1>c DEF Die
  <2> QED BY <1>g, <2>1, <2>2
<1> QED
  BY <1>1, <1>2, <1>3, <1>4, <1>5, <1>6, <1>7, <1>8, <1>9, <1>10, <1>11,
     <1>12 DEF OrchNext

\* A call nothing of which changed holds and carries what it did.
LEMMA OtherKept ==
    ASSUME OrchIInv, NEW d \in Controllers, at'[d] = at[d], step'[d] = step[d],
           fds'[d] = fds[d], altered'[d] = altered[d], told'[d] = told[d],
           content'[d] = content[d], copy'[d] = copy[d],
           d \in launched' <=> d \in launched
    PROVE  Intact(d)'
<1>1. Holding(d) /\ Carrying(d) /\ Exactly(d)
  BY DEF OrchIInv, ArtifactInv, Intact
<1>2. Holding(d)'
  BY <1>1 DEF Holding
<1>3. Carrying(d)'
  BY <1>1 DEF Carrying, Expected
<1>4. Exactly(d)'
  BY <1>1 DEF Exactly
<1> QED BY <1>2, <1>3, <1>4 DEF Intact

\* Every step of the preflight keeps what a call carries and holds.
LEMMA ArtifactStepInv ==
    ASSUME OrchIInv, NEW c \in Controllers, at[c] = "artifact",
           ArtifactStep(c), UNCHANGED callVars
    PROVE  ArtifactInv'
<1> USE DEF OrchIInv, OrchTypeOK, ArtifactTypes, CallTypes, callVars, Advance
<1>1. \A d \in Controllers \ {c} :
         /\ step'[d] = step[d] /\ fds'[d] = fds[d]
         /\ content'[d] = content[d] /\ copy'[d] = copy[d]
  BY DEF ArtifactStep, DuplicateSource, StatBeforeRead, ReadChunk,
         StatAfterRead, CheckContent, WriteAndSeal, ReopenReadOnly,
         RetainSealed, GiveUp, Forget
<1>2. \A d \in Controllers \ {c} : Intact(d)'
  BY <1>1, OtherKept
<1>3. c \notin launched
  BY DEF ArtifactInv, Intact, Carrying
<1>4. Holding(c) /\ Carrying(c)
  BY DEF ArtifactInv, Intact
<1>5. Holding(c)'
  <2> USE <1>4 DEF Holding, Prepared
  <2>1. CASE DuplicateSource(c)
    BY <2>1 DEF DuplicateSource
  <2>2. CASE StatBeforeRead(c)
    BY <2>2 DEF StatBeforeRead
  <2>3. CASE ReadChunk(c)
    BY <2>3 DEF ReadChunk
  <2>4. CASE StatAfterRead(c)
    BY <2>4 DEF StatAfterRead
  <2>5. CASE CheckContent(c)
    BY <2>5 DEF CheckContent
  <2>6. CASE WriteAndSeal(c)
    BY <2>6 DEF WriteAndSeal
  <2>7. CASE ReopenReadOnly(c)
    BY <2>7 DEF ReopenReadOnly
  <2>8. CASE RetainSealed(c)
    BY <2>8 DEF RetainSealed
  <2>9. CASE step[c] \notin {"idle", "ready", "failed"} /\ GiveUp(c)
    BY <2>9 DEF GiveUp
  <2> QED
    BY <2>1, <2>2, <2>3, <2>4, <2>5, <2>6, <2>7, <2>8, <2>9 DEF ArtifactStep
<1>6. Carrying(c)'
  <2> USE <1>3, <1>4 DEF Carrying
  <2>1. CASE DuplicateSource(c) \/ StatBeforeRead(c) \/ ReadChunk(c) \/ StatAfterRead(c)
    BY <2>1 DEF DuplicateSource, StatBeforeRead, ReadChunk, StatAfterRead
  <2>2. CASE CheckContent(c)
    BY <2>2 DEF CheckContent, DigestMatches, Expected
  <2>3. CASE WriteAndSeal(c)
    BY <2>3 DEF WriteAndSeal, Expected
  <2>4. CASE ReopenReadOnly(c)
    BY <2>4 DEF ReopenReadOnly, Expected
  <2>5. CASE RetainSealed(c)
    BY <2>5 DEF RetainSealed, Expected
  <2>6. CASE GiveUp(c)
    BY <2>6 DEF GiveUp
  <2> QED
    BY <2>1, <2>2, <2>3, <2>4, <2>5, <2>6 DEF ArtifactStep
<1>7. Exactly(c)'
  BY DEF Exactly, Prepared
<1> QED BY <1>2, <1>5, <1>6, <1>7 DEF ArtifactInv, Intact

\* Every handler of every controller keeps ownership and progress.
LEMMA CallStep == OrchIInv /\ [OrchNext]_orchVars => CallInv'
<1> SUFFICES ASSUME OrchIInv, [OrchNext]_orchVars PROVE CallInv'
  OBVIOUS
<1>0. CallTypes /\ CallTypes'
  BY OrchTypeStep DEF OrchIInv, OrchTypeOK
<1>i. CallInv
  BY DEF OrchIInv
<1> USE <1>0, <1>i, OrchestratorAssumption DEF CallTypes, CallInv, Move, End
<1>1. CASE UNCHANGED callVars
  BY <1>1 DEF callVars
<1>3. ASSUME NEW c \in Controllers, VerifyInputs(c) PROVE CallInv'
  BY <1>3 DEF VerifyInputs
<1>4. ASSUME NEW c \in Controllers, PreflightArtifact(c) PROVE CallInv'
  BY <1>1, <1>4 DEF PreflightArtifact
<1>5. ASSUME NEW c \in Controllers, StageExecutable(c) PROVE CallInv'
  BY <1>5 DEF StageExecutable
<1>6. ASSUME NEW c \in Controllers, PrepareHostGuard(c) PROVE CallInv'
  BY <1>6 DEF PrepareHostGuard
<1>7. ASSUME NEW c \in Controllers, Admit(c) PROVE CallInv'
  BY <1>7 DEF Admit, Taken
<1>8. ASSUME NEW c \in Controllers, Recover(c) PROVE CallInv'
  BY <1>8 DEF Recover, Committed
<1>9. ASSUME NEW c \in Controllers, Verify(c) PROVE CallInv'
  BY <1>9 DEF Verify, Committed
<1>10. ASSUME NEW c \in Controllers, Launch(c) PROVE CallInv'
  BY <1>10 DEF Launch
<1>11. ASSUME NEW c \in Controllers, FinalizeWithoutLaunch(c) PROVE CallInv'
  BY <1>11 DEF FinalizeWithoutLaunch
<1>12. ASSUME NEW c \in Controllers, Die(c) PROVE CallInv'
  BY <1>12 DEF Die
<1> QED
  BY <1>1, <1>3, <1>4, <1>5, <1>6, <1>7, <1>8, <1>9, <1>10, <1>11, <1>12
     DEF OrchNext, orchVars

\* A call that ends by releasing what it holds keeps the rest of the invariant.
LEMMA EndStep ==
    ASSUME OrchIInv, OrchTypeOK', NEW c \in Controllers, at[c] # "ended",
           at' = [at EXCEPT ![c] = "ended"], OpenIs(c, {}),
           altered'[c] \subseteq told'[c],
           \A d \in Controllers \ {c} : altered'[d] = altered[d] /\ told'[d] = told[d],
           launched' = launched \/ (launched' = launched \cup {c} /\ at[c] = "launch")
    PROVE  ArtifactInv'
<1>1. /\ at \in [Controllers -> {"start", "artifact", "stage", "guard", "admit",
                                "recover", "verify", "launch", "finalize",
                                "ended"}]
      /\ fds \in [Controllers -> SUBSET Descriptors]
  BY DEF OrchIInv, OrchTypeOK, CallTypes, ArtifactTypes
<1>2. at'[c] = "ended" /\ fds'[c] = {}
  BY <1>1 DEF OpenIs
<1>3. ASSUME NEW d \in Controllers \ {c} PROVE Intact(d)'
  <2>1. at'[d] = at[d] /\ fds'[d] = fds[d]
    BY <1>1 DEF OpenIs
  <2>2. step'[d] = step[d] /\ content'[d] = content[d] /\ copy'[d] = copy[d]
    BY DEF OpenIs
  <2>3. d \in launched' <=> d \in launched
    OBVIOUS
  <2> QED BY <2>1, <2>2, <2>3, OtherKept
<1>4. Holding(c)'
  BY <1>2 DEF Holding, Prepared
<1>5. Carrying(c)'
  <2>1. Holding(c) /\ Carrying(c)
    BY DEF OrchIInv, ArtifactInv, Intact
  <2>2. at[c] = "launch" => step[c] = "ready"
    BY <2>1 DEF Holding, Prepared
  <2>3. c \in launched' => Expected(copy[c])
    BY <2>1, <2>2 DEF Carrying
  <2>4. step' = step /\ content' = content /\ copy' = copy
    BY DEF OpenIs
  <2> QED BY <1>2, <2>1, <2>3, <2>4 DEF Carrying, Expected
<1>6. Exactly(c)'
  BY <1>2 DEF Exactly, Prepared
<1> QED BY <1>3, <1>4, <1>5, <1>6 DEF ArtifactInv, Intact

\* Neither does a step of a call past its preflight that keeps what it holds.
LEMMA KeepStep ==
    ASSUME OrchIInv, OrchTypeOK', NEW c \in Controllers, at[c] \in Prepared,
           NEW place \in Prepared, at' = [at EXCEPT ![c] = place], Keep,
           UNCHANGED launched
    PROVE  ArtifactInv'
<1>1. /\ at'[c] = place
      /\ \A d \in Controllers \ {c} : at'[d] = at[d]
  BY DEF OrchIInv, OrchTypeOK, CallTypes
<1>2. UNCHANGED <<step, content, fds, copy, altered, told, launched>>
  BY DEF Keep, artifactVars
<1>3. \A d \in Controllers \ {c} : Intact(d)'
  BY <1>1, <1>2, OtherKept
<1>4. Holding(c) /\ Carrying(c) /\ Exactly(c)
  BY DEF OrchIInv, ArtifactInv, Intact
<1>5. Holding(c)'
  BY <1>1, <1>2, <1>4 DEF Holding, Prepared
<1>6. Carrying(c)'
  BY <1>1, <1>2, <1>4 DEF Carrying, Expected, Prepared
<1>7. Exactly(c)'
  BY <1>1, <1>2, <1>4 DEF Exactly, Prepared
<1> QED BY <1>3, <1>5, <1>6, <1>7 DEF ArtifactInv, Intact

\* Every handler of every controller keeps what calls hold and carry.
LEMMA HoldStep ==
    OrchIInv /\ [OrchNext]_orchVars => ArtifactInv'
<1> SUFFICES ASSUME OrchIInv, [OrchNext]_orchVars
             PROVE  ArtifactInv'
  OBVIOUS
<1>0. OrchTypeOK /\ OrchTypeOK'
  BY OrchTypeStep DEF OrchIInv
<1>r. ASSUME NEW c \in Controllers, at[c] # "ended", Release(c) \/ CleanUp(c),
             at' = [at EXCEPT ![c] = "ended"],
             launched' = launched
                \/ (launched' = launched \cup {c} /\ at[c] = "launch")
      PROVE  ArtifactInv'
  <2>1. /\ altered'[c] \subseteq told'[c]
        /\ \A d \in Controllers \ {c} :
              altered'[d] = altered[d] /\ told'[d] = told[d]
    BY <1>0, <1>r DEF Release, CleanUp, RestoreHost, OrchTypeOK, HostTypes
  <2>2. OpenIs(c, {})
    BY <1>r DEF Release, CleanUp
  <2> QED BY <1>0, <1>r, <2>1, <2>2, EndStep
<1>1. CASE UNCHANGED orchVars
  BY <1>1, OtherKept DEF orchVars, artifactVars, callVars, ArtifactInv
<1>2. CASE RewriteSource /\ UNCHANGED callVars
  BY <1>2, OtherKept DEF RewriteSource, callVars, ArtifactInv
<1>3. ASSUME NEW c \in Controllers, VerifyInputs(c)
      PROVE  ArtifactInv'
  <2>1. ASSUME NEW d \in Controllers \ {c} PROVE Intact(d)'
    <3>1. at'[d] = at[d] /\ step'[d] = step[d]
      BY <1>0, <1>3
         DEF VerifyInputs, OrchTypeOK, ArtifactTypes, CallTypes, Move, End, Advance
    <3>2. UNCHANGED <<fds, altered, told, content, copy, launched>>
      BY <1>3 DEF VerifyInputs
    <3> QED BY <3>1, <3>2, OtherKept
  <2>2. Holding(c) /\ Carrying(c)
    BY DEF OrchIInv, ArtifactInv, Intact
  <2>3. /\ \/ at'[c] = "artifact" /\ step'[c] = "source"
           \/ at'[c] = "ended" /\ step'[c] = "idle"
        /\ fds'[c] = {} /\ altered'[c] = {} /\ c \notin launched'
    BY <1>0, <1>3, <2>2
       DEF VerifyInputs, OrchTypeOK, ArtifactTypes, CallTypes, Move, End, Advance,
           Holding, Carrying
  <2>4. Holding(c)'
    BY <2>3 DEF Holding, Prepared
  <2>5. Carrying(c)'
    BY <2>3 DEF Carrying
  <2>6. Exactly(c)'
    BY <2>3 DEF Exactly, Prepared
  <2> QED BY <2>1, <2>4, <2>5, <2>6 DEF ArtifactInv, Intact
<1>4. ASSUME NEW c \in Controllers, PreflightArtifact(c)
      PROVE  ArtifactInv'
  <2>1. CASE at[c] = "artifact" /\ ArtifactStep(c) /\ UNCHANGED callVars
    BY <2>1, ArtifactStepInv
  <2>2. CASE ~(at[c] = "artifact" /\ ArtifactStep(c) /\ UNCHANGED callVars)
    <3>1. \A d \in Controllers \ {c} : Intact(d)'
      BY <1>0, <1>4, <2>2, OtherKept
         DEF PreflightArtifact, artifactVars, OrchTypeOK, CallTypes, Move, End
    <3>2. Holding(c) /\ Carrying(c)
      BY DEF OrchIInv, ArtifactInv, Intact
    <3>3. /\ at[c] = "artifact"
          /\ \/ at'[c] = "stage" /\ step[c] = "ready"
             \/ at'[c] = "ended" /\ step[c] = "failed"
          /\ UNCHANGED <<step, fds, altered, copy, content, launched>>
      BY <1>0, <1>4, <2>2
         DEF PreflightArtifact, artifactVars, OrchTypeOK, CallTypes, Move, End
    <3>4. /\ altered[c] = {} /\ c \notin launched
          /\ step[c] = "ready" => fds[c] = {"sealed"} /\ Expected(copy[c])
          /\ step[c] = "failed" => fds[c] = {}
      BY <3>2, <3>3 DEF Holding, Carrying
    <3>5. Holding(c)'
      BY <3>3, <3>4 DEF Holding, Prepared
    <3>6. Carrying(c)'
      BY <3>3, <3>4 DEF Carrying, Expected
    <3>7. Exactly(c)'
      BY <3>3, <3>4 DEF Exactly, Prepared
    <3> QED BY <3>1, <3>5, <3>6, <3>7 DEF ArtifactInv, Intact
  <2> QED BY <2>1, <2>2
<1>5. ASSUME NEW c \in Controllers, StageExecutable(c)
      PROVE  ArtifactInv'
  <2>1. CASE End(c, "raised") /\ OpenIs(c, {}) /\ UNCHANGED <<altered, told>>
    <3>1. altered[c] = {}
      BY <1>5 DEF StageExecutable, OrchIInv, ArtifactInv, Intact, Holding
    <3> QED BY <1>0, <1>5, <2>1, <3>1, EndStep DEF StageExecutable, Move, End
  <2>2. CASE /\ Move(c, "guard") /\ UNCHANGED <<altered, told, ending>>
             /\ OpenIs(c, fds[c] \cup {"staged"})
    <3>1. /\ at[c] = "stage" /\ at' = [at EXCEPT ![c] = "guard"]
          /\ fds' = [fds EXCEPT ![c] = @ \cup {"staged"}]
          /\ UNCHANGED <<step, content, copy, altered, told, launched>>
      BY <1>5, <2>2 DEF StageExecutable, Move, OpenIs
    <3>2. \A d \in Controllers \ {c} : Intact(d)'
      BY <1>0, <3>1, OtherKept DEF OrchTypeOK, CallTypes, ArtifactTypes
    <3>3. Holding(c) /\ Carrying(c)
      BY DEF OrchIInv, ArtifactInv, Intact
    <3>4. /\ step[c] = "ready" /\ fds[c] = {"sealed"} /\ altered[c] = {}
          /\ c \notin launched /\ Expected(copy[c])
      BY <3>1, <3>3 DEF Holding, Carrying, Prepared
    <3>5. at'[c] = "guard" /\ fds'[c] = {"sealed", "staged"}
      <4>1. at'[c] = "guard"
        BY <1>0, <3>1 DEF OrchTypeOK, CallTypes
      <4>2. fds'[c] = fds[c] \cup {"staged"}
        BY <1>0, <3>1 DEF OrchTypeOK, ArtifactTypes
      <4> QED BY <3>4, <4>1, <4>2
    <3>6. Holding(c)'
      BY <3>1, <3>4, <3>5 DEF Holding, Prepared
    <3>7. Carrying(c)'
      BY <3>1, <3>4 DEF Carrying, Expected
    <3>8. Exactly(c)'
      BY <3>5 DEF Exactly, Prepared
    <3> QED BY <3>2, <3>6, <3>7, <3>8 DEF ArtifactInv, Intact
  <2> QED BY <1>5, <2>1, <2>2 DEF StageExecutable
<1>6. ASSUME NEW c \in Controllers, PrepareHostGuard(c)
      PROVE  ArtifactInv'
  <2>1. CASE at'[c] = "ended"
    <3>1. altered[c] = {}
      BY <1>6 DEF PrepareHostGuard, OrchIInv, ArtifactInv, Intact, Holding
    <3>2. /\ at' = [at EXCEPT ![c] = "ended"] /\ OpenIs(c, {})
          /\ at[c] # "ended" /\ launched' = launched
      BY <1>0, <1>6, <2>1 DEF PrepareHostGuard, Move, End, OrchTypeOK, CallTypes
    <3>3. /\ altered'[c] \subseteq told'[c]
          /\ \A d \in Controllers \ {c} :
                altered'[d] = altered[d] /\ told'[d] = told[d]
      BY <1>0, <1>6, <2>1, <3>1
         DEF PrepareHostGuard, Move, End, OrchTypeOK, HostTypes, CallTypes
    <3> QED BY <1>0, <3>2, <3>3, EndStep
  <2>2. CASE at'[c] # "ended"
    <3>1. /\ at[c] = "guard" /\ at' = [at EXCEPT ![c] = "admit"]
          /\ altered' = [altered EXCEPT ![c] = ProcessState]
          /\ UNCHANGED <<artifactVars, told, launched>>
      BY <1>0, <1>6, <2>2 DEF PrepareHostGuard, Move, End, OrchTypeOK, CallTypes
    <3>2. \A d \in Controllers \ {c} : Intact(d)'
      BY <1>0, <3>1, OtherKept DEF OrchTypeOK, CallTypes, HostTypes, artifactVars
    <3>3. Holding(c) /\ Carrying(c)
      BY DEF OrchIInv, ArtifactInv, Intact
    <3>4. /\ step[c] = "ready" /\ fds[c] = {"sealed", "staged"}
          /\ c \notin launched /\ Expected(copy[c])
      BY <3>1, <3>3 DEF Holding, Carrying, Prepared
    <3>5. at'[c] = "admit" /\ altered'[c] = ProcessState
      BY <1>0, <3>1 DEF OrchTypeOK, CallTypes, HostTypes
    <3>6. Holding(c)'
      BY <3>1, <3>4, <3>5 DEF Holding, Prepared, artifactVars
    <3>7. Carrying(c)'
      BY <3>1, <3>4 DEF Carrying, Expected, artifactVars
    <3>8. Exactly(c)'
      BY <3>1, <3>4, <3>5 DEF Exactly, Prepared, artifactVars
    <3> QED BY <3>2, <3>6, <3>7, <3>8 DEF ArtifactInv, Intact
  <2> QED BY <2>1, <2>2
<1>7. ASSUME NEW c \in Controllers, Admit(c)
      PROVE  ArtifactInv'
  BY <1>0, <1>7, <1>r, KeepStep DEF Admit, Move, End, Prepared
<1>8. ASSUME NEW c \in Controllers, Recover(c)
      PROVE  ArtifactInv'
  BY <1>0, <1>8, <1>r, KeepStep DEF Recover, Move, End, Prepared
<1>9. ASSUME NEW c \in Controllers, Verify(c)
      PROVE  ArtifactInv'
  BY <1>0, <1>9, <1>r, KeepStep DEF Verify, Move, End, Prepared
<1>10. ASSUME NEW c \in Controllers, Launch(c)
       PROVE  ArtifactInv'
  BY <1>10, <1>r DEF Launch, Move, End
<1>11. ASSUME NEW c \in Controllers, FinalizeWithoutLaunch(c)
       PROVE  ArtifactInv'
  BY <1>11, <1>r DEF FinalizeWithoutLaunch, Move, End
<1>12. ASSUME NEW c \in Controllers, Die(c)
       PROVE  ArtifactInv'
  <2>1. /\ altered'[c] \subseteq told'[c]
        /\ \A d \in Controllers \ {c} :
              altered'[d] = altered[d] /\ told'[d] = told[d]
    BY <1>0, <1>12 DEF Die, OrchTypeOK, HostTypes
  <2> QED BY <1>0, <1>12, <2>1, EndStep DEF Die, Move, End
<1> QED
  BY <1>1, <1>2, <1>3, <1>4, <1>5, <1>6, <1>7, <1>8, <1>9, <1>10, <1>11,
     <1>12 DEF OrchNext

\* The invariant holds in every reachable state.
THEOREM OrchInvariant == OrchSpec => []OrchIInv
<1>1. OrchIInv /\ [OrchNext]_orchVars => OrchIInv'
  BY OrchTypeStep, CallStep, HoldStep DEF OrchIInv
<1> QED BY <1>1, OrchInitInv, PTL DEF OrchSpec

\* Types are kept by every path of orchestrate_linux_inert_fixture.
THEOREM OrchTypes == OrchSpec => []OrchTypeOK
<1>1. OrchIInv => OrchTypeOK
  BY DEF OrchIInv
<1> QED BY <1>1, OrchInvariant, PTL

\* orchestrate_linux_inert_fixture starts the launcher at most once per claim,
\* through ambiguous commits, failed verifications and dying controllers.
THEOREM OrchLaunchesOnce == OrchSpec => []LaunchedAtMostOnce
<1>1. OrchIInv => LaunchedAtMostOnce
  BY DEF OrchIInv, OrchTypeOK, CallTypes, CallInv, LaunchedAtMostOnce
<1> QED BY <1>1, OrchInvariant, PTL

\* No error path of orchestrate_linux_inert_fixture gives up what a later one
\* uses, and none leaves a descriptor or altered process state behind.
THEOREM OrchHolds == OrchSpec => []HeldExactly
<1>1. OrchIInv => HeldExactly
  BY DEF OrchIInv, ArtifactInv, Intact, Exactly, Prepared, HeldExactly
<1> QED BY <1>1, OrchInvariant, PTL

\* A call that raised an ordinary error consumed nothing itself.
THEOREM OrchRaiseIsClean == OrchSpec => []RaisedConsumedNothing
<1>1. OrchIInv => RaisedConsumedNothing
  BY DEF OrchIInv, CallInv, RaisedConsumedNothing
<1> QED BY <1>1, OrchInvariant, PTL

\* Only bytes with the expected digest are launched, whatever is written to the
\* launcher file while preflight_inert_launcher_artifact reads it.
THEOREM OrchLaunchesExpected == OrchSpec => []LaunchedIsExpected
<1>1. OrchIInv => LaunchedIsExpected
  BY DEF OrchIInv, OrchTypeOK, CallTypes, ArtifactInv, Intact, Carrying,
         LaunchedIsExpected
<1> QED BY <1>1, OrchInvariant, PTL

(***************************************************************************)
(* The bytes load safely.  _validate_elf64_static_pie compares each load   *)
(* with the one before it only; that any two of them are apart, in the     *)
(* file and in memory, takes an induction over the headers, made here by   *)
(* looking at the first load that would break it.                          *)
(***************************************************************************)

\* A set of naturals that is not empty has a least member.
LEMMA LeastMember ==
    ASSUME NEW T \in SUBSET Nat, T # {}
    PROVE  \E n \in T : \A m \in T : n <= m
<1> DEFINE Below == {0 .. n : n \in T}
<1>1. Below \subseteq FiniteSubsetsOf(Nat) /\ Below # {}
  <2>1. \A n \in Nat : IsFiniteSet(0 .. n) /\ 0 .. n \subseteq Nat
    BY FS_Interval
  <2> QED BY <2>1 DEF FiniteSubsetsOf
<1>2. IsWellFoundedOn(StrictSubsetOrdering(Nat), FiniteSubsetsOf(Nat))
  BY FS_StrictSubsetOrderingWellFounded
<1>3. PICK X \in Below : \A Y \in Below : ~(<<Y, X>> \in StrictSubsetOrdering(Nat))
  <2> HIDE DEF Below
  <2> QED BY <1>1, <1>2, WFMin, Zenon
<1>4. PICK n \in T : X = 0 .. n
  BY <1>3
<1>5. ASSUME NEW m \in T, m < n PROVE FALSE
  <2>1. 0 .. m \in Below
    OBVIOUS
  <2>2. 0 .. m \subseteq 0 .. n /\ 0 .. m # 0 .. n /\ 0 .. n \subseteq Nat
    BY <1>5, n \in 0 .. n, n \notin 0 .. m
  <2> QED BY <1>3, <1>4, <2>1, <2>2 DEF StrictSubsetOrdering
<1> QED BY <1>5

\* The places of loads are naturals and the fields of their headers too.
LEMMA LoadFields ==
    ASSUME NEW image, ImageFields(image)
    PROVE  /\ Loads(image) \in SUBSET Nat
           /\ \A i \in Loads(image) :
                 /\ i \in DOMAIN image.headers
                 /\ image.headers[i].type = "LOAD"
                 /\ image.headers[i].off \in Nat /\ image.headers[i].addr \in Nat
                 /\ image.headers[i].fileSize \in Nat
                 /\ image.headers[i].memSize \in Nat
<1> DEFINE h == image.headers
<1>1. h \in Seq(HeaderFields)
  BY DEF ImageFields
<1>2. DOMAIN h \in SUBSET Nat /\ \A i \in DOMAIN h : h[i] \in HeaderFields
  <2> HIDE DEF h
  <2> QED BY <1>1
<1>3. \A i \in Loads(image) : i \in DOMAIN h /\ h[i].type = "LOAD"
  BY DEF Loads, OfType
<1>4. \A s \in HeaderFields :
         s.off \in Nat /\ s.addr \in Nat /\ s.fileSize \in Nat /\ s.memSize \in Nat
  BY DEF HeaderFields
<1> QED BY <1>2, <1>3, <1>4

\* Between a load and a later one there is none, or there is a last one.
LEMMA LoadBefore ==
    ASSUME NEW image, ImageFields(image),
           NEW i \in Loads(image), NEW j \in Loads(image), i < j
    PROVE  \/ Precedes(image, i, j)
           \/ \E k \in Loads(image) : i < k /\ k < j /\ Precedes(image, k, j)
<1>1. Loads(image) \in SUBSET Nat
  BY LoadFields
<1> DEFINE Gaps == {j - k : k \in {l \in Loads(image) : i < l /\ l < j}}
<1>2. CASE Gaps = {}
  BY <1>2 DEF Precedes
<1>3. CASE Gaps # {}
  <2>1. Gaps \in SUBSET Nat
    BY <1>1
  <2>2. PICK g \in Gaps : \A h \in Gaps : g <= h
    <3> HIDE DEF Gaps
    <3> QED BY <1>3, <2>1, LeastMember
  <2>3. PICK k \in Loads(image) : i < k /\ k < j /\ g = j - k
    BY <2>2
  <2>4. ASSUME NEW l \in Loads(image), k < l, l < j PROVE FALSE
    <3>1. i < l /\ i \in Nat /\ j \in Nat /\ k \in Nat /\ l \in Nat
      BY <1>1, <2>3, <2>4
    <3>2. j - l \in Gaps
      BY <2>4, <3>1
    <3>3. g <= j - l
      BY <2>2, <3>2
    <3> QED BY <2>3, <2>4, <3>1, <3>3
  <2>5. Precedes(image, k, j)
    BY <2>3, <2>4 DEF Precedes
  <2> QED BY <2>3, <2>5
<1> QED BY <1>2, <1>3

\* Of two loads the later one begins where the earlier one has ended, in the
\* file and in memory, however many lie between them.
LEMMA LoadsApart ==
    ASSUME NEW image, ImageFields(image), StaticPie(image),
           NEW i \in Loads(image), NEW j \in Loads(image), i < j
    PROVE  Follows(image.headers[j], image.headers[i])
<1> DEFINE h == image.headers
           Bad == {k \in Loads(image) : i < k /\ ~Follows(h[k], h[i])}
<1>1. /\ Loads(image) \in SUBSET Nat
      /\ \A k \in Loads(image) :
            /\ h[k].off \in Nat /\ h[k].addr \in Nat
            /\ h[k].fileSize \in Nat /\ h[k].memSize \in Nat
  BY LoadFields
<1>2. \A k, l \in Loads(image) : Precedes(image, k, l) => Follows(h[l], h[k])
  BY DEF StaticPie
<1>3. ASSUME Bad # {} PROVE FALSE
  <2>1. PICK n \in Bad : \A m \in Bad : n <= m
    <3>1. Bad \in SUBSET Nat
      BY <1>1
    <3> HIDE DEF Bad
    <3> QED BY <1>3, <3>1, LeastMember
  <2>2. n \in Loads(image) /\ i < n /\ ~Follows(h[n], h[i])
    BY <2>1
  <2>3. PICK k \in Loads(image) : i < k /\ k < n /\ Precedes(image, k, n)
    BY <1>2, <2>2, LoadBefore
  <2>4. Follows(h[k], h[i])
    <3>1. k \notin Bad
      <4>1. n \in Nat /\ k \in Nat
        BY <1>1, <2>2
      <4> HIDE DEF Bad
      <4> QED BY <2>1, <2>3, <4>1
    <3> QED BY <2>3, <3>1
  <2>5. Follows(h[n], h[k])
    BY <1>2, <2>2, <2>3
  <2>6. /\ h[n].off >= FileEnd(h[k]) /\ h[k].off >= FileEnd(h[i])
        /\ h[n].addr >= VirtualEnd(h[k]) /\ h[k].addr >= VirtualEnd(h[i])
    BY <2>4, <2>5 DEF Follows
  <2>7. /\ FileEnd(h[k]) \in Nat /\ FileEnd(h[k]) >= h[k].off
        /\ VirtualEnd(h[k]) \in Nat /\ VirtualEnd(h[k]) >= h[k].addr
        /\ FileEnd(h[i]) \in Nat /\ VirtualEnd(h[i]) \in Nat
    BY SMTT(30), <1>1 DEF FileEnd, VirtualEnd
  <2>8. h[n].off >= FileEnd(h[i]) /\ h[n].addr >= VirtualEnd(h[i])
    <3>1. /\ h[n].off \in Nat /\ h[n].addr \in Nat
          /\ h[k].off \in Nat /\ h[k].addr \in Nat
      BY <1>1, <2>2
    <3> HIDE DEF h
    <3> QED BY SMTT(30), <2>6, <2>7, <3>1
  <2> QED BY <2>2, <2>8 DEF Follows
<1> QED BY <1>3

\* A set any two of whose members are equal has at most one.
LEMMA AtMostOne ==
    ASSUME NEW S, \A x, y \in S : x = y
    PROVE  Cardinality(S) <= 1
<1>1. CASE S = {}
  BY <1>1, FS_EmptySet
<1>2. CASE S # {}
  <2>1. PICK x : S = {x}
    BY <1>2
  <2> QED BY <2>1, FS_Singleton
<1> QED BY <1>1, <1>2

\* What preflight_inert_launcher_artifact accepts loads safely, for every
\* number of program headers and every offset, address and size.
THEOREM AcceptedLoadsSafely ==
    ASSUME NEW image, ImageFields(image), ArtifactAccepted(image)
    PROVE  LoadsSafely(image)
<1> DEFINE h == image.headers
<1>0. StaticPie(image)
  BY DEF ArtifactAccepted
<1>1. /\ Loads(image) \in SUBSET Nat
      /\ \A k \in Loads(image) :
            /\ k \in DOMAIN h /\ h[k].type = "LOAD"
            /\ h[k].off \in Nat /\ h[k].addr \in Nat
            /\ h[k].fileSize \in Nat /\ h[k].memSize \in Nat
  BY LoadFields
<1>2. \A i, j \in Loads(image) : i < j => Follows(h[j], h[i])
  BY <1>0, LoadsApart
<1>3. ASSUME NEW a \in Nat, NEW i \in Loads(image), NEW j \in Loads(image),
             \/ MapsAddress(h[i], a) /\ MapsAddress(h[j], a)
             \/ MapsOffset(h[i], a) /\ MapsOffset(h[j], a)
      PROVE  i = j
  <2>1. ASSUME NEW k \in Loads(image), NEW l \in Loads(image), k < l,
               \/ MapsAddress(h[k], a) /\ MapsAddress(h[l], a)
               \/ MapsOffset(h[k], a) /\ MapsOffset(h[l], a)
        PROVE  FALSE
    <3>1. Follows(h[l], h[k])
      BY <1>2, <2>1
    <3>2. /\ h[k].off \in Nat /\ h[k].addr \in Nat /\ h[k].fileSize \in Nat
          /\ h[k].memSize \in Nat /\ h[l].off \in Nat /\ h[l].addr \in Nat
      BY <1>1
    <3>3. CASE MapsAddress(h[k], a) /\ MapsAddress(h[l], a)
      BY SMTT(30), <3>1, <3>2, <3>3 DEF Follows, MapsAddress, VirtualEnd
    <3>4. CASE MapsOffset(h[k], a) /\ MapsOffset(h[l], a)
      BY SMTT(30), <3>1, <3>2, <3>4 DEF Follows, MapsOffset, FileEnd
    <3> QED BY <2>1, <3>3, <3>4
  <2>2. i \in Nat /\ j \in Nat
    BY <1>1
  <2>3. ~(i < j) /\ ~(j < i)
    BY <1>3, <2>1
  <2> QED BY <2>2, <2>3
<1>4. \A a \in 0 .. AddressMax :
         Cardinality({i \in Loads(image) : MapsAddress(h[i], a)}) <= 1
  <2> TAKE a \in 0 .. AddressMax
  <2>1. a \in Nat
    BY ElfAssumption
  <2>2. \A i, j \in {k \in Loads(image) : MapsAddress(h[k], a)} : i = j
    BY <1>3, <2>1
  <2> QED BY <2>2, AtMostOne
<1>5. \A o \in 0 .. FileSize :
         Cardinality({i \in Loads(image) : MapsOffset(h[i], o)}) <= 1
  <2> TAKE o \in 0 .. FileSize
  <2>1. o \in Nat
    BY ElfAssumption
  <2>2. \A i, j \in {k \in Loads(image) : MapsOffset(h[k], o)} : i = j
    BY <1>3, <2>1
  <2> QED BY <2>2, AtMostOne
<1>6. PICK e \in Loads(image) :
         /\ "X" \in h[e].flags /\ h[e].addr <= image.entry
         /\ image.entry < h[e].addr + h[e].fileSize
  BY <1>0 DEF StaticPie
<1>7. image.entry \in Nat /\ MapsAddress(h[e], image.entry)
  <2>1. WellFormed(h[e])
    BY <1>0, <1>1 DEF StaticPie
  <2>2. h[e].fileSize <= h[e].memSize
    BY <1>1, <2>1 DEF WellFormed
  <2>3. image.entry \in Nat
    BY DEF ImageFields
  <2>4. h[e].addr \in Nat /\ h[e].fileSize \in Nat /\ h[e].memSize \in Nat
    BY <1>1
  <2>5. image.entry < h[e].addr + h[e].memSize
    BY SMTT(30), <1>6, <2>2, <2>3, <2>4
  <2> QED BY <1>6, <2>3, <2>5 DEF MapsAddress, VirtualEnd
<1>8. \A i \in Loads(image) :
         MapsAddress(h[i], image.entry) =>
             "X" \in h[i].flags /\ "W" \notin h[i].flags
  <2>1. LoadAllowed(h[e])
    BY <1>0 DEF StaticPie
  <2>2. "W" \notin h[e].flags
    BY <1>6, <2>1 DEF LoadAllowed
  <2> QED BY <1>3, <1>6, <1>7, <2>2
<1>9. \A m \in image.markers.id \cup image.markers.digest :
         \E i \in Loads(image) : MapsOffset(h[i], m)
  <2> TAKE m \in image.markers.id \cup image.markers.digest
  <2>1. m \in Nat
    BY DEF ImageFields
  <2>2. PICK i \in Loads(image) : h[i].off <= m /\ m + 1 <= FileEnd(h[i])
    BY DEF ArtifactAccepted, CarriesSeccompIdentity
  <2> QED BY SMTT(30), <1>1, <2>1, <2>2 DEF MapsOffset, FileEnd
<1> QED BY <1>4, <1>5, <1>7, <1>8, <1>9 DEF LoadsSafely


\* No copy breaks what a loader relies on.
NothingUnsound == unsound = {}

\* No controller ever holds a copy that does not load safely.
LEMMA CopiesSound == OrchSpec => []NothingUnsound
<1>1. OrchInit => NothingUnsound
  BY DEF OrchInit, ArtifactInit, NothingUnsound
<1>2. NothingUnsound /\ [OrchNext]_orchVars => NothingUnsound'
  <2> SUFFICES ASSUME unsound = {}, [OrchNext]_orchVars
               PROVE  unsound' = {}
    BY DEF NothingUnsound
  <2>1. ASSUME NEW c \in Controllers, CheckContent(c) PROVE unsound' = {}
    <3>1. UnsafeImages = {}
      BY ImagesAssumption, AcceptedLoadsSafely DEF UnsafeImages, AcceptedImages
    <3> QED BY <2>1, <3>1 DEF CheckContent
  <2>2. ASSUME NEW c \in Controllers, ArtifactStep(c) PROVE unsound' = {}
    BY <2>1, <2>2 DEF ArtifactStep, DuplicateSource, StatBeforeRead, ReadChunk,
       StatAfterRead, WriteAndSeal, ReopenReadOnly, RetainSealed, GiveUp, Forget
  <2>3. ASSUME NEW c \in Controllers, PreflightArtifact(c) PROVE unsound' = {}
    BY <2>2, <2>3 DEF PreflightArtifact, artifactVars
  <2>4. ASSUME NEW c \in Controllers,
               \/ VerifyInputs(c) \/ StageExecutable(c) \/ PrepareHostGuard(c)
               \/ Admit(c) \/ Recover(c) \/ Verify(c) \/ Launch(c)
               \/ FinalizeWithoutLaunch(c) \/ Die(c)
        PROVE  unsound' = unsound
    BY <2>4 DEF VerifyInputs, StageExecutable, PrepareHostGuard, Admit, Recover,
       Verify, Launch, FinalizeWithoutLaunch, Die, Keep, Release, CleanUp,
       OpenIs, artifactVars
  <2>5. ASSUME RewriteSource \/ UNCHANGED orchVars PROVE unsound' = unsound
    BY <2>5 DEF RewriteSource, orchVars, artifactVars
  <2> QED BY <2>3, <2>4, <2>5 DEF OrchNext
<1> QED BY <1>1, <1>2, PTL DEF OrchSpec

\* Whatever bytes have the expected digest, a launcher that is started loads
\* without overlap, with an entry point that cannot be written.
THEOREM OrchLaunchesSafely == OrchSpec => []LaunchedLoadsSafely
<1>1. NothingUnsound => LaunchedLoadsSafely
  BY DEF NothingUnsound, LaunchedLoadsSafely
<1> QED BY <1>1, CopiesSound, PTL
=============================================================================
