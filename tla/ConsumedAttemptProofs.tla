------------------------ MODULE ConsumedAttemptProofs ------------------------
(***************************************************************************)
(* Proofs about module ConsumedAttempt, for every value of the timeouts    *)
(* and of the frame limit: the strict validator admits every result the    *)
(* controller builds, a claim of complete cleanup and a verdict are true   *)
(* of the world, the controller stays a subreaper while it has to, and     *)
(* SIGKILL is sent only to a pid that is still the launcher's.             *)
(*                                                                         *)
(* None of these is inductive.  AttemptInv adds to them what the           *)
(* controller knows at each place: which facts are already recorded and    *)
(* true of the world, what the primary failure implies about them, what a  *)
(* SIGKILL has made of the wait, and what the deadlines say.               *)
(***************************************************************************)
EXTENDS ConsumedAttempt, TLAPS

\* The places before the launcher runs, while it talks, while it is waited
\* for, and after that.
Early == {"retain", "handoff", "spawn"}
Collecting == {"collect", "received"}
Waiting == {"wait", "judge"}
Running == Early \cup Collecting \cup Waiting
Ending == {"finalize", "cleanup", "reap", "restore", "finish", "recheck",
           "done"}

\* What the controller records, and the values of the rest.
FactSet ==
    [leafMade : BOOLEAN, handed : BOOLEAN, spawned : BOOLEAN,
     reaped : BOOLEAN, code : Codes \cup {Nothing}, termTried : BOOLEAN,
     sockets : BOOLEAN, descriptors : BOOLEAN,
     cgTried : BOOLEAN, cgDone : BOOLEAN, uncertain : BOOLEAN,
     adopted : Nat, noChildren : BOOLEAN, restored : BOOLEAN,
     cleanupSeen : BOOLEAN, totalSeen : BOOLEAN]

Stages == {"attempt_finalization", "cgroup_retention", "cgroup_handoff",
           "launcher_setup", "launcher_spawn", "transcript_collection",
           "launcher_wait", "transcript_validation", "cleanup"}

Reasons == {"attempt_consumption_ambiguous",
            "attempt_receipt_verification_failed", "cgroup_retention_failed",
            "cgroup_handoff_failed", "launcher_setup_failed",
            "launcher_spawn_failed", "deadline_exceeded",
            "control_protocol_failed", "transcript_collection_failed",
            "launcher_wait_failed", "native_transcript_rejected",
            "cleanup_incomplete", "unexpected_error"}

FailureSet == [stage : Stages \cup {Nothing}, reason : Reasons \cup {Nothing},
               part : {Nothing, "cleanup_incomplete"}]

WaitSet == [pass : {1, 2}, forced : BOOLEAN, tried : BOOLEAN,
            triedBefore : BOOLEAN, lateBefore : BOOLEAN, seen : BOOLEAN]

\* The types.  Nothing bounds the clock or the number of signals.
AttemptTypes ==
    /\ now \in Nat /\ window \in Nat \cup {NoDeadline}
    /\ pc \in Places
    /\ launcher \in {"none", "running", "zombie", "reaped"}
    /\ exitCode \in Codes \cup {Nothing}
    /\ child \in {"none", "live", "dead", "gone"}
    /\ leaf \in {"none", "present", "removed"}
    /\ guard \in BOOLEAN /\ eof \in BOOLEAN /\ kills \in Nat
    /\ wait \in WaitSet /\ facts \in FactSet /\ failure \in FailureSet
    /\ replay \in {Nothing, "not_replayable", "succeeded", "failed", "rejected"}

\* The facts agree with each other at every place.
FactsAgree(f) ==
    /\ f.handed => f.leafMade
    /\ f.spawned => f.handed
    /\ f.uncertain => ~f.leafMade
    /\ f.cgTried => f.leafMade
    /\ f.cgDone => f.cgTried
    /\ f.restored => f.noChildren
    /\ f.noChildren => (f.spawned => f.reaped)
    /\ ~f.spawned => ~f.reaped /\ ~f.termTried /\ f.adopted = 0
    /\ f.reaped <=> f.code # Nothing

\* What the place of the controller says about the facts.
FactsInPlace ==
    /\ pc = "retain" => ~facts.leafMade /\ ~facts.uncertain
    /\ pc = "handoff" => facts.leafMade /\ ~facts.handed
    /\ pc = "spawn" => facts.handed /\ ~facts.spawned
    /\ pc \in Collecting \cup Waiting \cup {"observe"} => facts.spawned
    /\ pc \in Running => ~facts.reaped /\ ~facts.termTried
    /\ pc \in Running \cup {"observe", "finalize"} => ~facts.cgTried
    /\ pc = "cleanup" => facts.leafMade
    /\ pc \in Ending \ {"finalize"} => (facts.leafMade => facts.cgTried)
    /\ facts.noChildren => pc \in {"restore", "finish", "recheck", "done"}
    /\ facts.restored => pc \in {"finish", "recheck", "done"}

\* What the facts say about the world.
FactsAreTrue ==
    /\ facts.spawned <=> launcher # "none"
    /\ ~facts.spawned => child = "none"
    /\ facts.reaped => launcher = "reaped" /\ facts.code = exitCode
    /\ launcher \in {"zombie", "reaped"} => exitCode \in Codes
    /\ pc \in Collecting \cup {"judge"} => launcher \in {"running", "zombie"}
    /\ facts.cgDone => leaf = "removed"
    /\ ~facts.leafMade /\ ~facts.uncertain => leaf = "none"
    /\ facts.noChildren => launcher \in {"none", "reaped"}
                           /\ child \in {"none", "gone"}
    /\ facts.restored => ~guard
    /\ ~guard => facts.noChildren

\* What the primary failure says about the facts, and the transcript.
FailureFits(f, fail) ==
    /\ fail # NoFailure => fail.stage \in Stages
    /\ fail.stage # Nothing => fail.reason \in AllowedReasons[fail.stage]
    /\ f.uncertain <=> fail.part = "cleanup_incomplete"
    /\ fail.stage \in {"attempt_finalization", "cgroup_retention"} =>
          ~f.leafMade
    /\ fail.stage = "cgroup_handoff" => f.leafMade /\ ~f.handed
    /\ fail.stage \in {"launcher_setup", "launcher_spawn"} =>
          f.handed /\ ~f.spawned
    /\ fail.stage \in {"transcript_collection", "launcher_wait",
                       "transcript_validation"} => f.spawned
    /\ fail.reason = "launcher_wait_failed" => ~f.reaped
    /\ fail.reason = "native_transcript_rejected" => replay = "rejected"
    /\ fail.stage = "transcript_collection" => ~eof /\ replay \notin Accepted
    /\ fail.stage = "cleanup" => replay \in Accepted

\* At which places which failure may already be recorded.
FailureInPlace ==
    /\ pc \in Early \cup Collecting => failure = NoFailure /\ ~eof
    /\ pc \in Waiting => failure.stage \in {Nothing, "transcript_collection",
                                            "transcript_validation"}
    /\ failure.stage = "cleanup" =>
          pc \in {"restore", "finish", "recheck", "done"}
    /\ failure.stage = "cleanup" /\ pc \in {"restore", "finish"} =>
          failure.reason = "cleanup_incomplete"
    /\ failure.reason = "cleanup_incomplete" =>
          IF pc = "restore" THEN ~facts.noChildren
          ELSE CleanupStatus(facts) = "incomplete"

\* No verdict without a launcher that was reaped and never killed.
VerdictGround ==
    /\ replay # Nothing => facts.spawned /\ pc \in Ending
    /\ replay = "succeeded" => facts.code = "zero"
    /\ replay = "failed" => facts.code = "nonzero"
    /\ pc \in Early \cup Collecting => kills = 0
    /\ pc \in Waiting /\ kills # 0 => wait.tried \/ wait.pass = 2
    /\ pc \in {"observe"} \cup Ending /\ failure = NoFailure =>
          facts.spawned /\ facts.reaped /\ kills = 0
    /\ pc \in Ending /\ failure = NoFailure => replay \in Accepted

\* What is published is about the facts, and the deadlines were kept or the
\* facts and the failure say that they were not.
PublishedInTime ==
    /\ window <= TotalTimeout
    /\ pc \in {"recheck", "done"} =>
          /\ result.status = CleanupStatus(facts)
          /\ result.outcome = Outcome(facts, failure # NoFailure)
          /\ failure = NoFailure => facts.cleanupSeen /\ facts.totalSeen
    /\ pc = "recheck" => /\ ~facts.cleanupSeen => now >= window
                         /\ ~facts.totalSeen => now >= TotalTimeout
    /\ pc = "done" /\ failure = NoFailure =>
          now < window /\ now < TotalTimeout

\* The inductive invariant.
AttemptInv ==
    /\ AttemptTypes
    /\ pc # "refused"
    /\ FactsAgree(facts)
    /\ FactsInPlace
    /\ FactsAreTrue
    /\ FailureFits(facts, failure)
    /\ FailureInPlace
    /\ VerdictGround
    /\ PublishedInTime

(***************************************************************************)
(* What the operators of the result compute.                               *)
(***************************************************************************)
USE DEF Early, Collecting, Waiting, Running, Ending, Nothing, NoFailure,
        NoDeadline, Codes, Accepted


\* _cleanup_status: the three values, by the facts that decide them.
LEMMA StatusValue ==
  ASSUME NEW f
  PROVE  LET common == LocalClean(f) /\ (f.spawned => f.reaped)
         IN  /\ CleanupStatus(f) \in {"not_required", "completed", "incomplete"}
             /\ CleanupStatus(f) = "not_required" <=>
                   common /\ ~f.leafMade /\ ~f.spawned
             /\ CleanupStatus(f) = "completed" <=>
                   common /\ f.leafMade /\ f.cgDone
BY Zenon DEF CleanupStatus

\* _build_result: a verdict takes an accepted transcript, a complete cleanup,
\* no failure and the overall deadline.
LEMMA OutcomeValue ==
  ASSUME NEW f, NEW failed \in BOOLEAN
  PROVE  /\ Outcome(f, failed) \in
               {"fixture_succeeded", "launcher_failed", "orchestrator_failed"}
         /\ Outcome(f, failed) = "fixture_succeeded" <=>
               /\ ~failed /\ CleanupStatus(f) # "incomplete" /\ f.totalSeen
               /\ replay = "succeeded"
         /\ Outcome(f, failed) = "launcher_failed" <=>
               /\ ~failed /\ CleanupStatus(f) # "incomplete" /\ f.totalSeen
               /\ replay = "failed"
BY DEF Outcome

\* _build_native_observation: a replayed verdict has its exit status, and the
\* end of the transcript was seen.
LEMMA ReplayValue ==
  /\ Replay \in {"not_replayable", "succeeded", "failed", "rejected"}
  /\ Replay = "succeeded" => eof /\ facts.code = "zero"
  /\ Replay = "failed" => eof /\ facts.code = "nonzero"
  /\ facts.code # Nothing /\ Replay \notin Accepted => Replay = "rejected"
BY Zenon DEF Replay, Accepts

\* What _build_result is given: facts and a failure that agree, with the
\* deadlines judged and a failure named wherever a deadline was missed.
Ready(f, fail) ==
    /\ f \in FactSet /\ fail \in FailureSet
    /\ FactsAgree(f) /\ FailureFits(f, fail)
    /\ f.leafMade => f.cgTried
    /\ f.cleanupSeen => f.totalSeen
    /\ replay # Nothing => f.spawned
    /\ fail = NoFailure => f.spawned /\ f.reaped /\ f.cleanupSeen
                           /\ replay \in Accepted
    /\ fail.stage = "cleanup" /\ fail.reason = "deadline_exceeded" =>
          ~(f.cleanupSeen /\ f.totalSeen)
    /\ fail.reason = "cleanup_incomplete" => CleanupStatus(f) = "incomplete"

\* The failure that _build_result adds when it cannot report a verdict: the
\* cleanup is incomplete, since no deadline was missed without a failure.
LEMMA NamedValue ==
  ASSUME NEW f, NEW fail, Ready(f, fail)
  PROVE  /\ fail # NoFailure => Named(f, fail) = fail
         /\ fail = NoFailure /\ CleanupStatus(f) # "incomplete" =>
               Named(f, fail) = NoFailure
         /\ fail = NoFailure /\ CleanupStatus(f) = "incomplete" =>
               Named(f, fail) = [stage |-> "cleanup",
                                 reason |-> "cleanup_incomplete",
                                 part |-> Nothing]
         /\ Ready(f, Named(f, fail))
         /\ Outcome(f, Named(f, fail) # NoFailure) = Outcome(f, fail # NoFailure)
         /\ Named(f, fail) = NoFailure <=>
               Outcome(f, fail # NoFailure) # "orchestrator_failed"
<1>1. fail # NoFailure => Named(f, fail) = fail
  BY DEF Named, FailIf
<1>2. fail # NoFailure => Outcome(f, fail # NoFailure) = "orchestrator_failed"
  BY DEF Outcome
<1>3. CASE fail # NoFailure
  BY <1>1, <1>2, <1>3
<1>4. CASE fail = NoFailure
  <2>1. f.totalSeen /\ f.spawned /\ f.reaped /\ replay \in Accepted
    BY <1>4 DEF Ready
  <2>2. Outcome(f, fail # NoFailure) = "orchestrator_failed" <=>
           CleanupStatus(f) = "incomplete"
    BY <1>4, <2>1 DEF Outcome
  <2>3. CASE CleanupStatus(f) # "incomplete"
    BY <1>4, <2>2, <2>3 DEF Named, FailIf
  <2>4. CASE CleanupStatus(f) = "incomplete"
    <3> DEFINE named == [stage |-> "cleanup", reason |-> "cleanup_incomplete",
                         part |-> Nothing]
    <3>1. Named(f, fail) = named
      BY <1>4, <2>1, <2>2, <2>4 DEF Named, FailIf
    <3>2. named # NoFailure /\ named \in FailureSet
      BY DEF FailureSet, Stages, Reasons
    <3>3. FailureFits(f, named)
      BY <1>4, <2>1 DEF FailureFits, Ready, Stages, AllowedReasons
    <3>4. Ready(f, named)
      BY <1>4, <2>1, <2>4, <3>2, <3>3 DEF Ready
    <3>5. Outcome(f, named # NoFailure) = "orchestrator_failed"
      BY <3>2 DEF Outcome
    <3> QED
      BY <1>4, <2>2, <2>4, <3>1, <3>2, <3>4, <3>5
  <2> QED
    BY <2>3, <2>4
<1> QED
  BY <1>3, <1>4

\* cleanup_state_is_exact and bindings_outcome_and_cleanup_are_exact admit
\* every result that _build_result can be asked for.
LEMMA BuildIsExact ==
  ASSUME NEW f, NEW fail, Ready(f, fail)
  PROVE  ResultExact(Build(f, fail))
<1> DEFINE r == Build(f, fail)
<1> DEFINE named == Named(f, fail)
<1>1. /\ r.facts = f /\ r.failure = named /\ r.replay = replay
      /\ r.status = CleanupStatus(f)
      /\ r.outcome = Outcome(f, fail # NoFailure)
  BY DEF Build
<1>2. /\ Ready(f, named)
      /\ named = NoFailure <=> r.outcome # "orchestrator_failed"
  BY <1>1, NamedValue
<1>3. /\ r.status \in {"not_required", "completed", "incomplete"}
      /\ r.status = "not_required" <=>
            LocalClean(f) /\ (f.spawned => f.reaped) /\ ~f.leafMade /\ ~f.spawned
      /\ r.status = "completed" <=>
            LocalClean(f) /\ (f.spawned => f.reaped) /\ f.leafMade /\ f.cgDone
  BY <1>1, StatusValue, Zenon
<1> HIDE DEF r, named
<1>4. CleanupExact(r)
  BY <1>1, <1>2, <1>3 DEF CleanupExact, LocalClean, Ready, FactsAgree, FactSet
<1>5. StageConsistent(r)
  BY <1>1, <1>2, <1>3
  DEF StageConsistent, Ready, FactsAgree, FailureFits, FactSet, FailureSet, Stages
<1>6. r.outcome # "orchestrator_failed" =>
         /\ r.status # "incomplete"
         /\ r.outcome = "fixture_succeeded" => replay = "succeeded"
         /\ r.outcome # "fixture_succeeded" => replay = "failed"
  BY <1>1 DEF Outcome
<1>7. ResultExact(r)
  BY <1>1, <1>2, <1>3, <1>4, <1>5, <1>6
  DEF ResultExact, Ready, FactsAgree, FailureFits, LocalClean, FactSet
<1> QED
  BY <1>7 DEF r

(***************************************************************************)
(* The steps of the world.                                                 *)
(***************************************************************************)
LEMMA InitKeeps == AttemptInit => AttemptInv
<1> SUFFICES ASSUME AttemptInit PROVE AttemptInv
  OBVIOUS
<1>1. facts \in FactSet /\ failure \in FailureSet /\ wait \in WaitSet
  BY DEF AttemptInit, FactSet, FailureSet, WaitSet, FreshFacts, NoWait,
         Stages, Reasons
<1>2. AttemptTypes
  BY <1>1, AttemptAssumption DEF AttemptInit, AttemptTypes, Places
<1>3. FactsAgree(facts) /\ FactsInPlace /\ FactsAreTrue
  BY DEF AttemptInit, FreshFacts, FactsAgree, FactsInPlace, FactsAreTrue
<1>4. FailureFits(facts, failure) /\ FailureInPlace
  BY DEF AttemptInit, FreshFacts, FailureFits, FailureInPlace, Stages,
         AllowedReasons
<1>5. VerdictGround /\ PublishedInTime
  BY AttemptAssumption DEF AttemptInit, FreshFacts, VerdictGround,
         PublishedInTime, TotalTimeout
<1> QED
  BY <1>2, <1>3, <1>4, <1>5 DEF AttemptInit, AttemptInv

\* Time passes, and no deadline that was missed is kept again.
LEMMA TickKeeps == AttemptInv /\ Tick => AttemptInv'
<1> SUFFICES ASSUME AttemptInv, Tick PROVE AttemptInv'
  OBVIOUS
<1> USE DEF AttemptInv, Tick, vars, world, collected, report
<1>1. AttemptTypes'
  BY AttemptAssumption DEF AttemptTypes
<1>2. FactsAgree(facts)' /\ FactsInPlace' /\ FactsAreTrue'
  BY DEF FactsAgree, FactsInPlace, FactsAreTrue
<1>3. FailureFits(facts, failure)' /\ FailureInPlace' /\ VerdictGround'
  BY DEF FailureFits, FailureInPlace, VerdictGround
<1>4. PublishedInTime'
  BY AttemptAssumption DEF PublishedInTime, TotalTimeout, AttemptTypes, Outcome
<1> QED
  BY <1>1, <1>2, <1>3, <1>4

\* The launcher and its child act by themselves.
LEMMA WorldKeeps == AttemptInv /\ World => AttemptInv'
<1> SUFFICES ASSUME AttemptInv, World PROVE AttemptInv'
  OBVIOUS
<1>1. UNCHANGED <<now, pc, leaf, guard, kills, collected, wait, window, report>>
  BY DEF World, LauncherSends, LauncherShuts, LauncherForks, ChildDies,
         LauncherReapsChild, LauncherExits
<1>2. \/ UNCHANGED <<launcher, exitCode, child>>
      \/ /\ UNCHANGED <<launcher, exitCode>>
         /\ launcher = "running" \/ child = "live"
         /\ child' \in {"live", "dead", "gone"}
      \/ /\ launcher = "running" /\ launcher' = "zombie"
         /\ exitCode' \in Codes /\ UNCHANGED child
  BY DEF World, LauncherSends, LauncherShuts, LauncherForks, ChildDies,
         LauncherReapsChild, LauncherExits
<1> USE DEF AttemptInv, collected, report
<1>3. AttemptTypes'
  BY <1>1, <1>2 DEF AttemptTypes
<1>4. FactsAgree(facts)' /\ FactsInPlace'
  BY <1>1 DEF FactsAgree, FactsInPlace
<1>5. FactsAreTrue'
  BY <1>1, <1>2 DEF FactsAreTrue, FactsAgree
<1>6. FailureFits(facts, failure)' /\ FailureInPlace' /\ VerdictGround'
  BY <1>1 DEF FailureFits, FailureInPlace, VerdictGround
<1>7. PublishedInTime'
  BY <1>1 DEF PublishedInTime, Outcome
<1> QED
  BY <1>1, <1>3, <1>4, <1>5, <1>6, <1>7

(***************************************************************************)
(* The steps of the controller before the launch.                          *)
(***************************************************************************)
LEMMA RetainKeeps == AttemptInv /\ RetainLeaf => AttemptInv'
<1> SUFFICES ASSUME AttemptInv, RetainLeaf PROVE AttemptInv'
  OBVIOUS
<1> USE DEF AttemptInv, collected
<1>1. /\ pc = "retain" /\ failure = NoFailure /\ facts \in FactSet
      /\ UNCHANGED <<now, launcher, exitCode, child, guard, kills, eof, wait,
                     window, replay>>
      /\ pc' \in {"handoff", "finalize"}
  BY DEF RetainLeaf, FailureInPlace, AttemptTypes
<1>2. /\ facts' \in FactSet
      /\ \/ /\ pc' = "handoff" /\ failure' = NoFailure /\ leaf' = "present"
            /\ facts' = [facts EXCEPT !.leafMade = TRUE]
         \/ /\ pc' = "finalize" /\ leaf' \in {"none", "present"}
            /\ facts' = [facts EXCEPT !.uncertain = TRUE]
            /\ failure' = [stage |-> "cgroup_retention",
                           reason |-> "cgroup_retention_failed",
                           part |-> "cleanup_incomplete"]
         \/ /\ pc' = "finalize" /\ UNCHANGED <<leaf, facts>>
            /\ \E reason \in {"cgroup_retention_failed", "unexpected_error"} :
                  failure' = [stage |-> "cgroup_retention", reason |-> reason,
                              part |-> Nothing]
  BY <1>1 DEF RetainLeaf, Fail, FactSet
<1>3. AttemptTypes'
  <2>1. failure' \in FailureSet
    BY <1>2 DEF FailureSet, Stages, Reasons
  <2> QED
    BY <1>1, <1>2, <2>1 DEF AttemptTypes, Places
<1>4. FactsAgree(facts)' /\ FactsInPlace'
  BY <1>1, <1>2 DEF FactsAgree, FactsInPlace, FactSet
<1>5. FactsAreTrue'
  BY <1>1, <1>2 DEF FactsAreTrue, FactsInPlace, FactSet, AttemptTypes
<1>6. FailureFits(facts, failure)' /\ FailureInPlace'
  BY <1>1, <1>2 DEF FailureFits, FailureInPlace, FactsInPlace, FactSet, Stages,
                    AllowedReasons, VerdictGround
<1>7. VerdictGround' /\ PublishedInTime'
  BY <1>1, <1>2 DEF VerdictGround, PublishedInTime, FactsInPlace
<1> QED
  BY <1>1, <1>3, <1>4, <1>5, <1>6, <1>7

\* The descriptor of the leaf is duplicated, unless time is up.
LEMMA HandOffKeeps == AttemptInv /\ HandOffLeaf => AttemptInv'
<1> SUFFICES ASSUME AttemptInv, HandOffLeaf PROVE AttemptInv'
  OBVIOUS
<1> USE DEF AttemptInv, collected, world
<1>1. /\ pc = "handoff" /\ failure = NoFailure /\ facts \in FactSet
      /\ UNCHANGED <<now, launcher, exitCode, child, leaf, guard, kills, eof,
                     wait, window, replay>>
      /\ pc' \in {"spawn", "finalize"}
  BY DEF HandOffLeaf, FailureInPlace, AttemptTypes
<1>2. /\ facts' \in FactSet
      /\ \/ /\ pc' = "spawn" /\ failure' = NoFailure
            /\ facts' = [facts EXCEPT !.handed = TRUE]
         \/ /\ pc' = "finalize" /\ UNCHANGED facts
            /\ \E reason \in {"deadline_exceeded", "cgroup_handoff_failed"} :
                  failure' = [stage |-> "cgroup_handoff", reason |-> reason,
                              part |-> Nothing]
  BY <1>1 DEF HandOffLeaf, Fail, FactSet
<1>3. AttemptTypes'
  <2>1. failure' \in FailureSet
    BY <1>2 DEF FailureSet, Stages, Reasons
  <2> QED
    BY <1>1, <1>2, <2>1 DEF AttemptTypes, Places
<1>4. FactsAgree(facts)' /\ FactsInPlace'
  BY <1>1, <1>2 DEF FactsAgree, FactsInPlace, FactSet
<1>5. FactsAreTrue'
  BY <1>1, <1>2 DEF FactsAreTrue, FactSet
<1>6. FailureFits(facts, failure)' /\ FailureInPlace'
  BY <1>1, <1>2 DEF FailureFits, FailureInPlace, FactsInPlace, FactSet, Stages,
                    AllowedReasons, VerdictGround
<1>7. VerdictGround' /\ PublishedInTime'
  BY <1>1, <1>2 DEF VerdictGround, PublishedInTime, FactsInPlace
<1> QED
  BY <1>1, <1>3, <1>4, <1>5, <1>6, <1>7

\* _spawn_and_collect starts the launcher, or fails before there is one.
LEMMA SpawnKeeps == AttemptInv /\ SpawnLauncher => AttemptInv'
<1> SUFFICES ASSUME AttemptInv, SpawnLauncher PROVE AttemptInv'
  OBVIOUS
<1> USE DEF AttemptInv, collected, world
<1>1. /\ pc = "spawn" /\ failure = NoFailure /\ facts \in FactSet
      /\ UNCHANGED <<now, exitCode, child, leaf, guard, kills, eof, wait,
                     window, replay>>
      /\ pc' \in {"collect", "finalize"}
  BY DEF SpawnLauncher, FailureInPlace, AttemptTypes
<1>2. /\ facts' \in FactSet
      /\ \/ /\ pc' = "collect" /\ failure' = NoFailure
            /\ launcher' = "running"
            /\ facts' = [facts EXCEPT !.spawned = TRUE]
         \/ /\ pc' = "finalize" /\ UNCHANGED <<launcher, facts>>
            /\ \E f \in {<<"launcher_setup", "deadline_exceeded">>,
                         <<"launcher_setup", "launcher_setup_failed">>,
                         <<"launcher_spawn", "launcher_spawn_failed">>} :
                  failure' = [stage |-> f[1], reason |-> f[2], part |-> Nothing]
  BY <1>1 DEF SpawnLauncher, Fail, FactSet
<1>3. AttemptTypes'
  <2>1. failure' \in FailureSet
    BY <1>2 DEF FailureSet, Stages, Reasons
  <2> QED
    BY <1>1, <1>2, <2>1 DEF AttemptTypes, Places
<1>4. FactsAgree(facts)' /\ FactsInPlace'
  BY <1>1, <1>2 DEF FactsAgree, FactsInPlace, FactSet
<1>5. FactsAreTrue'
  BY <1>1, <1>2 DEF FactsAreTrue, FactsAgree, FactsInPlace, FactSet
<1>6. FailureFits(facts, failure)' /\ FailureInPlace'
  BY <1>1, <1>2 DEF FailureFits, FailureInPlace, FactsInPlace, FactSet, Stages,
                    AllowedReasons, VerdictGround, AttemptTypes
<1>7. VerdictGround' /\ PublishedInTime'
  BY <1>1, <1>2 DEF VerdictGround, PublishedInTime, FactsInPlace
<1> QED
  BY <1>1, <1>3, <1>4, <1>5, <1>6, <1>7

(***************************************************************************)
(* Collecting the transcript.                                              *)
(***************************************************************************)
\* What may end the collection.
CollectionEnds(f) ==
    \/ f = NoFailure
    \/ \E reason \in {"deadline_exceeded", "control_protocol_failed",
                      "transcript_collection_failed"} :
          f = [stage |-> "transcript_collection", reason |-> reason,
               part |-> Nothing]
    \/ f = [stage |-> "transcript_validation", reason |-> "unexpected_error",
            part |-> Nothing]

\* The collection of frames ends, with a failure or at the end of file.
LEMMA StopKeeps ==
  ASSUME AttemptInv, pc \in Collecting, NEW f, CollectionEnds(f),
         StopCollecting(f), eof' \in BOOLEAN, f # NoFailure => ~eof',
         UNCHANGED <<now, launcher, exitCode, child, leaf, guard, kills,
                     window, replay>>
  PROVE  AttemptInv'
<1> USE DEF AttemptInv
<1>1. pc' = "wait" /\ failure' = f /\ facts' = facts /\ facts \in FactSet
  BY DEF StopCollecting, AttemptTypes
<1>2. wait' \in WaitSet
  BY DEF StopCollecting, NoWait, WaitSet
<1>3. f \in FailureSet
  BY DEF CollectionEnds, FailureSet, Stages, Reasons
<1>4. AttemptTypes'
  BY <1>1, <1>2, <1>3 DEF AttemptTypes, Places
<1>5. FactsAgree(facts)' /\ FactsInPlace' /\ FactsAreTrue'
  BY <1>1 DEF FactsAgree, FactsInPlace, FactsAreTrue
<1>6. FailureFits(facts, failure)' /\ FailureInPlace'
  BY SMTT(30), <1>1 DEF CollectionEnds, FailureFits, FailureInPlace, FactsInPlace, Stages,
              AllowedReasons, VerdictGround
<1>7. VerdictGround' /\ PublishedInTime'
  BY <1>1 DEF VerdictGround, PublishedInTime
<1> QED
  BY <1>1, <1>4, <1>5, <1>6, <1>7

\* A step of the collector that only moves between its two places.
LEMMA CollectKeeps ==
  ASSUME AttemptInv, pc \in Collecting, pc' \in Collecting,
         UNCHANGED <<now, launcher, exitCode, child, leaf, guard, kills, eof,
                     wait, window, failure, facts, replay>>
  PROVE  AttemptInv'
<1> USE DEF AttemptInv
<1>1. AttemptTypes'
  BY DEF AttemptTypes, Places
<1>2. FactsAgree(facts)' /\ FactsInPlace' /\ FactsAreTrue'
  BY DEF FactsAgree, FactsInPlace, FactsAreTrue
<1>3. FailureFits(facts, failure)' /\ FailureInPlace'
  BY DEF FailureFits, FailureInPlace
<1>4. VerdictGround' /\ PublishedInTime'
  BY DEF VerdictGround, PublishedInTime
<1> QED
  BY <1>1, <1>2, <1>3, <1>4

\* One recvmsg.
LEMMA ReceiveKeeps ==
  ASSUME AttemptInv, NEW fault \in BOOLEAN, Receive(fault)
  PROVE  AttemptInv'
<1>1. /\ pc = "collect" /\ failure = NoFailure /\ eof = FALSE /\ eof' = FALSE
      /\ UNCHANGED <<now, launcher, exitCode, child, leaf, guard, kills,
                     window, replay>>
  BY DEF Receive, AttemptInv, AttemptTypes, FailureInPlace
<1>2. ASSUME NEW f, CollectionEnds(f), StopCollecting(f) PROVE AttemptInv'
  BY <1>1, <1>2, StopKeeps
<1>3. CASE pc' = "received" /\ UNCHANGED <<wait, failure, facts>>
  BY <1>1, <1>3, CollectKeeps
<1>4. \/ StopCollecting(Fail("transcript_collection", "deadline_exceeded",
                             Nothing))
      \/ \E f \in {<<"transcript_collection", "transcript_collection_failed">>,
                   <<"transcript_validation", "unexpected_error">>} :
            StopCollecting(Fail(f[1], f[2], Nothing))
      \/ pc' = "received" /\ UNCHANGED <<wait, failure, facts>>
  BY DEF Receive
<1>5. /\ CollectionEnds(Fail("transcript_collection", "deadline_exceeded",
                             Nothing))
      /\ \A f \in {<<"transcript_collection", "transcript_collection_failed">>,
                   <<"transcript_validation", "unexpected_error">>} :
            CollectionEnds(Fail(f[1], f[2], Nothing))
  BY <1>1 DEF Fail, CollectionEnds
<1> QED
  BY <1>2, <1>3, <1>4, <1>5

\* The checks on what recvmsg returned.
LEMMA JudgeReceivedKeeps == AttemptInv /\ JudgeReceived => AttemptInv'
<1> SUFFICES ASSUME AttemptInv, JudgeReceived PROVE AttemptInv'
  OBVIOUS
<1> DEFINE late == now >= FixtureTimeout
           ended == FailIf(late, failure, "transcript_collection",
                           "deadline_exceeded")
           broken == Fail("transcript_collection", "control_protocol_failed",
                          Nothing)
           overdue == Fail("transcript_collection", "deadline_exceeded", Nothing)
<1>1. /\ pc = "received" /\ failure = NoFailure /\ eof = FALSE
      /\ UNCHANGED <<now, launcher, exitCode, child, leaf, guard, kills,
                     window, replay>>
  BY DEF JudgeReceived, AttemptInv, AttemptTypes, FailureInPlace
<1>2. \/ eof' = ~late /\ StopCollecting(ended)
      \/ eof' = eof /\ StopCollecting(broken)
      \/ eof' = eof /\ StopCollecting(overdue)
      \/ eof' = eof /\ pc' = "collect" /\ UNCHANGED <<wait, failure, facts>>
  BY DEF JudgeReceived
<1>3. /\ CollectionEnds(ended) /\ CollectionEnds(broken)
      /\ CollectionEnds(overdue) /\ (ended # NoFailure => late)
  BY <1>1 DEF Fail, FailIf, CollectionEnds
<1> HIDE DEF ended, broken, overdue
<1>4. CASE eof' = ~late /\ StopCollecting(ended)
  <2>1. eof' \in BOOLEAN /\ (ended # NoFailure => ~eof')
    BY <1>3, <1>4
  <2> QED
    BY <1>1, <1>3, <1>4, <2>1, StopKeeps
<1>5. ASSUME NEW f \in {broken, overdue}, eof' = eof, StopCollecting(f)
      PROVE  AttemptInv'
  <2>1. eof' \in BOOLEAN /\ (f # NoFailure => ~eof')
    BY <1>1, <1>5
  <2> QED
    BY <1>1, <1>3, <1>5, <2>1, StopKeeps
<1>6. CASE eof' = eof /\ pc' = "collect" /\ UNCHANGED <<wait, failure, facts>>
  BY <1>1, <1>6, CollectKeeps
<1> QED
  BY <1>2, <1>4, <1>5, <1>6

(***************************************************************************)
(* Waiting for the launcher.                                               *)
(***************************************************************************)
LEMMA WindowValue ==
  AttemptInv => WindowSet \in Nat /\ WindowSet <= TotalTimeout
BY AttemptAssumption
DEF AttemptInv, AttemptTypes, PublishedInTime, WindowSet, CleanupWindow,
    Earlier, TotalTimeout

\* What a step of the wait may do besides moving on: reap the zombie, set the
\* cleanup window and send a SIGKILL.
WaitStep ==
    /\ launcher' = launcher \/ (launcher = "zombie" /\ launcher' = "reaped")
    /\ window' \in Nat \cup {NoDeadline} /\ window' <= TotalTimeout
    /\ kills' \in Nat
    /\ UNCHANGED <<now, exitCode, child, leaf, guard, eof, replay>>

\* The wait ends: a SIGKILL was told, or it is the second pass.
LEMMA EndWaitKeeps ==
  ASSUME AttemptInv, pc \in Waiting, WaitStep,
         NEW seen \in BOOLEAN, NEW reaped \in BOOLEAN, NEW tried \in BOOLEAN,
         NEW late \in BOOLEAN, NEW recovered \in BOOLEAN,
         EndWait(seen, reaped, tried, late, recovered),
         reaped => seen /\ launcher' = "reaped",
         kills' # 0 => tried \/ recovered
  PROVE  AttemptInv'
<1> USE DEF AttemptInv, WaitStep
<1> DEFINE reason == WaitReason(seen, reaped, tried, late, recovered)
<1>1. /\ pc' = "observe" /\ wait' \in WaitSet /\ facts \in FactSet
      /\ facts' = [facts EXCEPT !.reaped = reaped, !.termTried = tried,
                                !.code = IF reaped THEN exitCode ELSE Nothing]
      /\ failure' = FailIf(reason # Nothing, failure, "launcher_wait", reason)
  BY DEF EndWait, NoWait, WaitSet, AttemptTypes
<1>2. facts.spawned = TRUE /\ (launcher' = "reaped" => exitCode \in Codes)
  BY DEF FactsInPlace, FactsAreTrue, AttemptTypes, FactSet
<1>3. facts' \in FactSet /\ facts'.spawned /\ facts'.reaped = reaped
      /\ facts'.code = IF reaped THEN exitCode ELSE Nothing
  <2> DEFINE code == IF reaped THEN exitCode ELSE Nothing
  <2>1. code \in Codes \cup {Nothing}
    BY DEF AttemptTypes
  <2> HIDE DEF code
  <2>2. facts' = [facts EXCEPT !.reaped = reaped, !.termTried = tried,
                               !.code = code]
    BY <1>1 DEF code
  <2>3. facts' \in FactSet /\ facts'.code = code
    BY <1>1, <2>1, <2>2 DEF FactSet
  <2>4. facts'.spawned /\ facts'.reaped = reaped
    BY <1>1, <1>2, <2>2 DEF FactSet
  <2> QED
    BY <2>3, <2>4 DEF code
<1>4. \A x \in {"leafMade", "handed", "cgTried", "cgDone", "uncertain",
                "noChildren", "restored", "adopted", "spawned"} :
         facts'[x] = facts[x]
  BY <1>1 DEF FactSet
<1>5. /\ reason \in {"launcher_wait_failed", "deadline_exceeded",
                     "unexpected_error", Nothing}
      /\ reason = "launcher_wait_failed" => ~reaped
      /\ reason = Nothing => reaped /\ ~tried /\ ~recovered
  BY DEF WaitReason
<1> HIDE DEF reason
<1>6. \/ failure # NoFailure /\ failure' = failure
      \/ failure = NoFailure /\ reason = Nothing /\ failure' = NoFailure
      \/ /\ failure = NoFailure /\ reason # Nothing
         /\ failure' = [stage |-> "launcher_wait", reason |-> reason,
                        part |-> Nothing]
  BY <1>1 DEF FailIf
<1>7. AttemptTypes'
  <2>1. failure' \in FailureSet
    BY <1>5, <1>6 DEF FailureSet, Stages, Reasons, AttemptTypes
  <2> QED
    BY <1>1, <1>3, <2>1 DEF AttemptTypes, Places
<1>8. FactsAgree(facts)' /\ FactsInPlace'
  BY <1>1, <1>2, <1>3, <1>4 DEF FactsAgree, FactsInPlace
<1>9. FactsAreTrue'
  BY <1>1, <1>2, <1>3, <1>4 DEF FactsAreTrue, FactsInPlace
<1>10. FailureFits(facts, failure)'
  BY SMTT(30), <1>3, <1>4, <1>5, <1>6 DEF FailureFits, FailureInPlace, VerdictGround,
     Stages, AllowedReasons
<1>11. FailureInPlace'
  BY <1>1, <1>5, <1>6 DEF FailureInPlace, FailureFits, AllowedReasons, Stages
<1>12. VerdictGround' /\ PublishedInTime'
  BY <1>1, <1>3, <1>4, <1>5, <1>6 DEF VerdictGround, PublishedInTime
<1> QED
  BY <1>1, <1>7, <1>8, <1>9, <1>10, <1>11, <1>12

\* The wait goes on, in either pass.
LEMMA WaitOnKeeps ==
  ASSUME AttemptInv, pc \in Waiting, WaitStep, pc' \in Waiting,
         wait' \in WaitSet, UNCHANGED <<failure, facts>>,
         pc' = "judge" => launcher' \in {"running", "zombie"},
         kills' # 0 => wait'.tried \/ wait'.pass = 2
  PROVE  AttemptInv'
<1> USE DEF AttemptInv, WaitStep
<1>1. AttemptTypes'
  BY DEF AttemptTypes, Places
<1>2. FactsAgree(facts)' /\ FactsInPlace' /\ FactsAreTrue'
  BY DEF FactsAgree, FactsInPlace, FactsAreTrue
<1>3. FailureFits(facts, failure)' /\ FailureInPlace'
  BY DEF FailureFits, FailureInPlace
<1>4. VerdictGround' /\ PublishedInTime'
  BY DEF VerdictGround, PublishedInTime
<1> QED
  BY <1>1, <1>2, <1>3, <1>4

\* A first pass that did not reap is followed by a second.
LEMMA SecondPassKeeps ==
  ASSUME AttemptInv, pc \in Waiting, WaitStep,
         NEW tried \in BOOLEAN, NEW late \in BOOLEAN, NEW seen \in BOOLEAN,
         SecondPass(tried, late, seen)
  PROVE  AttemptInv'
<1>1. /\ pc' = "wait" /\ UNCHANGED <<failure, facts>>
      /\ wait' \in WaitSet /\ wait'.pass = 2
  BY DEF SecondPass, WaitSet
<1> QED
  BY <1>1, WaitOnKeeps

\* A pass knows whether the launcher was reaped.
LEMMA PassDecidesKeeps ==
  ASSUME AttemptInv, pc \in Waiting, WaitStep,
         NEW reaped \in BOOLEAN, NEW tried \in BOOLEAN, NEW late \in BOOLEAN,
         PassDecides(reaped, tried, late),
         reaped => launcher' = "reaped",
         kills' # 0 => tried \/ wait.pass = 2
  PROVE  AttemptInv'
<1>1. wait \in WaitSet
  BY DEF AttemptInv, AttemptTypes
<1>2. (tried \/ wait.triedBefore) \in BOOLEAN
      /\ (late \/ wait.lateBefore) \in BOOLEAN /\ (wait.pass = 2) \in BOOLEAN
  BY <1>1 DEF WaitSet
<1> QED
  BY <1>2, EndWaitKeeps DEF PassDecides

\* A pass ends without having reaped the launcher.
LEMMA PassGivesUpKeeps ==
  ASSUME AttemptInv, pc \in Waiting, WaitStep,
         NEW tried \in BOOLEAN, NEW late \in BOOLEAN, PassGivesUp(tried, late)
  PROVE  AttemptInv'
<1>1. CASE SecondPass(tried, late, TRUE)
  BY <1>1, SecondPassKeeps
<1>2. CASE wait.pass = 2 /\ PassDecides(FALSE, tried, late)
  BY <1>2, PassDecidesKeeps
<1> QED
  BY <1>1, <1>2 DEF PassGivesUp

\* A pass ends with an exception.
LEMMA PassRaisesKeeps ==
  ASSUME AttemptInv, pc \in Waiting, WaitStep, PassRaises
  PROVE  AttemptInv'
<1>1. CASE SecondPass(FALSE, FALSE, FALSE)
  BY <1>1, SecondPassKeeps
<1>2. CASE EndWait(wait.seen, FALSE, wait.triedBefore, wait.lateBefore, TRUE)
  <2>1. wait.seen \in BOOLEAN /\ wait.triedBefore \in BOOLEAN
        /\ wait.lateBefore \in BOOLEAN
    BY DEF AttemptInv, AttemptTypes, WaitSet
  <2> QED
    BY <1>2, <2>1, EndWaitKeeps
<1> QED
  BY <1>1, <1>2 DEF PassRaises

\* One waitpid of a pass.
LEMMA PollKeeps ==
  ASSUME AttemptInv, NEW fault \in BOOLEAN, PollLauncher(fault)
  PROVE  AttemptInv'
<1> DEFINE late == now >= FixtureTimeout
<1>1. /\ pc = "wait" /\ window \in Nat \cup {NoDeadline} /\ wait \in WaitSet
      /\ wait.tried \in BOOLEAN /\ kills \in Nat /\ late \in BOOLEAN
      /\ kills # 0 => wait.tried \/ wait.pass = 2
      /\ UNCHANGED <<now, exitCode, child, leaf, guard, kills, eof, replay>>
  BY DEF PollLauncher, AttemptInv, AttemptTypes, WaitSet, VerdictGround, collected
<1>2. WindowSet \in Nat /\ WindowSet <= TotalTimeout
  BY WindowValue
<1>3. CASE /\ launcher = "zombie" /\ launcher' = "reaped"
           /\ window' = WindowSet
           /\ PassDecides(TRUE, wait.tried, late) \/ PassRaises
  <2>1. WaitStep
    BY <1>1, <1>2, <1>3 DEF WaitStep
  <2> HIDE DEF late
  <2> QED
    BY <1>1, <1>3, <2>1, PassDecidesKeeps, PassRaisesKeeps
<1>4. CASE /\ UNCHANGED launcher /\ window' = WindowSet
           /\ \/ PassDecides(FALSE, wait.tried, late)
              \/ PassGivesUp(wait.tried, late)
              \/ PassRaises
  <2>1. WaitStep
    BY <1>1, <1>2, <1>4 DEF WaitStep
  <2> HIDE DEF late
  <2> QED
    BY <1>1, <1>4, <2>1, PassDecidesKeeps, PassGivesUpKeeps, PassRaisesKeeps
<1>5. CASE /\ launcher = "running" /\ pc' = "judge"
           /\ UNCHANGED <<launcher, window, wait, failure, facts>>
  <2>1. WaitStep
    BY <1>1, <1>5 DEF WaitStep, AttemptInv, PublishedInTime
  <2> QED
    BY <1>1, <1>5, <2>1, WaitOnKeeps
<1> QED
  BY <1>3, <1>4, <1>5 DEF PollLauncher, StillChild

\* The decision to signal, to sleep or to give up after a waitpid.
LEMMA JudgeWaitKeeps ==
  ASSUME AttemptInv, NEW fault \in BOOLEAN, JudgeWait(fault)
  PROVE  AttemptInv'
<1> DEFINE strike == ~wait.tried /\ (wait.forced \/ now >= FixtureTimeout)
           tried == wait.tried \/ strike
<1>1. /\ pc = "judge" /\ wait \in WaitSet /\ tried \in BOOLEAN
      /\ window \in Nat \cup {NoDeadline} /\ window <= TotalTimeout
      /\ kills' \in Nat /\ (kills' # 0 => tried \/ wait.pass = 2)
      /\ UNCHANGED <<now, launcher, exitCode, child, leaf, guard, eof, replay>>
  BY DEF JudgeWait, AttemptInv, AttemptTypes, WaitSet, VerdictGround,
         PublishedInTime, collected
<1>2. WindowSet \in Nat /\ WindowSet <= TotalTimeout
  BY WindowValue
<1>3. CASE /\ window' = WindowSet
           /\ PassGivesUp(tried, TRUE) \/ PassRaises
  <2>1. WaitStep
    BY <1>1, <1>2, <1>3 DEF WaitStep
  <2> HIDE DEF tried
  <2> QED
    BY <1>1, <1>3, <2>1, PassGivesUpKeeps, PassRaisesKeeps
<1>4. CASE /\ pc' = "wait" /\ window' \in {window, WindowSet}
           /\ wait' = [wait EXCEPT !.tried = tried]
           /\ UNCHANGED <<failure, facts>>
  <2>1. wait' \in WaitSet /\ wait'.tried = tried /\ wait'.pass = wait.pass
    BY <1>1, <1>4 DEF WaitSet
  <2>2. WaitStep
    BY <1>1, <1>2, <1>4 DEF WaitStep
  <2> HIDE DEF tried
  <2> QED
    BY <1>1, <1>4, <2>1, <2>2, WaitOnKeeps
<1> QED
  BY <1>3, <1>4 DEF JudgeWait

(***************************************************************************)
(* The observation and the cleanup.                                        *)
(***************************************************************************)
LEMMA ObserveKeeps == AttemptInv /\ Observe => AttemptInv'
<1> SUFFICES ASSUME AttemptInv, Observe PROVE AttemptInv'
  OBVIOUS
<1> USE DEF AttemptInv, world
<1>1. /\ pc = "observe" /\ pc' = "finalize" /\ facts \in FactSet
      /\ facts.spawned /\ replay = Nothing /\ eof' = FALSE
      /\ UNCHANGED <<now, launcher, exitCode, child, leaf, guard, kills, wait,
                     window, facts>>
  BY DEF Observe, AttemptTypes, FactsInPlace, VerdictGround
<1> DEFINE rejected == [stage |-> "transcript_validation",
                        reason |-> "native_transcript_rejected",
                        part |-> Nothing]
           raised == [stage |-> "transcript_validation",
                      reason |-> "unexpected_error", part |-> Nothing]
<1>2. \/ /\ failure # NoFailure /\ failure' = failure
         /\ replay' \in {Replay, Nothing}
      \/ /\ failure = NoFailure /\ replay' = Replay
         /\ Replay \in Accepted /\ failure' = NoFailure
      \/ /\ failure = NoFailure /\ replay' = Replay
         /\ Replay \notin Accepted /\ failure' = rejected
      \/ /\ failure = NoFailure /\ replay' = Nothing /\ failure' = raised
  BY <1>1 DEF Observe, FailIf, Fail
<1>3. /\ Replay \in {"not_replayable", "succeeded", "failed", "rejected"}
      /\ Replay = "succeeded" => eof /\ facts.code = "zero"
      /\ Replay = "failed" => eof /\ facts.code = "nonzero"
      /\ facts.code # Nothing /\ Replay \notin Accepted => Replay = "rejected"
  BY ReplayValue
<1>4. failure = NoFailure => facts.reaped /\ kills = 0 /\ facts.code # Nothing
  BY <1>1 DEF VerdictGround, FactsAgree
<1>5. AttemptTypes'
  <2>1. failure' \in FailureSet
    BY <1>2 DEF FailureSet, Stages, Reasons, AttemptTypes
  <2>2. replay' \in {Nothing, "not_replayable", "succeeded", "failed", "rejected"}
    BY <1>2, <1>3
  <2> QED
    BY <1>1, <2>1, <2>2 DEF AttemptTypes, Places
<1>6. FactsAgree(facts)' /\ FactsInPlace' /\ FactsAreTrue'
  BY <1>1 DEF FactsAgree, FactsInPlace, FactsAreTrue
<1>7. FailureFits(facts, failure)'
  <2>1. CASE failure # NoFailure /\ failure' = failure
    <3>1. failure.stage \in Stages \ {"cleanup"}
      BY <1>1, <2>1 DEF FailureFits, FailureInPlace
    <3>2. failure.reason # "native_transcript_rejected"
      BY <1>1 DEF FailureFits
    <3>3. failure.stage = "transcript_collection" => replay' \notin Accepted
      BY <1>2, <1>3, <2>1 DEF FailureFits
    <3> QED
      BY <1>1, <2>1, <3>1, <3>2, <3>3 DEF FailureFits
  <2>2. CASE failure = NoFailure /\ failure' = NoFailure
    BY <1>1, <2>2 DEF FailureFits
  <2>3. CASE failure = NoFailure /\ failure' \in {rejected, raised}
    <3>1. failure' = rejected => replay' = "rejected"
      BY <1>2, <1>3, <1>4, <2>3
    <3> QED
      BY SMTT(30), <1>1, <2>3, <3>1 DEF FailureFits, Stages, AllowedReasons
  <2> QED
    BY <1>2, <2>1, <2>2, <2>3
<1>8. FailureInPlace'
  BY <1>1, <1>2 DEF FailureInPlace
<1>9. VerdictGround'
  <2>1. failure' = NoFailure => failure = NoFailure /\ replay' \in Accepted
    BY <1>2
  <2>2. /\ replay' = "succeeded" => facts.code = "zero"
        /\ replay' = "failed" => facts.code = "nonzero"
    BY <1>2, <1>3
  <2> QED
    BY <1>1, <1>4, <2>1, <2>2 DEF VerdictGround
<1>10. PublishedInTime'
  BY <1>1 DEF PublishedInTime
<1> QED
  BY <1>1, <1>5, <1>6, <1>7, <1>8, <1>9, <1>10

\* Until the adopted processes are reaped, nothing names the cleanup.
LEMMA NotYetCleanup ==
  ASSUME AttemptInv, pc \in {"finalize", "cleanup", "reap"}
  PROVE  failure.stage # "cleanup" /\ failure.reason # "cleanup_incomplete"
<1>1. failure.stage # "cleanup"
  BY DEF AttemptInv, FailureInPlace
<1>2. failure = NoFailure \/ failure.stage \in Stages \ {"cleanup"}
  BY <1>1 DEF AttemptInv, FailureFits
<1>3. failure # NoFailure => failure.reason \in AllowedReasons[failure.stage]
  BY <1>2 DEF AttemptInv, FailureFits, Stages
<1>4. \A stage \in Stages \ {"cleanup"} :
         "cleanup_incomplete" \notin AllowedReasons[stage]
  BY DEF Stages, AllowedReasons
<1> QED
  BY <1>1, <1>2, <1>3, <1>4

\* The sockets and descriptors are closed and the cleanup window begins.
LEMMA FinalizeKeeps == AttemptInv /\ Finalize => AttemptInv'
<1> SUFFICES ASSUME AttemptInv, Finalize PROVE AttemptInv'
  OBVIOUS
<1> USE DEF AttemptInv, world, collected
<1>1. /\ pc = "finalize" /\ facts \in FactSet /\ window' = WindowSet
      /\ pc' = IF facts.leafMade THEN "cleanup" ELSE "reap"
      /\ UNCHANGED <<now, launcher, exitCode, child, leaf, guard, kills, eof,
                     wait, failure, replay>>
  BY DEF Finalize, AttemptTypes
<1>2. PICK sockets \in BOOLEAN, descriptors \in BOOLEAN :
         facts' = [facts EXCEPT !.sockets = sockets,
                                !.descriptors = descriptors,
                                !.cgTried = facts.leafMade]
  BY AttemptAssumption DEF Finalize
<1>3. facts' \in FactSet /\ facts'.cgTried = facts.leafMade
  BY <1>1, <1>2 DEF FactSet
<1>4. \A x \in {"leafMade", "handed", "spawned", "reaped", "code", "termTried",
                "cgDone", "uncertain", "adopted", "noChildren", "restored"} :
         facts'[x] = facts[x]
  BY <1>1, <1>2 DEF FactSet
<1>5. AttemptTypes'
  BY <1>1, <1>3, WindowValue DEF AttemptTypes, Places
<1>6. FactsAgree(facts)' /\ FactsInPlace' /\ FactsAreTrue'
  BY <1>1, <1>3, <1>4 DEF FactsAgree, FactsInPlace, FactsAreTrue
<1>7. FailureFits(facts, failure)'
  BY <1>1, <1>4 DEF FailureFits
<1>8. FailureInPlace'
  BY <1>1, NotYetCleanup DEF FailureInPlace
<1>9. VerdictGround' /\ PublishedInTime'
  BY <1>1, <1>4, WindowValue DEF VerdictGround, PublishedInTime
<1> QED
  BY <1>1, <1>5, <1>6, <1>7, <1>8, <1>9

\* The leaf is cleaned up, completely or not.
LEMMA CleanUpKeeps == AttemptInv /\ CleanUpLeaf => AttemptInv'
<1> SUFFICES ASSUME AttemptInv, CleanUpLeaf PROVE AttemptInv'
  OBVIOUS
<1> USE DEF AttemptInv, collected
<1>1. /\ pc = "cleanup" /\ pc' = "reap" /\ facts \in FactSet
      /\ UNCHANGED <<now, launcher, exitCode, guard, kills, eof, wait, window,
                     failure, replay>>
      /\ child' = child \/ (child = "live" /\ child' = "dead")
  BY DEF CleanUpLeaf, AttemptTypes
<1>2. PICK done \in BOOLEAN :
         /\ facts' = [facts EXCEPT !.cgDone = done]
         /\ leaf' = "removed" \/ (leaf' = leaf /\ done = facts.cgDone)
         /\ facts.leafMade /\ facts.cgTried
  <2>1. facts.leafMade /\ facts.cgTried
    BY <1>1 DEF FactsInPlace, FactsAgree
  <2>2. facts = [facts EXCEPT !.cgDone = facts.cgDone]
    BY <1>1 DEF FactSet
  <2> QED
    BY <1>1, <2>1, <2>2 DEF CleanUpLeaf, FactSet
<1>3. facts' \in FactSet /\ facts'.cgDone = done
  BY <1>1, <1>2 DEF FactSet
<1>4. \A x \in {"leafMade", "handed", "spawned", "reaped", "code", "termTried",
                "cgTried", "uncertain", "adopted", "noChildren", "restored"} :
         facts'[x] = facts[x]
  BY <1>1, <1>2 DEF FactSet
<1>5. AttemptTypes'
  BY <1>1, <1>2, <1>3 DEF AttemptTypes, Places
<1>6. FactsAgree(facts)' /\ FactsInPlace' /\ FactsAreTrue'
  BY <1>1, <1>2, <1>3, <1>4 DEF FactsAgree, FactsInPlace, FactsAreTrue
<1>7. FailureFits(facts, failure)' /\ FailureInPlace'
  <2>1. FailureFits(facts, failure)'
    BY <1>1, <1>4 DEF FailureFits
  <2>2. FailureInPlace'
    BY <1>1, NotYetCleanup DEF FailureInPlace
  <2> QED
    BY <2>1, <2>2
<1>8. VerdictGround' /\ PublishedInTime'
  BY <1>1, <1>4 DEF VerdictGround, PublishedInTime
<1> QED
  BY <1>1, <1>5, <1>6, <1>7, <1>8

\* A failure of the cleanup stage is named only when there was none, and
\* then the transcript was accepted.
LEMMA CleanupFailureFits ==
  ASSUME AttemptInv, pc \in Ending, failure = NoFailure,
         NEW f, f.spawned, ~f.uncertain
  PROVE  FailureFits(f, [stage |-> "cleanup", reason |-> "cleanup_incomplete",
                         part |-> Nothing])
BY DEF AttemptInv, VerdictGround, FailureFits, Stages, AllowedReasons

\* An adopted child is reaped, or there is none left.
LEMMA ReapKeeps ==
  ASSUME AttemptInv, NEW fault \in BOOLEAN, ReapAdopted(fault)
  PROVE  AttemptInv'
<1> USE DEF AttemptInv, collected
<1> DEFINE incomplete == [stage |-> "cleanup", reason |-> "cleanup_incomplete",
                          part |-> Nothing]
<1>1. /\ pc = "reap" /\ pc' \in {"reap", "restore"} /\ facts \in FactSet
      /\ ~facts.noChildren /\ ~facts.restored
      /\ UNCHANGED <<now, launcher, exitCode, leaf, guard, kills, eof, wait,
                     window, replay>>
  BY DEF ReapAdopted, AttemptTypes, FactsInPlace
<1>2. CASE /\ child = "dead" /\ child' = "gone"
           /\ facts' = [facts EXCEPT !.adopted = @ + 1]
           /\ UNCHANGED <<pc, failure>>
  <2>1. /\ facts' \in FactSet
        /\ facts.spawned
        /\ \A x \in {"leafMade", "handed", "spawned", "reaped", "code", "cgDone",
                     "termTried", "cgTried", "uncertain", "noChildren",
                     "restored"} : facts'[x] = facts[x]
    BY <1>1, <1>2 DEF FactSet, FactsAreTrue
  <2>2. AttemptTypes'
    BY <1>1, <1>2, <2>1 DEF AttemptTypes, Places
  <2>3. FactsAgree(facts)' /\ FactsInPlace' /\ FactsAreTrue'
    BY <1>1, <1>2, <2>1 DEF FactsAgree, FactsInPlace, FactsAreTrue
  <2>4. FailureFits(facts, failure)'
    BY <1>1, <1>2, <2>1 DEF FailureFits
  <2>5. FailureInPlace'
    BY <1>1, <1>2, NotYetCleanup DEF FailureInPlace
  <2>6. VerdictGround' /\ PublishedInTime'
    BY <1>1, <1>2, <2>1 DEF VerdictGround, PublishedInTime
  <2> QED
    BY <1>1, <1>2, <2>2, <2>3, <2>4, <2>5, <2>6
<1>3. CASE /\ DispositionExact /\ NoChild
           /\ facts' = [facts EXCEPT !.noChildren = TRUE]
           /\ pc' = "restore" /\ UNCHANGED <<child, failure>>
  <2>1. /\ facts' \in FactSet /\ facts'.noChildren
        /\ \A x \in {"leafMade", "handed", "spawned", "reaped", "code", "cgDone",
                     "termTried", "cgTried", "uncertain", "adopted",
                     "restored"} : facts'[x] = facts[x]
    BY <1>1, <1>3 DEF FactSet
  <2>2. AttemptTypes'
    BY <1>1, <1>3, <2>1 DEF AttemptTypes, Places
  <2>3. FactsAgree(facts)' /\ FactsInPlace' /\ FactsAreTrue'
    BY <1>1, <1>3, <2>1 DEF FactsAgree, FactsInPlace, FactsAreTrue,
       DispositionExact, NoChild
  <2>4. FailureFits(facts, failure)'
    BY <1>1, <1>3, <2>1 DEF FailureFits
  <2>5. FailureInPlace'
    BY <1>1, <1>3, NotYetCleanup DEF FailureInPlace
  <2>6. VerdictGround' /\ PublishedInTime'
    BY <1>1, <1>3, <2>1 DEF VerdictGround, PublishedInTime
  <2> QED
    BY <1>1, <1>3, <2>2, <2>3, <2>4, <2>5, <2>6
<1>4. CASE /\ failure' = Fail("cleanup", "cleanup_incomplete", Nothing)
           /\ pc' = "restore" /\ UNCHANGED <<child, facts>>
  <2>1. \/ failure # NoFailure /\ failure' = failure
        \/ failure = NoFailure /\ failure' = incomplete
    BY <1>4 DEF Fail
  <2>2. AttemptTypes'
    <3>1. failure' \in FailureSet
      BY <2>1 DEF AttemptTypes, FailureSet, Stages, Reasons
    <3> QED
      BY <1>1, <1>4, <3>1 DEF AttemptTypes, Places
  <2>3. FactsAgree(facts)' /\ FactsInPlace' /\ FactsAreTrue'
    BY <1>1, <1>4 DEF FactsAgree, FactsInPlace, FactsAreTrue
  <2>4. FailureFits(facts, failure)'
    <3>1. CASE failure' = failure
      BY <1>1, <1>4, <3>1 DEF FailureFits
    <3>2. CASE failure = NoFailure /\ failure' = incomplete
      <4>1. facts.spawned /\ ~facts.uncertain
        BY <1>1, <3>2 DEF VerdictGround, FailureFits
      <4> QED
        BY <1>1, <1>4, <3>2, <4>1, CleanupFailureFits DEF FailureFits
    <3> QED
      BY <2>1, <3>1, <3>2
  <2>5. FailureInPlace'
    BY <1>1, <1>4, <2>1 DEF FailureInPlace
  <2>6. VerdictGround' /\ PublishedInTime'
    BY <1>1, <1>4, <2>1 DEF VerdictGround, PublishedInTime
  <2> QED
    BY <1>1, <1>4, <2>2, <2>3, <2>4, <2>5, <2>6
<1> QED
  BY <1>2, <1>3, <1>4 DEF ReapAdopted

\* The host guard is restored if no child is left, and a failure is named.
LEMMA RestoreKeeps == AttemptInv /\ Restore => AttemptInv'
<1> SUFFICES ASSUME AttemptInv, Restore PROVE AttemptInv'
  OBVIOUS
<1> USE DEF AttemptInv, collected
<1> DEFINE incomplete == [stage |-> "cleanup", reason |-> "cleanup_incomplete",
                          part |-> Nothing]
<1>1. /\ pc = "restore" /\ pc' = "finish" /\ facts \in FactSet
      /\ UNCHANGED <<now, launcher, exitCode, child, leaf, kills, eof, wait,
                     window, replay>>
  BY DEF Restore, AttemptTypes
<1>2. PICK restored \in BOOLEAN :
         /\ restored => facts.noChildren
         /\ guard' \in IF restored THEN {FALSE}
                       ELSE IF facts.noChildren THEN BOOLEAN ELSE {guard}
         /\ facts' = [facts EXCEPT !.restored = restored]
         /\ failure' = FailIf(\/ ~facts.descriptors
                              \/ facts.noChildren /\ ~restored
                              \/ facts.cgTried /\ ~facts.cgDone,
                              failure, "cleanup", "cleanup_incomplete")
  BY DEF Restore
<1>3. /\ facts' \in FactSet /\ facts'.restored = restored
      /\ \A x \in {"leafMade", "handed", "spawned", "reaped", "code", "cgDone",
                   "termTried", "cgTried", "uncertain", "adopted", "sockets",
                   "descriptors", "noChildren"} : facts'[x] = facts[x]
  BY <1>1, <1>2 DEF FactSet
<1>4. \/ failure' = failure
      \/ /\ failure = NoFailure /\ failure' = incomplete
         /\ \/ ~facts'.descriptors
            \/ facts'.noChildren /\ ~facts'.restored
            \/ facts'.cgTried /\ ~facts'.cgDone
  BY <1>2, <1>3 DEF FailIf
<1>5. AttemptTypes'
  <2>1. failure' \in FailureSet
    BY <1>4 DEF AttemptTypes, FailureSet, Stages, Reasons
  <2>2. guard' \in BOOLEAN
    BY <1>2 DEF AttemptTypes
  <2> QED
    BY <1>1, <1>3, <2>1, <2>2 DEF AttemptTypes, Places
<1>6. FactsAgree(facts)' /\ FactsInPlace'
  BY <1>1, <1>2, <1>3 DEF FactsAgree, FactsInPlace
<1>7. FactsAreTrue'
  BY <1>1, <1>2, <1>3 DEF FactsAreTrue, AttemptTypes
<1>8. FailureFits(facts, failure)'
  <2>1. CASE failure' = failure
    BY <1>1, <1>3, <2>1 DEF FailureFits
  <2>2. CASE failure = NoFailure /\ failure' = incomplete
    <3>1. facts'.spawned /\ ~facts'.uncertain
      BY <1>1, <1>3, <2>2 DEF VerdictGround, FailureFits
    <3> QED
      BY <1>1, <2>2, <3>1, CleanupFailureFits DEF FailureFits
  <2> QED
    BY <1>4, <2>1, <2>2
<1>9. FailureInPlace'
  <2>1. ASSUME failure'.reason = "cleanup_incomplete"
        PROVE  CleanupStatus(facts') = "incomplete"
    <3>1. \/ ~facts'.descriptors
          \/ ~facts'.restored
          \/ facts'.leafMade /\ ~facts'.cgDone
      BY <1>1, <1>3, <1>4, <1>6, <2>1 DEF FailureInPlace, FactsAgree
    <3> QED
      BY <3>1, StatusValue DEF LocalClean
  <2> QED
    BY <1>1, <1>4, <2>1 DEF FailureInPlace
<1>10. VerdictGround' /\ PublishedInTime'
  BY <1>1, <1>3, <1>4 DEF VerdictGround, PublishedInTime
<1> QED
  BY <1>1, <1>5, <1>6, <1>7, <1>8, <1>9, <1>10

(***************************************************************************)
(* The result.                                                             *)
(***************************************************************************)
\* Judging the deadlines changes only the two facts about them.
LEMMA DeadlineFactsValue ==
  ASSUME AttemptInv
  PROVE  /\ DeadlineFacts \in FactSet
         /\ DeadlineFacts.cleanupSeen <=> now < window
         /\ DeadlineFacts.totalSeen <=> now < TotalTimeout
         /\ \A x \in {"leafMade", "handed", "spawned", "reaped", "code",
                      "termTried", "sockets", "descriptors", "cgTried",
                      "cgDone", "uncertain", "adopted", "noChildren",
                      "restored"} : DeadlineFacts[x] = facts[x]
         /\ CleanupStatus(DeadlineFacts) = CleanupStatus(facts)
<1>1. facts \in FactSet /\ now \in Nat /\ window \in Int /\ TotalTimeout \in Nat
  BY AttemptAssumption DEF AttemptInv, AttemptTypes, TotalTimeout
<1>2. /\ DeadlineFacts \in FactSet
      /\ DeadlineFacts.cleanupSeen <=> now < window
      /\ DeadlineFacts.totalSeen <=> now < TotalTimeout
      /\ \A x \in {"leafMade", "handed", "spawned", "reaped", "code",
                   "termTried", "sockets", "descriptors", "cgTried",
                   "cgDone", "uncertain", "adopted", "noChildren",
                   "restored"} : DeadlineFacts[x] = facts[x]
  <2> DEFINE c == now < window
             t == now < TotalTimeout
             d == [facts EXCEPT !.cleanupSeen = c, !.totalSeen = t]
  <2>1. d = DeadlineFacts /\ c \in BOOLEAN /\ t \in BOOLEAN
    BY <1>1 DEF DeadlineFacts
  <2> HIDE DEF c, t
  <2>2. /\ d \in FactSet /\ d.cleanupSeen = c /\ d.totalSeen = t
        /\ \A x \in {"leafMade", "handed", "spawned", "reaped", "code",
                     "termTried", "sockets", "descriptors", "cgTried",
                     "cgDone", "uncertain", "adopted", "noChildren",
                     "restored"} : d[x] = facts[x]
    BY <1>1, <2>1 DEF FactSet
  <2> HIDE DEF d
  <2> QED
    BY <2>1, <2>2 DEF c, t
<1>3. CleanupStatus(DeadlineFacts) = CleanupStatus(facts)
  <2> DEFINE d == DeadlineFacts
  <2>1. LocalClean(d) <=> LocalClean(facts)
    BY <1>2 DEF LocalClean
  <2>2. /\ CleanupStatus(d) = "not_required" <=>
              CleanupStatus(facts) = "not_required"
        /\ CleanupStatus(d) = "completed" <=> CleanupStatus(facts) = "completed"
    BY <1>2, <2>1, StatusValue
  <2>3. /\ CleanupStatus(d) \in {"not_required", "completed", "incomplete"}
        /\ CleanupStatus(facts) \in {"not_required", "completed", "incomplete"}
    BY StatusValue, Zenon
  <2> HIDE DEF d
  <2>4. CleanupStatus(d) = CleanupStatus(facts)
    BY <2>2, <2>3
  <2> QED
    BY <2>4 DEF d
<1> QED
  BY <1>2, <1>3

\* A result is built from the facts and passes the strict validator.
LEMMA PublishKeeps ==
  ASSUME AttemptInv, pc \in {"finish", "recheck"},
         NEW fail, NEW next \in {"recheck", "done"},
         Ready(DeadlineFacts, fail), fail = NoFailure => failure = NoFailure,
         next = "done" => fail # NoFailure,
         Publish(DeadlineFacts, fail, next),
         UNCHANGED <<now, world, collected, wait, window, replay>>
  PROVE  AttemptInv'
<1> USE DEF AttemptInv, world, collected
<1> DEFINE d == DeadlineFacts
           named == Named(d, fail)
<1>1. /\ facts' = d /\ failure' = named /\ result' = Build(d, fail)
      /\ pc' = next
  BY BuildIsExact DEF Publish, Build
<1>2. /\ d \in FactSet
      /\ d.cleanupSeen <=> now < window
      /\ d.totalSeen <=> now < TotalTimeout
      /\ \A x \in {"leafMade", "handed", "spawned", "reaped", "code",
                   "termTried", "sockets", "descriptors", "cgTried",
                   "cgDone", "uncertain", "adopted", "noChildren",
                   "restored"} : d[x] = facts[x]
      /\ CleanupStatus(d) = CleanupStatus(facts)
  BY DeadlineFactsValue
<1>3. /\ fail # NoFailure => named = fail
      /\ Ready(d, named)
      /\ Outcome(d, named # NoFailure) = Outcome(d, fail # NoFailure)
  BY NamedValue
<1>4. named = NoFailure => fail = NoFailure /\ failure = NoFailure
  BY <1>3
<1>5. result'.status = CleanupStatus(d)
      /\ result'.outcome = Outcome(d, fail # NoFailure)
  BY <1>1 DEF Build
<1> HIDE DEF d, named
<1>6. AttemptTypes'
  <2>1. named \in FailureSet
    BY <1>3 DEF Ready
  <2> QED
    BY <1>1, <1>2, <2>1 DEF AttemptTypes, Places
<1>7. FactsAgree(facts)' /\ FactsInPlace'
  BY <1>1, <1>2, <1>3 DEF FactsAgree, FactsInPlace, Ready
<1>8. FactsAreTrue'
  BY <1>1, <1>2 DEF FactsAreTrue
<1>9. FailureFits(facts, failure)'
  BY <1>1, <1>3 DEF FailureFits, Ready
<1>10. FailureInPlace'
  BY <1>1, <1>3 DEF FailureInPlace, Ready
<1>11. VerdictGround'
  BY <1>1, <1>2, <1>4 DEF VerdictGround
<1>12. PublishedInTime'
  <2>1. Outcome(facts, failure # NoFailure)' = Outcome(d, fail # NoFailure)
    BY <1>1, <1>3 DEF Outcome
  <2>2. named = NoFailure => d.cleanupSeen /\ d.totalSeen
    BY <1>3 DEF Ready
  <2>3. window \in Int /\ now \in Nat /\ TotalTimeout \in Nat
    BY AttemptAssumption DEF AttemptTypes, TotalTimeout
  <2>4. next = "done" => named # NoFailure
    BY <1>3
  <2>5. window <= TotalTimeout /\ TotalTimeout' = TotalTimeout
    BY DEF PublishedInTime, TotalTimeout
  <2>6. /\ ~d.cleanupSeen => now >= window
        /\ ~d.totalSeen => now >= TotalTimeout
    BY <1>2, <2>3
  <2>7. CleanupStatus(facts)' = CleanupStatus(d)
    BY <1>1
  <2> QED
    BY <1>1, <1>5, <2>1, <2>2, <2>4, <2>5, <2>6, <2>7 DEF PublishedInTime
<1> QED
  BY <1>1, <1>6, <1>7, <1>8, <1>9, <1>10, <1>11, <1>12

\* The result is built against the deadlines as they are.
LEMMA FinishKeeps == AttemptInv /\ FinishOnTime => AttemptInv'
<1> SUFFICES ASSUME AttemptInv, FinishOnTime PROVE AttemptInv'
  OBVIOUS
<1> DEFINE fail == FailIf(now >= window, failure, "cleanup", "deadline_exceeded")
           overrun == [stage |-> "cleanup", reason |-> "deadline_exceeded",
                       part |-> Nothing]
<1>1. \/ fail = failure /\ (failure = NoFailure => ~(now >= window))
      \/ failure = NoFailure /\ fail = overrun /\ now >= window
  BY DEF FailIf
<1> HIDE DEF fail
<1>2. pc = "finish" /\ Publish(DeadlineFacts, fail, "recheck")
  BY DEF FinishOnTime, fail
<1>3. Ready(DeadlineFacts, fail)
  <2> USE DEF AttemptInv
  <2>1. window \in Int /\ now \in Nat /\ TotalTimeout \in Nat
    BY AttemptAssumption DEF AttemptTypes, TotalTimeout
  <2>2. overrun # NoFailure /\ fail \in FailureSet
    BY <1>1 DEF AttemptTypes, FailureSet, Stages, Reasons
  <2>3. FactsAgree(DeadlineFacts)
    BY DeadlineFactsValue DEF FactsAgree
  <2>4. FailureFits(DeadlineFacts, fail)
    <3>1. CASE fail = failure
      BY <3>1, DeadlineFactsValue DEF FailureFits
    <3>2. CASE failure = NoFailure /\ fail = overrun
      BY <1>2, <3>2, DeadlineFactsValue
      DEF FailureFits, VerdictGround, Stages, AllowedReasons
    <3> QED
      BY <1>1, <3>1, <3>2
  <2>5. fail = NoFailure =>
           /\ DeadlineFacts.spawned /\ DeadlineFacts.reaped
           /\ DeadlineFacts.cleanupSeen /\ replay \in Accepted
    BY SMTT(30), <1>1, <1>2, <2>1, <2>2, DeadlineFactsValue DEF VerdictGround
  <2>6. /\ DeadlineFacts.leafMade => DeadlineFacts.cgTried
        /\ DeadlineFacts.cleanupSeen => DeadlineFacts.totalSeen
        /\ replay # Nothing => DeadlineFacts.spawned
    <3>1. (facts.leafMade => facts.cgTried) /\ window <= TotalTimeout
      BY <1>2 DEF FactsInPlace, PublishedInTime
    <3>2. replay # Nothing => facts.spawned
      BY DEF VerdictGround
    <3> QED
      BY <2>1, <3>1, <3>2, DeadlineFactsValue
  <2>7. fail.stage = "cleanup" /\ fail.reason = "deadline_exceeded" =>
           ~(DeadlineFacts.cleanupSeen /\ DeadlineFacts.totalSeen)
    BY <1>1, <1>2, <2>1, DeadlineFactsValue DEF FailureInPlace
  <2>8. fail.reason = "cleanup_incomplete" =>
           CleanupStatus(DeadlineFacts) = "incomplete"
    BY <1>1, <1>2, DeadlineFactsValue DEF FailureInPlace
  <2> QED
    BY <2>2, <2>3, <2>4, <2>5, <2>6, <2>7, <2>8, DeadlineFactsValue DEF Ready
<1>4. fail = NoFailure => failure = NoFailure
  BY <1>1
<1> QED
  BY <1>2, <1>3, <1>4, PublishKeeps DEF FinishOnTime

\* The deadlines are looked at again after the result was built.
LEMMA RecheckKeeps == AttemptInv /\ RecheckDeadlines => AttemptInv'
<1> SUFFICES ASSUME AttemptInv, RecheckDeadlines PROVE AttemptInv'
  OBVIOUS
<1> DEFINE fail == FailIf(TRUE, failure, "cleanup", "deadline_exceeded")
           overrun == [stage |-> "cleanup", reason |-> "deadline_exceeded",
                       part |-> Nothing]
<1>1. /\ pc = "recheck"
      /\ UNCHANGED <<now, world, collected, wait, window, replay>>
      /\ window \in Int /\ now \in Nat /\ TotalTimeout \in Nat
  BY AttemptAssumption
  DEF RecheckDeadlines, AttemptInv, AttemptTypes, TotalTimeout
<1>2. CASE Overran /\ Publish(DeadlineFacts, fail, "done")
  <2> USE DEF AttemptInv
  <2>1. \/ fail = failure /\ failure # NoFailure
        \/ failure = NoFailure /\ fail = overrun
    BY DEF FailIf
  <2> HIDE DEF fail
  <2>2. fail # NoFailure /\ fail \in FailureSet
    BY <2>1 DEF AttemptTypes, FailureSet, Stages, Reasons
  <2>3. FactsAgree(DeadlineFacts)
    BY DeadlineFactsValue DEF FactsAgree
  <2>4. FailureFits(DeadlineFacts, fail)
    <3>1. CASE fail = failure
      BY <3>1, DeadlineFactsValue DEF FailureFits
    <3>2. CASE failure = NoFailure /\ fail = overrun
      BY <1>1, <3>2, DeadlineFactsValue
      DEF FailureFits, VerdictGround, Stages, AllowedReasons
    <3> QED
      BY <2>1, <3>1, <3>2
  <2>5. ~(DeadlineFacts.cleanupSeen /\ DeadlineFacts.totalSeen)
    BY <1>1, <1>2, DeadlineFactsValue DEF Overran
  <2>6. /\ DeadlineFacts.leafMade => DeadlineFacts.cgTried
        /\ DeadlineFacts.cleanupSeen => DeadlineFacts.totalSeen
        /\ replay # Nothing => DeadlineFacts.spawned
    <3>1. (facts.leafMade => facts.cgTried) /\ window <= TotalTimeout
      BY <1>1 DEF FactsInPlace, PublishedInTime
    <3>2. replay # Nothing => facts.spawned
      BY DEF VerdictGround
    <3> QED
      BY <1>1, <3>1, <3>2, DeadlineFactsValue
  <2>7. fail.reason = "cleanup_incomplete" =>
           CleanupStatus(DeadlineFacts) = "incomplete"
    BY SMTT(30), <1>1, <2>1, DeadlineFactsValue DEF FailureInPlace
  <2>8. Ready(DeadlineFacts, fail)
    BY <2>2, <2>3, <2>4, <2>5, <2>6, <2>7, DeadlineFactsValue DEF Ready
  <2> QED
    BY <1>1, <1>2, <2>2, <2>8, PublishKeeps
<1>3. CASE ~Overran /\ pc' = "done" /\ UNCHANGED <<facts, failure, result>>
  <2> USE DEF AttemptInv, world, collected
  <2>1. AttemptTypes'
    BY <1>1, <1>3 DEF AttemptTypes, Places
  <2>2. FactsAgree(facts)' /\ FactsInPlace' /\ FactsAreTrue'
    BY <1>1, <1>3 DEF FactsAgree, FactsInPlace, FactsAreTrue
  <2>3. FailureFits(facts, failure)' /\ FailureInPlace' /\ VerdictGround'
    BY <1>1, <1>3 DEF FailureFits, FailureInPlace, VerdictGround
  <2>4. PublishedInTime'
    <3>1. failure = NoFailure => now < window /\ now < TotalTimeout
      BY <1>1, <1>3 DEF PublishedInTime, Overran
    <3>2. Outcome(facts, failure # NoFailure)' = Outcome(facts, failure # NoFailure)
      BY <1>1, <1>3 DEF Outcome
    <3> QED
      BY <1>1, <1>3, <3>1, <3>2 DEF PublishedInTime, TotalTimeout
  <2> QED
    BY <1>3, <2>1, <2>2, <2>3, <2>4
<1> QED
  BY <1>2, <1>3 DEF RecheckDeadlines

(***************************************************************************)
(* The theorems.                                                           *)
(***************************************************************************)
LEMMA StutterKeeps == AttemptInv /\ UNCHANGED vars => AttemptInv'
<1> SUFFICES ASSUME AttemptInv, UNCHANGED vars PROVE AttemptInv'
  OBVIOUS
<1> USE DEF AttemptInv, vars, world, collected, report
<1>1. AttemptTypes'
  BY DEF AttemptTypes
<1>2. FactsAgree(facts)' /\ FactsInPlace'
  BY DEF FactsAgree, FactsInPlace
<1>3. FactsAreTrue'
  BY DEF FactsAreTrue
<1>4. FailureFits(facts, failure)'
  BY DEF FailureFits
<1>5. FailureInPlace'
  BY DEF FailureInPlace
<1>6. VerdictGround'
  BY DEF VerdictGround
<1>7. PublishedInTime'
  BY DEF PublishedInTime, Outcome
<1> QED
  BY <1>1, <1>2, <1>3, <1>4, <1>5, <1>6, <1>7

\* Every step of the lifecycle keeps the invariant.
LEMMA NextKeeps == AttemptInv /\ [AttemptNext]_vars => AttemptInv'
<1> SUFFICES ASSUME AttemptInv, [AttemptNext]_vars PROVE AttemptInv'
  OBVIOUS
<1>1. CASE Tick
  BY <1>1, TickKeeps
<1>2. CASE World
  BY <1>2, WorldKeeps
<1>3. ASSUME NEW fault \in BOOLEAN, Controller(fault) PROVE AttemptInv'
  BY <1>3, RetainKeeps, HandOffKeeps, SpawnKeeps, ReceiveKeeps,
     JudgeReceivedKeeps, PollKeeps, JudgeWaitKeeps, ObserveKeeps,
     FinalizeKeeps, CleanUpKeeps, ReapKeeps, RestoreKeeps, FinishKeeps,
     RecheckKeeps
  DEF Controller
<1>4. CASE UNCHANGED vars
  BY <1>4, StutterKeeps
<1> QED
  BY <1>1, <1>2, <1>3, <1>4 DEF AttemptNext, Returned

\* What the controller knows at each place holds throughout.
THEOREM AttemptInvariant == AttemptSpec => []AttemptInv
<1>1. AttemptInit => AttemptInv
  BY InitKeeps
<1>2. AttemptInv /\ [AttemptNext]_vars => AttemptInv'
  BY NextKeeps
<1> QED
  BY <1>1, <1>2, PTL DEF AttemptSpec

\* The model_validate call of _build_result never raises on the lifecycle
\* facts: bindings_outcome_and_cleanup_are_exact admits every result, whatever
\* failed and whenever a deadline passed.
THEOREM EvidenceAlwaysAdmitted == AttemptSpec => []EvidenceNeverRefused
<1>1. AttemptInv => EvidenceNeverRefused
  BY DEF AttemptInv, EvidenceNeverRefused
<1> QED
  BY <1>1, AttemptInvariant, PTL

\* A final result that does not say "incomplete" is true of the world: no
\* process, no leaf and no subreaper is left.
THEOREM CleanupClaimTrue == AttemptSpec => []CleanupClaimIsTrue
<1>1. AttemptInv => CleanupClaimIsTrue
  <2> SUFFICES ASSUME AttemptInv, pc = "done", result.status # "incomplete"
               PROVE  /\ launcher \in {"none", "reaped"}
                      /\ child \in {"none", "gone"}
                      /\ leaf # "present" /\ ~guard
    BY DEF CleanupClaimIsTrue
  <2>1. CleanupStatus(facts) # "incomplete"
    BY DEF AttemptInv, PublishedInTime
  <2>2. LocalClean(facts) /\ (~facts.leafMade \/ facts.cgDone)
    BY <2>1, StatusValue
  <2> QED
    BY <2>2 DEF LocalClean, AttemptInv, FactsAreTrue
<1> QED
  BY <1>1, AttemptInvariant, PTL

\* fixture_succeeded and launcher_failed are final only for a launcher that
\* left by itself with that exit status, before both deadlines.
THEOREM VerdictEarned == AttemptSpec => []VerdictIsEarned
<1>1. AttemptInv => VerdictIsEarned
  <2> SUFFICES ASSUME AttemptInv, pc = "done",
                      result.outcome # "orchestrator_failed"
               PROVE  /\ kills = 0 /\ launcher = "reaped"
                      /\ exitCode = (IF result.outcome = "fixture_succeeded"
                                     THEN "zero" ELSE "nonzero")
                      /\ now < window /\ now < TotalTimeout
    BY DEF VerdictIsEarned
  <2>1. /\ failure = NoFailure
        /\ result.outcome = (IF replay = "succeeded" THEN "fixture_succeeded"
                             ELSE "launcher_failed")
        /\ replay \in Accepted
    BY DEF AttemptInv, PublishedInTime, Outcome
  <2>2. kills = 0 /\ facts.reaped /\ now < window /\ now < TotalTimeout
    BY <2>1 DEF AttemptInv, VerdictGround, PublishedInTime
  <2> QED
    BY <2>1, <2>2 DEF AttemptInv, FactsAreTrue, VerdictGround
<1> QED
  BY <1>1, AttemptInvariant, PTL

\* The host guard is released only once no process of the attempt is left to
\* be reparented.
THEOREM SubreaperKept == AttemptSpec => []SubreaperUntilEmpty
<1>1. AttemptInv => SubreaperUntilEmpty
  BY DEF AttemptInv, FactsAreTrue, SubreaperUntilEmpty
<1> QED
  BY <1>1, AttemptInvariant, PTL

\* _wait_launcher sends SIGKILL only to a pid that is still the launcher's.
THEOREM OnlyItsChildSignalled == AttemptSpec => SignalsOnlyItsChild
<1>1. AttemptInv /\ [AttemptNext]_vars =>
         (kills' # kills => launcher \in {"running", "zombie"})
  <2> SUFFICES ASSUME AttemptInv, [AttemptNext]_vars, kills' # kills
               PROVE  launcher \in {"running", "zombie"}
    OBVIOUS
  <2>1. ~UNCHANGED vars /\ ~Tick /\ ~World
    BY DEF vars, world, Tick, World, LauncherSends, LauncherShuts,
           LauncherForks, ChildDies, LauncherReapsChild, LauncherExits
  <2>2. PICK fault \in BOOLEAN : Controller(fault)
    BY <2>1 DEF AttemptNext, Returned
  <2>3. JudgeWait(fault)
    BY <2>2 DEF Controller, world, RetainLeaf, HandOffLeaf, SpawnLauncher,
       Receive, JudgeReceived, PollLauncher, Observe, Finalize, CleanUpLeaf,
       ReapAdopted, Restore, FinishOnTime, RecheckDeadlines
  <2> QED
    BY <2>3 DEF JudgeWait, AttemptInv, FactsAreTrue
<1> QED
  BY <1>1, AttemptInvariant, PTL DEF AttemptSpec, SignalsOnlyItsChild
=============================================================================
