--------------------------- MODULE ConsumedAttempt ---------------------------
(***************************************************************************)
(* What the orchestrator does with one launch attempt after the launch     *)
(* ledger has consumed it (inert_orchestration.py,                         *)
(* _orchestrate_consumed_attempt and everything it calls, and              *)
(* _finalize_consumed_without_launch for a receipt that was only           *)
(* recovered): retain a cgroup leaf, hand it to the launcher, spawn, read  *)
(* the transcript, wait, clean up, and build the terminal result, which a  *)
(* strict validator must accept.                                           *)
(*                                                                         *)
(* Next to the controller the model keeps the truth it reports about: the  *)
(* launcher process, the fixture child, the leaf and the subreaper flag.   *)
(* Time is a counter that any step may see advance; it starts at 0, when   *)
(* the post-consumption clock is read.                                     *)
(***************************************************************************)
EXTENDS Integers, Sequences

CONSTANTS
    FixtureTimeout,     \* policy.fixture_timeout_ms
    CleanupTimeout,     \* policy.cleanup_timeout_ms
    MaxRecords,         \* PROTOCOL_MAX_FRAMES
    CloseOutcomes       \* may closing a descriptor fail

ASSUME AttemptAssumption ==
    /\ FixtureTimeout \in Nat \ {0}
    /\ CleanupTimeout \in Nat \ {0}
    /\ MaxRecords \in Nat \ {0}
    /\ CloseOutcomes \in {{TRUE}, BOOLEAN}

VARIABLES
    now,        \* time.monotonic_ns() - started_ns, in coarse units
    pc,         \* where the controller is
    launcher,   \* the spawned process
    exitCode,   \* the status it left, while a zombie or reaped
    doomed,     \* a SIGKILL is on its way to it
    shut,       \* the control socket is closed at either end
    wire,       \* records sent and not yet received
    child,      \* the fixture child it created in the leaf
    leaf,       \* the cgroup directory
    guard,      \* the controller is a child subreaper
    kills,      \* SIGKILLs sent to the launcher's pid
    got,        \* what the last recvmsg returned
    records,    \* _CollectionObservation.records
    eof,        \* _CollectionObservation.eof_observed
    wait,       \* the state of _wait_launcher_resilient
    window,     \* _CleanupWindow.deadline_ns, then cleanup_deadline_ns
    failure,    \* the primary failure of _ResultState
    facts,      \* the other fields of _ResultState and _NativeRun
    replay,     \* state.native_observation.transcript_replay
    result      \* the result the validator admitted

world == <<launcher, exitCode, doomed, shut, wire, child, leaf, guard, kills>>
collected == <<got, records, eof>>
report == <<failure, facts, replay, result>>
vars == <<now, pc, world, collected, wait, window, report>>

Nothing == "nothing"
NoFailure == [stage |-> Nothing, reason |-> Nothing, part |-> Nothing]
NoDeadline == -1

\* total_timeout_ms = fixture_timeout_ms + cleanup_timeout_ms.
TotalTimeout == FixtureTimeout + CleanupTimeout

Earlier(a, b) == IF a <= b THEN a ELSE b

\* min(overall_deadline_ns, now + cleanup_timeout).
CleanupWindow == Earlier(TotalTimeout, now + CleanupTimeout)

\* A well formed frame, a last frame that tells success or failure, and a
\* record that is truncated, of the wrong size or of the wrong sender.
Records == {"frame", "ok", "err", "bad"}

Codes == {"zero", "nonzero", "killed"}

(***************************************************************************)
(* The facts.  Two of them stand for several fields of one role: sockets   *)
(* for the control socket and the staging descriptors, whose failed close  *)
(* only the status tells, and descriptors for the staged executable, the   *)
(* leaf duplicate and the artifact handle, whose failed close is named.    *)
FreshFacts ==
    [leafMade |-> FALSE, handed |-> FALSE, spawned |-> FALSE,
     reaped |-> FALSE, code |-> Nothing, termTried |-> FALSE,
     sockets |-> TRUE, descriptors |-> TRUE,
     cgTried |-> FALSE, cgDone |-> FALSE, uncertain |-> FALSE,
     adopted |-> 0, noChildren |-> FALSE, restored |-> FALSE, cleanupSeen |-> TRUE, totalSeen |-> TRUE]

\* state.fail: only the first failure is kept.
Fail(stage, reason, part) ==
    IF failure = NoFailure
    THEN [stage |-> stage, reason |-> reason, part |-> part]
    ELSE failure

FailIf(bad, f, stage, reason) ==
    IF bad /\ f = NoFailure
    THEN [stage |-> stage, reason |-> reason, part |-> Nothing]
    ELSE f

NoResult ==
    [outcome |-> Nothing, status |-> Nothing, failure |-> NoFailure,
     facts |-> FreshFacts, replay |-> Nothing]

NoWait == [pass |-> 1, forced |-> FALSE, tried |-> FALSE,
           triedBefore |-> FALSE, lateBefore |-> FALSE, seen |-> FALSE]

\* The attempt is consumed and its receipt either verified (a launch follows)
\* or only recovered (no launch may follow).
AttemptInit ==
    /\ now = 0
    /\ launcher = "none" /\ exitCode = Nothing /\ doomed = FALSE
    /\ shut = FALSE /\ wire = <<>> /\ child = "none" /\ leaf = "none"
    /\ guard = TRUE /\ kills = 0
    /\ got = Nothing /\ records = <<>> /\ eof = FALSE
    /\ wait = NoWait
    /\ facts = FreshFacts /\ replay = Nothing /\ result = NoResult
    /\ \/ /\ pc = "retain" /\ window = NoDeadline /\ failure = NoFailure
       \/ /\ pc = "finalize" /\ window = CleanupTimeout
          /\ \E reason \in {"attempt_consumption_ambiguous",
                            "attempt_receipt_verification_failed"} :
                failure = [stage |-> "attempt_finalization",
                           reason |-> reason, part |-> Nothing]

(***************************************************************************)
(* The world: time, the launcher and the fixture child.                    *)
(***************************************************************************)
\* Nothing distinguishes two times past the overall deadline.
Tick ==
    /\ now < TotalTimeout /\ pc \notin {"done", "refused"}
    /\ now' = now + 1
    /\ UNCHANGED <<pc, world, collected, wait, window, report>>

\* The launcher writes a record; the collector is the only reader, so what
\* is written after it stopped does not matter.
LauncherSends ==
    /\ launcher = "running" /\ ~doomed /\ ~shut
    /\ pc \in {"collect", "received"}
    /\ Len(records) + Len(wire) <= MaxRecords
    /\ \E r \in Records : wire' = Append(wire, r)
    /\ UNCHANGED <<now, pc, launcher, exitCode, doomed, shut, child, leaf,
                   guard, kills, collected, wait, window, report>>

LauncherShuts ==
    /\ launcher = "running" /\ ~doomed /\ ~shut
    /\ pc \in {"collect", "received"}
    /\ shut' = TRUE
    /\ UNCHANGED <<now, pc, launcher, exitCode, doomed, wire, child, leaf,
                   guard, kills, collected, wait, window, report>>

\* clone3 into the leaf; it fails once the leaf directory is removed.
LauncherForks ==
    /\ launcher = "running" /\ ~doomed /\ child = "none" /\ leaf = "present"
    /\ child' = "live"
    /\ UNCHANGED <<now, pc, launcher, exitCode, doomed, shut, wire, leaf,
                   guard, kills, collected, wait, window, report>>

ChildDies ==
    /\ child = "live"
    /\ child' = "dead"
    /\ UNCHANGED <<now, pc, launcher, exitCode, doomed, shut, wire, leaf,
                   guard, kills, collected, wait, window, report>>

LauncherReapsChild ==
    /\ launcher = "running" /\ ~doomed /\ child = "dead"
    /\ child' = "gone"
    /\ UNCHANGED <<now, pc, launcher, exitCode, doomed, shut, wire, leaf,
                   guard, kills, collected, wait, window, report>>

LauncherExits ==
    /\ launcher = "running"
    /\ launcher' = "zombie" /\ doomed' = FALSE
    /\ \/ ~doomed /\ exitCode' \in {"zero", "nonzero"}
       \/ doomed /\ exitCode' = "killed"
    /\ UNCHANGED <<now, pc, shut, wire, child, leaf, guard, kills,
                   collected, wait, window, report>>

\* What happens once the orchestrator has returned is not followed.
World ==
    /\ pc \notin {"done", "refused"}
    /\ \/ LauncherSends \/ LauncherShuts \/ LauncherForks
       \/ ChildDies \/ LauncherReapsChild \/ LauncherExits

(***************************************************************************)
(* Before the launch.                                                      *)
(***************************************************************************)
\* retain_linux_cgroup_v2_leaf; module CgroupLeaf shows that an error other
\* than cleanup_incomplete leaves no leaf behind.  An interrupt delivered
\* between the mkdir and the try block that rolls it back is not modelled.
RetainLeaf ==
    /\ pc = "retain"
    /\ \/ /\ leaf' = "present" /\ pc' = "handoff"
          /\ facts' = [facts EXCEPT !.leafMade = TRUE]
          /\ UNCHANGED failure
       \/ /\ leaf' \in {"none", "present"} /\ pc' = "finalize"
          /\ facts' = [facts EXCEPT !.uncertain = TRUE]
          /\ failure' = Fail("cgroup_retention", "cgroup_retention_failed",
                             "cleanup_incomplete")
       \/ /\ pc' = "finalize"
          /\ \E reason \in {"cgroup_retention_failed", "unexpected_error"} :
                failure' = Fail("cgroup_retention", reason, Nothing)
          /\ UNCHANGED <<leaf, facts>>
    /\ UNCHANGED <<now, launcher, exitCode, doomed, shut, wire, child, guard,
                   kills, collected, wait, window, replay, result>>

\* retained.duplicate_leaf_fd, unless the fixture deadline has passed.
HandOffLeaf ==
    /\ pc = "handoff"
    /\ \/ /\ now >= FixtureTimeout /\ pc' = "finalize"
          /\ failure' = Fail("cgroup_handoff", "deadline_exceeded", Nothing)
          /\ UNCHANGED facts
       \/ /\ now < FixtureTimeout /\ pc' = "spawn"
          /\ facts' = [facts EXCEPT !.handed = TRUE]
          /\ UNCHANGED failure
       \/ /\ now < FixtureTimeout /\ pc' = "finalize"
          /\ failure' = Fail("cgroup_handoff", "cgroup_handoff_failed", Nothing)
          /\ UNCHANGED facts
    /\ UNCHANGED <<now, world, collected, wait, window, replay, result>>

\* The set-up and posix_spawn of _spawn_and_collect.
SpawnLauncher ==
    /\ pc = "spawn"
    /\ \/ /\ now >= FixtureTimeout /\ pc' = "finalize"
          /\ failure' = Fail("launcher_setup", "deadline_exceeded", Nothing)
          /\ UNCHANGED <<launcher, facts>>
       \/ /\ now < FixtureTimeout /\ pc' = "finalize"
          /\ \E f \in {<<"launcher_setup", "launcher_setup_failed">>,
                       <<"launcher_spawn", "launcher_spawn_failed">>} :
                failure' = Fail(f[1], f[2], Nothing)
          /\ UNCHANGED <<launcher, facts>>
       \/ /\ now < FixtureTimeout /\ pc' = "collect"
          /\ launcher' = "running"
          /\ facts' = [facts EXCEPT !.spawned = TRUE]
          /\ UNCHANGED failure
    /\ UNCHANGED <<now, exitCode, doomed, shut, wire, child, leaf, guard,
                   kills, collected, wait, window, replay, result>>

(***************************************************************************)
(* _collect_records.  recvmsg and the clock reading after it are two       *)
(* steps, so that the deadline may pass between them.                      *)
(***************************************************************************)
\* The collector returns: the control socket is closed and the exact wait
\* starts, forced when something already failed.
StopCollecting(f) ==
    /\ pc' = "wait"
    /\ failure' = f
    /\ wait' = [NoWait EXCEPT !.forced = (f # NoFailure)]
    /\ wire' = <<>> /\ shut' = TRUE
    /\ UNCHANGED facts

Receive(fault) ==
    /\ pc = "collect"
    /\ \/ /\ now >= FixtureTimeout
          /\ StopCollecting(Fail("transcript_collection",
                                 "deadline_exceeded", Nothing))
          /\ UNCHANGED got
       \/ /\ now < FixtureTimeout /\ fault
          /\ \E f \in {<<"transcript_collection", "transcript_collection_failed">>,
                       <<"transcript_validation", "unexpected_error">>} :
                StopCollecting(Fail(f[1], f[2], Nothing))
          /\ UNCHANGED got
       \/ /\ now < FixtureTimeout /\ wire # <<>>
          /\ got' = Head(wire) /\ wire' = Tail(wire) /\ pc' = "received"
          /\ UNCHANGED <<shut, wait, failure, facts>>
       \/ /\ now < FixtureTimeout /\ wire = <<>>
          /\ shut \/ launcher # "running"
          /\ got' = "hup" /\ pc' = "received"
          /\ UNCHANGED <<wire, shut, wait, failure, facts>>
    /\ UNCHANGED <<now, launcher, exitCode, doomed, child, leaf, guard,
                   kills, records, eof, window, replay, result>>

\* A peer hang-up is an end of file only before the deadline; a record is
\* kept even when it is the one that ends the collection.
JudgeReceived ==
    /\ pc = "received"
    /\ got' = Nothing
    /\ LET overflow == Len(records) >= MaxRecords
           late == now >= FixtureTimeout
       IN  IF got = "hup"
           THEN /\ eof' = ~late
                /\ UNCHANGED records
                /\ StopCollecting(FailIf(late, failure, "transcript_collection",
                                         "deadline_exceeded"))
           ELSE /\ records' = IF overflow THEN records ELSE Append(records, got)
                /\ UNCHANGED eof
                /\ IF got = "bad" \/ overflow
                   THEN StopCollecting(Fail("transcript_collection",
                                            "control_protocol_failed", Nothing))
                   ELSE IF late
                   THEN StopCollecting(Fail("transcript_collection",
                                            "deadline_exceeded", Nothing))
                   ELSE pc' = "collect" /\ UNCHANGED <<wire, shut, wait, failure, facts>>
    /\ UNCHANGED <<now, launcher, exitCode, doomed, child, leaf, guard,
                   kills, window, replay, result>>

(***************************************************************************)
(* _wait_launcher_resilient: at most two passes of _wait_launcher.  A pass *)
(* polls waitpid, then (as a separate step, so that the launcher may exit  *)
(* in between) decides to kill, to go on or to give up.                    *)
(***************************************************************************)
WindowSet == IF window = NoDeadline THEN CleanupWindow ELSE window

\* What _spawn_and_collect finds wrong with a wait, the gravest first.
WaitReason(seen, reaped, tried, late, recovered) ==
    IF ~seen \/ ~reaped THEN "launcher_wait_failed"
    ELSE IF late THEN "deadline_exceeded"
    ELSE IF recovered THEN "unexpected_error"
    ELSE IF tried THEN "deadline_exceeded"
    ELSE Nothing

\* The wait is over.
EndWait(seen, reaped, tried, late, recovered) ==
    /\ pc' = "observe"
    /\ facts' = [facts EXCEPT !.reaped = reaped, !.termTried = tried,
                              !.code = IF reaped THEN exitCode ELSE Nothing]
    /\ LET reason == WaitReason(seen, reaped, tried, late, recovered)
       IN  failure' = FailIf(reason # Nothing, failure, "launcher_wait", reason)
    /\ wait' = NoWait

\* A second pass that does not tell it was one.
PassDecidesQuietly(reaped, tried, late) ==
    EndWait(TRUE, reaped, FALSE, late \/ wait.lateBefore, FALSE)

\* A pass that reaped, or that lost the child, ends the wait in either pass:
\* after ECHILD the pid may belong to another process.
PassDecides(reaped, tried, late) ==
    EndWait(TRUE, reaped, tried \/ wait.triedBefore,
            late \/ wait.lateBefore, wait.pass = 2)

\* The second pass kills at once; it remembers what the first one told.
SecondPass(tried, late, seen) ==
    /\ wait' = [pass |-> 2, forced |-> TRUE, tried |-> FALSE,
                triedBefore |-> tried, lateBefore |-> late, seen |-> seen]
    /\ pc' = "wait"
    /\ UNCHANGED <<failure, facts>>

\* A pass that neither reaped nor lost the child.
PassGivesUp(tried, late) ==
    \/ wait.pass = 1 /\ SecondPass(tried, late, TRUE)
    \/ wait.pass = 2 /\ PassDecides(FALSE, tried, late)

\* A pass that raised: what it saw and did is lost.
PassRaises ==
    \/ wait.pass = 1 /\ SecondPass(FALSE, FALSE, FALSE)
    \/ /\ wait.pass = 2
       /\ EndWait(wait.seen, FALSE, wait.triedBefore, wait.lateBefore, TRUE)

\* A forced pass that signals without asking first.
StillChildOrForced == launcher = "running" \/ wait.forced

\* waitpid returned 0.
StillChild == launcher = "running"

\* os.waitpid(pid, WNOHANG) and what follows it directly.
PollLauncher(fault) ==
    /\ pc = "wait"
    /\ \/ /\ launcher = "zombie" /\ launcher' = "reaped"
          /\ window' = WindowSet
          /\ \/ PassDecides(TRUE, wait.tried, now >= FixtureTimeout)
             \/ fault /\ PassRaises
       \/ /\ launcher = "reaped" /\ UNCHANGED launcher
          /\ window' = WindowSet
          /\ PassDecides(FALSE, wait.tried, now >= FixtureTimeout)
       \/ /\ StillChild /\ pc' = "judge"
          /\ UNCHANGED <<launcher, window, wait, failure, facts>>
       \/ /\ launcher # "reaped" /\ fault /\ UNCHANGED launcher
          /\ window' = WindowSet
          /\ PassGivesUp(wait.tried, now >= FixtureTimeout) \/ PassRaises
    /\ UNCHANGED <<now, exitCode, doomed, shut, wire, child, leaf, guard,
                   kills, collected, replay, result>>

\* The rest of the loop body: terminate once when forced or late, then stop
\* at the active deadline or poll again.
JudgeWait(fault) ==
    /\ pc = "judge"
    /\ LET strike == ~wait.tried /\ (wait.forced \/ now >= FixtureTimeout)
           tried == wait.tried \/ strike
           limit == IF strike \/ window # NoDeadline THEN WindowSet
                    ELSE Earlier(FixtureTimeout, TotalTimeout)
       IN  /\ kills' = IF strike THEN kills + 1 ELSE kills
           /\ doomed' \in {doomed, doomed \/ (strike /\ launcher = "running")}
           /\ \/ /\ now >= limit /\ window' = WindowSet
                 /\ PassGivesUp(tried, TRUE)
              \/ /\ now < limit /\ pc' = "wait"
                 /\ window' = IF strike THEN WindowSet ELSE window
                 /\ wait' = [wait EXCEPT !.tried = tried]
                 /\ UNCHANGED <<failure, facts>>
              \/ fault /\ window' = WindowSet /\ PassRaises
    /\ UNCHANGED <<now, launcher, exitCode, shut, wire, child, leaf, guard,
                   collected, replay, result>>

(***************************************************************************)
(* _build_native_observation.  The parser accepts frames that end in one   *)
(* telling frame, followed by the end of file, with the exit status that   *)
(* frame announces.                                                        *)
(***************************************************************************)
\* A transcript accepted before its end.
AcceptsOpen(verdict, code) ==
    /\ records # <<>> /\ facts.code = code
    /\ records[Len(records)] = verdict

Accepts(verdict, code) ==
    /\ eof /\ records # <<>> /\ facts.code = code
    /\ records[Len(records)] = verdict
    /\ \A i \in 1 .. Len(records) - 1 : records[i] = "frame"

Replay ==
    CASE facts.code = Nothing -> "not_replayable"
      [] Accepts("ok", "zero") -> "succeeded"
      [] Accepts("err", "nonzero") -> "failed"
      [] OTHER -> "rejected"

Accepted == {"succeeded", "failed"}

\* The records are folded into the observation.
Observe ==
    /\ pc = "observe" /\ pc' = "finalize"
    /\ records' = <<>> /\ eof' = FALSE
    /\ \/ /\ replay' = Replay
          /\ failure' = FailIf(Replay \notin Accepted, failure,
                               "transcript_validation",
                               "native_transcript_rejected")
       \/ /\ failure' = Fail("transcript_validation", "unexpected_error", Nothing)
          /\ UNCHANGED replay
    /\ UNCHANGED <<now, world, got, wait, window, facts, result>>

(***************************************************************************)
(* Cleanup, in the order of the finally block.                             *)
(***************************************************************************)
\* Whether every descriptor was closed matters only from here on.
Finalize ==
    /\ pc = "finalize"
    /\ window' = WindowSet
    /\ \E sockets \in CloseOutcomes, descriptors \in CloseOutcomes :
          /\ sockets \/ facts.handed
          /\ facts' = [facts EXCEPT !.sockets = sockets,
                                    !.descriptors = descriptors,
                                    !.cgTried = facts.leafMade]
    /\ pc' = IF facts.leafMade THEN "cleanup" ELSE "reap"
    /\ UNCHANGED <<now, world, collected, wait, failure, replay, result>>

\* Completion recorded whether or not the call raised.
CleanUpLeafClaimed ==
    /\ pc = "cleanup" /\ pc' = "reap"
    /\ leaf' \in {leaf, "removed"}
    /\ child' = IF child = "live" THEN "dead" ELSE child
    /\ facts' = [facts EXCEPT !.cgDone = TRUE]
    /\ UNCHANGED <<now, launcher, exitCode, doomed, shut, wire, guard, kills,
                   collected, wait, window, failure, replay, result>>

\* retained.cleanup_with_timeout_ms: cgroup.kill, wait for populated 0,
\* remove the exact leaf.  A failure may come before or after each of these.
CleanUpLeaf ==
    /\ pc = "cleanup" /\ pc' = "reap"
    /\ \/ /\ leaf' = "removed"
          /\ child' = IF child = "live" THEN "dead" ELSE child
          /\ \E done \in BOOLEAN : facts' = [facts EXCEPT !.cgDone = done]
       \/ /\ child' \in {child, IF child = "live" THEN "dead" ELSE child}
          /\ UNCHANGED <<leaf, facts>>
    /\ UNCHANGED <<now, launcher, exitCode, doomed, shut, wire, guard, kills,
                   collected, wait, window, failure, replay, result>>

DispositionAssumed == TRUE

DispositionExact == ~facts.spawned \/ facts.reaped

\* waitpid(-1) raised ChildProcessError.
NoChild == child \in {"none", "gone"}

\* Poll for as long as a child lives.
CleanupDeadlineIgnored == FALSE

\* time.monotonic_ns() >= deadline_ns.
CleanupDeadlinePassed == now >= window

\* _reap_adopted_descendants: waitpid(-1, WNOHANG) until ECHILD or the
\* cleanup deadline; an unresolved launcher is never waited for this way.
ReapAdopted(fault) ==
    /\ pc = "reap"
    /\ \/ /\ DispositionExact /\ child = "dead"
          /\ child' = "gone"
          /\ facts' = [facts EXCEPT !.adopted = @ + 1]
          /\ UNCHANGED <<pc, failure>>
       \/ /\ DispositionExact /\ NoChild
          /\ facts' = [facts EXCEPT !.noChildren = TRUE]
          /\ pc' = "restore" /\ UNCHANGED <<child, failure>>
       \/ /\ DispositionExact => (child = "live" /\ CleanupDeadlinePassed)
          /\ failure' = Fail("cleanup", "cleanup_incomplete", Nothing)
          /\ pc' = "restore" /\ UNCHANGED <<child, facts>>
       \/ /\ DispositionExact /\ fault
          /\ failure' = Fail("cleanup", "cleanup_incomplete", Nothing)
          /\ pc' = "restore" /\ UNCHANGED <<child, facts>>
    /\ UNCHANGED <<now, launcher, exitCode, doomed, shut, wire, leaf, guard,
                   kills, collected, wait, window, replay, result>>

\* The artifact handle, the host guard, and the failures left to name.
Restore ==
    /\ pc = "restore" /\ pc' = "finish"
    /\ \E restored \in BOOLEAN :
          /\ restored => facts.noChildren
          /\ guard' \in IF restored THEN {FALSE}
                       ELSE IF facts.noChildren THEN BOOLEAN ELSE {guard}
          /\ facts' = [facts EXCEPT !.restored = restored]
          /\ failure' = FailIf(\/ ~facts.descriptors
                               \/ facts.noChildren /\ ~restored
                               \/ facts.cgTried /\ ~facts.cgDone,
                               failure, "cleanup", "cleanup_incomplete")
    /\ UNCHANGED <<now, launcher, exitCode, doomed, shut, wire, child, leaf,
                   kills, collected, wait, window, replay, result>>

(***************************************************************************)
(* The result: _cleanup_status, _build_cleanup, _build_result.  Policies,  *)
(* receipts, digests and identities are the inputs' and are left out.      *)
(***************************************************************************)
LocalClean(f) ==
    /\ f.sockets /\ f.descriptors /\ f.noChildren /\ f.restored
    /\ ~f.uncertain

CleanupStatus(f) ==
    LET common == LocalClean(f) /\ (f.spawned => f.reaped)
    IN  CASE common /\ ~f.leafMade /\ ~f.spawned -> "not_required"
          [] common /\ f.leafMade /\ f.cgDone -> "completed"
          [] OTHER -> "incomplete"

Outcome(f, failed) ==
    IF \/ failed \/ CleanupStatus(f) = "incomplete" \/ ~f.totalSeen
       \/ replay \notin Accepted
    THEN "orchestrator_failed"
    ELSE IF replay = "succeeded" THEN "fixture_succeeded" ELSE "launcher_failed"

\* The failure _build_result adds when it cannot report either outcome.
Named(f, fail) ==
    FailIf(Outcome(f, fail # NoFailure) = "orchestrator_failed", fail,
           "cleanup",
           IF f.totalSeen THEN "cleanup_incomplete" ELSE "deadline_exceeded")

Build(f, fail) ==
    [outcome |-> Outcome(f, fail # NoFailure), status |-> CleanupStatus(f),
     failure |-> Named(f, fail), facts |-> f, replay |-> replay]

(***************************************************************************)
(* The validators of the result: cleanup_state_is_exact and                *)
(* bindings_outcome_and_cleanup_are_exact.                                 *)
(***************************************************************************)
CleanupExact(r) ==
    LET f == r.facts
    IN  /\ f.cgDone => f.cgTried
        /\ ~(f.uncertain /\ f.cgTried)
        /\ f.restored => f.noChildren
        /\ r.status = "not_required" =>
              ~f.reaped /\ ~f.cgTried /\ ~f.cgDone /\ LocalClean(f)
        /\ r.status = "completed" => f.cgDone /\ LocalClean(f)
        /\ r.status = "incomplete" =>
              ~(LocalClean(f) /\ (f.cgDone \/ ~f.cgTried))

AllowedReasons ==
    [attempt_finalization |-> {"attempt_consumption_ambiguous",
                               "attempt_receipt_verification_failed"},
     cgroup_retention |-> {"cgroup_retention_failed", "unexpected_error"},
     cgroup_handoff |-> {"cgroup_handoff_failed", "deadline_exceeded"},
     launcher_setup |-> {"launcher_setup_failed", "deadline_exceeded",
                         "unexpected_error"},
     launcher_spawn |-> {"launcher_spawn_failed"},
     transcript_collection |-> {"deadline_exceeded", "control_protocol_failed",
                                "transcript_collection_failed"},
     launcher_wait |-> {"launcher_wait_failed", "deadline_exceeded",
                        "unexpected_error"},
     transcript_validation |-> {"native_transcript_rejected",
                                "unexpected_error"},
     cleanup |-> {"cleanup_incomplete", "deadline_exceeded"}]

\* What the named stage and reason say must have and have not happened.
StageConsistent(r) ==
    LET f == r.facts
        stage == r.failure.stage
        reason == r.failure.reason
    IN  stage # Nothing =>
        /\ reason \in AllowedReasons[stage]
        /\ stage \in {"attempt_finalization", "cgroup_retention"} =>
              ~f.leafMade /\ ~f.spawned
        /\ stage = "cgroup_handoff" => f.leafMade /\ ~f.handed /\ ~f.spawned
        /\ stage \in {"launcher_setup", "launcher_spawn"} =>
              f.leafMade /\ f.handed /\ ~f.spawned
        /\ stage \in {"transcript_collection", "launcher_wait",
                      "transcript_validation"} => f.spawned
        /\ reason = "launcher_wait_failed" => ~f.reaped
        /\ reason = "native_transcript_rejected" => r.replay = "rejected"
        /\ stage = "transcript_collection" => r.replay \notin Accepted
        /\ stage = "cleanup" =>
              f.leafMade /\ f.handed /\ f.spawned /\ r.replay \in Accepted
        /\ reason = "cleanup_incomplete" => r.status = "incomplete"
        /\ stage = "cleanup" /\ reason = "deadline_exceeded" =>
              ~(f.cleanupSeen /\ f.totalSeen)

ResultExact(r) ==
    LET f == r.facts
        complete == /\ r.status # "incomplete"
                    /\ f.spawned => f.reaped
                    /\ f.leafMade => f.cgDone
    IN  /\ CleanupExact(r)
        /\ StageConsistent(r)
        /\ f.handed => f.leafMade
        /\ r.replay # Nothing => f.spawned
        /\ f.spawned => f.leafMade /\ f.handed
        /\ f.leafMade => f.cgTried /\ ~f.uncertain
        /\ ~f.leafMade => ~f.cgTried /\ ~f.cgDone
        /\ r.status = "not_required" => ~f.leafMade /\ ~f.spawned
        /\ f.cleanupSeen => f.totalSeen
        /\ f.uncertain <=> r.failure.part = "cleanup_incomplete"
        /\ f.uncertain => r.status = "incomplete"
        /\ f.spawned /\ r.replay # Nothing => ((f.code # Nothing) <=> f.reaped)
        /\ ~f.spawned => ~f.reaped /\ ~f.termTried /\ f.adopted = 0
        /\ r.outcome = "orchestrator_failed" => r.failure # NoFailure
        /\ r.outcome # "orchestrator_failed" =>
              /\ r.replay = (IF r.outcome = "fixture_succeeded"
                             THEN "succeeded" ELSE "failed")
              /\ complete /\ f.leafMade /\ f.handed /\ f.spawned
              /\ f.cleanupSeen /\ f.totalSeen /\ r.failure = NoFailure

(***************************************************************************)
(* _finish_result_before_deadline: judge the deadlines, build, and judge   *)
(* them again, because building takes time too.                            *)
(***************************************************************************)
DeadlineFacts == [facts EXCEPT !.cleanupSeen = now < window,
                               !.totalSeen = now < TotalTimeout]

Publish(f, fail, next) ==
    LET r == Build(f, fail)
    IN  /\ facts' = f
        /\ failure' = r.failure
        /\ result' = r
        /\ pc' = IF ResultExact(r) THEN next ELSE "refused"

FinishOnTime ==
    /\ pc = "finish"
    /\ Publish(DeadlineFacts,
               FailIf(now >= window, failure, "cleanup", "deadline_exceeded"),
               "recheck")
    /\ UNCHANGED <<now, world, collected, wait, window, replay>>

Overran ==
    \/ facts.cleanupSeen /\ now >= window
    \/ facts.totalSeen /\ now >= TotalTimeout

RecheckDeadlines ==
    /\ pc = "recheck"
    /\ \/ /\ Overran
          /\ Publish(DeadlineFacts,
                     FailIf(TRUE, failure, "cleanup", "deadline_exceeded"), "done")
       \/ /\ ~Overran
          /\ pc' = "done"
          /\ UNCHANGED <<facts, failure, result>>
    /\ UNCHANGED <<now, world, collected, wait, window, replay>>

Returned ==
    pc \in {"done", "refused"} /\ UNCHANGED vars

\* The steps of a polling loop take a fault: a system call that fails or
\* raises where the loop would have gone on.
Controller(fault) ==
    \/ RetainLeaf \/ HandOffLeaf \/ SpawnLauncher
    \/ Receive(fault) \/ JudgeReceived
    \/ PollLauncher(fault) \/ JudgeWait(fault) \/ Observe
    \/ Finalize \/ CleanUpLeaf \/ ReapAdopted(fault) \/ Restore
    \/ FinishOnTime \/ RecheckDeadlines

AttemptNext ==
    \/ Tick
    \/ World
    \/ \E fault \in BOOLEAN : Controller(fault)
    \/ Returned

\* The controller keeps running and time keeps passing.  No fault ever has
\* to happen, and nothing is assumed of the launcher and the child.
AttemptSpec ==
    /\ AttemptInit /\ [][AttemptNext]_vars
    /\ WF_vars(Controller(FALSE)) /\ WF_vars(Tick)

(***************************************************************************)
(* Properties.                                                             *)
(***************************************************************************)
Places == {"retain", "handoff", "spawn", "collect", "received", "wait",
           "judge", "observe", "finalize", "cleanup", "reap", "restore",
           "finish", "recheck", "done", "refused"}

\* Every path through the lifecycle, with every fault modelled here, builds
\* evidence that the strict validator admits: no rule of
\* bindings_outcome_and_cleanup_are_exact that reads the lifecycle facts makes
\* the model_validate call of _build_result raise.  (A clock that fails, the
\* digests and the errno fields are not modelled.)
EvidenceNeverRefused == pc # "refused"

\* A result that claims complete cleanup tells the truth about the world: no
\* process of the attempt is left, no leaf is left, and the process is no
\* longer a subreaper.
CleanupClaimIsTrue ==
    pc = "done" /\ result.status # "incomplete" =>
        /\ launcher \in {"none", "reaped"}
        /\ child \in {"none", "gone"}
        /\ leaf # "present"
        /\ ~guard

\* fixture_succeeded and launcher_failed are reported only for a launcher that
\* left on its own with the exit status of that verdict and was never sent
\* SIGKILL, and become final only before both deadlines, although building and
\* validating the result takes time.
VerdictIsEarned ==
    pc = "done" /\ result.outcome # "orchestrator_failed" =>
        /\ kills = 0 /\ launcher = "reaped"
        /\ exitCode = (IF result.outcome = "fixture_succeeded"
                       THEN "zero" ELSE "nonzero")
        /\ now < window /\ now < TotalTimeout

\* The controller stays a subreaper while a process of the attempt may still
\* be reparented to it.
SubreaperUntilEmpty ==
    ~guard => launcher \in {"none", "reaped"} /\ child \in {"none", "gone"}

\* SIGKILL is sent to the launcher's pid only while that pid is still the
\* launcher's own, running or unreaped; after a reap it could be anyone's.
SignalsOnlyItsChild ==
    [][kills' # kills => launcher \in {"running", "zombie"}]_vars

\* The orchestrator always returns, even from a launcher that ignores
\* everything: the deadlines bound every loop.
AttemptReturns == <>(pc = "done")
=============================================================================
