--------------------------- MODULE NativeLauncher ---------------------------
(***************************************************************************)
(* The fixed native launcher, worker/linux/inert_fixture_launcher, with    *)
(* the child it clones into the leaf, the kernel's part in the child's     *)
(* life, and the peer of its control socket.  The child may be killed from *)
(* outside at any time, and so may the launcher.  Any system call may      *)
(* fail; the errno it leaves is zero only where the code can send a stale  *)
(* or cleared one.                                                         *)
(***************************************************************************)
EXTENDS NativeTranscript

CONSTANTS LauncherPid, ChildPid

ASSUME PidsAssumption ==
  /\ LauncherPid \in 1..LINUX_MAX_PID /\ ChildPid \in 1..LINUX_MAX_PID
  /\ LauncherPid # ChildPid

VARIABLES
  pc,         \* where main is
  failure,    \* struct bpe_failure
  achieved,   \* runtime.achieved; the first bit is child_created too,
              \* and the bit CHILD_REAPED is child_reaped
  usable,     \* runtime.control_usable
  peerOpen,   \* runtime.peer_open
  deadline,   \* the deadline in force: none, running or due
  seen,       \* success_record_seen, exit_seen, empty_seen; "owned" until
              \* the descriptors main opened are closed
  incomplete, \* terminal_cleanup_incomplete
  frames,     \* what was sent; the next sequence number is its length
  exit,       \* the exit status, or -1 while the launcher runs
  peer,       \* the far end of the control socket
  child,      \* what the child is doing
  signals,    \* the signals sent to the child and not yet delivered
  how,        \* how the child ended
  pipe,       \* what the child wrote to the readiness pipe
  populated,  \* whether the leaf holds the child
  stopped     \* whether the child ever stopped

launcherVars == <<pc, failure, achieved, usable, peerOpen, deadline, seen,
                  incomplete, frames, exit>>
worldVars == <<peer, child, signals, how, pipe, populated, stopped>>
nativeVars == <<launcherVars, worldVars>>

\* EIO stands for every errno that means nothing special to the launcher.
EIO == 5
EAGAIN == 11
KILLED == -9
NoFailure == [stage |-> "STARTUP", reason |-> "NONE", errno |-> 0]
Failure(stage, reason, errno) == [stage |-> stage, reason |-> reason, errno |-> errno]

Created == CLONE3_INTO_CGROUP \in achieved
Reaped == CHILD_REAPED \in achieved
Alive == child \in {"closing", "written", "paused", "stopped"}
PipeAtEnd == child \in {"paused", "stopped", "exiting", "zombie", "reaped"}

bpe_exit_for_reason(reason) ==
  CASE Reason[reason] \in 1..8 -> EXIT_STARTUP
    [] Reason[reason] \in 9..10 -> EXIT_PROTOCOL
    [] Reason[reason] \in 11..19 \cup {22} -> EXIT_KERNEL
    [] Reason[reason] = 20 -> EXIT_TIMEOUT
    [] Reason[reason] = 21 -> EXIT_CLEANUP
    [] OTHER -> EXIT_INTERNAL

NativeInit ==
  /\ pc = "startup" /\ failure = NoFailure /\ achieved = {}
  /\ usable = FALSE /\ peerOpen = TRUE /\ deadline = "none"
  /\ seen = {} /\ incomplete = FALSE /\ frames = <<>> /\ exit = -1
  /\ peer \in {"open", "sent", "closed"}
  /\ child = "none" /\ signals = {} /\ how = "none" /\ pipe = "empty"
  /\ populated = FALSE /\ stopped = FALSE

(***************************************************************************)
(* Steps that many places share.                                           *)
(***************************************************************************)
Fail(stage, reason, errnos) ==
  /\ \E errno \in errnos : failure' = Failure(stage, reason, errno)
  /\ pc' = "fail"
  /\ UNCHANGED <<achieved, usable, peerOpen, deadline, seen, incomplete, frames, exit, worldVars>>

Goto(next) ==
  /\ pc' = next
  /\ UNCHANGED <<failure, achieved, usable, peerOpen, deadline, seen, incomplete, frames,
                 exit, worldVars>>

Achieve(bits, next) ==
  /\ achieved' = achieved \cup bits /\ pc' = next
  /\ UNCHANGED <<failure, usable, peerOpen, deadline, seen, incomplete, frames, exit>>

\* poll reports input, or a peer that hung up, which may read as input too;
\* or the descriptor turns out to be invalid.
bpe_control_failed(stage, fault) ==
  \/ peer # "open" /\ Fail("PROTOCOL", "PROTOCOL_INPUT", {0})
  \/ /\ peer = "closed" /\ peerOpen' = FALSE
     /\ failure' = Failure("PROTOCOL", "PEER_CLOSED", 0) /\ pc' = "fail"
     /\ UNCHANGED <<achieved, usable, deadline, seen, incomplete, frames, exit, worldVars>>
  \/ /\ fault /\ usable' = FALSE /\ peerOpen' = FALSE
     /\ failure' = Failure(stage, "IO_FAILURE", EIO) /\ pc' = "fail"
     /\ UNCHANGED <<achieved, deadline, seen, incomplete, frames, exit, worldVars>>

bpe_control_quiet(stage, next) ==
  \/ peer = "open" /\ Goto(next)
  \/ bpe_control_failed(stage, TRUE)
  \/ Fail(stage, "IO_FAILURE", {EIO})

Frame(type, status, f, value0, value1) ==
  [type |-> type, sequence |-> Len(frames), status |-> status, stage |-> f.stage,
   reason |-> f.reason, errno |-> f.errno, value0 |-> value0, value1 |-> value1]

\* A frame is sent whole or not at all; a peer that closed gets none.
bpe_emit_frame(frame) ==
  /\ usable /\ peerOpen /\ peer # "closed"
  /\ frames' = Append(frames, frame)

EmitOrFail(type, stage, value0, value1, next) ==
  \/ /\ bpe_emit_frame(Frame(type, "OK", Failure(stage, "NONE", 0), value0, value1))
     /\ pc' = next
     /\ UNCHANGED <<failure, achieved, usable, peerOpen, deadline, seen, incomplete, exit, worldVars>>
  \/ Fail("PROTOCOL", "IO_FAILURE", {EIO})

\* A poll that waits.  A deadline that is due wins over any event.
bpe_poll_until(stage, fault) ==
  \/ deadline = "due" /\ Fail(stage, "TIMEOUT", {0})
  \/ deadline # "due" /\ fault /\ Fail(stage, "IO_FAILURE", {EIO})
  \/ deadline # "due" /\ bpe_control_failed(stage, fault)

\* One reading of cgroup.events by a loop that waits for the leaf to empty.
LookAtEvents(next, failed) ==
  \/ /\ seen' = IF populated THEN seen ELSE seen \cup {"empty"}
     /\ pc' = next
     /\ UNCHANGED <<failure, achieved, usable, peerOpen, deadline, incomplete, frames, exit, worldVars>>
  \/ "empty" \notin seen /\ failed

\* What the loop knows after it asked waitid, and whether poll wakes it.
SeenNow == IF child = "zombie" THEN seen \cup {"exit"} ELSE seen
Woken == child = "zombie" \/ (~populated /\ "empty" \notin seen)

Note(facts, next) ==
  /\ seen' = facts /\ pc' = next
  /\ UNCHANGED <<failure, achieved, usable, peerOpen, deadline, incomplete, frames, exit, worldVars>>

Exited(status) ==
  /\ exit' = status /\ pc' = "exited"
  /\ UNCHANGED <<failure, achieved, usable, peerOpen, deadline, seen, incomplete, worldVars>>

(***************************************************************************)
(* Startup.                                                                *)
(***************************************************************************)
ValidateArguments ==
  /\ pc = "startup"
  /\ \/ Exited(EXIT_INTERNAL) /\ UNCHANGED frames
     \/ \E reason \in {"BAD_ARGC", "BAD_ARGV", "NONEMPTY_ENVIRONMENT"} : Fail("STARTUP", reason, {0})
     \/ Fail("DESCRIPTOR_VALIDATION", "BAD_STDIO", {0, EIO})
     \/ Goto("control")

\* A record that waits on the socket is consumed before the launcher fails.
bpe_validate_control_fd ==
  /\ pc = "control"
  /\ \/ Fail("DESCRIPTOR_VALIDATION", "BAD_CONTROL_SOCKET", {0, EIO})
     \/ /\ peer = "closed" /\ peerOpen' = FALSE
        /\ failure' = Failure("DESCRIPTOR_VALIDATION", "PEER_CLOSED", EIO) /\ pc' = "fail"
        /\ UNCHANGED <<achieved, usable, deadline, seen, incomplete, frames, exit, worldVars>>
     \/ /\ peer = "open" /\ usable' = TRUE /\ pc' = "cgroup"
        /\ UNCHANGED <<failure, achieved, peerOpen, deadline, seen, incomplete, frames, exit, worldVars>>

bpe_validate_cgroup_fd ==
  /\ pc = "cgroup"
  /\ \/ Fail("DESCRIPTOR_VALIDATION", "BAD_CGROUP_DESCRIPTOR", {0, EIO})
     \/ Note(seen \cup {"owned"}, "layout")

\* The table of open descriptors is exactly the one the parent had to make.
bpe_validate_no_extra_fds ==
  /\ pc = "layout"
  /\ \/ Fail("DESCRIPTOR_VALIDATION", "BAD_DESCRIPTOR_LAYOUT", {0, EIO})
     \/ Goto("files")

bpe_open_cgroup_files ==
  /\ pc = "files"
  /\ \/ Fail("CGROUP_VALIDATION", "BAD_CGROUP_DESCRIPTOR", {0, EIO})
     \/ Goto("empty")

\* Both cgroup.events and cgroup.procs must say that the leaf is empty.
CheckLeafEmpty ==
  /\ pc = "empty"
  /\ \/ Fail("CGROUP_VALIDATION", "BAD_CGROUP_DESCRIPTOR", {0, EIO})
     \/ Fail("CGROUP_VALIDATION", "CGROUP_NOT_EMPTY", {0})
     \/ Goto("filter")

bpe_install_seccomp ==
  /\ pc = "filter"
  /\ \/ Fail("STARTUP", "INTERNAL", {0, EIO})
     \/ Goto("hello")

EmitHello == pc = "hello" /\ EmitOrFail("HELLO", "STARTUP", LauncherPid, 0, "arm")

ArmDeadline ==
  /\ pc = "arm"
  /\ \/ Fail("FIXTURE_SETUP", "INTERNAL", {0, EIO})
     \/ /\ deadline' = "running" /\ pc' = "quietFixture"
        /\ UNCHANGED <<failure, achieved, usable, peerOpen, seen, incomplete, frames, exit, worldVars>>

(***************************************************************************)
(* The fixture.                                                            *)
(***************************************************************************)
CloneFailed ==
  \/ Fail("FIXTURE_SETUP", "RESOURCE_EXHAUSTED", {EIO})
  \/ Fail("CLONE3", "CLONE3_UNAVAILABLE", {ENOSYS})
  \/ Fail("CLONE3", "RESOURCE_EXHAUSTED", {EAGAIN})
  \/ Fail("CLONE3", "CLONE3_REJECTED", {EIO})

\* How main goes on once the child runs.
Cloned(bits, outcome, next) ==
  /\ child' = "closing" /\ populated' = TRUE
  /\ achieved' = achieved \cup bits /\ failure' = outcome /\ pc' = next
  /\ UNCHANGED <<usable, peerOpen, deadline, seen, incomplete, frames, exit,
                 peer, signals, how, pipe, stopped>>

\* Mutant: the pidfd counts as created before it is checked.
CloneCountsPidfdEarly ==
  /\ pc = "clone"
  /\ \/ CloneFailed
     \/ \E errno \in {0, EIO} :
          Cloned({CLONE3_INTO_CGROUP, PIDFD_CREATED},
                 Failure("CLONE3", "PIDFD_UNAVAILABLE", errno), "fail")
     \/ Cloned({CLONE3_INTO_CGROUP, PIDFD_CREATED}, Failure("FIXTURE_SETUP", "IO_FAILURE", EIO), "fail")
     \/ Cloned({CLONE3_INTO_CGROUP, PIDFD_CREATED}, failure, "ready")


bpe_clone_fixture ==
  /\ pc = "clone"
  /\ \/ CloneFailed
     \/ \E errno \in {0, EIO} :
          Cloned({CLONE3_INTO_CGROUP}, Failure("CLONE3", "PIDFD_UNAVAILABLE", errno), "fail")
     \/ Cloned({CLONE3_INTO_CGROUP, PIDFD_CREATED}, Failure("FIXTURE_SETUP", "IO_FAILURE", EIO), "fail")
     \/ Cloned({CLONE3_INTO_CGROUP, PIDFD_CREATED}, failure, "ready")

\* The record first, then the end of the pipe.
bpe_wait_child_ready(fault) ==
  /\ pc = "ready"
  /\ \/ bpe_poll_until("CHILD_READY", fault)
     \/ /\ deadline # "due"
        /\ \/ fault /\ Fail("CHILD_READY", "CHILD_SETUP_FAILED", {0, EIO})
           \/ /\ "record" \notin seen /\ pipe = "failed"
              /\ Fail("CHILD_READY", "CHILD_SETUP_FAILED", {EIO})
           \/ /\ "record" \notin seen /\ pipe = "empty" /\ PipeAtEnd
              /\ Fail("CHILD_READY", "CHILD_SETUP_FAILED", {0})
           \/ "record" \notin seen /\ pipe = "ready" /\ Note(seen \cup {"record"}, "ready")
           \/ "record" \in seen /\ PipeAtEnd /\ Goto("populated")

bpe_wait_populated_one(fault) ==
  /\ pc = "populated"
  /\ \/ fault /\ Fail("CHILD_READY", "IO_FAILURE", {0, EIO})
     \/ populated /\ Goto("procs")
     \/ ~populated /\ bpe_poll_until("CHILD_READY", fault)
     \/ /\ ~populated /\ deadline # "due" /\ child = "zombie"
        /\ Fail("CHILD_READY", "CHILD_SETUP_FAILED", {0})

\* cgroup.procs may drop a child that is exiting before the leaf is empty.
ProcsMatch == IF Alive THEN {TRUE} ELSE IF populated THEN {TRUE, FALSE} ELSE {FALSE}

CheckProcs ==
  /\ pc = "procs"
  /\ \/ Fail("CHILD_READY", "IO_FAILURE", {EIO})
     \/ FALSE \in ProcsMatch /\ Fail("CHILD_READY", "CHILD_OBSERVATION_FAILED", {0})
     \/ TRUE \in ProcsMatch /\ Achieve({BUILTIN_NOEXEC}, "quietReady") /\ UNCHANGED worldVars

SendStop ==
  /\ pc = "stop"
  /\ \/ Fail("PIDFD_SIGNAL", "PIDFD_SIGNAL_FAILED", {EIO})
     \/ /\ Achieve({PIDFD_STOP_SENT}, "watch")
        /\ signals' = IF Alive THEN signals \cup {"SIGSTOP"} ELSE signals
        /\ UNCHANGED <<peer, child, how, pipe, populated, stopped>>

\* waitid first, so a child that stopped counts even when the deadline is due.
ObserveStop(fault) ==
  /\ pc = "watch"
  /\ \/ fault /\ Fail("PIDFD_SIGNAL", "CHILD_OBSERVATION_FAILED", {EIO})
     \/ child = "stopped" /\ Achieve({PIDFD_STOP_OBSERVED}, "recheck") /\ UNCHANGED worldVars
     \/ child = "zombie" /\ Fail("PIDFD_SIGNAL", "CHILD_OBSERVATION_FAILED", {0, EIO})
     \/ child # "stopped" /\ bpe_poll_until("PIDFD_SIGNAL", fault)

RecheckMembership ==
  /\ pc = "recheck"
  /\ \/ Fail("PIDFD_SIGNAL", "IO_FAILURE", {0, EIO})
     \/ ~populated /\ Fail("PIDFD_SIGNAL", "CHILD_OBSERVATION_FAILED", {0})
     \/ FALSE \in ProcsMatch /\ Fail("PIDFD_SIGNAL", "CHILD_OBSERVATION_FAILED", {0})
     \/ populated /\ TRUE \in ProcsMatch /\ Goto("quietSignal")

KillCgroup ==
  /\ pc = "kill"
  /\ \/ Fail("CGROUP_KILL", "CGROUP_KILL_FAILED", {EIO})
     \/ /\ Achieve({LIVE_CGROUP_KILL}, "observeEvents")
        /\ signals' = IF Alive THEN signals \cup {"SIGKILL"} ELSE signals
        /\ UNCHANGED <<peer, child, how, pipe, populated, stopped>>

ObserveEvents ==
  /\ pc = "observeEvents"
  /\ LookAtEvents("observeExit", Fail("CHILD_OBSERVATION", "IO_FAILURE", {0, EIO}))

\* Mutant: the exit of the child is taken to mean that the leaf is empty.
ObserveExitOnly(fault) ==
  /\ pc = "observeExit"
  /\ \/ fault /\ Fail("CHILD_OBSERVATION", "CHILD_OBSERVATION_FAILED", {EIO})
     \/ "exit" \in SeenNow /\ Note(SeenNow, "judge")
     \/ "exit" \notin SeenNow /\ bpe_poll_until("CHILD_OBSERVATION", fault)
     \/ "exit" \notin SeenNow /\ deadline # "due" /\ Woken /\ Note(SeenNow, "observeEvents")


ObserveExit(fault) ==
  /\ pc = "observeExit"
  /\ \/ fault /\ Fail("CHILD_OBSERVATION", "CHILD_OBSERVATION_FAILED", {EIO})
     \/ {"exit", "empty"} \subseteq SeenNow /\ Note(SeenNow, "judge")
     \/ /\ ~({"exit", "empty"} \subseteq SeenNow)
        /\ \/ bpe_poll_until("CHILD_OBSERVATION", fault)
           \/ deadline # "due" /\ Woken /\ Note(SeenNow, "observeEvents")

JudgeExit ==
  /\ pc = "judge"
  /\ \/ how # "killed" /\ Fail("CHILD_OBSERVATION", "CHILD_OBSERVATION_FAILED", {0})
     \/ /\ how = "killed"
        /\ Achieve({PIDFD_EXIT_OBSERVED, CGROUP_EMPTY}, "quietObserved") /\ UNCHANGED worldVars

\* The child is reaped only once its exit was seen, so the call cannot block.
Reap(next) ==
  /\ Achieve({CHILD_REAPED}, next)
  /\ child' = "reaped"
  /\ UNCHANGED <<peer, signals, how, pipe, populated, stopped>>

bpe_reap_child ==
  /\ pc = "reap"
  /\ \/ Fail("CHILD_REAP", "CHILD_REAP_FAILED", {0, EIO})
     \/ child = "zombie" /\ Reap("finish")

CheckAchieved ==
  /\ pc = "finish"
  /\ \/ Fail("CLEANUP", "INTERNAL", {0})
     \/ Mask(achieved) = ACHIEVED_RESULT_MASK /\ Goto("quietCleanup")

\* The descriptors are gone whether or not a close reported an error.
bpe_close_owned ==
  /\ pc = "close"
  /\ seen' = seen \ {"owned"}
  /\ \/ failure' = Failure("CLEANUP", "CLEANUP_INCOMPLETE", EIO) /\ pc' = "fail"
     \/ failure' = failure /\ pc' = "final"
  /\ UNCHANGED <<achieved, usable, peerOpen, deadline, incomplete, frames, exit, worldVars>>

EmitFinal ==
  /\ pc = "final"
  /\ LET final == Failure("CLEANUP", "NONE", 0)
     IN \/ Exited(EXIT_OK) /\ bpe_emit_frame(Frame("FINAL", "OK", final, Mask(achieved), 1))
        \/ Exited(EXIT_PROTOCOL) /\ UNCHANGED frames

Checkpoint ==
  \/ pc = "quietFixture" /\ bpe_control_quiet("FIXTURE_SETUP", "clone")
  \/ pc = "quietReady" /\ bpe_control_quiet("CHILD_READY", "emitReady")
  \/ pc = "quietSignal" /\ bpe_control_quiet("PIDFD_SIGNAL", "emitSignaled")
  \/ pc = "quietKill" /\ bpe_control_quiet("CGROUP_KILL", "kill")
  \/ pc = "quietObserved" /\ bpe_control_quiet("CHILD_OBSERVATION", "emitObserved")
  \/ pc = "quietCleanup" /\ bpe_control_quiet("CLEANUP", "close")

EmitProgress ==
  \/ pc = "emitReady"
       /\ EmitOrFail("CHILD_READY", "CHILD_READY", ChildPid, REQUIRED_CLONE_FLAGS, "stop")
  \/ pc = "emitSignaled"
       /\ EmitOrFail("CHILD_SIGNALED", "PIDFD_SIGNAL", CLD_STOPPED, SIGSTOP, "quietKill")
  \/ pc = "emitObserved"
       /\ EmitOrFail("CHILD_OBSERVED", "CHILD_OBSERVATION", CLD_KILLED, SIGKILL, "reap")

(***************************************************************************)
(* The failure path.                                                       *)
(***************************************************************************)
Unclean(next) ==
  /\ incomplete' = TRUE /\ pc' = next
  /\ UNCHANGED <<failure, achieved, usable, peerOpen, deadline, seen, frames, exit, worldVars>>

\* The kills may both fail, and that is not looked at.
BeginCleanup ==
  /\ pc = "fail"
  /\ \/ (~Created \/ Reaped) /\ Goto("closeFail")
     \/ Created /\ ~Reaped /\ Unclean("closeFail")
     \/ /\ Created /\ ~Reaped
        /\ deadline' = "running" /\ seen' = seen \ {"exit", "empty"} /\ pc' = "sweepEvents"
        /\ signals' \in {signals, IF Alive THEN signals \cup {"SIGKILL"} ELSE signals}
        /\ UNCHANGED <<failure, achieved, usable, peerOpen, incomplete, frames, exit,
                       peer, child, how, pipe, populated, stopped>>

SweepEvents == pc = "sweepEvents" /\ LookAtEvents("sweepExit", Goto("sweepEmpty"))

\* Mutant: the emergency cleanup waits without a deadline.
SweepExitUnbounded(fault) ==
  /\ pc = "sweepExit"
  /\ \/ fault /\ Goto("sweepEmpty")
     \/ {"exit", "empty"} \subseteq SeenNow /\ Note(SeenNow, "sweepReap")
     \/ ~({"exit", "empty"} \subseteq SeenNow) /\ Woken /\ Note(SeenNow, "sweepEvents")


SweepExit(fault) ==
  /\ pc = "sweepExit"
  /\ \/ fault /\ Goto("sweepEmpty")
     \/ {"exit", "empty"} \subseteq SeenNow /\ Note(SeenNow, "sweepReap")
     \/ /\ ~({"exit", "empty"} \subseteq SeenNow)
        /\ \/ deadline = "due" /\ Goto("sweepEmpty")
           \/ deadline # "due" /\ Woken /\ Note(SeenNow, "sweepEvents")

SweepReap ==
  /\ pc = "sweepReap"
  /\ \/ Unclean("closeFail")
     \/ child = "zombie" /\ Reap("sweepEmpty")

\* The last look at the leaf decides, whatever was seen before.
SweepEmpty ==
  /\ pc = "sweepEmpty" /\ pc' = "closeFail"
  /\ \/ achieved' = achieved /\ incomplete' = TRUE
     \/ ~populated /\ achieved' = achieved \cup {CGROUP_EMPTY} /\ incomplete' = ~Reaped
  /\ UNCHANGED <<failure, usable, peerOpen, deadline, seen, frames, exit, worldVars>>

\* Cleanup that is not complete takes precedence over the first reason.
CloseAfterFailure ==
  /\ pc = "closeFail" /\ pc' = "error"
  /\ \E errno \in IF "owned" \in seen THEN {0, EIO} ELSE {0} :
       failure' = IF incomplete \/ errno # 0
                  THEN Failure("CLEANUP", "CLEANUP_INCOMPLETE", errno) ELSE failure
  /\ seen' = seen \ {"owned"}
  /\ UNCHANGED <<achieved, usable, peerOpen, deadline, incomplete, frames, exit, worldVars>>

\* Mutant: a frame that cannot be sent turns every exit code into PROTOCOL.
EmitErrorForgets ==
  /\ pc = "error"
  /\ LET code == bpe_exit_for_reason(failure.reason)
     IN \/ Exited(code) /\ bpe_emit_frame(Frame("ERROR", "FAILED", failure, Mask(achieved), 0))
        \/ ~(usable /\ peerOpen) /\ Exited(code) /\ UNCHANGED frames
        \/ usable /\ peerOpen /\ UNCHANGED frames /\ Exited(EXIT_PROTOCOL)


EmitError ==
  /\ pc = "error"
  /\ LET code == bpe_exit_for_reason(failure.reason)
     IN \/ Exited(code) /\ bpe_emit_frame(Frame("ERROR", "FAILED", failure, Mask(achieved), 0))
        \/ ~(usable /\ peerOpen) /\ Exited(code) /\ UNCHANGED frames
        \/ /\ usable /\ peerOpen /\ UNCHANGED frames
           /\ Exited(IF code = EXIT_CLEANUP THEN code ELSE EXIT_PROTOCOL)

(***************************************************************************)
(* The child, the kernel and the peer.                                     *)
(***************************************************************************)
\* The child closes every descriptor but the pipe and writes its record; if
\* it cannot, it reports that, when it can, and exits.
bpe_child_fixture ==
  /\ UNCHANGED <<launcherVars, peer, populated, stopped>>
  /\ \/ child = "closing" /\ child' = "written" /\ pipe' = "ready" /\ UNCHANGED <<signals, how>>
     \/ child = "written" /\ child' = "paused" /\ UNCHANGED <<pipe, signals, how>>
     \/ /\ child \in {"closing", "written"}
        /\ child' = "exiting" /\ how' = "exited" /\ signals' = {}
        /\ pipe' \in IF child = "closing" THEN {pipe, "failed"} ELSE {pipe}

DeliverSignal ==
  /\ Alive
  /\ \/ /\ "SIGKILL" \in signals
        /\ child' = "exiting" /\ how' = "killed" /\ signals' = {} /\ UNCHANGED stopped
     \/ /\ "SIGSTOP" \in signals /\ child = "paused"
        /\ child' = "stopped" /\ stopped' = TRUE /\ signals' = signals \ {"SIGSTOP"} /\ UNCHANGED how
  /\ UNCHANGED <<launcherVars, peer, pipe, populated>>

\* A dead child leaves the leaf and becomes waitable, in either order.
KernelExit ==
  /\ \/ child \in {"exiting", "zombie"} /\ populated /\ populated' = FALSE /\ UNCHANGED child
     \/ child = "exiting" /\ child' = "zombie" /\ UNCHANGED populated
  /\ UNCHANGED <<launcherVars, peer, signals, how, pipe, stopped>>

\* Someone else kills the child, for one the controller's own cleanup.
KillFromOutside ==
  /\ Alive /\ signals' = signals \cup {"SIGKILL"}
  /\ UNCHANGED <<launcherVars, peer, child, how, pipe, populated, stopped>>

PeerActs ==
  /\ \/ peer = "open" /\ peer' = "sent"
     \/ peer # "closed" /\ peer' = "closed"
  /\ pc # "exited"
  /\ UNCHANGED <<launcherVars, child, signals, how, pipe, populated, stopped>>

Expire ==
  /\ deadline = "running" /\ deadline' = "due" /\ pc # "exited"
  /\ UNCHANGED <<pc, failure, achieved, usable, peerOpen, seen, incomplete, frames, exit, worldVars>>

KillLauncher ==
  /\ pc # "exited" /\ pc' = "exited" /\ exit' = KILLED
  /\ UNCHANGED <<failure, achieved, usable, peerOpen, deadline, seen, incomplete, frames, worldVars>>

Launcher(fault) ==
  \/ ValidateArguments \/ bpe_validate_control_fd \/ bpe_validate_cgroup_fd
  \/ bpe_validate_no_extra_fds \/ bpe_open_cgroup_files \/ CheckLeafEmpty \/ bpe_install_seccomp
  \/ EmitHello \/ ArmDeadline \/ Checkpoint \/ EmitProgress
  \/ bpe_clone_fixture \/ bpe_wait_child_ready(fault) \/ bpe_wait_populated_one(fault)
  \/ CheckProcs \/ SendStop \/ ObserveStop(fault) \/ RecheckMembership \/ KillCgroup
  \/ ObserveEvents \/ ObserveExit(fault) \/ JudgeExit \/ bpe_reap_child
  \/ CheckAchieved \/ bpe_close_owned \/ EmitFinal
  \/ BeginCleanup \/ SweepEvents \/ SweepExit(fault) \/ SweepReap \/ SweepEmpty
  \/ CloseAfterFailure \/ EmitError

NativeNext ==
  \/ \E fault \in BOOLEAN : Launcher(fault)
  \/ bpe_child_fixture \/ DeliverSignal \/ KernelExit
  \/ KillFromOutside \/ PeerActs \/ Expire \/ KillLauncher

NativeSpec == NativeInit /\ [][NativeNext]_nativeVars

\* The launcher keeps running and its clock advances.  No fault has to
\* happen, and nothing is assumed of the child, the kernel or the peer.
NativeFair == NativeSpec /\ WF_nativeVars(Launcher(FALSE)) /\ WF_nativeVars(Expire)

(***************************************************************************)
(* Properties.                                                             *)
(***************************************************************************)
\* The launcher ended by itself, it sent a last frame, and the peer is there
\* to read up to the end of file.
Told ==
  /\ pc = "exited" /\ exit # KILLED /\ peer # "closed"
  /\ frames # <<>> /\ frames[Len(frames)].type \in {"FINAL", "ERROR"}
Verdict == parse_inert_native_transcript(frames, exit, peer # "closed", LauncherPid)

\* The one kind of last frame the two sides disagree about: everything was
\* reaped and seen empty once, but the last look at the leaf failed.
LastLookFailed ==
  LET last == frames[Len(frames)]
  IN last.reason = "CLEANUP_INCOMPLETE" /\ last.errno = 0 /\ last.value0 = ACHIEVED_RESULT_MASK

\* _ERROR_GRAMMAR and the rules beside it take every transcript that
\* launcher.c can end with its last frame sent, with the exit code that goes
\* with it, LastLookFailed apart.
TranscriptAccepted == Told /\ ~LastLookFailed => Verdict # "rejected"

\* The same without the exception: the table holds the "Exact ERROR states
\* reachable from launcher.c".
EveryTranscriptAccepted == Told => Verdict # "rejected"

\* The mask that the last frame reports is true of the child and the leaf.
MaskIsTrue ==
  /\ PIDFD_STOP_OBSERVED \in achieved => stopped
  /\ PIDFD_EXIT_OBSERVED \in achieved => how = "killed" /\ child \in {"zombie", "reaped"}
  /\ CHILD_REAPED \in achieved => child = "reaped"
  /\ CGROUP_EMPTY \in achieved => ~populated
  /\ BUILTIN_NOEXEC \in achieved => pipe = "ready"

\* "An earlier failure is never allowed to conceal an unproved reap": a
\* launcher that exits by itself with another status than CLEANUP leaves no
\* child and an empty leaf, whether or not anyone reads its last frame.
NoChildLeftBehind ==
  pc = "exited" /\ exit \notin {KILLED, EXIT_CLEANUP} =>
    child \in {"none", "reaped"} /\ ~populated

\* Whatever the child, the kernel and the peer do or fail to do, the launcher
\* exits: each of its waits is bounded by a deadline.
LauncherExits == <>(pc = "exited")
=============================================================================
