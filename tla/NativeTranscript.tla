-------------------------- MODULE NativeTranscript --------------------------
(***************************************************************************)
(* What the controller makes of the records the native launcher sent it:   *)
(* parse_inert_native_transcript.  The parser knows the launcher only by   *)
(* a table of the error states it can end in, so a frame with plausible    *)
(* fields is not enough.                                                   *)
(***************************************************************************)
EXTENDS Integers, Sequences

\* The result flags are bits of a word; a set of bit numbers stands for it.
CLONE3_INTO_CGROUP == 0
PIDFD_CREATED == 1
PIDFD_STOP_SENT == 2
PIDFD_STOP_OBSERVED == 3
LIVE_CGROUP_KILL == 4
PIDFD_EXIT_OBSERVED == 5
CHILD_REAPED == 6
CGROUP_EMPTY == 7
BUILTIN_NOEXEC == 8
Mask(bits) ==
  LET Bit(flag, value) == IF flag \in bits THEN value ELSE 0
  IN Bit(CLONE3_INTO_CGROUP, \h1) + Bit(PIDFD_CREATED, \h2) + Bit(PIDFD_STOP_SENT, \h4)
       + Bit(PIDFD_STOP_OBSERVED, \h8) + Bit(LIVE_CGROUP_KILL, \h10)
       + Bit(PIDFD_EXIT_OBSERVED, \h20) + Bit(CHILD_REAPED, \h40)
       + Bit(CGROUP_EMPTY, \h80) + Bit(BUILTIN_NOEXEC, \h100)
ACHIEVED_RESULT_MASK == \h1FF

Reason ==
  [NONE |-> 0, BAD_ARGC |-> 1, BAD_ARGV |-> 2, NONEMPTY_ENVIRONMENT |-> 3,
   BAD_DESCRIPTOR_LAYOUT |-> 4, BAD_STDIO |-> 5, BAD_CONTROL_SOCKET |-> 6,
   BAD_CGROUP_DESCRIPTOR |-> 7, CGROUP_NOT_EMPTY |-> 8, PROTOCOL_INPUT |-> 9,
   PEER_CLOSED |-> 10, RESOURCE_EXHAUSTED |-> 11, CLONE3_UNAVAILABLE |-> 12,
   CLONE3_REJECTED |-> 13, PIDFD_UNAVAILABLE |-> 14, CHILD_SETUP_FAILED |-> 15,
   PIDFD_SIGNAL_FAILED |-> 16, CGROUP_KILL_FAILED |-> 17,
   CHILD_OBSERVATION_FAILED |-> 18, CHILD_REAP_FAILED |-> 19, TIMEOUT |-> 20,
   CLEANUP_INCOMPLETE |-> 21, IO_FAILURE |-> 22, INTERNAL |-> 23]

Stages == {"STARTUP", "DESCRIPTOR_VALIDATION", "CGROUP_VALIDATION", "FIXTURE_SETUP",
           "CLONE3", "CHILD_READY", "PIDFD_SIGNAL", "CGROUP_KILL",
           "CHILD_OBSERVATION", "CHILD_REAP", "CLEANUP", "PROTOCOL"}

EXIT_OK == 0
EXIT_STARTUP == 64
EXIT_PROTOCOL == 65
EXIT_KERNEL == 66
EXIT_TIMEOUT == 67
EXIT_CLEANUP == 68
EXIT_INTERNAL == 69

MaxErrno == 4095
ENOSYS == 38
CloneResourceErrnos == {11, 12, 23, 24}
REQUIRED_CLONE_FLAGS == {"CLONE_PIDFD", "CLONE_INTO_CGROUP"}
CLD_KILLED == 2
CLD_STOPPED == 5
SIGKILL == 9
SIGSTOP == 19
LINUX_MAX_PID == 2^22 - 1

SuccessTypes == <<"HELLO", "CHILD_READY", "CHILD_SIGNALED", "CHILD_OBSERVED", "FINAL">>
SuccessStages == <<"STARTUP", "CHILD_READY", "PIDFD_SIGNAL", "CHILD_OBSERVATION", "CLEANUP">>

\* A mask with the bits that the emergency cleanup may have added to it.
Swept(masks) == UNION {{m, m + \h40, m + \h80, m + \hC0} : m \in masks}

\* The error states the launcher may end in: how many success frames came
\* before, the reason, the stage, and the masks possible after cleanup.
ErrorGrammar ==
 {<<0, "BAD_DESCRIPTOR_LAYOUT", "DESCRIPTOR_VALIDATION", {0}>>,
  <<0, "BAD_CGROUP_DESCRIPTOR", "DESCRIPTOR_VALIDATION", {0}>>,
  <<0, "BAD_CGROUP_DESCRIPTOR", "CGROUP_VALIDATION", {0}>>,
  <<0, "CGROUP_NOT_EMPTY", "CGROUP_VALIDATION", {0}>>,
  <<0, "INTERNAL", "STARTUP", {0}>>,
  <<0, "IO_FAILURE", "PROTOCOL", {0}>>,
  <<0, "CLEANUP_INCOMPLETE", "CLEANUP", {0}>>,
  <<1, "INTERNAL", "FIXTURE_SETUP", {0}>>,
  <<1, "RESOURCE_EXHAUSTED", "FIXTURE_SETUP", {0}>>,
  <<1, "RESOURCE_EXHAUSTED", "CLONE3", {0}>>,
  <<1, "CLONE3_UNAVAILABLE", "CLONE3", {0}>>,
  <<1, "CLONE3_REJECTED", "CLONE3", {0}>>,
  <<1, "PIDFD_UNAVAILABLE", "CLONE3", {\hC1}>>,
  <<1, "CHILD_SETUP_FAILED", "CHILD_READY", {\hC3}>>,
  <<1, "CHILD_OBSERVATION_FAILED", "CHILD_READY", {\hC3}>>,
  <<1, "TIMEOUT", "CHILD_READY", {\hC3}>>,
  <<1, "PROTOCOL_INPUT", "PROTOCOL", {0, \hC3, \h1C3}>>,
  <<1, "IO_FAILURE", "FIXTURE_SETUP", {0, \hC3}>>,
  <<1, "IO_FAILURE", "CHILD_READY", {\hC3, \h1C3}>>,
  <<1, "IO_FAILURE", "PROTOCOL", {\h1C3}>>,
  <<1, "CLEANUP_INCOMPLETE", "CLEANUP", {0} \cup Swept({1, 3, \h103})>>,
  <<2, "PIDFD_SIGNAL_FAILED", "PIDFD_SIGNAL", {\h1C3}>>,
  <<2, "CHILD_OBSERVATION_FAILED", "PIDFD_SIGNAL", {\h1C7, \h1CF}>>,
  <<2, "TIMEOUT", "PIDFD_SIGNAL", {\h1C7}>>,
  <<2, "PROTOCOL_INPUT", "PROTOCOL", {\h1C7, \h1CF}>>,
  <<2, "IO_FAILURE", "PIDFD_SIGNAL", {\h1C7, \h1CF}>>,
  <<2, "IO_FAILURE", "PROTOCOL", {\h1CF}>>,
  <<2, "CLEANUP_INCOMPLETE", "CLEANUP", Swept({\h103, \h107, \h10F})>>,
  <<3, "CGROUP_KILL_FAILED", "CGROUP_KILL", {\h1CF}>>,
  <<3, "CHILD_OBSERVATION_FAILED", "CHILD_OBSERVATION", {\h1DF}>>,
  <<3, "TIMEOUT", "CHILD_OBSERVATION", {\h1DF}>>,
  <<3, "PROTOCOL_INPUT", "PROTOCOL", {\h1CF, \h1DF, \h1FF}>>,
  <<3, "IO_FAILURE", "CGROUP_KILL", {\h1CF}>>,
  <<3, "IO_FAILURE", "CHILD_OBSERVATION", {\h1DF, \h1FF}>>,
  <<3, "IO_FAILURE", "PROTOCOL", {\h1FF}>>,
  <<3, "CLEANUP_INCOMPLETE", "CLEANUP", Swept({\h10F, \h11F}) \cup {\h1BF, \h1FF}>>,
  <<4, "CHILD_REAP_FAILED", "CHILD_REAP", {\h1FF}>>,
  <<4, "INTERNAL", "CLEANUP", {\h1FF}>>,
  <<4, "PROTOCOL_INPUT", "PROTOCOL", {\h1FF}>>,
  <<4, "IO_FAILURE", "CLEANUP", {\h1FF}>>,
  <<4, "CLEANUP_INCOMPLETE", "CLEANUP", {\h1BF, \h1FF}>>}

\* The states that a failed system call alone produces, so that an errno of
\* zero is impossible.
NonzeroErrno ==
 {<<0, "IO_FAILURE", "PROTOCOL", {0}>>,
  <<1, "IO_FAILURE", "PROTOCOL", {\h1C3}>>,
  <<2, "IO_FAILURE", "PROTOCOL", {\h1CF}>>,
  <<3, "IO_FAILURE", "PROTOCOL", {\h1FF}>>,
  <<1, "IO_FAILURE", "FIXTURE_SETUP", {0, \hC3}>>,
  <<1, "IO_FAILURE", "CHILD_READY", {\h1C3}>>,
  <<2, "IO_FAILURE", "PIDFD_SIGNAL", {\h1C7}>>,
  <<3, "IO_FAILURE", "CGROUP_KILL", {\h1CF}>>,
  <<3, "IO_FAILURE", "CHILD_OBSERVATION", {\h1FF}>>,
  <<4, "IO_FAILURE", "CLEANUP", {\h1FF}>>,
  <<1, "RESOURCE_EXHAUSTED", "FIXTURE_SETUP", {0}>>,
  <<3, "CGROUP_KILL_FAILED", "CGROUP_KILL", {\h1CF}>>,
  <<0, "CLEANUP_INCOMPLETE", "CLEANUP", {0}>>,
  <<1, "CLEANUP_INCOMPLETE", "CLEANUP", {0, \hC1, \hC3, \h1C3}>>,
  <<2, "CLEANUP_INCOMPLETE", "CLEANUP", {\h1C3, \h1C7, \h1CF}>>,
  <<3, "CLEANUP_INCOMPLETE", "CLEANUP", {\h1CF, \h1DF, \h1FF}>>,
  <<4, "CLEANUP_INCOMPLETE", "CLEANUP", {\h1FF}>>}

Listed(table, prefix, f) ==
  \E row \in table :
    row[1] = prefix /\ row[2] = f.reason /\ row[3] = f.stage /\ f.value0 \in row[4]

ZeroErrno(prefix, f) ==
  \/ f.reason \in {"CGROUP_NOT_EMPTY", "PROTOCOL_INPUT", "TIMEOUT"}
  \/ f.reason = "CHILD_OBSERVATION_FAILED" /\ f.stage = "CHILD_READY" /\ prefix = 1
  \/ f.reason = "INTERNAL" /\ f.stage = "CLEANUP" /\ prefix = 4
  \/ f.reason = "CHILD_OBSERVATION_FAILED" /\ f.stage = "PIDFD_SIGNAL" /\ prefix = 2
       /\ f.value0 = \h1CF

exit_code_for_reason(reason) ==
  CASE Reason[reason] \in 1..8 -> EXIT_STARTUP
    [] Reason[reason] \in 9..10 -> EXIT_PROTOCOL
    [] Reason[reason] \in 11..19 \cup {22} -> EXIT_KERNEL
    [] Reason[reason] = 20 -> EXIT_TIMEOUT
    [] Reason[reason] = 21 -> EXIT_CLEANUP
    [] Reason[reason] = 23 -> EXIT_INTERNAL

decode_record(f, index) ==
  /\ f.sequence = index - 1
  /\ f.errno <= MaxErrno
  /\ f.stage \in Stages /\ f.reason \in DOMAIN Reason

\* The values each success frame must carry.
SuccessValues(f, index, pid) ==
  CASE index = 1 -> f.value0 = pid /\ f.value1 = 0
    [] index = 2 -> /\ f.value0 \in 1..LINUX_MAX_PID /\ f.value0 # pid
                    /\ f.value1 = REQUIRED_CLONE_FLAGS
    [] index = 3 -> f.value0 = CLD_STOPPED /\ f.value1 = SIGSTOP
    [] index = 4 -> f.value0 = CLD_KILLED /\ f.value1 = SIGKILL
    [] index = 5 -> f.value0 = ACHIEVED_RESULT_MASK /\ f.value1 # 0

validate_success_frame(f, index, pid) ==
  /\ f.type = SuccessTypes[index] /\ f.stage = SuccessStages[index]
  /\ f.status = "OK" /\ f.reason = "NONE" /\ f.errno = 0
  /\ SuccessValues(f, index, pid)

CloneErrno(f) ==
  /\ f.reason = "CLONE3_UNAVAILABLE" => f.errno = ENOSYS
  /\ f.reason = "RESOURCE_EXHAUSTED" /\ f.stage = "CLONE3" => f.errno \in CloneResourceErrnos
  /\ f.reason = "CLONE3_REJECTED" => f.errno \notin CloneResourceErrnos \cup {0, ENOSYS}
  /\ f.reason = "PIDFD_SIGNAL_FAILED" => f.errno # 0

validate_error_frame(f, prefix, returncode) ==
  /\ f.status = "FAILED" /\ f.reason # "NONE" /\ f.value1 = 0
  /\ Listed(ErrorGrammar, prefix, f)
  /\ ZeroErrno(prefix, f) => f.errno = 0
  /\ CloneErrno(f)
  /\ Listed(NonzeroErrno, prefix, f) => f.errno # 0
  /\ returncode = exit_code_for_reason(f.reason)

\* Only whole transcripts count: five success frames, or a prefix of them and
\* one error frame at the end, read to the end of file.
parse_inert_native_transcript(frames, returncode, eof, pid) ==
  LET n == Len(frames)
      failed == n > 0 /\ frames[n].type = "ERROR"
      prefix == IF failed THEN n - 1 ELSE n
  IN IF \/ ~eof \/ n = 0 \/ prefix > Len(SuccessTypes) \/ (failed /\ prefix = Len(SuccessTypes))
        \/ \E i \in 1..n : ~decode_record(frames[i], i)
        \/ \E i \in 1..prefix : ~validate_success_frame(frames[i], i, pid)
        \/ failed /\ ~validate_error_frame(frames[n], prefix, returncode)
        \/ ~failed /\ (prefix # Len(SuccessTypes) \/ returncode # EXIT_OK)
     THEN "rejected"
     ELSE IF failed THEN "failed" ELSE "succeeded"
=============================================================================
