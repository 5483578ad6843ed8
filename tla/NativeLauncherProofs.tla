------------------------ MODULE NativeLauncherProofs ------------------------
(***************************************************************************)
(* What the native launcher reports, for any two process ids.  The         *)
(* properties speak of the end of a run; the invariant says what holds on  *)
(* the way there.  Way gives, for each place of main, the flags achieved   *)
(* and the frames sent.  Cleanup says where main left that way, and that   *)
(* the failure in hand, reported with the flags that a whole cleanup       *)
(* leaves, is one of the table of the parser.  Ending says so of the last  *)
(* frame, World ties the flags and what main has seen to the child and the *)
(* leaf, and Left says when both are gone.                                 *)
(***************************************************************************)
EXTENDS NativeLauncher, TLAPS

\* The flags achieved after each step that adds some.
WithChild == {CLONE3_INTO_CGROUP}
WithPidfd == WithChild \cup {PIDFD_CREATED}
WithReady == WithPidfd \cup {BUILTIN_NOEXEC}
WithStopSent == WithReady \cup {PIDFD_STOP_SENT}
WithStop == WithStopSent \cup {PIDFD_STOP_OBSERVED}
WithKill == WithStop \cup {LIVE_CGROUP_KILL}
WithExit == WithKill \cup {PIDFD_EXIT_OBSERVED, CGROUP_EMPTY}
WithReap == WithExit \cup {CHILD_REAPED}

\* The flags that the emergency cleanup may add, and all it can add.
SweepBits == {CHILD_REAPED, CGROUP_EMPTY}
AfterSweep(bits) == IF bits = {} THEN {} ELSE bits \cup SweepBits

\* The frames of a run that is succeeding.
SuccessFrame(i) ==
  [type |-> SuccessTypes[i], sequence |-> i - 1, status |-> "OK", stage |-> SuccessStages[i],
   reason |-> "NONE", errno |-> 0,
   value0 |-> <<LauncherPid, ChildPid, CLD_STOPPED, CLD_KILLED, ACHIEVED_RESULT_MASK>>[i],
   value1 |-> <<0, REQUIRED_CLONE_FLAGS, SIGSTOP, SIGKILL, 1>>[i]]
Successes(n) == [i \in 1..n |-> SuccessFrame(i)]

\* Places of main, up to the end of the way to success.
Startup == {"startup", "control", "cgroup", "layout", "files", "empty", "filter", "hello"}
OnTheWay(places, n, bits) ==
  pc \in places => achieved = bits /\ frames = Successes(n) /\ incomplete = FALSE

Way ==
  /\ pc \in {"startup", "control"} => usable = FALSE
  /\ OnTheWay(Startup, 0, {})
  /\ OnTheWay({"arm", "quietFixture", "clone"}, 1, {})
  /\ OnTheWay({"ready", "populated", "procs"}, 1, WithPidfd)
  /\ OnTheWay({"quietReady", "emitReady"}, 1, WithReady)
  /\ OnTheWay({"stop"}, 2, WithReady)
  /\ OnTheWay({"watch"}, 2, WithStopSent)
  /\ OnTheWay({"recheck", "quietSignal", "emitSignaled"}, 2, WithStop)
  /\ OnTheWay({"quietKill", "kill"}, 3, WithStop)
  /\ OnTheWay({"observeEvents", "observeExit", "judge"}, 3, WithKill)
  /\ OnTheWay({"quietObserved", "emitObserved"}, 3, WithExit)
  /\ OnTheWay({"reap"}, 4, WithExit)
  /\ OnTheWay({"finish", "quietCleanup", "close", "final"}, 4, WithReap)

WayPlaces ==
  Startup \cup
  {"arm", "quietFixture", "clone", "ready", "populated", "procs", "quietReady", "emitReady",
   "stop", "watch", "recheck", "quietSignal", "emitSignaled", "quietKill", "kill",
   "observeEvents", "observeExit", "judge", "quietObserved", "emitObserved", "reap",
   "finish", "quietCleanup", "close", "final"}

\* Where main may leave that way: frames sent and flags achieved.
Exits ==
  {<<0, {}>>, <<1, {}>>, <<1, WithChild>>, <<1, WithPidfd>>, <<1, WithReady>>,
   <<2, WithReady>>, <<2, WithStopSent>>, <<2, WithStop>>, <<3, WithStop>>,
   <<3, WithKill>>, <<3, WithExit>>, <<4, WithExit>>}

ErrorFrame(n, f, bits) ==
  [type |-> "ERROR", sequence |-> n, status |-> "FAILED", stage |-> f.stage,
   reason |-> f.reason, errno |-> f.errno, value0 |-> Mask(bits), value1 |-> 0]

\* The parser takes this failure after n success frames.
Taken(n, f, bits) ==
  /\ decode_record(ErrorFrame(n, f, bits), n + 1)
  /\ validate_error_frame(ErrorFrame(n, f, bits), n, bpe_exit_for_reason(f.reason))

\* Main is where it may leave with this many frames and these flags.
MayLeave(n, bits) ==
  /\ <<n, bits>> \in Exits
  /\ frames = Successes(n)
  /\ bits \subseteq achieved /\ achieved \subseteq AfterSweep(bits)
  /\ incomplete = FALSE
  /\ Reaped => CGROUP_EMPTY \in achieved
  /\ CGROUP_EMPTY \in achieved => PIDFD_EXIT_OBSERVED \in achieved

\* The state of a cleanup after a failure at one of the Exits.
LeftAt(n, bits) ==
  /\ frames = Successes(n)
  /\ bits \subseteq achieved /\ achieved \subseteq AfterSweep(bits)
  /\ usable /\ peerOpen => Taken(n, failure, AfterSweep(bits))

Sweeping == {"sweepEvents", "sweepExit", "sweepReap", "sweepEmpty"}
Failing == {"fail", "closeFail"} \cup Sweeping

Cleanup ==
  /\ pc \in Failing => \E leg \in Exits : LeftAt(leg[1], leg[2])
  /\ pc \in Failing \ {"closeFail"} => incomplete = FALSE
  /\ pc \in Failing \ {"closeFail"} =>
       (CGROUP_EMPTY \in achieved => PIDFD_EXIT_OBSERVED \in achieved)
  /\ pc = "fail" /\ Reaped => CGROUP_EMPTY \in achieved
  /\ pc \in Sweeping => Created
  /\ pc \in Sweeping \ {"sweepEmpty"} => ~Reaped
  /\ pc = "closeFail" /\ incomplete =>
       Created /\ (SweepBits \subseteq achieved => PIDFD_EXIT_OBSERVED \in achieved)
  /\ pc = "closeFail" /\ ~incomplete => achieved = {} \/ SweepBits \subseteq achieved

\* The last frame, once the failure to report is settled.
Ending ==
  pc = "error" => \E n \in 0..4 :
    /\ frames = Successes(n)
    /\ usable /\ peerOpen =>
         \/ Taken(n, failure, achieved)
         \/ /\ failure.reason = "CLEANUP_INCOMPLETE" /\ failure.errno = 0
            /\ Mask(achieved) = ACHIEVED_RESULT_MASK

\* The flags and what main has seen, against the child and the leaf.
Dead == child \in {"exiting", "zombie", "reaped"}
Gone == child \in {"none", "reaped"} /\ ~populated

World ==
  /\ populated \in BOOLEAN /\ (child = "none" \/ Alive \/ Dead)
  /\ Created <=> child # "none"
  /\ Reaped <=> child = "reaped"
  /\ child = "none" => ~populated
  /\ Alive => populated
  /\ "exit" \in seen => child \in {"zombie", "reaped"}
  /\ "empty" \in seen => Dead /\ ~populated
  /\ "record" \in seen => pipe = "ready"
  /\ pipe = "ready" => child \notin {"none", "closing"}
  /\ child = "stopped" => stopped
  /\ pc \in {"populated", "procs"} => pipe = "ready"
  /\ pc = "judge" => {"exit", "empty"} \subseteq seen

\* What a cleanup that is not cut short leaves.
Left ==
  /\ pc = "closeFail" /\ ~incomplete => Gone
  /\ pc = "error" /\ failure.reason # "CLEANUP_INCOMPLETE" => Gone

\* The inductive invariant.
NativeIInv ==
  /\ Way /\ Cleanup /\ Ending /\ World /\ Left
  /\ MaskIsTrue /\ NoChildLeftBehind /\ TranscriptAccepted

(***************************************************************************)
(* Frames, masks and exit codes.                                           *)
(***************************************************************************)
\* The numbers of the flags.
LEMMA Flags ==
  /\ CLONE3_INTO_CGROUP = 0 /\ PIDFD_CREATED = 1 /\ PIDFD_STOP_SENT = 2
  /\ PIDFD_STOP_OBSERVED = 3 /\ LIVE_CGROUP_KILL = 4 /\ PIDFD_EXIT_OBSERVED = 5
  /\ CHILD_REAPED = 6 /\ CGROUP_EMPTY = 7 /\ BUILTIN_NOEXEC = 8
  BY DEF CLONE3_INTO_CGROUP, PIDFD_CREATED, PIDFD_STOP_SENT, PIDFD_STOP_OBSERVED,
         LIVE_CGROUP_KILL, PIDFD_EXIT_OBSERVED, CHILD_REAPED, CGROUP_EMPTY, BUILTIN_NOEXEC

\* The word that bpe_emit_frame sends for the flags a whole cleanup leaves.
LEMMA SweptMasks ==
  /\ Mask(AfterSweep({})) = 0
  /\ Mask(AfterSweep(WithChild)) = \hC1
  /\ Mask(AfterSweep(WithPidfd)) = \hC3
  /\ Mask(AfterSweep(WithReady)) = \h1C3
  /\ Mask(AfterSweep(WithStopSent)) = \h1C7
  /\ Mask(AfterSweep(WithStop)) = \h1CF
  /\ Mask(AfterSweep(WithKill)) = \h1DF
  /\ Mask(AfterSweep(WithExit)) = \h1FF
<1> USE Flags DEF AfterSweep, SweepBits, Mask
<1>1. Mask(AfterSweep({})) = 0
  OBVIOUS
<1>2. Mask(AfterSweep(WithChild)) = \hC1
  BY DEF WithChild
<1>3. Mask(AfterSweep(WithPidfd)) = \hC3
  BY DEF WithChild, WithPidfd
<1>4. Mask(AfterSweep(WithReady)) = \h1C3
  BY DEF WithChild, WithPidfd, WithReady
<1>5. Mask(AfterSweep(WithStopSent)) = \h1C7
  BY DEF WithChild, WithPidfd, WithReady, WithStopSent
<1>6. Mask(AfterSweep(WithStop)) = \h1CF
  BY DEF WithChild, WithPidfd, WithReady, WithStopSent, WithStop
<1>7. Mask(AfterSweep(WithKill)) = \h1DF
  BY DEF WithChild, WithPidfd, WithReady, WithStopSent, WithStop, WithKill
<1>8. Mask(AfterSweep(WithExit)) = \h1FF
  BY DEF WithChild, WithPidfd, WithReady, WithStopSent, WithStop, WithKill, WithExit
<1> QED
  BY <1>1, <1>2, <1>3, <1>4, <1>5, <1>6, <1>7, <1>8

\* Sending the next success frame.
LEMMA SuccessesGrow ==
  ASSUME NEW n \in 0..4
  PROVE  Append(Successes(n), SuccessFrame(n + 1)) = Successes(n + 1)
<1> DEFINE F(i) == SuccessFrame(i)
<1> HIDE DEF F
<1>1. Append([i \in 1..n |-> F(i)], F(n + 1)) = [i \in 1..(n + 1) |-> F(i)]
  OBVIOUS
<1> QED
  BY <1>1 DEF F, Successes

\* A success transcript has as many frames as it says.
LEMMA SuccessesLength ==
  ASSUME NEW n \in Nat
  PROVE  Len(Successes(n)) = n /\ \A i \in 1..n : Successes(n)[i] = SuccessFrame(i)
<1> DEFINE F(i) == SuccessFrame(i)
<1> HIDE DEF F
<1>1. Len([i \in 1..n |-> F(i)]) = n
  OBVIOUS
<1>2. \A i \in 1..n : [j \in 1..n |-> F(j)][i] = F(i)
  OBVIOUS
<1> QED
  BY <1>1, <1>2 DEF F, Successes

\* bpe_exit_for_reason and _exit_code_for_reason agree.
LEMMA SameExitCode ==
  ASSUME NEW reason, Reason[reason] \in 1..23
  PROVE  bpe_exit_for_reason(reason) = exit_code_for_reason(reason)
<1> DEFINE r == Reason[reason]
<1> HIDE DEF r
<1>0. r \in 1..23
  BY DEF r
<1>1. CASE r \in 1..8
  <2>1. r \notin 9..10 /\ r \notin 11..19 \cup {22} /\ r # 20 /\ r # 21 /\ r # 23
    BY <1>1
  <2> QED
    BY <1>1, <2>1, Zenon DEF r, bpe_exit_for_reason, exit_code_for_reason
<1>2. CASE r \in 9..10
  <2>1. r \notin 1..8 /\ r \notin 11..19 \cup {22} /\ r # 20 /\ r # 21 /\ r # 23
    BY <1>2
  <2> QED
    BY <1>2, <2>1, Zenon DEF r, bpe_exit_for_reason, exit_code_for_reason
<1>3. CASE r \in 11..19 \cup {22}
  <2>1. r \notin 1..8 /\ r \notin 9..10 /\ r # 20 /\ r # 21 /\ r # 23
    BY <1>3
  <2> QED
    BY <1>3, <2>1, Zenon DEF r, bpe_exit_for_reason, exit_code_for_reason
<1>4. CASE r = 20
  <2>1. r \notin 1..8 /\ r \notin 9..10 /\ r \notin 11..19 \cup {22} /\ r # 21 /\ r # 23
    BY <1>4
  <2> QED
    BY <1>4, <2>1, Zenon DEF r, bpe_exit_for_reason, exit_code_for_reason
<1>5. CASE r = 21
  <2>1. r \notin 1..8 /\ r \notin 9..10 /\ r \notin 11..19 \cup {22} /\ r # 20 /\ r # 23
    BY <1>5
  <2> QED
    BY <1>5, <2>1, Zenon DEF r, bpe_exit_for_reason, exit_code_for_reason
<1>6. CASE r = 23
  <2>1. r \notin 1..8 /\ r \notin 9..10 /\ r \notin 11..19 \cup {22} /\ r # 20 /\ r # 21
    BY <1>6
  <2> QED
    BY <1>6, <2>1, Zenon DEF r, bpe_exit_for_reason, exit_code_for_reason
<1> QED
  BY <1>0, <1>1, <1>2, <1>3, <1>4, <1>5, <1>6

\* Only an incomplete cleanup has the exit code of one.
LEMMA CleanupCode ==
  bpe_exit_for_reason("CLEANUP_INCOMPLETE") = EXIT_CLEANUP
<1>1. Reason["CLEANUP_INCOMPLETE"] = 21
  BY DEF Reason
<1>2. 21 \notin 1..8 /\ 21 \notin 9..10 /\ 21 \notin 11..19 \cup {22} /\ 21 # 20
  OBVIOUS
<1> QED
  BY <1>1, <1>2, Zenon DEF bpe_exit_for_reason


(***************************************************************************)
(* What the parser takes.                                                  *)
(***************************************************************************)
\* The rows of _ERROR_GRAMMAR name stages and reasons of the protocol.
LEMMA GrammarTypes ==
  ASSUME NEW n, NEW reason, NEW stage, NEW masks,
         <<n, reason, stage, masks>> \in ErrorGrammar
  PROVE  /\ n \in 0..4 /\ stage \in Stages
         /\ reason \in DOMAIN Reason /\ Reason[reason] \in 1..23 /\ reason # "NONE"
<1> DEFINE Reasons ==
      {"BAD_DESCRIPTOR_LAYOUT", "BAD_CGROUP_DESCRIPTOR", "CGROUP_NOT_EMPTY", "INTERNAL",
       "IO_FAILURE", "CLEANUP_INCOMPLETE", "RESOURCE_EXHAUSTED", "CLONE3_UNAVAILABLE",
       "CLONE3_REJECTED", "PIDFD_UNAVAILABLE", "CHILD_SETUP_FAILED",
       "CHILD_OBSERVATION_FAILED", "TIMEOUT", "PROTOCOL_INPUT", "PIDFD_SIGNAL_FAILED",
       "CGROUP_KILL_FAILED", "CHILD_REAP_FAILED"}
<1>1. n \in 0..4
  BY DEF ErrorGrammar
<1>2. stage \in Stages
  BY DEF ErrorGrammar, Stages
<1>3. reason \in Reasons
  BY DEF ErrorGrammar
<1>4. \A r \in Reasons : r \in DOMAIN Reason /\ Reason[r] \in 1..23 /\ r # "NONE"
  BY DEF Reason
<1> QED
  BY <1>1, <1>2, <1>3, <1>4

\* A row is enough, apart from the rules on the errno.
LEMMA TakenByRow ==
  ASSUME NEW n, NEW reason, NEW stage, NEW masks, NEW bits, NEW errno \in {0, EIO, EAGAIN, ENOSYS},
         <<n, reason, stage, masks>> \in ErrorGrammar, Mask(bits) \in masks,
         ZeroErrno(n, ErrorFrame(n, Failure(stage, reason, errno), bits)) => errno = 0,
         CloneErrno(ErrorFrame(n, Failure(stage, reason, errno), bits)),
         Listed(NonzeroErrno, n, ErrorFrame(n, Failure(stage, reason, errno), bits)) => errno # 0
  PROVE  Taken(n, Failure(stage, reason, errno), bits)
<1> DEFINE f == Failure(stage, reason, errno)
           e == ErrorFrame(n, f, bits)
<1>1. /\ e.stage = stage /\ e.reason = reason /\ e.errno = errno /\ e.value0 = Mask(bits)
      /\ e.status = "FAILED" /\ e.value1 = 0 /\ e.sequence = n /\ f.reason = reason
  BY DEF ErrorFrame, Failure
<1> HIDE DEF e
<1>2. n \in 0..4 /\ stage \in Stages /\ reason \in DOMAIN Reason /\ Reason[reason] \in 1..23
      /\ reason # "NONE"
  BY GrammarTypes
<1>3. decode_record(e, n + 1)
  BY <1>1, <1>2 DEF decode_record, MaxErrno, EIO, EAGAIN, ENOSYS
<1>4. Listed(ErrorGrammar, n, e)
  <2>1. <<n, reason, stage, masks>>[1] = n /\ <<n, reason, stage, masks>>[2] = reason
        /\ <<n, reason, stage, masks>>[3] = stage /\ <<n, reason, stage, masks>>[4] = masks
    OBVIOUS
  <2> HIDE DEF f
  <2> QED
    BY <1>1, <2>1, Zenon DEF Listed
<1>5. bpe_exit_for_reason(f.reason) = exit_code_for_reason(e.reason)
  BY <1>1, <1>2, SameExitCode
<1>6. validate_error_frame(e, n, bpe_exit_for_reason(f.reason))
  <2>1. (ZeroErrno(n, e) => e.errno = 0) /\ CloneErrno(e)
        /\ (Listed(NonzeroErrno, n, e) => e.errno # 0)
    BY <1>1 DEF e
  <2> QED
    BY <1>1, <1>2, <1>4, <1>5, <2>1, Zenon DEF validate_error_frame
<1> QED
  BY <1>3, <1>6 DEF Taken, e

\* The reasons for which a failed system call is the only cause.
LEMMA NonzeroReasons ==
  ASSUME NEW n, NEW f, Listed(NonzeroErrno, n, f)
  PROVE  f.reason \in {"IO_FAILURE", "RESOURCE_EXHAUSTED", "CGROUP_KILL_FAILED",
                       "CLEANUP_INCOMPLETE"}
<1>1. PICK row \in NonzeroErrno : row[2] = f.reason
  BY DEF Listed
<1>2. row[2] \in {"IO_FAILURE", "RESOURCE_EXHAUSTED", "CGROUP_KILL_FAILED", "CLEANUP_INCOMPLETE"}
  BY DEF NonzeroErrno
<1> QED
  BY <1>1, <1>2

\* Failures that the launcher finds by itself, with errno zero.
LEMMA TakenAtZero ==
  ASSUME NEW n, NEW reason, NEW stage, NEW masks, NEW bits,
         <<n, reason, stage, masks>> \in ErrorGrammar, Mask(bits) \in masks,
         reason \notin {"IO_FAILURE", "RESOURCE_EXHAUSTED", "CGROUP_KILL_FAILED",
                        "CLEANUP_INCOMPLETE", "CLONE3_UNAVAILABLE", "CLONE3_REJECTED",
                        "PIDFD_SIGNAL_FAILED"}
  PROVE  Taken(n, Failure(stage, reason, 0), bits)
<1> DEFINE e == ErrorFrame(n, Failure(stage, reason, 0), bits)
<1>1. e.reason = reason
  BY DEF ErrorFrame, Failure
<1> HIDE DEF e
<1>2. CloneErrno(e)
  BY <1>1 DEF CloneErrno
<1>3. ~Listed(NonzeroErrno, n, e)
  BY <1>1, NonzeroReasons
<1> QED
  BY <1>2, <1>3, TakenByRow DEF e

\* Failures of a system call.
LEMMA TakenAtErrno ==
  ASSUME NEW n, NEW reason, NEW stage, NEW masks, NEW bits,
         <<n, reason, stage, masks>> \in ErrorGrammar, Mask(bits) \in masks,
         reason \notin {"CGROUP_NOT_EMPTY", "PROTOCOL_INPUT", "TIMEOUT", "CLONE3_UNAVAILABLE"},
         reason = "RESOURCE_EXHAUSTED" => stage # "CLONE3",
         reason = "INTERNAL" => stage # "CLEANUP",
         reason = "CHILD_OBSERVATION_FAILED" =>
           stage # "CHILD_READY" /\ (stage = "PIDFD_SIGNAL" => Mask(bits) # \h1CF)
  PROVE  Taken(n, Failure(stage, reason, EIO), bits)
<1> DEFINE e == ErrorFrame(n, Failure(stage, reason, EIO), bits)
<1>1. e.reason = reason /\ e.stage = stage /\ e.value0 = Mask(bits) /\ e.errno = EIO
  BY DEF ErrorFrame, Failure
<1> HIDE DEF e
<1>2. CloneErrno(e)
  BY <1>1 DEF CloneErrno, CloneResourceErrnos, EIO, ENOSYS
<1>3. ~ZeroErrno(n, e)
  BY <1>1 DEF ZeroErrno
<1>4. EIO # 0
  BY DEF EIO
<1> QED
  BY <1>2, <1>3, <1>4, TakenByRow DEF e


\* Failures to read cgroup.events or cgroup.procs whose content was wrong.
LEMMA TakenIoAtZero ==
  ASSUME NEW n, NEW stage, NEW masks, NEW bits,
         <<n, "IO_FAILURE", stage, masks>> \in ErrorGrammar, Mask(bits) \in masks,
         <<n, stage, Mask(bits)>> \in {<<1, "CHILD_READY", \hC3>>, <<2, "PIDFD_SIGNAL", \h1CF>>,
                                      <<3, "CHILD_OBSERVATION", \h1DF>>}
  PROVE  Taken(n, Failure(stage, "IO_FAILURE", 0), bits)
<1> DEFINE e == ErrorFrame(n, Failure(stage, "IO_FAILURE", 0), bits)
<1>1. e.reason = "IO_FAILURE" /\ e.stage = stage /\ e.value0 = Mask(bits)
  BY DEF ErrorFrame, Failure
<1> HIDE DEF e
<1>2. CloneErrno(e)
  BY <1>1 DEF CloneErrno
<1>3. ~Listed(NonzeroErrno, n, e)
  <2>1. ASSUME NEW row \in NonzeroErrno, row[1] = n, row[2] = "IO_FAILURE", row[3] = stage,
               Mask(bits) \in row[4]
        PROVE  FALSE
    BY <2>1 DEF NonzeroErrno
  <2> QED
    BY <1>1, <2>1 DEF Listed
<1> QED
  BY <1>2, <1>3, TakenByRow DEF e

\* The errnos that clone3 is known by.
LEMMA TakenAtClone ==
  ASSUME NEW bits, Mask(bits) = 0
  PROVE  /\ Taken(1, Failure("CLONE3", "CLONE3_UNAVAILABLE", ENOSYS), bits)
         /\ Taken(1, Failure("CLONE3", "RESOURCE_EXHAUSTED", EAGAIN), bits)
<1> DEFINE e == ErrorFrame(1, Failure("CLONE3", "CLONE3_UNAVAILABLE", ENOSYS), bits)
           f == ErrorFrame(1, Failure("CLONE3", "RESOURCE_EXHAUSTED", EAGAIN), bits)
<1>1. /\ <<1, "CLONE3_UNAVAILABLE", "CLONE3", {0}>> \in ErrorGrammar
      /\ <<1, "RESOURCE_EXHAUSTED", "CLONE3", {0}>> \in ErrorGrammar
  BY DEF ErrorGrammar
<1>2. /\ e.reason = "CLONE3_UNAVAILABLE" /\ e.stage = "CLONE3" /\ e.errno = ENOSYS
      /\ f.reason = "RESOURCE_EXHAUSTED" /\ f.stage = "CLONE3" /\ f.errno = EAGAIN
  BY DEF ErrorFrame, Failure
<1> HIDE DEF e, f
<1>3. CloneErrno(e) /\ CloneErrno(f)
  BY <1>2 DEF CloneErrno, CloneResourceErrnos, EAGAIN
<1>4. ~ZeroErrno(1, e) /\ ~ZeroErrno(1, f)
  BY <1>2 DEF ZeroErrno
<1>5. ENOSYS # 0 /\ EAGAIN # 0 /\ Mask(bits) \in {0}
  BY DEF ENOSYS, EAGAIN
<1>6. Taken(1, Failure("CLONE3", "CLONE3_UNAVAILABLE", ENOSYS), bits)
  BY <1>1, <1>3, <1>4, <1>5, TakenByRow DEF e
<1>7. Taken(1, Failure("CLONE3", "RESOURCE_EXHAUSTED", EAGAIN), bits)
  BY <1>1, <1>3, <1>4, <1>5, TakenByRow DEF f
<1> QED
  BY <1>6, <1>7

\* Failures before the fixture is set up.
LEMMA StartupTaken ==
  /\ \A errno \in {0, EIO} : Taken(0, Failure("DESCRIPTOR_VALIDATION", "BAD_CGROUP_DESCRIPTOR", errno), AfterSweep({}))
  /\ \A errno \in {0, EIO} : Taken(0, Failure("DESCRIPTOR_VALIDATION", "BAD_DESCRIPTOR_LAYOUT", errno), AfterSweep({}))
  /\ \A errno \in {0, EIO} : Taken(0, Failure("CGROUP_VALIDATION", "BAD_CGROUP_DESCRIPTOR", errno), AfterSweep({}))
  /\ Taken(0, Failure("CGROUP_VALIDATION", "CGROUP_NOT_EMPTY", 0), AfterSweep({}))
  /\ \A errno \in {0, EIO} : Taken(0, Failure("STARTUP", "INTERNAL", errno), AfterSweep({}))
  /\ Taken(0, Failure("PROTOCOL", "IO_FAILURE", EIO), AfterSweep({}))
<1>1. \A errno \in {0, EIO} : Taken(0, Failure("DESCRIPTOR_VALIDATION", "BAD_CGROUP_DESCRIPTOR", errno), AfterSweep({}))
  <2>1. <<0, "BAD_CGROUP_DESCRIPTOR", "DESCRIPTOR_VALIDATION", {0}>> \in ErrorGrammar
    BY DEF ErrorGrammar
  <2>2. Taken(0, Failure("DESCRIPTOR_VALIDATION", "BAD_CGROUP_DESCRIPTOR", 0), AfterSweep({}))
    BY <2>1, SweptMasks, TakenAtZero
  <2>3. Taken(0, Failure("DESCRIPTOR_VALIDATION", "BAD_CGROUP_DESCRIPTOR", EIO), AfterSweep({}))
    BY <2>1, SweptMasks, TakenAtErrno
  <2> QED
    BY <2>2, <2>3
<1>2. \A errno \in {0, EIO} : Taken(0, Failure("DESCRIPTOR_VALIDATION", "BAD_DESCRIPTOR_LAYOUT", errno), AfterSweep({}))
  <2>1. <<0, "BAD_DESCRIPTOR_LAYOUT", "DESCRIPTOR_VALIDATION", {0}>> \in ErrorGrammar
    BY DEF ErrorGrammar
  <2>2. Taken(0, Failure("DESCRIPTOR_VALIDATION", "BAD_DESCRIPTOR_LAYOUT", 0), AfterSweep({}))
    BY <2>1, SweptMasks, TakenAtZero
  <2>3. Taken(0, Failure("DESCRIPTOR_VALIDATION", "BAD_DESCRIPTOR_LAYOUT", EIO), AfterSweep({}))
    BY <2>1, SweptMasks, TakenAtErrno
  <2> QED
    BY <2>2, <2>3
<1>3. \A errno \in {0, EIO} : Taken(0, Failure("CGROUP_VALIDATION", "BAD_CGROUP_DESCRIPTOR", errno), AfterSweep({}))
  <2>1. <<0, "BAD_CGROUP_DESCRIPTOR", "CGROUP_VALIDATION", {0}>> \in ErrorGrammar
    BY DEF ErrorGrammar
  <2>2. Taken(0, Failure("CGROUP_VALIDATION", "BAD_CGROUP_DESCRIPTOR", 0), AfterSweep({}))
    BY <2>1, SweptMasks, TakenAtZero
  <2>3. Taken(0, Failure("CGROUP_VALIDATION", "BAD_CGROUP_DESCRIPTOR", EIO), AfterSweep({}))
    BY <2>1, SweptMasks, TakenAtErrno
  <2> QED
    BY <2>2, <2>3
<1>4. Taken(0, Failure("CGROUP_VALIDATION", "CGROUP_NOT_EMPTY", 0), AfterSweep({}))
  <2>1. <<0, "CGROUP_NOT_EMPTY", "CGROUP_VALIDATION", {0}>> \in ErrorGrammar
    BY DEF ErrorGrammar
  <2> QED
    BY <2>1, SweptMasks, TakenAtZero
<1>5. \A errno \in {0, EIO} : Taken(0, Failure("STARTUP", "INTERNAL", errno), AfterSweep({}))
  <2>1. <<0, "INTERNAL", "STARTUP", {0}>> \in ErrorGrammar
    BY DEF ErrorGrammar
  <2>2. Taken(0, Failure("STARTUP", "INTERNAL", 0), AfterSweep({}))
    BY <2>1, SweptMasks, TakenAtZero
  <2>3. Taken(0, Failure("STARTUP", "INTERNAL", EIO), AfterSweep({}))
    BY <2>1, SweptMasks, TakenAtErrno
  <2> QED
    BY <2>2, <2>3
<1>6. Taken(0, Failure("PROTOCOL", "IO_FAILURE", EIO), AfterSweep({}))
  <2>1. <<0, "IO_FAILURE", "PROTOCOL", {0}>> \in ErrorGrammar
    BY DEF ErrorGrammar
  <2> QED
    BY <2>1, SweptMasks, TakenAtErrno
<1> QED
  BY <1>1, <1>2, <1>3, <1>4, <1>5, <1>6

\* Failures after HELLO, before there is a child.
LEMMA SetupTaken ==
  /\ \A errno \in {0, EIO} : Taken(1, Failure("FIXTURE_SETUP", "INTERNAL", errno), AfterSweep({}))
  /\ Taken(1, Failure("PROTOCOL", "PROTOCOL_INPUT", 0), AfterSweep({}))
  /\ Taken(1, Failure("FIXTURE_SETUP", "IO_FAILURE", EIO), AfterSweep({}))
  /\ Taken(1, Failure("FIXTURE_SETUP", "RESOURCE_EXHAUSTED", EIO), AfterSweep({}))
  /\ Taken(1, Failure("CLONE3", "CLONE3_UNAVAILABLE", ENOSYS), AfterSweep({}))
  /\ Taken(1, Failure("CLONE3", "RESOURCE_EXHAUSTED", EAGAIN), AfterSweep({}))
  /\ Taken(1, Failure("CLONE3", "CLONE3_REJECTED", EIO), AfterSweep({}))
<1>1. \A errno \in {0, EIO} : Taken(1, Failure("FIXTURE_SETUP", "INTERNAL", errno), AfterSweep({}))
  <2>1. <<1, "INTERNAL", "FIXTURE_SETUP", {0}>> \in ErrorGrammar
    BY DEF ErrorGrammar
  <2>2. Taken(1, Failure("FIXTURE_SETUP", "INTERNAL", 0), AfterSweep({}))
    BY <2>1, SweptMasks, TakenAtZero
  <2>3. Taken(1, Failure("FIXTURE_SETUP", "INTERNAL", EIO), AfterSweep({}))
    BY <2>1, SweptMasks, TakenAtErrno
  <2> QED
    BY <2>2, <2>3
<1>2. Taken(1, Failure("PROTOCOL", "PROTOCOL_INPUT", 0), AfterSweep({}))
  <2>1. <<1, "PROTOCOL_INPUT", "PROTOCOL", {0, \hC3, \h1C3}>> \in ErrorGrammar
    BY DEF ErrorGrammar
  <2> QED
    BY <2>1, SweptMasks, TakenAtZero
<1>3. Taken(1, Failure("FIXTURE_SETUP", "IO_FAILURE", EIO), AfterSweep({}))
  <2>1. <<1, "IO_FAILURE", "FIXTURE_SETUP", {0, \hC3}>> \in ErrorGrammar
    BY DEF ErrorGrammar
  <2> QED
    BY <2>1, SweptMasks, TakenAtErrno
<1>4. Taken(1, Failure("FIXTURE_SETUP", "RESOURCE_EXHAUSTED", EIO), AfterSweep({}))
  <2>1. <<1, "RESOURCE_EXHAUSTED", "FIXTURE_SETUP", {0}>> \in ErrorGrammar
    BY DEF ErrorGrammar
  <2> QED
    BY <2>1, SweptMasks, TakenAtErrno
<1>5. Taken(1, Failure("CLONE3", "CLONE3_UNAVAILABLE", ENOSYS), AfterSweep({}))
  <2>1. <<1, "CLONE3_UNAVAILABLE", "CLONE3", {0}>> \in ErrorGrammar
    BY DEF ErrorGrammar
  <2> QED
    BY <2>1, SweptMasks, TakenAtClone
<1>6. Taken(1, Failure("CLONE3", "RESOURCE_EXHAUSTED", EAGAIN), AfterSweep({}))
  <2>1. <<1, "RESOURCE_EXHAUSTED", "CLONE3", {0}>> \in ErrorGrammar
    BY DEF ErrorGrammar
  <2> QED
    BY <2>1, SweptMasks, TakenAtClone
<1>7. Taken(1, Failure("CLONE3", "CLONE3_REJECTED", EIO), AfterSweep({}))
  <2>1. <<1, "CLONE3_REJECTED", "CLONE3", {0}>> \in ErrorGrammar
    BY DEF ErrorGrammar
  <2> QED
    BY <2>1, SweptMasks, TakenAtErrno
<1> QED
  BY <1>1, <1>2, <1>3, <1>4, <1>5, <1>6, <1>7

\* Failures when clone3 gave no usable pidfd.
LEMMA ChildTaken ==
  /\ \A errno \in {0, EIO} : Taken(1, Failure("CLONE3", "PIDFD_UNAVAILABLE", errno), AfterSweep(WithChild))
<1>1. \A errno \in {0, EIO} : Taken(1, Failure("CLONE3", "PIDFD_UNAVAILABLE", errno), AfterSweep(WithChild))
  <2>1. <<1, "PIDFD_UNAVAILABLE", "CLONE3", {\hC1}>> \in ErrorGrammar
    BY DEF ErrorGrammar
  <2>2. Taken(1, Failure("CLONE3", "PIDFD_UNAVAILABLE", 0), AfterSweep(WithChild))
    BY <2>1, SweptMasks, TakenAtZero
  <2>3. Taken(1, Failure("CLONE3", "PIDFD_UNAVAILABLE", EIO), AfterSweep(WithChild))
    BY <2>1, SweptMasks, TakenAtErrno
  <2> QED
    BY <2>2, <2>3
<1> QED
  BY <1>1

\* Failures while the child gets ready.
LEMMA ReadyTaken ==
  /\ Taken(1, Failure("FIXTURE_SETUP", "IO_FAILURE", EIO), AfterSweep(WithPidfd))
  /\ Taken(1, Failure("CHILD_READY", "TIMEOUT", 0), AfterSweep(WithPidfd))
  /\ \A errno \in {0, EIO} : Taken(1, Failure("CHILD_READY", "IO_FAILURE", errno), AfterSweep(WithPidfd))
  /\ Taken(1, Failure("PROTOCOL", "PROTOCOL_INPUT", 0), AfterSweep(WithPidfd))
  /\ \A errno \in {0, EIO} : Taken(1, Failure("CHILD_READY", "CHILD_SETUP_FAILED", errno), AfterSweep(WithPidfd))
  /\ Taken(1, Failure("CHILD_READY", "CHILD_OBSERVATION_FAILED", 0), AfterSweep(WithPidfd))
<1>1. Taken(1, Failure("FIXTURE_SETUP", "IO_FAILURE", EIO), AfterSweep(WithPidfd))
  <2>1. <<1, "IO_FAILURE", "FIXTURE_SETUP", {0, \hC3}>> \in ErrorGrammar
    BY DEF ErrorGrammar
  <2> QED
    BY <2>1, SweptMasks, TakenAtErrno
<1>2. Taken(1, Failure("CHILD_READY", "TIMEOUT", 0), AfterSweep(WithPidfd))
  <2>1. <<1, "TIMEOUT", "CHILD_READY", {\hC3}>> \in ErrorGrammar
    BY DEF ErrorGrammar
  <2> QED
    BY <2>1, SweptMasks, TakenAtZero
<1>3. \A errno \in {0, EIO} : Taken(1, Failure("CHILD_READY", "IO_FAILURE", errno), AfterSweep(WithPidfd))
  <2>1. <<1, "IO_FAILURE", "CHILD_READY", {\hC3, \h1C3}>> \in ErrorGrammar
    BY DEF ErrorGrammar
  <2>2. Taken(1, Failure("CHILD_READY", "IO_FAILURE", 0), AfterSweep(WithPidfd))
    BY <2>1, SweptMasks, TakenIoAtZero
  <2>3. Taken(1, Failure("CHILD_READY", "IO_FAILURE", EIO), AfterSweep(WithPidfd))
    BY <2>1, SweptMasks, TakenAtErrno
  <2> QED
    BY <2>2, <2>3
<1>4. Taken(1, Failure("PROTOCOL", "PROTOCOL_INPUT", 0), AfterSweep(WithPidfd))
  <2>1. <<1, "PROTOCOL_INPUT", "PROTOCOL", {0, \hC3, \h1C3}>> \in ErrorGrammar
    BY DEF ErrorGrammar
  <2> QED
    BY <2>1, SweptMasks, TakenAtZero
<1>5. \A errno \in {0, EIO} : Taken(1, Failure("CHILD_READY", "CHILD_SETUP_FAILED", errno), AfterSweep(WithPidfd))
  <2>1. <<1, "CHILD_SETUP_FAILED", "CHILD_READY", {\hC3}>> \in ErrorGrammar
    BY DEF ErrorGrammar
  <2>2. Taken(1, Failure("CHILD_READY", "CHILD_SETUP_FAILED", 0), AfterSweep(WithPidfd))
    BY <2>1, SweptMasks, TakenAtZero
  <2>3. Taken(1, Failure("CHILD_READY", "CHILD_SETUP_FAILED", EIO), AfterSweep(WithPidfd))
    BY <2>1, SweptMasks, TakenAtErrno
  <2> QED
    BY <2>2, <2>3
<1>6. Taken(1, Failure("CHILD_READY", "CHILD_OBSERVATION_FAILED", 0), AfterSweep(WithPidfd))
  <2>1. <<1, "CHILD_OBSERVATION_FAILED", "CHILD_READY", {\hC3}>> \in ErrorGrammar
    BY DEF ErrorGrammar
  <2> QED
    BY <2>1, SweptMasks, TakenAtZero
<1> QED
  BY <1>1, <1>2, <1>3, <1>4, <1>5, <1>6

\* Failures while CHILD_READY is reported.
LEMMA ReportReadyTaken ==
  /\ Taken(1, Failure("PROTOCOL", "PROTOCOL_INPUT", 0), AfterSweep(WithReady))
  /\ Taken(1, Failure("CHILD_READY", "IO_FAILURE", EIO), AfterSweep(WithReady))
  /\ Taken(1, Failure("PROTOCOL", "IO_FAILURE", EIO), AfterSweep(WithReady))
<1>1. Taken(1, Failure("PROTOCOL", "PROTOCOL_INPUT", 0), AfterSweep(WithReady))
  <2>1. <<1, "PROTOCOL_INPUT", "PROTOCOL", {0, \hC3, \h1C3}>> \in ErrorGrammar
    BY DEF ErrorGrammar
  <2> QED
    BY <2>1, SweptMasks, TakenAtZero
<1>2. Taken(1, Failure("CHILD_READY", "IO_FAILURE", EIO), AfterSweep(WithReady))
  <2>1. <<1, "IO_FAILURE", "CHILD_READY", {\hC3, \h1C3}>> \in ErrorGrammar
    BY DEF ErrorGrammar
  <2> QED
    BY <2>1, SweptMasks, TakenAtErrno
<1>3. Taken(1, Failure("PROTOCOL", "IO_FAILURE", EIO), AfterSweep(WithReady))
  <2>1. <<1, "IO_FAILURE", "PROTOCOL", {\h1C3}>> \in ErrorGrammar
    BY DEF ErrorGrammar
  <2> QED
    BY <2>1, SweptMasks, TakenAtErrno
<1> QED
  BY <1>1, <1>2, <1>3

\* A failure to send SIGSTOP.
LEMMA StopTaken ==
  /\ Taken(2, Failure("PIDFD_SIGNAL", "PIDFD_SIGNAL_FAILED", EIO), AfterSweep(WithReady))
<1>1. Taken(2, Failure("PIDFD_SIGNAL", "PIDFD_SIGNAL_FAILED", EIO), AfterSweep(WithReady))
  <2>1. <<2, "PIDFD_SIGNAL_FAILED", "PIDFD_SIGNAL", {\h1C3}>> \in ErrorGrammar
    BY DEF ErrorGrammar
  <2> QED
    BY <2>1, SweptMasks, TakenAtErrno
<1> QED
  BY <1>1

\* Failures while the stop is awaited.
LEMMA WatchTaken ==
  /\ \A errno \in {0, EIO} : Taken(2, Failure("PIDFD_SIGNAL", "CHILD_OBSERVATION_FAILED", errno), AfterSweep(WithStopSent))
  /\ Taken(2, Failure("PIDFD_SIGNAL", "TIMEOUT", 0), AfterSweep(WithStopSent))
  /\ Taken(2, Failure("PROTOCOL", "PROTOCOL_INPUT", 0), AfterSweep(WithStopSent))
  /\ Taken(2, Failure("PIDFD_SIGNAL", "IO_FAILURE", EIO), AfterSweep(WithStopSent))
<1>1. \A errno \in {0, EIO} : Taken(2, Failure("PIDFD_SIGNAL", "CHILD_OBSERVATION_FAILED", errno), AfterSweep(WithStopSent))
  <2>1. <<2, "CHILD_OBSERVATION_FAILED", "PIDFD_SIGNAL", {\h1C7, \h1CF}>> \in ErrorGrammar
    BY DEF ErrorGrammar
  <2>2. Taken(2, Failure("PIDFD_SIGNAL", "CHILD_OBSERVATION_FAILED", 0), AfterSweep(WithStopSent))
    BY <2>1, SweptMasks, TakenAtZero
  <2>3. Taken(2, Failure("PIDFD_SIGNAL", "CHILD_OBSERVATION_FAILED", EIO), AfterSweep(WithStopSent))
    BY <2>1, SweptMasks, TakenAtErrno
  <2> QED
    BY <2>2, <2>3
<1>2. Taken(2, Failure("PIDFD_SIGNAL", "TIMEOUT", 0), AfterSweep(WithStopSent))
  <2>1. <<2, "TIMEOUT", "PIDFD_SIGNAL", {\h1C7}>> \in ErrorGrammar
    BY DEF ErrorGrammar
  <2> QED
    BY <2>1, SweptMasks, TakenAtZero
<1>3. Taken(2, Failure("PROTOCOL", "PROTOCOL_INPUT", 0), AfterSweep(WithStopSent))
  <2>1. <<2, "PROTOCOL_INPUT", "PROTOCOL", {\h1C7, \h1CF}>> \in ErrorGrammar
    BY DEF ErrorGrammar
  <2> QED
    BY <2>1, SweptMasks, TakenAtZero
<1>4. Taken(2, Failure("PIDFD_SIGNAL", "IO_FAILURE", EIO), AfterSweep(WithStopSent))
  <2>1. <<2, "IO_FAILURE", "PIDFD_SIGNAL", {\h1C7, \h1CF}>> \in ErrorGrammar
    BY DEF ErrorGrammar
  <2> QED
    BY <2>1, SweptMasks, TakenAtErrno
<1> QED
  BY <1>1, <1>2, <1>3, <1>4

\* Failures after the child was seen stopped.
LEMMA ReportStopTaken ==
  /\ Taken(2, Failure("PIDFD_SIGNAL", "CHILD_OBSERVATION_FAILED", 0), AfterSweep(WithStop))
  /\ Taken(2, Failure("PROTOCOL", "PROTOCOL_INPUT", 0), AfterSweep(WithStop))
  /\ \A errno \in {0, EIO} : Taken(2, Failure("PIDFD_SIGNAL", "IO_FAILURE", errno), AfterSweep(WithStop))
  /\ Taken(2, Failure("PROTOCOL", "IO_FAILURE", EIO), AfterSweep(WithStop))
<1>1. Taken(2, Failure("PIDFD_SIGNAL", "CHILD_OBSERVATION_FAILED", 0), AfterSweep(WithStop))
  <2>1. <<2, "CHILD_OBSERVATION_FAILED", "PIDFD_SIGNAL", {\h1C7, \h1CF}>> \in ErrorGrammar
    BY DEF ErrorGrammar
  <2> QED
    BY <2>1, SweptMasks, TakenAtZero
<1>2. Taken(2, Failure("PROTOCOL", "PROTOCOL_INPUT", 0), AfterSweep(WithStop))
  <2>1. <<2, "PROTOCOL_INPUT", "PROTOCOL", {\h1C7, \h1CF}>> \in ErrorGrammar
    BY DEF ErrorGrammar
  <2> QED
    BY <2>1, SweptMasks, TakenAtZero
<1>3. \A errno \in {0, EIO} : Taken(2, Failure("PIDFD_SIGNAL", "IO_FAILURE", errno), AfterSweep(WithStop))
  <2>1. <<2, "IO_FAILURE", "PIDFD_SIGNAL", {\h1C7, \h1CF}>> \in ErrorGrammar
    BY DEF ErrorGrammar
  <2>2. Taken(2, Failure("PIDFD_SIGNAL", "IO_FAILURE", 0), AfterSweep(WithStop))
    BY <2>1, SweptMasks, TakenIoAtZero
  <2>3. Taken(2, Failure("PIDFD_SIGNAL", "IO_FAILURE", EIO), AfterSweep(WithStop))
    BY <2>1, SweptMasks, TakenAtErrno
  <2> QED
    BY <2>2, <2>3
<1>4. Taken(2, Failure("PROTOCOL", "IO_FAILURE", EIO), AfterSweep(WithStop))
  <2>1. <<2, "IO_FAILURE", "PROTOCOL", {\h1CF}>> \in ErrorGrammar
    BY DEF ErrorGrammar
  <2> QED
    BY <2>1, SweptMasks, TakenAtErrno
<1> QED
  BY <1>1, <1>2, <1>3, <1>4

\* Failures before cgroup.kill is written.
LEMMA KillTaken ==
  /\ Taken(3, Failure("PROTOCOL", "PROTOCOL_INPUT", 0), AfterSweep(WithStop))
  /\ Taken(3, Failure("CGROUP_KILL", "IO_FAILURE", EIO), AfterSweep(WithStop))
  /\ Taken(3, Failure("CGROUP_KILL", "CGROUP_KILL_FAILED", EIO), AfterSweep(WithStop))
<1>1. Taken(3, Failure("PROTOCOL", "PROTOCOL_INPUT", 0), AfterSweep(WithStop))
  <2>1. <<3, "PROTOCOL_INPUT", "PROTOCOL", {\h1CF, \h1DF, \h1FF}>> \in ErrorGrammar
    BY DEF ErrorGrammar
  <2> QED
    BY <2>1, SweptMasks, TakenAtZero
<1>2. Taken(3, Failure("CGROUP_KILL", "IO_FAILURE", EIO), AfterSweep(WithStop))
  <2>1. <<3, "IO_FAILURE", "CGROUP_KILL", {\h1CF}>> \in ErrorGrammar
    BY DEF ErrorGrammar
  <2> QED
    BY <2>1, SweptMasks, TakenAtErrno
<1>3. Taken(3, Failure("CGROUP_KILL", "CGROUP_KILL_FAILED", EIO), AfterSweep(WithStop))
  <2>1. <<3, "CGROUP_KILL_FAILED", "CGROUP_KILL", {\h1CF}>> \in ErrorGrammar
    BY DEF ErrorGrammar
  <2> QED
    BY <2>1, SweptMasks, TakenAtErrno
<1> QED
  BY <1>1, <1>2, <1>3

\* Failures while exit and emptiness are awaited.
LEMMA ObserveTaken ==
  /\ \A errno \in {0, EIO} : Taken(3, Failure("CHILD_OBSERVATION", "CHILD_OBSERVATION_FAILED", errno), AfterSweep(WithKill))
  /\ Taken(3, Failure("CHILD_OBSERVATION", "TIMEOUT", 0), AfterSweep(WithKill))
  /\ Taken(3, Failure("PROTOCOL", "PROTOCOL_INPUT", 0), AfterSweep(WithKill))
  /\ \A errno \in {0, EIO} : Taken(3, Failure("CHILD_OBSERVATION", "IO_FAILURE", errno), AfterSweep(WithKill))
<1>1. \A errno \in {0, EIO} : Taken(3, Failure("CHILD_OBSERVATION", "CHILD_OBSERVATION_FAILED", errno), AfterSweep(WithKill))
  <2>1. <<3, "CHILD_OBSERVATION_FAILED", "CHILD_OBSERVATION", {\h1DF}>> \in ErrorGrammar
    BY DEF ErrorGrammar
  <2>2. Taken(3, Failure("CHILD_OBSERVATION", "CHILD_OBSERVATION_FAILED", 0), AfterSweep(WithKill))
    BY <2>1, SweptMasks, TakenAtZero
  <2>3. Taken(3, Failure("CHILD_OBSERVATION", "CHILD_OBSERVATION_FAILED", EIO), AfterSweep(WithKill))
    BY <2>1, SweptMasks, TakenAtErrno
  <2> QED
    BY <2>2, <2>3
<1>2. Taken(3, Failure("CHILD_OBSERVATION", "TIMEOUT", 0), AfterSweep(WithKill))
  <2>1. <<3, "TIMEOUT", "CHILD_OBSERVATION", {\h1DF}>> \in ErrorGrammar
    BY DEF ErrorGrammar
  <2> QED
    BY <2>1, SweptMasks, TakenAtZero
<1>3. Taken(3, Failure("PROTOCOL", "PROTOCOL_INPUT", 0), AfterSweep(WithKill))
  <2>1. <<3, "PROTOCOL_INPUT", "PROTOCOL", {\h1CF, \h1DF, \h1FF}>> \in ErrorGrammar
    BY DEF ErrorGrammar
  <2> QED
    BY <2>1, SweptMasks, TakenAtZero
<1>4. \A errno \in {0, EIO} : Taken(3, Failure("CHILD_OBSERVATION", "IO_FAILURE", errno), AfterSweep(WithKill))
  <2>1. <<3, "IO_FAILURE", "CHILD_OBSERVATION", {\h1DF, \h1FF}>> \in ErrorGrammar
    BY DEF ErrorGrammar
  <2>2. Taken(3, Failure("CHILD_OBSERVATION", "IO_FAILURE", 0), AfterSweep(WithKill))
    BY <2>1, SweptMasks, TakenIoAtZero
  <2>3. Taken(3, Failure("CHILD_OBSERVATION", "IO_FAILURE", EIO), AfterSweep(WithKill))
    BY <2>1, SweptMasks, TakenAtErrno
  <2> QED
    BY <2>2, <2>3
<1> QED
  BY <1>1, <1>2, <1>3, <1>4

\* Failures while CHILD_OBSERVED is reported.
LEMMA ReportExitTaken ==
  /\ Taken(3, Failure("PROTOCOL", "PROTOCOL_INPUT", 0), AfterSweep(WithExit))
  /\ Taken(3, Failure("CHILD_OBSERVATION", "IO_FAILURE", EIO), AfterSweep(WithExit))
  /\ Taken(3, Failure("PROTOCOL", "IO_FAILURE", EIO), AfterSweep(WithExit))
<1>1. Taken(3, Failure("PROTOCOL", "PROTOCOL_INPUT", 0), AfterSweep(WithExit))
  <2>1. <<3, "PROTOCOL_INPUT", "PROTOCOL", {\h1CF, \h1DF, \h1FF}>> \in ErrorGrammar
    BY DEF ErrorGrammar
  <2> QED
    BY <2>1, SweptMasks, TakenAtZero
<1>2. Taken(3, Failure("CHILD_OBSERVATION", "IO_FAILURE", EIO), AfterSweep(WithExit))
  <2>1. <<3, "IO_FAILURE", "CHILD_OBSERVATION", {\h1DF, \h1FF}>> \in ErrorGrammar
    BY DEF ErrorGrammar
  <2> QED
    BY <2>1, SweptMasks, TakenAtErrno
<1>3. Taken(3, Failure("PROTOCOL", "IO_FAILURE", EIO), AfterSweep(WithExit))
  <2>1. <<3, "IO_FAILURE", "PROTOCOL", {\h1FF}>> \in ErrorGrammar
    BY DEF ErrorGrammar
  <2> QED
    BY <2>1, SweptMasks, TakenAtErrno
<1> QED
  BY <1>1, <1>2, <1>3

\* Failures from the reap to the end.
LEMMA ReapTaken ==
  /\ \A errno \in {0, EIO} : Taken(4, Failure("CHILD_REAP", "CHILD_REAP_FAILED", errno), AfterSweep(WithExit))
  /\ Taken(4, Failure("CLEANUP", "INTERNAL", 0), AfterSweep(WithExit))
  /\ Taken(4, Failure("PROTOCOL", "PROTOCOL_INPUT", 0), AfterSweep(WithExit))
  /\ Taken(4, Failure("CLEANUP", "IO_FAILURE", EIO), AfterSweep(WithExit))
  /\ Taken(4, Failure("CLEANUP", "CLEANUP_INCOMPLETE", EIO), AfterSweep(WithExit))
<1>1. \A errno \in {0, EIO} : Taken(4, Failure("CHILD_REAP", "CHILD_REAP_FAILED", errno), AfterSweep(WithExit))
  <2>1. <<4, "CHILD_REAP_FAILED", "CHILD_REAP", {\h1FF}>> \in ErrorGrammar
    BY DEF ErrorGrammar
  <2>2. Taken(4, Failure("CHILD_REAP", "CHILD_REAP_FAILED", 0), AfterSweep(WithExit))
    BY <2>1, SweptMasks, TakenAtZero
  <2>3. Taken(4, Failure("CHILD_REAP", "CHILD_REAP_FAILED", EIO), AfterSweep(WithExit))
    BY <2>1, SweptMasks, TakenAtErrno
  <2> QED
    BY <2>2, <2>3
<1>2. Taken(4, Failure("CLEANUP", "INTERNAL", 0), AfterSweep(WithExit))
  <2>1. <<4, "INTERNAL", "CLEANUP", {\h1FF}>> \in ErrorGrammar
    BY DEF ErrorGrammar
  <2> QED
    BY <2>1, SweptMasks, TakenAtZero
<1>3. Taken(4, Failure("PROTOCOL", "PROTOCOL_INPUT", 0), AfterSweep(WithExit))
  <2>1. <<4, "PROTOCOL_INPUT", "PROTOCOL", {\h1FF}>> \in ErrorGrammar
    BY DEF ErrorGrammar
  <2> QED
    BY <2>1, SweptMasks, TakenAtZero
<1>4. Taken(4, Failure("CLEANUP", "IO_FAILURE", EIO), AfterSweep(WithExit))
  <2>1. <<4, "IO_FAILURE", "CLEANUP", {\h1FF}>> \in ErrorGrammar
    BY DEF ErrorGrammar
  <2> QED
    BY <2>1, SweptMasks, TakenAtErrno
<1>5. Taken(4, Failure("CLEANUP", "CLEANUP_INCOMPLETE", EIO), AfterSweep(WithExit))
  <2>1. <<4, "CLEANUP_INCOMPLETE", "CLEANUP", {\h1BF, \h1FF}>> \in ErrorGrammar
    BY DEF ErrorGrammar
  <2> QED
    BY <2>1, SweptMasks, TakenAtErrno
<1> QED
  BY <1>1, <1>2, <1>3, <1>4, <1>5


(***************************************************************************)
(* Steps that many places share.                                           *)
(***************************************************************************)
\* On the way to success only Way, World and the mask have to be kept.
LEMMA Onward ==
  ASSUME pc' \in WayPlaces, Way', World', MaskIsTrue'
  PROVE  NativeIInv'
<1>1. pc' \notin Failing \cup {"error", "exited"}
  BY DEF WayPlaces, Startup, Failing, Sweeping
<1>2. Cleanup'
  BY <1>1 DEF Cleanup, Failing, Sweeping
<1>3. Ending' /\ Left' /\ NoChildLeftBehind' /\ TranscriptAccepted'
  BY <1>1 DEF Failing, Ending, Left, NoChildLeftBehind, TranscriptAccepted, Told
<1> QED
  BY <1>2, <1>3 DEF NativeIInv

\* Nothing of the child, the leaf or the flags changed.
LEMMA SameWorld ==
  ASSUME World, MaskIsTrue, UNCHANGED <<achieved, worldVars>>,
         \A fact \in {"exit", "empty", "record"} : fact \in seen' => fact \in seen,
         pc' \in {"populated", "procs"} => pipe = "ready",
         pc' = "judge" => {"exit", "empty"} \subseteq seen'
  PROVE  World' /\ MaskIsTrue'
  BY DEF World, MaskIsTrue, worldVars, Created, Reaped, Alive, Dead

\* Where main may leave the way to success.
LEMMA Leaving ==
  ASSUME Way
  PROVE  /\ pc \in Startup => MayLeave(0, {})
         /\ pc \in {"arm", "quietFixture", "clone"} => MayLeave(1, {})
         /\ pc \in {"ready", "populated", "procs"} => MayLeave(1, WithPidfd)
         /\ pc \in {"quietReady", "emitReady"} => MayLeave(1, WithReady)
         /\ pc = "stop" => MayLeave(2, WithReady)
         /\ pc = "watch" => MayLeave(2, WithStopSent)
         /\ pc \in {"recheck", "quietSignal", "emitSignaled"} => MayLeave(2, WithStop)
         /\ pc \in {"quietKill", "kill"} => MayLeave(3, WithStop)
         /\ pc \in {"observeEvents", "observeExit", "judge"} => MayLeave(3, WithKill)
         /\ pc \in {"quietObserved", "emitObserved"} => MayLeave(3, WithExit)
         /\ pc = "reap" => MayLeave(4, WithExit)
         /\ pc \in {"finish", "quietCleanup", "close", "final"} => MayLeave(4, WithExit)
<1> DEFINE May(n, bits) == /\ bits \subseteq achieved /\ achieved \subseteq AfterSweep(bits)
                           /\ Reaped => CGROUP_EMPTY \in achieved
                           /\ CGROUP_EMPTY \in achieved => PIDFD_EXIT_OBSERVED \in achieved
<1>1. ASSUME NEW bits \in {{}, WithChild, WithPidfd, WithReady, WithStopSent, WithStop, WithKill, WithExit},
             achieved = bits
      PROVE  May(0, bits)
  <2>1. bits \subseteq AfterSweep(bits)
    BY DEF AfterSweep
  <2>2. CHILD_REAPED \notin bits /\ (CGROUP_EMPTY \in bits => PIDFD_EXIT_OBSERVED \in bits)
    BY Flags DEF WithChild, WithPidfd, WithReady, WithStopSent, WithStop, WithKill, WithExit
  <2> QED
    BY <1>1, <2>1, <2>2 DEF Reaped
<1>2. ASSUME achieved = WithReap PROVE May(0, WithExit)
  <2>1. WithExit \subseteq WithReap /\ WithReap \subseteq AfterSweep(WithExit)
    BY Flags DEF WithReap, WithExit, AfterSweep, SweepBits
  <2>2. CGROUP_EMPTY \in WithReap /\ PIDFD_EXIT_OBSERVED \in WithReap
    BY DEF WithReap, WithExit
  <2> QED
    BY <1>2, <2>1, <2>2
<1> QED
  BY <1>1, <1>2 DEF Way, OnTheWay, MayLeave, Exits

\* A failure that the parser would take starts a cleanup.
LEMMA Leave ==
  ASSUME World, MaskIsTrue, NEW n, NEW bits, MayLeave(n, bits),
         pc' = "fail", UNCHANGED <<achieved, frames, incomplete, worldVars>>,
         \A fact \in {"exit", "empty", "record"} : fact \in seen' => fact \in seen,
         usable' /\ peerOpen' => Taken(n, failure', AfterSweep(bits))
  PROVE  NativeIInv'
<1>1. World' /\ MaskIsTrue'
  BY SameWorld
<1>2. Way'
  BY DEF Way, OnTheWay, Startup
<1>3. LeftAt(n, bits)'
  BY DEF MayLeave, LeftAt
<1>4. \E leg \in Exits : LeftAt(leg[1], leg[2])'
  <2>1. <<n, bits>> \in Exits /\ <<n, bits>>[1] = n /\ <<n, bits>>[2] = bits
    BY DEF MayLeave
  <2> QED
    BY <1>3, <2>1
<1>5. Cleanup'
  <2>1. /\ incomplete' = FALSE /\ (Reaped' => CGROUP_EMPTY \in achieved')
        /\ CGROUP_EMPTY \in achieved' => PIDFD_EXIT_OBSERVED \in achieved'
    BY DEF MayLeave, Reaped
  <2> QED
    BY <1>4, <2>1 DEF Cleanup, Failing, Sweeping
<1>6. Ending' /\ Left' /\ NoChildLeftBehind' /\ TranscriptAccepted'
  BY DEF Ending, Left, NoChildLeftBehind, TranscriptAccepted, Told
<1> QED
  BY <1>1, <1>2, <1>5, <1>6 DEF NativeIInv

\* BPE_FAIL, where the error grammar has a row for it.
LEMMA FailLeaves ==
  ASSUME World, MaskIsTrue, NEW n, NEW bits, MayLeave(n, bits),
         NEW stage, NEW reason, NEW errnos, Fail(stage, reason, errnos),
         \A errno \in errnos : Taken(n, Failure(stage, reason, errno), AfterSweep(bits))
  PROVE  NativeIInv'
<1>1. Taken(n, failure', AfterSweep(bits))
  BY DEF Fail
<1>2. pc' = "fail" /\ UNCHANGED <<achieved, frames, incomplete, worldVars>> /\ seen' = seen
  BY DEF Fail
<1> QED
  BY <1>1, <1>2, Leave

\* The control socket fails or speaks.
LEMMA ControlLeaves ==
  ASSUME World, MaskIsTrue, NEW n, NEW bits, MayLeave(n, bits),
         NEW stage, NEW fault, bpe_control_failed(stage, fault),
         Taken(n, Failure("PROTOCOL", "PROTOCOL_INPUT", 0), AfterSweep(bits))
  PROVE  NativeIInv'
<1>1. CASE Fail("PROTOCOL", "PROTOCOL_INPUT", {0})
  BY <1>1, FailLeaves
<1>2. CASE /\ pc' = "fail" /\ UNCHANGED <<achieved, frames, incomplete, worldVars>> /\ seen' = seen
           /\ peerOpen' = FALSE
  BY <1>2, Leave
<1> QED
  BY <1>1, <1>2 DEF bpe_control_failed

\* A poll that gives up, where the grammar has a row for what it reports.
LEMMA PollLeaves ==
  ASSUME World, MaskIsTrue, NEW n, NEW bits, MayLeave(n, bits),
         NEW stage, NEW fault, bpe_poll_until(stage, fault),
         Taken(n, Failure("PROTOCOL", "PROTOCOL_INPUT", 0), AfterSweep(bits)),
         Taken(n, Failure(stage, "TIMEOUT", 0), AfterSweep(bits)),
         Taken(n, Failure(stage, "IO_FAILURE", EIO), AfterSweep(bits))
  PROVE  NativeIInv'
  BY FailLeaves, ControlLeaves DEF bpe_poll_until

\* A checkpoint is passed, or main leaves.
LEMMA QuietOrLeaves ==
  ASSUME World, MaskIsTrue, NEW n, NEW bits, MayLeave(n, bits),
         NEW stage, NEW next, bpe_control_quiet(stage, next),
         Taken(n, Failure("PROTOCOL", "PROTOCOL_INPUT", 0), AfterSweep(bits)),
         Taken(n, Failure(stage, "IO_FAILURE", EIO), AfterSweep(bits))
  PROVE  Goto(next) \/ NativeIInv'
<1>1. CASE bpe_control_failed(stage, TRUE)
  BY <1>1, ControlLeaves
<1>2. CASE Fail(stage, "IO_FAILURE", {EIO})
  BY <1>2, FailLeaves
<1> QED
  BY <1>1, <1>2 DEF bpe_control_quiet


\* EmitOrFail sends the frame that is due.
LEMMA SendNext ==
  ASSUME NEW n \in 0..4, frames = Successes(n),
         NEW value0, NEW value1, NEW type, NEW stage,
         type = SuccessTypes[n + 1], stage = SuccessStages[n + 1],
         value0 = <<LauncherPid, ChildPid, CLD_STOPPED, CLD_KILLED, ACHIEVED_RESULT_MASK>>[n + 1],
         value1 = <<0, REQUIRED_CLONE_FLAGS, SIGSTOP, SIGKILL, 1>>[n + 1],
         bpe_emit_frame(Frame(type, "OK", Failure(stage, "NONE", 0), value0, value1))
  PROVE  frames' = Successes(n + 1)
<1>1. Len(frames) = n
  BY SuccessesLength
<1>2. (n + 1) - 1 = n
  OBVIOUS
<1>3. Failure(stage, "NONE", 0).stage = stage /\ Failure(stage, "NONE", 0).reason = "NONE"
      /\ Failure(stage, "NONE", 0).errno = 0
  BY DEF Failure
<1>4. Frame(type, "OK", Failure(stage, "NONE", 0), value0, value1) = SuccessFrame(n + 1)
  BY <1>1, <1>2, <1>3, Zenon DEF Frame, SuccessFrame
<1> QED
  BY <1>4, SuccessesGrow DEF bpe_emit_frame

\* No frame but FINAL and ERROR ends a transcript.
LEMMA NotTold ==
  ASSUME NEW n \in 0..4, NEW sent, sent = Successes(n)
  PROVE  ~(sent # <<>> /\ sent[Len(sent)].type \in {"FINAL", "ERROR"})
<1>1. CASE n = 0
  <2>1. Successes(0) = <<>>
    <3> DEFINE F(i) == SuccessFrame(i)
    <3> HIDE DEF F
    <3>1. [i \in 1..0 |-> F(i)] = <<>>
      OBVIOUS
    <3> QED
      BY <3>1 DEF F, Successes
  <2> QED
    BY <1>1, <2>1
<1>2. CASE n \in 1..4
  <2>1. Len(sent) = n /\ sent[n] = SuccessFrame(n)
    BY <1>2, SuccessesLength
  <2>2. SuccessFrame(n).type = SuccessTypes[n]
    BY DEF SuccessFrame
  <2>3. SuccessTypes[n] \notin {"FINAL", "ERROR"}
    BY <1>2 DEF SuccessTypes
  <2> QED
    BY <2>1, <2>2, <2>3
<1> QED
  BY <1>1, <1>2

\* Main goes on, or fails, with nothing but its place changed.
LEMMA GoOn ==
  ASSUME NativeIInv, NEW next \in WayPlaces \ {"populated", "procs", "judge"}, Goto(next),
         Way'
  PROVE  NativeIInv'
<1>1. World' /\ MaskIsTrue' /\ pc' = next
  BY SameWorld DEF Goto, NativeIInv
<1> QED
  BY <1>1, Onward

(***************************************************************************)
(* Startup.                                                                *)
(***************************************************************************)
LEMMA ValidateArgumentsStep == NativeIInv /\ ValidateArguments => NativeIInv'
<1> SUFFICES ASSUME NativeIInv, ValidateArguments PROVE NativeIInv'
  OBVIOUS
<1>0. World /\ MaskIsTrue /\ Way /\ MayLeave(0, {}) /\ pc = "startup" /\ usable = FALSE
  BY Leaving DEF NativeIInv, ValidateArguments, Way, Startup
<1>1. CASE Exited(EXIT_INTERNAL) /\ UNCHANGED frames
  <2>1. World' /\ MaskIsTrue'
    BY <1>0, <1>1, SameWorld DEF Exited
  <2>2. frames' = Successes(0) /\ achieved = {}
    BY <1>0, <1>1 DEF MayLeave, AfterSweep
  <2>3. ~Told'
    BY <2>2, NotTold, <1>1 DEF Told, Exited
  <2>4. NoChildLeftBehind'
    BY <1>0, <1>1, <2>2 DEF NoChildLeftBehind, Exited, World, Created, worldVars
  <2>5. Way' /\ Cleanup' /\ Ending' /\ Left'
    BY <1>1 DEF Exited, Way, OnTheWay, Startup, Cleanup, Failing, Sweeping, Ending, Left
  <2> QED
    BY <2>1, <2>3, <2>4, <2>5 DEF NativeIInv, TranscriptAccepted
<1>2. ASSUME NEW stage, NEW reason, NEW errnos, Fail(stage, reason, errnos) PROVE NativeIInv'
  <2>1. usable' = FALSE /\ pc' = "fail" /\ UNCHANGED <<achieved, frames, incomplete, worldVars>>
        /\ seen' = seen
    BY <1>0, <1>2 DEF Fail
  <2> QED
    BY <1>0, <2>1, Leave
<1>3. CASE Goto("control")
  <2>1. Way'
    BY <1>0, <1>3 DEF Goto, Way, OnTheWay, Startup
  <2> QED
    BY <1>3, <2>1, GoOn DEF WayPlaces, Startup
<1> QED
  BY <1>1, <1>2, <1>3 DEF ValidateArguments

\* bpe_validate_control_fd opens the channel or leaves without one.
LEMMA ControlFdStep == NativeIInv /\ bpe_validate_control_fd => NativeIInv'
<1> SUFFICES ASSUME NativeIInv, bpe_validate_control_fd PROVE NativeIInv'
  OBVIOUS
<1>0. World /\ MaskIsTrue /\ Way /\ MayLeave(0, {}) /\ pc = "control" /\ usable = FALSE
  BY Leaving DEF NativeIInv, bpe_validate_control_fd, Way, Startup
<1>1. CASE /\ pc' = "fail" /\ UNCHANGED <<achieved, usable, frames, incomplete, worldVars>>
           /\ seen' = seen
  <2>1. usable' = FALSE
    BY <1>0, <1>1
  <2> QED
    BY <1>0, <1>1, <2>1, Leave
<1>2. CASE /\ pc' = "cgroup" /\ UNCHANGED <<achieved, frames, incomplete, worldVars>>
           /\ seen' = seen
  <2>1. Way'
    BY <1>0, <1>2 DEF Way, OnTheWay, Startup
  <2>2. World' /\ MaskIsTrue'
    BY <1>0, <1>2, SameWorld
  <2> QED
    BY <1>2, <2>1, <2>2, Onward DEF WayPlaces, Startup
<1> QED
  BY <1>1, <1>2 DEF bpe_validate_control_fd, Fail

\* The checks up to the seccomp filter.
LEMMA ValidationSteps ==
  ASSUME NativeIInv,
         \/ bpe_validate_cgroup_fd \/ bpe_validate_no_extra_fds \/ bpe_open_cgroup_files
         \/ CheckLeafEmpty \/ bpe_install_seccomp
  PROVE  NativeIInv'
<1>0. World /\ MaskIsTrue /\ Way
  BY DEF NativeIInv
<1>1. MayLeave(0, {}) /\ pc \in {"cgroup", "layout", "files", "empty", "filter"}
  BY <1>0, Leaving DEF Startup, bpe_validate_cgroup_fd, bpe_validate_no_extra_fds,
     bpe_open_cgroup_files, CheckLeafEmpty, bpe_install_seccomp
<1>2. CASE \/ Fail("DESCRIPTOR_VALIDATION", "BAD_CGROUP_DESCRIPTOR", {0, EIO})
           \/ Fail("DESCRIPTOR_VALIDATION", "BAD_DESCRIPTOR_LAYOUT", {0, EIO})
           \/ Fail("CGROUP_VALIDATION", "BAD_CGROUP_DESCRIPTOR", {0, EIO})
           \/ Fail("CGROUP_VALIDATION", "CGROUP_NOT_EMPTY", {0})
           \/ Fail("STARTUP", "INTERNAL", {0, EIO})
  BY <1>0, <1>1, <1>2, StartupTaken, FailLeaves
<1>3. ASSUME NEW next \in {"files", "empty", "filter", "hello"}, Goto(next) PROVE NativeIInv'
  <2>1. Way'
    BY <1>0, <1>1, <1>3 DEF Goto, Way, OnTheWay, Startup
  <2> QED
    BY <1>3, <2>1, GoOn DEF WayPlaces, Startup
<1>4. CASE Note(seen \cup {"owned"}, "layout")
  <2>1. Way'
    BY <1>0, <1>1, <1>4 DEF Note, Way, OnTheWay, Startup
  <2>2. World' /\ MaskIsTrue' /\ pc' = "layout"
    BY <1>0, <1>4, SameWorld DEF Note
  <2> QED
    BY <2>1, <2>2, Onward DEF WayPlaces, Startup
<1> QED
  BY <1>2, <1>3, <1>4 DEF bpe_validate_cgroup_fd, bpe_validate_no_extra_fds,
     bpe_open_cgroup_files, CheckLeafEmpty, bpe_install_seccomp


(***************************************************************************)
(* The fixture.                                                            *)
(***************************************************************************)
LEMMA HelloStep == NativeIInv /\ (EmitHello \/ ArmDeadline) => NativeIInv'
<1> SUFFICES ASSUME NativeIInv, EmitHello \/ ArmDeadline PROVE NativeIInv'
  OBVIOUS
<1>0. World /\ MaskIsTrue /\ Way
  BY DEF NativeIInv
<1>1. CASE EmitHello
  <2>0. MayLeave(0, {}) /\ pc = "hello"
    BY <1>0, <1>1, Leaving DEF EmitHello, Startup
  <2>1. CASE Fail("PROTOCOL", "IO_FAILURE", {EIO})
    BY <1>0, <2>0, <2>1, StartupTaken, FailLeaves
  <2>2. CASE ~Fail("PROTOCOL", "IO_FAILURE", {EIO})
    <3>1. /\ bpe_emit_frame(Frame("HELLO", "OK", Failure("STARTUP", "NONE", 0), LauncherPid, 0))
          /\ pc' = "arm" /\ seen' = seen /\ UNCHANGED <<achieved, incomplete, worldVars>>
      BY <1>1, <2>2 DEF EmitHello, EmitOrFail
    <3>2. frames = Successes(0) /\ achieved = {} /\ incomplete = FALSE
      BY <2>0 DEF MayLeave, AfterSweep
    <3>3. frames' = Successes(1)
      BY <3>1, <3>2, SendNext DEF SuccessTypes, SuccessStages
    <3>4. Way'
      BY <3>1, <3>2, <3>3 DEF Way, OnTheWay, Startup
    <3>5. World' /\ MaskIsTrue'
      BY <1>0, <3>1, SameWorld
    <3> QED
      BY <3>1, <3>4, <3>5, Onward DEF WayPlaces
  <2> QED
    BY <2>1, <2>2
<1>2. CASE ArmDeadline
  <2>0. MayLeave(1, {}) /\ pc = "arm"
    BY <1>0, <1>2, Leaving DEF ArmDeadline
  <2>1. CASE Fail("FIXTURE_SETUP", "INTERNAL", {0, EIO})
    BY <1>0, <2>0, <2>1, SetupTaken, FailLeaves
  <2>2. CASE /\ pc' = "quietFixture" /\ seen' = seen
             /\ UNCHANGED <<achieved, frames, incomplete, worldVars>>
    <3>1. Way'
      BY <1>0, <2>0, <2>2 DEF Way, OnTheWay, Startup
    <3>2. World' /\ MaskIsTrue'
      BY <1>0, <2>2, SameWorld
    <3> QED
      BY <2>2, <3>1, <3>2, Onward DEF WayPlaces
  <2> QED
    BY <1>2, <2>1, <2>2 DEF ArmDeadline
<1> QED
  BY <1>1, <1>2

\* The quiet checks of the control channel between two legs.
LEMMA CheckpointStep == NativeIInv /\ Checkpoint => NativeIInv'
<1> SUFFICES ASSUME NativeIInv, Checkpoint PROVE NativeIInv'
  OBVIOUS
<1>0. World /\ MaskIsTrue /\ Way
  BY DEF NativeIInv
<1>1. ASSUME pc = "quietFixture", bpe_control_quiet("FIXTURE_SETUP", "clone") PROVE NativeIInv'
  <2>1. Goto("clone") \/ NativeIInv'
    BY <1>0, <1>1, Leaving, SetupTaken, QuietOrLeaves
  <2>2. Goto("clone") => Way'
    BY <1>0, <1>1 DEF Goto, Way, OnTheWay, Startup
  <2> QED
    BY <2>1, <2>2, GoOn DEF WayPlaces
<1>2. ASSUME pc = "quietReady", bpe_control_quiet("CHILD_READY", "emitReady") PROVE NativeIInv'
  <2>1. Goto("emitReady") \/ NativeIInv'
    BY <1>0, <1>2, Leaving, ReportReadyTaken, QuietOrLeaves
  <2>2. Goto("emitReady") => Way'
    BY <1>0, <1>2 DEF Goto, Way, OnTheWay, Startup
  <2> QED
    BY <2>1, <2>2, GoOn DEF WayPlaces
<1>3. ASSUME pc = "quietSignal", bpe_control_quiet("PIDFD_SIGNAL", "emitSignaled") PROVE NativeIInv'
  <2>0. Taken(2, Failure("PIDFD_SIGNAL", "IO_FAILURE", EIO), AfterSweep(WithStop))
    BY ReportStopTaken
  <2>1. Goto("emitSignaled") \/ NativeIInv'
    BY <1>0, <1>3, <2>0, Leaving, ReportStopTaken, QuietOrLeaves
  <2>2. Goto("emitSignaled") => Way'
    BY <1>0, <1>3 DEF Goto, Way, OnTheWay, Startup
  <2> QED
    BY <2>1, <2>2, GoOn DEF WayPlaces
<1>4. ASSUME pc = "quietKill", bpe_control_quiet("CGROUP_KILL", "kill") PROVE NativeIInv'
  <2>1. Goto("kill") \/ NativeIInv'
    BY <1>0, <1>4, Leaving, KillTaken, QuietOrLeaves
  <2>2. Goto("kill") => Way'
    BY <1>0, <1>4 DEF Goto, Way, OnTheWay, Startup
  <2> QED
    BY <2>1, <2>2, GoOn DEF WayPlaces
<1>5. ASSUME pc = "quietObserved", bpe_control_quiet("CHILD_OBSERVATION", "emitObserved")
      PROVE  NativeIInv'
  <2>1. Goto("emitObserved") \/ NativeIInv'
    BY <1>0, <1>5, Leaving, ReportExitTaken, QuietOrLeaves
  <2>2. Goto("emitObserved") => Way'
    BY <1>0, <1>5 DEF Goto, Way, OnTheWay, Startup
  <2> QED
    BY <2>1, <2>2, GoOn DEF WayPlaces
<1>6. ASSUME pc = "quietCleanup", bpe_control_quiet("CLEANUP", "close") PROVE NativeIInv'
  <2>1. Goto("close") \/ NativeIInv'
    BY <1>0, <1>6, Leaving, ReapTaken, QuietOrLeaves
  <2>2. Goto("close") => Way'
    BY <1>0, <1>6 DEF Goto, Way, OnTheWay, Startup
  <2> QED
    BY <2>1, <2>2, GoOn DEF WayPlaces
<1> QED
  BY <1>1, <1>2, <1>3, <1>4, <1>5, <1>6 DEF Checkpoint

\* A frame on the way: the three of EmitProgress.
LEMMA ProgressStep == NativeIInv /\ EmitProgress => NativeIInv'
<1> SUFFICES ASSUME NativeIInv, EmitProgress PROVE NativeIInv'
  OBVIOUS
<1>0. World /\ MaskIsTrue /\ Way
  BY DEF NativeIInv
<1>1. ASSUME NEW n \in 1..3, NEW bits, MayLeave(n, bits), pc \in WayPlaces,
             NEW type, NEW stage, NEW value0, NEW value1, NEW next,
             EmitOrFail(type, stage, value0, value1, next),
             type = SuccessTypes[n + 1], stage = SuccessStages[n + 1],
             value0 = <<LauncherPid, ChildPid, CLD_STOPPED, CLD_KILLED, ACHIEVED_RESULT_MASK>>[n + 1],
             value1 = <<0, REQUIRED_CLONE_FLAGS, SIGSTOP, SIGKILL, 1>>[n + 1],
             next \in WayPlaces \ {"populated", "procs", "judge"},
             Taken(n, Failure("PROTOCOL", "IO_FAILURE", EIO), AfterSweep(bits)),
             /\ pc' = next /\ achieved' = achieved /\ incomplete' = incomplete
             /\ frames' = Successes(n + 1)
             => Way'
      PROVE  NativeIInv'
  <2>1. CASE Fail("PROTOCOL", "IO_FAILURE", {EIO})
    BY <1>0, <1>1, <2>1, FailLeaves
  <2>2. CASE ~Fail("PROTOCOL", "IO_FAILURE", {EIO})
    <3>1. /\ bpe_emit_frame(Frame(type, "OK", Failure(stage, "NONE", 0), value0, value1))
          /\ pc' = next /\ seen' = seen /\ UNCHANGED <<achieved, incomplete, worldVars>>
      BY <1>1, <2>2 DEF EmitOrFail
    <3>2. frames' = Successes(n + 1)
      BY <1>1, <3>1, SendNext DEF MayLeave
    <3>3. World' /\ MaskIsTrue'
      BY <1>0, <1>1, <3>1, SameWorld
    <3> QED
      BY <1>1, <3>1, <3>2, <3>3, Onward
  <2> QED
    BY <2>1, <2>2
<1>2. ASSUME pc = "emitReady",
             EmitOrFail("CHILD_READY", "CHILD_READY", ChildPid, REQUIRED_CLONE_FLAGS, "stop")
      PROVE  NativeIInv'
  <2>1. MayLeave(1, WithReady)
    BY <1>0, <1>2, Leaving
  <2>2. /\ pc' = "stop" /\ achieved' = achieved /\ incomplete' = incomplete
        /\ frames' = Successes(1 + 1)
        => Way'
    BY <1>0, <1>2 DEF Way, OnTheWay, Startup
  <2> QED
    BY SMTT(30), <1>1, <1>2, <2>1, <2>2, ReportReadyTaken DEF SuccessTypes, SuccessStages, WayPlaces
<1>3. ASSUME pc = "emitSignaled",
             EmitOrFail("CHILD_SIGNALED", "PIDFD_SIGNAL", CLD_STOPPED, SIGSTOP, "quietKill")
      PROVE  NativeIInv'
  <2>1. MayLeave(2, WithStop)
    BY <1>0, <1>3, Leaving
  <2>2. /\ pc' = "quietKill" /\ achieved' = achieved /\ incomplete' = incomplete
        /\ frames' = Successes(2 + 1)
        => Way'
    BY SMTT(30), <1>0, <1>3 DEF Way, OnTheWay, Startup
  <2> QED
    BY SMTT(30), <1>1, <1>3, <2>1, <2>2, ReportStopTaken DEF SuccessTypes, SuccessStages, WayPlaces
<1>4. ASSUME pc = "emitObserved",
             EmitOrFail("CHILD_OBSERVED", "CHILD_OBSERVATION", CLD_KILLED, SIGKILL, "reap")
      PROVE  NativeIInv'
  <2>1. MayLeave(3, WithExit)
    BY <1>0, <1>4, Leaving
  <2>2. /\ pc' = "reap" /\ achieved' = achieved /\ incomplete' = incomplete
        /\ frames' = Successes(3 + 1)
        => Way'
    BY <1>0, <1>4 DEF Way, OnTheWay, Startup
  <2> QED
    BY SMTT(30), <1>1, <1>4, <2>1, <2>2, ReportExitTaken DEF SuccessTypes, SuccessStages, WayPlaces
<1> QED
  BY <1>2, <1>3, <1>4 DEF EmitProgress


\* clone3 succeeded, with a pidfd or without.
LEMMA CloneStep == NativeIInv /\ bpe_clone_fixture => NativeIInv'
<1> SUFFICES ASSUME NativeIInv, bpe_clone_fixture PROVE NativeIInv'
  OBVIOUS
<1>0. World /\ MaskIsTrue /\ Way /\ MayLeave(1, {}) /\ pc = "clone"
  BY Leaving DEF NativeIInv, bpe_clone_fixture
<1>1. achieved = {} /\ incomplete = FALSE /\ frames = Successes(1) /\ child = "none"
  BY <1>0 DEF MayLeave, AfterSweep, World, Created
<1>2. CASE CloneFailed
  BY <1>0, <1>2, SetupTaken, FailLeaves DEF CloneFailed
<1>3. ASSUME NEW bits \in {WithChild, WithPidfd}, NEW outcome, NEW next, Cloned(bits, outcome, next),
             next \notin {"populated", "procs", "judge"}
      PROVE  World' /\ MaskIsTrue' /\ achieved' = bits
  <2>1. achieved' = bits
    BY <1>1, <1>3 DEF Cloned
  <2>2. /\ CLONE3_INTO_CGROUP \in bits /\ CHILD_REAPED \notin bits /\ PIDFD_STOP_OBSERVED \notin bits
        /\ PIDFD_EXIT_OBSERVED \notin bits /\ CGROUP_EMPTY \notin bits /\ BUILTIN_NOEXEC \notin bits
    BY Flags DEF WithChild, WithPidfd
  <2>3. World'
    BY <1>0, <1>1, <1>3, <2>1, <2>2 DEF Cloned, World, Created, Reaped, Alive, Dead
  <2>4. MaskIsTrue'
    BY <2>1, <2>2 DEF MaskIsTrue
  <2> QED
    BY <2>1, <2>3, <2>4
<1>4. ASSUME NEW bits \in {WithChild, WithPidfd}, NEW outcome, Cloned(bits, outcome, "fail"),
             Taken(1, outcome, AfterSweep(bits))
      PROVE  NativeIInv'
  <2>1. World' /\ MaskIsTrue' /\ achieved' = bits
    BY <1>3, <1>4
  <2>2. /\ pc' = "fail" /\ frames' = Successes(1) /\ incomplete' = FALSE /\ failure' = outcome
    BY <1>1, <1>4 DEF Cloned
  <2>3. LeftAt(1, bits)'
    BY <1>4, <2>1, <2>2 DEF LeftAt, AfterSweep
  <2>4. \E leg \in Exits : LeftAt(leg[1], leg[2])'
    <3>1. <<1, bits>> \in Exits /\ <<1, bits>>[1] = 1 /\ <<1, bits>>[2] = bits
      BY DEF Exits
    <3> QED
      BY <2>3, <3>1
  <2>5. ~Reaped' /\ CGROUP_EMPTY \notin achieved'
    BY <2>1, Flags DEF Reaped, WithChild, WithPidfd
  <2>6. Cleanup'
    BY <2>2, <2>4, <2>5 DEF Cleanup, Failing, Sweeping
  <2>7. Way' /\ Ending' /\ Left' /\ NoChildLeftBehind' /\ TranscriptAccepted'
    BY <2>2 DEF Way, OnTheWay, Startup, Ending, Left, NoChildLeftBehind, TranscriptAccepted, Told
  <2> QED
    BY <2>1, <2>6, <2>7 DEF NativeIInv
<1>5. CASE Cloned(WithPidfd, failure, "ready")
  <2>1. World' /\ MaskIsTrue' /\ achieved' = WithPidfd
    BY <1>3, <1>5
  <2>2. pc' = "ready" /\ frames' = Successes(1) /\ incomplete' = FALSE
    BY <1>1, <1>5 DEF Cloned
  <2>3. Way'
    BY <2>1, <2>2 DEF Way, OnTheWay, Startup
  <2> QED
    BY <2>1, <2>2, <2>3, Onward DEF WayPlaces
<1>6. {CLONE3_INTO_CGROUP} = WithChild /\ {CLONE3_INTO_CGROUP, PIDFD_CREATED} = WithPidfd
  BY DEF WithChild, WithPidfd
<1>7. ASSUME NEW errno \in {0, EIO},
             Cloned(WithChild, Failure("CLONE3", "PIDFD_UNAVAILABLE", errno), "fail")
      PROVE  NativeIInv'
  BY <1>4, <1>7, ChildTaken
<1>8. CASE Cloned(WithPidfd, Failure("FIXTURE_SETUP", "IO_FAILURE", EIO), "fail")
  BY <1>4, <1>8, ReadyTaken
<1> QED
  BY <1>2, <1>5, <1>6, <1>7, <1>8 DEF bpe_clone_fixture

\* Waiting for the child's record, for its membership, and the look at it.
LEMMA ReadySteps ==
  ASSUME NativeIInv, NEW fault \in BOOLEAN,
         bpe_wait_child_ready(fault) \/ bpe_wait_populated_one(fault)
  PROVE  NativeIInv'
<1>0. World /\ MaskIsTrue /\ Way /\ MayLeave(1, WithPidfd) /\ pc \in {"ready", "populated"}
  BY Leaving DEF NativeIInv, bpe_wait_child_ready, bpe_wait_populated_one
<1>1. /\ Taken(1, Failure("PROTOCOL", "PROTOCOL_INPUT", 0), AfterSweep(WithPidfd))
      /\ Taken(1, Failure("CHILD_READY", "TIMEOUT", 0), AfterSweep(WithPidfd))
      /\ Taken(1, Failure("CHILD_READY", "IO_FAILURE", 0), AfterSweep(WithPidfd))
      /\ Taken(1, Failure("CHILD_READY", "IO_FAILURE", EIO), AfterSweep(WithPidfd))
      /\ Taken(1, Failure("CHILD_READY", "CHILD_SETUP_FAILED", 0), AfterSweep(WithPidfd))
      /\ Taken(1, Failure("CHILD_READY", "CHILD_SETUP_FAILED", EIO), AfterSweep(WithPidfd))
  BY ReadyTaken
<1>2. CASE bpe_poll_until("CHILD_READY", fault)
  BY <1>0, <1>1, <1>2, PollLeaves
<1>3. ASSUME NEW reason \in {"CHILD_SETUP_FAILED", "IO_FAILURE"},
             NEW errnos \in SUBSET {0, EIO}, Fail("CHILD_READY", reason, errnos)
      PROVE  NativeIInv'
  <2>1. \A errno \in errnos :
          Taken(1, Failure("CHILD_READY", reason, errno), AfterSweep(WithPidfd))
    BY <1>1, <1>3
  <2> QED
    BY <1>0, <1>3, <2>1, FailLeaves
<1>4. ASSUME pc = "ready", pipe = "ready", Note(seen \cup {"record"}, "ready") PROVE NativeIInv'
  <2>1. Way' /\ pc' = "ready"
    BY <1>0, <1>4 DEF Note, Way, OnTheWay, Startup
  <2>2. World' /\ MaskIsTrue'
    BY <1>0, <1>4 DEF Note, World, MaskIsTrue, worldVars, Created, Reaped, Alive, Dead
  <2> QED
    BY <2>1, <2>2, Onward DEF WayPlaces
<1>5. ASSUME pc = "ready", "record" \in seen, Goto("populated") PROVE NativeIInv'
  <2>1. Way' /\ pc' = "populated"
    BY <1>0, <1>5 DEF Goto, Way, OnTheWay, Startup
  <2>2. World' /\ MaskIsTrue'
    BY <1>0, <1>5, SameWorld DEF Goto, World
  <2> QED
    BY <2>1, <2>2, Onward DEF WayPlaces
<1>6. ASSUME pc = "populated", Goto("procs") PROVE NativeIInv'
  <2>1. Way' /\ pc' = "procs"
    BY <1>0, <1>6 DEF Goto, Way, OnTheWay, Startup
  <2>2. World' /\ MaskIsTrue'
    BY <1>0, <1>6, SameWorld DEF Goto, World
  <2> QED
    BY <2>1, <2>2, Onward DEF WayPlaces
<1>7. CASE bpe_wait_child_ready(fault)
  BY <1>2, <1>3, <1>4, <1>5, <1>7 DEF bpe_wait_child_ready
<1>8. CASE bpe_wait_populated_one(fault)
  BY <1>2, <1>3, <1>6, <1>8 DEF bpe_wait_populated_one
<1> QED
  BY <1>7, <1>8

\* The comparison of cgroup.procs with the pid of the child.
LEMMA ProcsStep == NativeIInv /\ CheckProcs => NativeIInv'
<1> SUFFICES ASSUME NativeIInv, CheckProcs PROVE NativeIInv'
  OBVIOUS
<1>0. World /\ MaskIsTrue /\ Way /\ MayLeave(1, WithPidfd) /\ pc = "procs"
  BY Leaving DEF NativeIInv, CheckProcs
<1>1. CASE \/ Fail("CHILD_READY", "IO_FAILURE", {EIO})
           \/ Fail("CHILD_READY", "CHILD_OBSERVATION_FAILED", {0})
  BY SMTT(30), <1>0, <1>1, ReadyTaken, FailLeaves
<1>2. CASE Achieve({BUILTIN_NOEXEC}, "quietReady") /\ UNCHANGED worldVars
  <2>1. achieved' = WithReady /\ pc' = "quietReady" /\ pipe = "ready"
    BY <1>0, <1>2 DEF Achieve, Way, OnTheWay, WithReady, World
  <2>2. Way'
    BY <1>0, <1>2, <2>1 DEF Achieve, Way, OnTheWay, Startup
  <2>3. World' /\ MaskIsTrue'
    BY SMTT(30), <1>0, <1>2, <2>1, Flags
    DEF Achieve, World, MaskIsTrue, worldVars, Created, Reaped, Alive, Dead
  <2> QED
    BY <2>1, <2>2, <2>3, Onward DEF WayPlaces
<1> QED
  BY <1>1, <1>2 DEF CheckProcs

\* SIGSTOP is sent, and the stop is observed.
LEMMA StopSteps ==
  ASSUME NativeIInv, NEW fault \in BOOLEAN, SendStop \/ ObserveStop(fault) \/ RecheckMembership
  PROVE  NativeIInv'
<1>0. World /\ MaskIsTrue /\ Way
  BY DEF NativeIInv
<1>1. CASE SendStop
  <2>0. MayLeave(2, WithReady) /\ pc = "stop"
    BY <1>0, <1>1, Leaving DEF SendStop
  <2>1. CASE Fail("PIDFD_SIGNAL", "PIDFD_SIGNAL_FAILED", {EIO})
    BY <1>0, <2>0, <2>1, StopTaken, FailLeaves
  <2>2. CASE /\ Achieve({PIDFD_STOP_SENT}, "watch")
             /\ UNCHANGED <<peer, child, how, pipe, populated, stopped>>
    <3>1. achieved' = WithStopSent /\ pc' = "watch"
      BY <1>0, <2>0, <2>2 DEF Achieve, Way, OnTheWay, WithStopSent
    <3>2. Way'
      BY <1>0, <2>0, <2>2, <3>1 DEF Achieve, Way, OnTheWay, Startup
    <3>3. World' /\ MaskIsTrue'
      BY SMTT(30), <1>0, <2>2, <3>1, Flags
      DEF Achieve, World, MaskIsTrue, Created, Reaped, Alive, Dead
    <3> QED
      BY <3>1, <3>2, <3>3, Onward DEF WayPlaces
  <2> QED
    BY <1>1, <2>1, <2>2 DEF SendStop
<1>2. CASE ObserveStop(fault)
  <2>0. MayLeave(2, WithStopSent) /\ pc = "watch"
    BY <1>0, <1>2, Leaving DEF ObserveStop
  <2>1. CASE bpe_poll_until("PIDFD_SIGNAL", fault)
    BY <1>0, <2>0, <2>1, WatchTaken, PollLeaves
  <2>2. CASE \/ Fail("PIDFD_SIGNAL", "CHILD_OBSERVATION_FAILED", {EIO})
             \/ Fail("PIDFD_SIGNAL", "CHILD_OBSERVATION_FAILED", {0, EIO})
    BY <1>0, <2>0, <2>2, WatchTaken, FailLeaves
  <2>3. CASE child = "stopped" /\ Achieve({PIDFD_STOP_OBSERVED}, "recheck") /\ UNCHANGED worldVars
    <3>1. achieved' = WithStop /\ pc' = "recheck"
      BY <1>0, <2>0, <2>3 DEF Achieve, Way, OnTheWay, WithStop
    <3>2. Way'
      BY <1>0, <2>0, <2>3, <3>1 DEF Achieve, Way, OnTheWay, Startup
    <3>3. World' /\ MaskIsTrue'
      BY <1>0, <2>3, <3>1, Flags
      DEF Achieve, World, MaskIsTrue, worldVars, Created, Reaped, Alive, Dead
    <3> QED
      BY <3>1, <3>2, <3>3, Onward DEF WayPlaces
  <2> QED
    BY <1>2, <2>1, <2>2, <2>3 DEF ObserveStop
<1>3. CASE RecheckMembership
  <2>0. MayLeave(2, WithStop) /\ pc = "recheck"
    BY <1>0, <1>3, Leaving DEF RecheckMembership
  <2>1. CASE \/ Fail("PIDFD_SIGNAL", "IO_FAILURE", {0, EIO})
             \/ Fail("PIDFD_SIGNAL", "CHILD_OBSERVATION_FAILED", {0})
    BY <1>0, <2>0, <2>1, ReportStopTaken, FailLeaves
  <2>2. CASE Goto("quietSignal")
    <3>1. Way'
      BY <1>0, <2>0, <2>2 DEF Goto, Way, OnTheWay, Startup
    <3> QED
      BY <2>2, <3>1, GoOn DEF WayPlaces
  <2> QED
    BY <1>3, <2>1, <2>2 DEF RecheckMembership
<1> QED
  BY <1>1, <1>2, <1>3


\* cgroup.kill is written, and exit and emptiness are observed.
LEMMA KillSteps ==
  ASSUME NativeIInv, NEW fault \in BOOLEAN,
         KillCgroup \/ ObserveEvents \/ ObserveExit(fault) \/ JudgeExit
  PROVE  NativeIInv'
<1>0. World /\ MaskIsTrue /\ Way
  BY DEF NativeIInv
<1>1. CASE KillCgroup
  <2>0. MayLeave(3, WithStop) /\ pc = "kill"
    BY <1>0, <1>1, Leaving DEF KillCgroup
  <2>1. CASE Fail("CGROUP_KILL", "CGROUP_KILL_FAILED", {EIO})
    BY <1>0, <2>0, <2>1, KillTaken, FailLeaves
  <2>2. CASE /\ Achieve({LIVE_CGROUP_KILL}, "observeEvents")
             /\ UNCHANGED <<peer, child, how, pipe, populated, stopped>>
    <3>1. achieved' = WithKill /\ pc' = "observeEvents"
      BY <1>0, <2>0, <2>2 DEF Achieve, Way, OnTheWay, WithKill
    <3>2. Way'
      BY <1>0, <2>0, <2>2, <3>1 DEF Achieve, Way, OnTheWay, Startup
    <3>3. World' /\ MaskIsTrue'
      BY <1>0, <2>2, <3>1, Flags
      DEF Achieve, World, MaskIsTrue, Created, Reaped, Alive, Dead
    <3> QED
      BY <3>1, <3>2, <3>3, Onward DEF WayPlaces
  <2> QED
    BY <1>1, <2>1, <2>2 DEF KillCgroup
<1>2. CASE ObserveEvents \/ ObserveExit(fault) \/ JudgeExit
  <2>0. /\ MayLeave(3, WithKill) /\ pc \in {"observeEvents", "observeExit", "judge"}
        /\ achieved = WithKill
    BY <1>0, <1>2, Leaving DEF ObserveEvents, ObserveExit, JudgeExit, Way, OnTheWay
  <2>1. Created
    BY <2>0 DEF Created, WithKill, WithStop, WithStopSent, WithReady, WithPidfd, WithChild
  <2>2. CASE bpe_poll_until("CHILD_OBSERVATION", fault)
    BY <1>0, <2>0, <2>2, ObserveTaken, PollLeaves
  <2>3. CASE \/ Fail("CHILD_OBSERVATION", "IO_FAILURE", {0, EIO})
             \/ Fail("CHILD_OBSERVATION", "CHILD_OBSERVATION_FAILED", {EIO})
             \/ Fail("CHILD_OBSERVATION", "CHILD_OBSERVATION_FAILED", {0})
    BY <1>0, <2>0, <2>3, ObserveTaken, FailLeaves
  <2>4. ASSUME /\ seen' = IF populated THEN seen ELSE seen \cup {"empty"}
               /\ pc' = "observeExit"
               /\ UNCHANGED <<achieved, frames, incomplete, worldVars>>
        PROVE  NativeIInv'
    <3>1. Way'
      BY <1>0, <2>0, <2>4 DEF Way, OnTheWay, Startup
    <3>2. World' /\ MaskIsTrue'
      BY <1>0, <2>1, <2>4 DEF World, MaskIsTrue, worldVars, Created, Reaped, Alive, Dead
    <3> QED
      BY <2>4, <3>1, <3>2, Onward DEF WayPlaces
  <2>5. ASSUME NEW next \in {"observeEvents", "judge"}, Note(SeenNow, next),
               next = "judge" => {"exit", "empty"} \subseteq SeenNow
        PROVE  NativeIInv'
    <3>1. Way' /\ pc' = next
      BY <1>0, <2>0, <2>5 DEF Note, Way, OnTheWay, Startup
    <3>2. World' /\ MaskIsTrue'
      BY <1>0, <2>5 DEF Note, SeenNow, World, MaskIsTrue, worldVars, Created, Reaped, Alive, Dead
    <3> QED
      BY <3>1, <3>2, Onward DEF WayPlaces
  <2>6. ASSUME pc = "judge", how = "killed",
               Achieve({PIDFD_EXIT_OBSERVED, CGROUP_EMPTY}, "quietObserved"), UNCHANGED worldVars
        PROVE  NativeIInv'
    <3>1. achieved' = WithExit /\ pc' = "quietObserved"
      BY <2>0, <2>6 DEF Achieve, WithExit
    <3>2. Way'
      BY <1>0, <2>0, <2>6, <3>1 DEF Achieve, Way, OnTheWay, Startup
    <3>3. child \in {"zombie", "reaped"} /\ ~populated
      BY <1>0, <2>6 DEF World
    <3>4. World' /\ MaskIsTrue'
      BY <1>0, <2>6, <3>1, <3>3, Flags
      DEF Achieve, World, MaskIsTrue, worldVars, Created, Reaped, Alive, Dead
    <3> QED
      BY <3>1, <3>2, <3>4, Onward DEF WayPlaces
  <2>7. CASE ObserveEvents
    BY <2>3, <2>4, <2>7 DEF ObserveEvents, LookAtEvents
  <2>8. CASE ObserveExit(fault)
    BY <2>2, <2>3, <2>5, <2>8 DEF ObserveExit
  <2>9. CASE JudgeExit
    BY <2>3, <2>6, <2>9 DEF JudgeExit
  <2> QED
    BY <1>2, <2>7, <2>8, <2>9
<1> QED
  BY <1>1, <1>2

\* The child is reaped, and the descriptors are closed.
LEMMA ReapSteps ==
  ASSUME NativeIInv, bpe_reap_child \/ CheckAchieved \/ bpe_close_owned
  PROVE  NativeIInv'
<1>0. World /\ MaskIsTrue /\ Way /\ MayLeave(4, WithExit) /\ pc \in {"reap", "finish", "close"}
  BY Leaving DEF NativeIInv, bpe_reap_child, CheckAchieved, bpe_close_owned
<1>1. CASE bpe_reap_child
  <2>1. CASE Fail("CHILD_REAP", "CHILD_REAP_FAILED", {0, EIO})
    BY <1>0, <2>1, ReapTaken, FailLeaves
  <2>2. CASE pc = "reap" /\ child = "zombie" /\ Reap("finish")
    <3>1. achieved' = WithReap /\ pc' = "finish"
      BY <1>0, <2>2 DEF Reap, Achieve, Way, OnTheWay, WithReap
    <3>2. Way'
      BY <1>0, <2>2, <3>1 DEF Reap, Achieve, Way, OnTheWay, Startup
    <3>3. World' /\ MaskIsTrue'
      BY <1>0, <2>2, <3>1, Flags
      DEF Reap, Achieve, World, MaskIsTrue, Created, Reaped, Alive, Dead
    <3> QED
      BY <3>1, <3>2, <3>3, Onward DEF WayPlaces
  <2> QED
    BY <1>1, <2>1, <2>2 DEF bpe_reap_child
<1>2. CASE CheckAchieved
  <2>1. CASE Fail("CLEANUP", "INTERNAL", {0})
    BY <1>0, <2>1, ReapTaken, FailLeaves
  <2>2. CASE pc = "finish" /\ Goto("quietCleanup")
    <3>1. Way'
      BY <1>0, <2>2 DEF Goto, Way, OnTheWay, Startup
    <3> QED
      BY <2>2, <3>1, GoOn DEF WayPlaces
  <2> QED
    BY <1>2, <2>1, <2>2 DEF CheckAchieved
<1>3. CASE bpe_close_owned
  <2>1. /\ pc = "close" /\ seen' = seen \ {"owned"}
        /\ UNCHANGED <<achieved, frames, incomplete, worldVars>>
    BY <1>3 DEF bpe_close_owned
  <2>2. CASE failure' = Failure("CLEANUP", "CLEANUP_INCOMPLETE", EIO) /\ pc' = "fail"
    BY <1>0, <2>1, <2>2, ReapTaken, Leave
  <2>3. CASE pc' = "final"
    <3>1. Way'
      BY <1>0, <2>1, <2>3 DEF Way, OnTheWay, Startup
    <3>2. World' /\ MaskIsTrue'
      BY <1>0, <2>1, <2>3, SameWorld
    <3> QED
      BY <2>3, <3>1, <3>2, Onward DEF WayPlaces
  <2> QED
    BY <1>3, <2>2, <2>3 DEF bpe_close_owned
<1> QED
  BY <1>1, <1>2, <1>3

\* The frames of a success are what _validate_success_frame asks for.
LEMMA SuccessFramesValid ==
  ASSUME NEW i \in 1..5
  PROVE  /\ decode_record(SuccessFrame(i), i)
         /\ validate_success_frame(SuccessFrame(i), i, LauncherPid)
<1> DEFINE f == SuccessFrame(i)
           values0 == <<LauncherPid, ChildPid, CLD_STOPPED, CLD_KILLED, ACHIEVED_RESULT_MASK>>
           values1 == <<0, REQUIRED_CLONE_FLAGS, SIGSTOP, SIGKILL, 1>>
<1>1. /\ f.type = SuccessTypes[i] /\ f.sequence = i - 1 /\ f.status = "OK"
      /\ f.stage = SuccessStages[i] /\ f.reason = "NONE" /\ f.errno = 0
      /\ f.value0 = values0[i] /\ f.value1 = values1[i]
  BY Zenon DEF SuccessFrame
<1> HIDE DEF f
<1>2. SuccessStages[i] \in Stages
  BY DEF SuccessStages, Stages
<1>3. "NONE" \in DOMAIN Reason
  BY DEF Reason
<1>4. decode_record(f, i)
  BY <1>1, <1>2, <1>3 DEF decode_record, MaxErrno
<1>5. SuccessValues(f, i, LauncherPid)
  <2>1. CASE i = 1
    <3>1. values0[1] = LauncherPid /\ values1[1] = 0 /\ i # 2 /\ i # 3 /\ i # 4 /\ i # 5
      BY <2>1
    <3> QED
      BY <1>1, <2>1, <3>1, Zenon DEF SuccessValues
  <2>2. CASE i = 2
    <3>1. /\ values0[2] = ChildPid /\ values1[2] = REQUIRED_CLONE_FLAGS
          /\ i # 1 /\ i # 3 /\ i # 4 /\ i # 5
      BY <2>2
    <3>2. ChildPid \in 1..LINUX_MAX_PID /\ ChildPid # LauncherPid
      BY PidsAssumption
    <3> QED
      BY <1>1, <2>2, <3>1, <3>2, Zenon DEF SuccessValues
  <2>3. CASE i = 3
    <3>1. values0[3] = CLD_STOPPED /\ values1[3] = SIGSTOP /\ i # 1 /\ i # 2 /\ i # 4 /\ i # 5
      BY <2>3
    <3> QED
      BY <1>1, <2>3, <3>1, Zenon DEF SuccessValues
  <2>4. CASE i = 4
    <3>1. values0[4] = CLD_KILLED /\ values1[4] = SIGKILL /\ i # 1 /\ i # 2 /\ i # 3 /\ i # 5
      BY <2>4
    <3> QED
      BY <1>1, <2>4, <3>1, Zenon DEF SuccessValues
  <2>5. CASE i = 5
    <3>1. /\ values0[5] = ACHIEVED_RESULT_MASK /\ values1[5] = 1 /\ 1 # 0
          /\ i # 1 /\ i # 2 /\ i # 3 /\ i # 4
      BY <2>5
    <3>2. f.value0 = ACHIEVED_RESULT_MASK /\ f.value1 # 0
      BY <1>1, <2>5, <3>1
    <3> QED
      BY <2>5, <3>1, <3>2, Zenon DEF SuccessValues
  <2> QED
    BY <2>1, <2>2, <2>3, <2>4, <2>5
<1> QED
  BY <1>1, <1>4, <1>5 DEF validate_success_frame, f


(***************************************************************************)
(* The end of a run.                                                       *)
(***************************************************************************)
\* What the parser says, by the number of success frames and whether an error
\* frame ends them.
Unacceptable(s, code, pid, prefix, failed) ==
  \/ prefix > Len(SuccessTypes) \/ (failed /\ prefix = Len(SuccessTypes))
  \/ \E i \in 1..Len(s) : ~decode_record(s[i], i)
  \/ \E i \in 1..prefix : ~validate_success_frame(s[i], i, pid)
  \/ failed /\ ~validate_error_frame(s[Len(s)], prefix, code)
  \/ ~failed /\ (prefix # Len(SuccessTypes) \/ code # EXIT_OK)

LEMMA ParsedAs ==
  ASSUME NEW s, NEW code, NEW eof, eof, NEW pid, NEW prefix, NEW failed \in BOOLEAN,
         ~(Len(s) = 0), failed <=> Len(s) > 0 /\ s[Len(s)].type = "ERROR",
         prefix = IF failed THEN Len(s) - 1 ELSE Len(s),
         ~Unacceptable(s, code, pid, prefix, failed)
  PROVE  parse_inert_native_transcript(s, code, eof, pid) # "rejected"
<1> DEFINE ended == Len(s) > 0 /\ s[Len(s)].type = "ERROR"
           sent == IF ended THEN Len(s) - 1 ELSE Len(s)
           bad == \/ ~eof \/ Len(s) = 0 \/ sent > Len(SuccessTypes)
                     \/ (ended /\ sent = Len(SuccessTypes))
                  \/ \E i \in 1..Len(s) : ~decode_record(s[i], i)
                  \/ \E i \in 1..sent : ~validate_success_frame(s[i], i, pid)
                  \/ ended /\ ~validate_error_frame(s[Len(s)], sent, code)
                  \/ ~ended /\ (sent # Len(SuccessTypes) \/ code # EXIT_OK)
<1>1. parse_inert_native_transcript(s, code, eof, pid) =
        IF bad THEN "rejected" ELSE IF ended THEN "failed" ELSE "succeeded"
  BY DEF parse_inert_native_transcript
<1>2. (ended <=> failed) /\ sent = prefix
  OBVIOUS
<1> HIDE DEF ended, sent
<1>3. ~bad
  BY <1>2 DEF Unacceptable
<1> HIDE DEF bad
<1>4. CASE ended
  BY <1>1, <1>3, <1>4
<1>5. CASE ~ended
  BY <1>1, <1>3, <1>5
<1> QED
  BY <1>4, <1>5

\* The parser takes the frames of a success.
LEMMA SuccessAccepted ==
  ASSUME NEW eof, eof
  PROVE  parse_inert_native_transcript(Successes(5), EXIT_OK, eof, LauncherPid) # "rejected"
<1> DEFINE s == Successes(5)
<1>1. Len(s) = 5 /\ \A i \in 1..5 : s[i] = SuccessFrame(i)
  BY SuccessesLength
<1>2. s[5].type = "FINAL"
  <2>1. SuccessFrame(5).type = SuccessTypes[5]
    BY DEF SuccessFrame
  <2> QED
    BY <1>1, <2>1 DEF SuccessTypes
<1>3. Len(SuccessTypes) = 5
  BY DEF SuccessTypes
<1>4. \A i \in 1..5 : decode_record(s[i], i) /\ validate_success_frame(s[i], i, LauncherPid)
  BY <1>1, SuccessFramesValid
<1> HIDE DEF s
<1>5. ~Unacceptable(s, EXIT_OK, LauncherPid, 5, FALSE)
  BY <1>1, <1>3, <1>4 DEF Unacceptable
<1>6. ~(Len(s) = 0) /\ ~(s[Len(s)].type = "ERROR") /\ Len(s) = 5
  BY <1>1, <1>2
<1>7. parse_inert_native_transcript(s, EXIT_OK, eof, LauncherPid) # "rejected"
  BY <1>5, <1>6, ParsedAs
<1> QED
  BY <1>7 DEF s

\* The parser takes a failure of its table after frames of a success.
LEMMA ErrorAccepted ==
  ASSUME NEW n \in 0..4, NEW f, NEW bits, Taken(n, f, bits), NEW eof, eof
  PROVE  parse_inert_native_transcript(Append(Successes(n), ErrorFrame(n, f, bits)),
           bpe_exit_for_reason(f.reason), eof, LauncherPid) # "rejected"
<1> DEFINE e == ErrorFrame(n, f, bits)
           code == bpe_exit_for_reason(f.reason)
           s == Append(Successes(n), e)
<1>1. e.type = "ERROR" /\ decode_record(e, n + 1) /\ validate_error_frame(e, n, code)
  BY DEF Taken, ErrorFrame
<1> HIDE DEF e, code
<1>2. Len(s) = n + 1 /\ s[n + 1] = e /\ \A i \in 1..n : s[i] = SuccessFrame(i)
  <2> DEFINE F(i) == SuccessFrame(i)
  <2> HIDE DEF F
  <2>1. /\ Len(Append([i \in 1..n |-> F(i)], e)) = n + 1
        /\ Append([i \in 1..n |-> F(i)], e)[n + 1] = e
        /\ \A i \in 1..n : Append([j \in 1..n |-> F(j)], e)[i] = F(i)
    OBVIOUS
  <2> QED
    BY <2>1 DEF F, Successes
<1> HIDE DEF s
<1>3. Len(SuccessTypes) = 5
  BY DEF SuccessTypes
<1>4. \A i \in 1..n : decode_record(s[i], i) /\ validate_success_frame(s[i], i, LauncherPid)
  BY <1>2, SuccessFramesValid
<1>5. \A i \in 1..(n + 1) : decode_record(s[i], i)
  <2> SUFFICES ASSUME NEW i \in 1..(n + 1) PROVE decode_record(s[i], i)
    OBVIOUS
  <2>1. i \in 1..n \/ i = n + 1
    OBVIOUS
  <2> QED
    BY <1>1, <1>2, <1>4, <2>1
<1>6. s[Len(s)].type = "ERROR" /\ Len(s) > 0 /\ Len(s) - 1 = n /\ s[Len(s)] = e
  BY <1>1, <1>2
<1>7. ~Unacceptable(s, code, LauncherPid, n, TRUE)
  BY <1>1, <1>2, <1>3, <1>4, <1>5, <1>6 DEF Unacceptable
<1>8. ~(Len(s) = 0) /\ Len(s) > 0
  BY <1>6
<1>9. parse_inert_native_transcript(s, code, eof, LauncherPid) # "rejected"
  BY <1>6, <1>7, <1>8, ParsedAs
<1> QED
  BY <1>9 DEF s, e, code

\* Once main has ended, only these facts matter.
LEMMA AfterExit ==
  ASSUME pc' = "exited", World', MaskIsTrue', NoChildLeftBehind', TranscriptAccepted'
  PROVE  NativeIInv'
<1>1. Way' /\ Cleanup' /\ Ending' /\ Left'
  BY DEF Way, OnTheWay, Startup, Cleanup, Failing, Sweeping, Ending, Left
<1> QED
  BY <1>1 DEF NativeIInv

\* The last success frame: nothing is left to clean up.
LEMMA FinalStep == NativeIInv /\ EmitFinal => NativeIInv'
<1> SUFFICES ASSUME NativeIInv, EmitFinal PROVE NativeIInv'
  OBVIOUS
<1>0. /\ World /\ MaskIsTrue /\ pc = "final" /\ achieved = WithReap /\ frames = Successes(4)
  BY DEF NativeIInv, EmitFinal, Way, OnTheWay
<1>1. pc' = "exited" /\ UNCHANGED <<achieved, worldVars>> /\ seen' = seen
  BY DEF EmitFinal, Exited
<1>2. World' /\ MaskIsTrue'
  BY <1>0, <1>1, SameWorld
<1>3. NoChildLeftBehind'
  <2>1. child = "reaped" /\ ~populated
    BY <1>0, Flags DEF World, Reaped, MaskIsTrue, WithReap, WithExit
  <2> QED
    BY <1>1, <2>1 DEF NoChildLeftBehind, worldVars
<1>4. TranscriptAccepted'
  <2>1. CASE UNCHANGED frames
    BY <1>0, <2>1, NotTold DEF TranscriptAccepted, Told
  <2>2. CASE /\ exit' = EXIT_OK
             /\ bpe_emit_frame(Frame("FINAL", "OK", Failure("CLEANUP", "NONE", 0), Mask(achieved), 1))
    <3>1. Mask(achieved) = ACHIEVED_RESULT_MASK
      BY <1>0, Flags DEF Mask, ACHIEVED_RESULT_MASK, WithReap, WithExit, WithKill, WithStop,
         WithStopSent, WithReady, WithPidfd, WithChild
    <3>2. frames' = Successes(5)
      BY <1>0, <2>2, <3>1, SendNext DEF SuccessTypes, SuccessStages
    <3>3. (peer' # "closed") => Verdict' # "rejected"
      BY <2>2, <3>2, SuccessAccepted DEF Verdict
    <3> QED
      BY <3>3 DEF TranscriptAccepted, Told
  <2> QED
    BY <2>1, <2>2 DEF EmitFinal, Exited
<1> QED
  BY <1>1, <1>2, <1>3, <1>4, AfterExit

\* bpe_emit_error after cleanup: main exits.
LEMMA ErrorStep == NativeIInv /\ EmitError => NativeIInv'
<1> SUFFICES ASSUME NativeIInv, EmitError PROVE NativeIInv'
  OBVIOUS
<1>0. World /\ MaskIsTrue /\ Left /\ Ending /\ pc = "error"
  BY DEF NativeIInv, EmitError
<1>1. pc' = "exited" /\ UNCHANGED <<achieved, worldVars>> /\ seen' = seen
  BY DEF EmitError, Exited
<1>2. World' /\ MaskIsTrue'
  BY <1>0, <1>1, SameWorld
<1>3. NoChildLeftBehind'
  <2>1. CASE failure.reason = "CLEANUP_INCOMPLETE"
    <3>1. exit' = EXIT_CLEANUP
      BY <2>1, CleanupCode DEF EmitError, Exited
    <3> QED
      BY <3>1 DEF NoChildLeftBehind
  <2>2. CASE failure.reason # "CLEANUP_INCOMPLETE"
    <3>1. Gone
      BY <1>0, <2>2 DEF Left
    <3> QED
      BY <1>1, <3>1 DEF NoChildLeftBehind, Gone, worldVars
  <2> QED
    BY <2>1, <2>2
<1>4. PICK n \in 0..4 :
        /\ frames = Successes(n)
        /\ usable /\ peerOpen =>
             \/ Taken(n, failure, achieved)
             \/ /\ failure.reason = "CLEANUP_INCOMPLETE" /\ failure.errno = 0
                /\ Mask(achieved) = ACHIEVED_RESULT_MASK
  BY <1>0 DEF Ending
<1>5. TranscriptAccepted'
  <2>1. CASE UNCHANGED frames
    BY <1>4, <2>1, NotTold DEF TranscriptAccepted, Told
  <2>2. CASE /\ exit' = bpe_exit_for_reason(failure.reason)
             /\ bpe_emit_frame(Frame("ERROR", "FAILED", failure, Mask(achieved), 0))
    <3> DEFINE e == ErrorFrame(n, failure, achieved)
    <3>1. Len(frames) = n
      BY <1>4, SuccessesLength
    <3>2. Frame("ERROR", "FAILED", failure, Mask(achieved), 0) = e
      BY <3>1, Zenon DEF Frame, ErrorFrame
    <3>3. frames' = Append(Successes(n), e) /\ usable /\ peerOpen
      BY <1>4, <2>2, <3>2 DEF bpe_emit_frame
    <3>4. CASE Taken(n, failure, achieved)
      <4>1. (peer' # "closed") => Verdict' # "rejected"
        BY <2>2, <3>3, <3>4, ErrorAccepted DEF Verdict
      <4> QED
        BY <4>1 DEF TranscriptAccepted, Told
    <3>5. CASE /\ failure.reason = "CLEANUP_INCOMPLETE" /\ failure.errno = 0
               /\ Mask(achieved) = ACHIEVED_RESULT_MASK
      <4>1. e.reason = failure.reason /\ e.errno = failure.errno /\ e.value0 = Mask(achieved)
        BY DEF ErrorFrame
      <4>2. frames'[Len(frames')] = e
        <5> DEFINE F(i) == SuccessFrame(i)
                   g == e
        <5> HIDE DEF F, g
        <5>1. Append([i \in 1..n |-> F(i)], g)[Len(Append([i \in 1..n |-> F(i)], g))] = g
          OBVIOUS
        <5> QED
          BY <3>3, <5>1 DEF F, g, Successes
      <4>3. LastLookFailed'
        BY <3>5, <4>1, <4>2 DEF LastLookFailed
      <4> QED
        BY <4>3 DEF TranscriptAccepted
    <3> QED
      BY <1>4, <3>3, <3>4, <3>5
  <2> QED
    BY <2>1, <2>2 DEF EmitError, Exited
<1> QED
  BY <1>1, <1>2, <1>3, <1>5, AfterExit


(***************************************************************************)
(* The emergency cleanup.                                                  *)
(***************************************************************************)
\* A chain of flags: each of the Exits holds the first ones, and none that
\* the sweep adds unless exit and emptiness were observed.
LEMMA ExitFlags ==
  ASSUME NEW leg \in Exits
  PROVE  /\ leg[1] \in 0..4
         /\ leg[2] # {} => CLONE3_INTO_CGROUP \in leg[2]
         /\ CHILD_REAPED \notin leg[2]
         /\ CGROUP_EMPTY \in leg[2] <=> leg[2] = WithExit
         /\ PIDFD_EXIT_OBSERVED \in leg[2] <=> leg[2] = WithExit
<1> DEFINE Legs == {{}, WithChild, WithPidfd, WithReady, WithStopSent, WithStop, WithKill, WithExit}
<1>1. leg[1] \in 0..4 /\ leg[2] \in Legs
  BY DEF Exits
<1>2. \A bits \in Legs :
        /\ bits # {} => CLONE3_INTO_CGROUP \in bits
        /\ CHILD_REAPED \notin bits
        /\ CGROUP_EMPTY \in bits <=> bits = WithExit
        /\ PIDFD_EXIT_OBSERVED \in bits <=> bits = WithExit
  BY Flags DEF WithChild, WithPidfd, WithReady, WithStopSent, WithStop, WithKill, WithExit
<1> QED
  BY <1>1, <1>2

\* The sweep adds flags of its own and nothing else.
LEMMA SweepKeeps ==
  ASSUME Cleanup, pc \in Failing, UNCHANGED <<frames, usable, peerOpen, failure>>,
         achieved \subseteq achieved', achieved' \subseteq achieved \cup SweepBits,
         achieved' # achieved => Created
  PROVE  \E leg \in Exits : LeftAt(leg[1], leg[2])'
<1>1. PICK leg \in Exits : LeftAt(leg[1], leg[2])
  BY DEF Cleanup
<1>2. achieved' \subseteq AfterSweep(leg[2])
  <2>1. CASE achieved' = achieved
    BY <1>1, <2>1 DEF LeftAt
  <2>2. CASE Created
    <3>1. leg[2] # {}
      BY <1>1, <2>2 DEF LeftAt, AfterSweep, Created
    <3> QED
      BY <1>1, <3>1 DEF LeftAt, AfterSweep
  <2> QED
    BY <2>1, <2>2
<1>3. leg[2] \subseteq achieved'
  BY <1>1 DEF LeftAt
<1>4. LeftAt(leg[1], leg[2])'
  BY <1>1, <1>2, <1>3 DEF LeftAt
<1> QED
  BY <1>4

\* On the failure path only these facts have to be kept.
LEMMA StillFailing ==
  ASSUME pc' \in Failing, Cleanup', World', MaskIsTrue', pc' = "closeFail" /\ ~incomplete' => Gone'
  PROVE  NativeIInv'
<1>1. Way' /\ Ending' /\ Left' /\ NoChildLeftBehind' /\ TranscriptAccepted'
  BY DEF Way, OnTheWay, Startup, Failing, Sweeping, Ending, Left, NoChildLeftBehind,
         TranscriptAccepted, Told
<1> QED
  BY <1>1 DEF NativeIInv

\* bpe_cleanup begins: it kills what is still there.
LEMMA BeginCleanupStep == NativeIInv /\ BeginCleanup => NativeIInv'
<1> SUFFICES ASSUME NativeIInv, BeginCleanup PROVE NativeIInv'
  OBVIOUS
<1>0. World /\ MaskIsTrue /\ Cleanup /\ pc = "fail" /\ incomplete = FALSE
      /\ UNCHANGED <<achieved, frames, usable, peerOpen, failure>>
  BY DEF NativeIInv, BeginCleanup, Cleanup, Failing, Sweeping, Goto, Unclean
<1>1. \E leg \in Exits : LeftAt(leg[1], leg[2])'
  BY <1>0, SweepKeeps DEF Failing
<1>2. CASE (~Created \/ Reaped) /\ Goto("closeFail")
  <2>1. World' /\ MaskIsTrue' /\ pc' = "closeFail" /\ incomplete' = FALSE
    BY <1>0, <1>2, SameWorld DEF Goto
  <2>2. achieved = {} \/ SweepBits \subseteq achieved
    <3>1. PICK leg \in Exits : LeftAt(leg[1], leg[2])
      BY <1>0 DEF Cleanup, Failing
    <3>2. ~Created => achieved = {}
      BY <3>1, ExitFlags DEF LeftAt, AfterSweep, Created
    <3>3. Reaped => SweepBits \subseteq achieved
      BY <1>0 DEF Cleanup, Reaped, SweepBits
    <3> QED
      BY <1>2, <3>2, <3>3
  <2>3. Gone'
    BY <1>0, <1>2 DEF Goto, Gone, World, MaskIsTrue, Cleanup, Created, Reaped, worldVars
  <2>4. Cleanup'
    BY <1>0, <1>1, <2>1, <2>2 DEF Cleanup, Failing, Sweeping
  <2> QED
    BY <2>1, <2>3, <2>4, StillFailing DEF Failing
<1>3. CASE Created /\ ~Reaped /\ Unclean("closeFail")
  <2>1. World' /\ MaskIsTrue' /\ pc' = "closeFail" /\ incomplete' = TRUE
    BY <1>0, <1>3, SameWorld DEF Unclean
  <2>2. Created' /\ ~(SweepBits \subseteq achieved')
    BY <1>0, <1>3 DEF Created, Reaped, SweepBits
  <2>3. Cleanup'
    BY <1>1, <2>1, <2>2 DEF Cleanup, Failing, Sweeping
  <2> QED
    BY <2>1, <2>3, StillFailing DEF Failing
<1>4. CASE /\ Created /\ ~Reaped
           /\ seen' = seen \ {"exit", "empty"} /\ pc' = "sweepEvents"
           /\ UNCHANGED <<incomplete, child, how, pipe, populated, stopped>>
  <2>1. World' /\ MaskIsTrue'
    BY <1>0, <1>4 DEF World, MaskIsTrue, Created, Reaped, Alive, Dead
  <2>2. Created' /\ ~Reaped'
    BY <1>0, <1>4 DEF Created, Reaped
  <2>3. Cleanup'
    BY <1>0, <1>1, <1>4, <2>2 DEF Cleanup, Failing, Sweeping
  <2> QED
    BY <1>4, <2>1, <2>3, StillFailing DEF Failing, Sweeping
<1> QED
  BY <1>2, <1>3, <1>4 DEF BeginCleanup

\* The waits of bpe_cleanup add only what they saw.
LEMMA SweepSteps ==
  ASSUME NativeIInv, NEW fault \in BOOLEAN,
         SweepEvents \/ SweepExit(fault) \/ SweepReap \/ SweepEmpty
  PROVE  NativeIInv'
<1>0. World /\ MaskIsTrue /\ Cleanup /\ pc \in Sweeping /\ incomplete = FALSE /\ Created
      /\ (pc # "sweepEmpty" => ~Reaped)
  BY DEF NativeIInv, Cleanup, Failing, Sweeping, SweepEvents, SweepExit, SweepReap, SweepEmpty
<1>1. pc \in Failing
  BY <1>0 DEF Failing
<1>2. ASSUME pc # "sweepEmpty", pc' \in Sweeping,
             UNCHANGED <<achieved, frames, usable, peerOpen, failure, incomplete, worldVars>>,
             \A fact \in {"exit", "record"} : fact \in seen' =>
               fact \in seen \/ (fact = "exit" /\ child = "zombie"),
             "empty" \in seen' => "empty" \in seen \/ ~populated
      PROVE  NativeIInv'
  <2>1. \E leg \in Exits : LeftAt(leg[1], leg[2])'
    BY <1>0, <1>1, <1>2, SweepKeeps
  <2>2. Created' /\ ~Reaped'
    BY <1>0, <1>2 DEF Created, Reaped
  <2>3. Cleanup'
    BY <1>0, <1>2, <2>1, <2>2 DEF Cleanup, Failing, Sweeping
  <2>4. World' /\ MaskIsTrue'
    BY <1>0, <1>2 DEF World, MaskIsTrue, worldVars, Created, Reaped, Alive, Dead, Sweeping
  <2>5. pc' \in Failing /\ pc' # "closeFail"
    BY <1>2 DEF Failing, Sweeping
  <2> QED
    BY <2>3, <2>4, <2>5, StillFailing
<1>3. CASE SweepEvents
  BY <1>2, <1>3 DEF SweepEvents, LookAtEvents, Goto, Sweeping
<1>4. CASE SweepExit(fault)
  BY <1>2, <1>4 DEF SweepExit, Goto, Note, SeenNow, Sweeping
<1>5. CASE SweepReap
  <2>0. pc = "sweepReap" /\ ~Reaped
    BY <1>0, <1>5 DEF SweepReap
  <2>1. CASE Unclean("closeFail")
    <3>1. World' /\ MaskIsTrue' /\ pc' = "closeFail" /\ incomplete' = TRUE
      BY <1>0, <2>1, SameWorld DEF Unclean
    <3>2. Created' /\ ~(SweepBits \subseteq achieved')
      BY <1>0, <2>0, <2>1 DEF Unclean, Created, Reaped, SweepBits
    <3>3. \E leg \in Exits : LeftAt(leg[1], leg[2])'
      BY <1>0, <1>1, <2>1, SweepKeeps DEF Unclean
    <3>4. Cleanup'
      BY <3>1, <3>2, <3>3 DEF Cleanup, Failing, Sweeping
    <3> QED
      BY <3>1, <3>4, StillFailing DEF Failing
  <2>2. CASE child = "zombie" /\ Reap("sweepEmpty")
    <3>1. /\ achieved' = achieved \cup {CHILD_REAPED} /\ pc' = "sweepEmpty" /\ child' = "reaped"
          /\ seen' = seen
          /\ UNCHANGED <<frames, usable, peerOpen, failure, incomplete, how, pipe, populated, stopped>>
      BY <2>2 DEF Reap, Achieve
    <3>2. \E leg \in Exits : LeftAt(leg[1], leg[2])'
      BY <1>0, <1>1, <3>1, SweepKeeps DEF SweepBits
    <3>3. Created' /\ (CGROUP_EMPTY \in achieved' => PIDFD_EXIT_OBSERVED \in achieved')
      BY <1>0, <2>0, <3>1, Flags DEF Created, Cleanup, Failing, Sweeping
    <3>4. Cleanup'
      BY <1>0, <3>1, <3>2, <3>3 DEF Cleanup, Failing, Sweeping
    <3>5. World' /\ MaskIsTrue'
      BY SMTT(30), <1>0, <2>2, <3>1, Flags DEF World, MaskIsTrue, Created, Reaped, Alive, Dead
    <3> QED
      BY <3>1, <3>4, <3>5, StillFailing DEF Failing, Sweeping
  <2> QED
    BY <1>5, <2>1, <2>2 DEF SweepReap
<1>6. CASE SweepEmpty
  <2>1. /\ pc = "sweepEmpty" /\ pc' = "closeFail" /\ seen' = seen
        /\ UNCHANGED <<frames, usable, peerOpen, failure, worldVars>>
    BY <1>6 DEF SweepEmpty
  <2>2. CASE achieved' = achieved /\ incomplete' = TRUE
    <3>1. World' /\ MaskIsTrue'
      BY <1>0, <2>1, <2>2, SameWorld
    <3>2. \E leg \in Exits : LeftAt(leg[1], leg[2])'
      BY <1>0, <1>1, <2>1, <2>2, SweepKeeps
    <3>3. SweepBits \subseteq achieved => PIDFD_EXIT_OBSERVED \in achieved
      BY <1>0, <2>1 DEF Cleanup, Failing, Sweeping, SweepBits
    <3>4. Cleanup'
      BY <1>0, <2>1, <2>2, <3>2, <3>3 DEF Cleanup, Failing, Sweeping, Created
    <3> QED
      BY <2>1, <2>2, <3>1, <3>4, StillFailing DEF Failing
  <2>3. CASE ~populated /\ achieved' = achieved \cup {CGROUP_EMPTY} /\ incomplete' = ~Reaped
    <3>1. World' /\ MaskIsTrue'
      BY SMTT(30), <1>0, <2>1, <2>3, Flags DEF World, MaskIsTrue, worldVars, Created, Reaped, Alive, Dead
    <3>2. \E leg \in Exits : LeftAt(leg[1], leg[2])'
      BY <1>0, <1>1, <2>1, <2>3, SweepKeeps DEF SweepBits
    <3>3. ~Reaped => ~(SweepBits \subseteq achieved')
      BY <2>3, Flags DEF Reaped, SweepBits
    <3>4. Reaped => SweepBits \subseteq achieved'
      BY <2>3 DEF Reaped, SweepBits
    <3>5. Cleanup'
      BY <1>0, <2>1, <2>3, <3>2, <3>3, <3>4 DEF Cleanup, Failing, Sweeping, Created
    <3>6. ~incomplete' => Gone'
      BY <1>0, <2>1, <2>3 DEF Gone, World, worldVars
    <3> QED
      BY <2>1, <3>1, <3>5, <3>6, StillFailing DEF Failing
  <2> QED
    BY <1>6, <2>2, <2>3 DEF SweepEmpty
<1> QED
  BY <1>3, <1>4, <1>5, <1>6


\* The words for the flags of the Exits, before a sweep adds to them.
HasMask(bits, base) ==
  <<bits, base>> \in {<<WithChild, 1>>, <<WithPidfd, 3>>, <<WithReady, \h103>>,
                     <<WithStopSent, \h107>>, <<WithStop, \h10F>>, <<WithKill, \h11F>>}

\* The word sent when the sweep was cut short.
LEMMA PartMasks ==
  ASSUME NEW bits, NEW base, NEW swept, bits \subseteq swept, swept \subseteq bits \cup SweepBits,
         HasMask(bits, base)
  PROVE  \E added \in {0, \h40, \h80, \hC0} :
           Mask(swept) = base + added /\ (added = \hC0 => SweepBits \subseteq swept)
<1> DEFINE added == (IF CHILD_REAPED \in swept THEN \h40 ELSE 0)
                      + (IF CGROUP_EMPTY \in swept THEN \h80 ELSE 0)
<1>1. added \in {0, \h40, \h80, \hC0} /\ (added = \hC0 => SweepBits \subseteq swept)
  BY DEF SweepBits
<1>2. Mask(swept) = base + added
  <2> USE Flags DEF Mask, SweepBits
  <2>1. CASE bits = WithChild /\ base = 1
    BY <2>1 DEF WithChild
  <2>2. CASE bits = WithPidfd /\ base = 3
    BY <2>2 DEF WithPidfd, WithChild
  <2>3. CASE bits = WithReady /\ base = \h103
    BY <2>3 DEF WithReady, WithPidfd, WithChild
  <2>4. CASE bits = WithStopSent /\ base = \h107
    BY <2>4 DEF WithStopSent, WithReady, WithPidfd, WithChild
  <2>5. CASE bits = WithStop /\ base = \h10F
    BY <2>5 DEF WithStop, WithStopSent, WithReady, WithPidfd, WithChild
  <2>6. CASE bits = WithKill /\ base = \h11F
    BY <2>6 DEF WithKill, WithStop, WithStopSent, WithReady, WithPidfd, WithChild
  <2> HIDE DEF Mask
  <2> QED
    BY <2>1, <2>2, <2>3, <2>4, <2>5, <2>6 DEF HasMask
<1> QED
  BY <1>1, <1>2

\* The masks after the exit was observed, swept or not.
LEMMA ExitMasks ==
  ASSUME NEW swept, WithExit \subseteq swept, swept \subseteq AfterSweep(WithExit)
  PROVE  /\ Mask(swept) \in {\h1BF, \h1FF}
         /\ Mask(swept) = \h1FF <=> CHILD_REAPED \in swept
  BY SMTT(30), Flags DEF Mask, AfterSweep, SweepBits, WithExit, WithKill, WithStop, WithStopSent, WithReady,
     WithPidfd, WithChild

\* The rows for an incomplete cleanup have every mask the sweep can leave.
LEMMA IncompleteRows ==
  ASSUME NEW leg \in Exits, NEW swept,
         leg[2] \subseteq swept, swept \subseteq AfterSweep(leg[2])
  PROVE  \E masks : /\ <<leg[1], "CLEANUP_INCOMPLETE", "CLEANUP", masks>> \in ErrorGrammar
                    /\ Mask(swept) \in masks
<1> DEFINE Row(n, masks) == <<n, "CLEANUP_INCOMPLETE", "CLEANUP", masks>> \in ErrorGrammar
           after1 == {0} \cup Swept({1, 3, \h103})
           after2 == Swept({\h103, \h107, \h10F})
           after3 == Swept({\h10F, \h11F}) \cup {\h1BF, \h1FF}
<1>1. /\ Row(0, {0}) /\ Row(1, after1) /\ Row(2, after2) /\ Row(3, after3)
      /\ Row(4, {\h1BF, \h1FF})
  <2>1. Row(0, {0})
    BY SMTT(30) DEF ErrorGrammar
  <2>2. Row(1, after1)
    BY SMTT(30) DEF ErrorGrammar
  <2>3. Row(2, after2)
    BY SMTT(30) DEF ErrorGrammar
  <2>4. Row(3, after3)
    BY SMTT(30) DEF ErrorGrammar
  <2>5. Row(4, {\h1BF, \h1FF})
    BY SMTT(30) DEF ErrorGrammar
  <2> QED
    BY <2>1, <2>2, <2>3, <2>4, <2>5
<1>2. ASSUME NEW n, leg = <<n, {}>> PROVE leg[1] = n /\ Mask(swept) = 0
  <2>1. leg[1] = n /\ swept = {}
    BY <1>2 DEF AfterSweep
  <2> QED
    BY <2>1, SweptMasks DEF AfterSweep
<1>3. ASSUME NEW n, NEW bits, NEW base, leg = <<n, bits>>, HasMask(bits, base)
      PROVE  leg[1] = n /\ \A set : base \in set => Mask(swept) \in Swept(set)
  <2>1. leg[1] = n /\ leg[2] = bits
    BY <1>3
  <2>2. bits \subseteq swept /\ swept \subseteq bits \cup SweepBits
    BY <2>1 DEF AfterSweep
  <2>3. PICK added \in {0, \h40, \h80, \hC0} : Mask(swept) = base + added
    BY <1>3, <2>1, <2>2, PartMasks
  <2>4. ASSUME NEW set, base \in set PROVE Mask(swept) \in Swept(set)
    <3>1. base \in {1, 3, \h103, \h107, \h10F, \h11F}
      BY <1>3 DEF HasMask
    <3>2. Mask(swept) \in {base, base + \h40, base + \h80, base + \hC0}
      BY <2>3, <3>1
    <3> QED
      BY <2>4, <3>2 DEF Swept
  <2> QED
    BY <2>1, <2>4
<1>4. ASSUME NEW n, leg = <<n, WithExit>> PROVE leg[1] = n /\ Mask(swept) \in {\h1BF, \h1FF}
  <2>1. leg[1] = n /\ leg[2] = WithExit
    BY <1>4
  <2> QED
    BY <2>1, ExitMasks
<1> HIDE DEF Row
<1>5. \E masks : Row(leg[1], masks) /\ Mask(swept) \in masks
  <2>1. CASE leg = <<0, {}>>
    BY <1>1, <1>2, <2>1
  <2>2. CASE leg = <<1, {}>>
    <3>1. 0 \in after1
      OBVIOUS
    <3> QED
      BY <1>1, <1>2, <2>2, <3>1
  <2>3. CASE leg \in {<<1, WithChild>>, <<1, WithPidfd>>, <<1, WithReady>>}
    <3>1. leg[1] = 1 /\ Mask(swept) \in Swept({1, 3, \h103})
      BY <1>3, <2>3 DEF HasMask
    <3> QED
      BY <1>1, <3>1
  <2>4. CASE leg \in {<<2, WithReady>>, <<2, WithStopSent>>, <<2, WithStop>>}
    <3>1. leg[1] = 2 /\ Mask(swept) \in Swept({\h103, \h107, \h10F})
      BY SMTT(30), <1>3, <2>4 DEF HasMask
    <3> QED
      BY <1>1, <3>1
  <2>5. CASE leg \in {<<3, WithStop>>, <<3, WithKill>>}
    <3>1. leg[1] = 3 /\ Mask(swept) \in Swept({\h10F, \h11F})
      BY <1>3, <2>5 DEF HasMask
    <3> QED
      BY <1>1, <3>1
  <2>6. CASE leg = <<3, WithExit>>
    BY <1>1, <1>4, <2>6
  <2>7. CASE leg = <<4, WithExit>>
    BY <1>1, <1>4, <2>7
  <2> QED
    BY <2>1, <2>2, <2>3, <2>4, <2>5, <2>6, <2>7 DEF Exits
<1> QED
  BY <1>5 DEF Row

\* A mask that the sweep was cut short at is none that requires an errno.
LEMMA CutShort ==
  ASSUME NEW leg \in Exits, NEW swept, leg[2] # {},
         leg[2] \subseteq swept, swept \subseteq AfterSweep(leg[2]), ~(SweepBits \subseteq swept)
  PROVE  Mask(swept) \notin {0, \hC1, \hC3, \h1C3, \h1C7, \h1CF, \h1DF, \h1FF}
<1>1. CASE leg[2] = WithExit
  <2>1. CHILD_REAPED \notin swept
    BY <1>1 DEF SweepBits, WithExit
  <2> QED
    BY <1>1, <2>1, ExitMasks
<1>2. ASSUME NEW base \in {1, 3, \h103, \h107, \h10F, \h11F},
             HasMask(leg[2], base)
      PROVE  Mask(swept) \notin {0, \hC1, \hC3, \h1C3, \h1C7, \h1CF, \h1DF, \h1FF}
  <2>1. swept \subseteq leg[2] \cup SweepBits
    BY DEF AfterSweep
  <2>2. PICK added \in {0, \h40, \h80, \hC0} :
          Mask(swept) = base + added /\ (added = \hC0 => SweepBits \subseteq swept)
    BY SMTT(30), <1>2, <2>1, PartMasks
  <2> QED
    BY SMTT(30), <2>2
<1>3. leg[2] \in {WithChild, WithPidfd, WithReady, WithStopSent, WithStop, WithKill, WithExit}
  BY DEF Exits
<1> QED
  BY SMTT(30), <1>1, <1>2, <1>3 DEF HasMask

\* The end of bpe_cleanup: the frame it settles on is one the parser takes.
LEMMA CloseStep == NativeIInv /\ CloseAfterFailure => NativeIInv'
<1> SUFFICES ASSUME NativeIInv, CloseAfterFailure PROVE NativeIInv'
  OBVIOUS
<1>0. World /\ MaskIsTrue /\ Cleanup /\ Left /\ pc = "closeFail"
  BY DEF NativeIInv, CloseAfterFailure
<1>1. /\ pc' = "error" /\ seen' = seen \ {"owned"}
      /\ UNCHANGED <<achieved, usable, peerOpen, frames, worldVars>>
  BY DEF CloseAfterFailure
<1>2. PICK errno \in {0, EIO} :
        failure' = IF incomplete \/ errno # 0
                   THEN Failure("CLEANUP", "CLEANUP_INCOMPLETE", errno) ELSE failure
  BY DEF CloseAfterFailure
<1>3. World' /\ MaskIsTrue'
  BY <1>0, <1>1, SameWorld
<1>4. PICK leg \in Exits : LeftAt(leg[1], leg[2])
  BY <1>0 DEF Cleanup, Failing
<1>5. leg[1] \in 0..4 /\ leg[2] \subseteq achieved /\ achieved \subseteq AfterSweep(leg[2])
      /\ frames = Successes(leg[1])
  BY <1>4, ExitFlags DEF LeftAt
<1> DEFINE Settled == usable /\ peerOpen =>
             \/ Taken(leg[1], failure', achieved)
             \/ /\ failure'.reason = "CLEANUP_INCOMPLETE" /\ failure'.errno = 0
                /\ Mask(achieved) = ACHIEVED_RESULT_MASK
<1>6. Settled
  <2>0. Failure("CLEANUP", "CLEANUP_INCOMPLETE", 0).reason = "CLEANUP_INCOMPLETE"
        /\ Failure("CLEANUP", "CLEANUP_INCOMPLETE", 0).errno = 0
    BY DEF Failure
  <2>1. CASE ~incomplete /\ errno = 0
    <3>1. failure' = failure
      BY <1>2, <2>1
    <3>2. achieved = AfterSweep(leg[2])
      <4>1. CASE achieved = {}
        BY <1>5, <4>1 DEF AfterSweep
      <4>2. CASE SweepBits \subseteq achieved
        <5>1. leg[2] # {}
          BY <1>5, <4>2 DEF AfterSweep, SweepBits
        <5> QED
          BY <1>5, <4>2, <5>1 DEF AfterSweep
      <4> QED
        BY <1>0, <2>1, <4>1, <4>2 DEF Cleanup
    <3> QED
      BY <1>4, <3>1, <3>2 DEF LeftAt
  <2>2. PICK masks : /\ <<leg[1], "CLEANUP_INCOMPLETE", "CLEANUP", masks>> \in ErrorGrammar
                     /\ Mask(achieved) \in masks
    BY <1>5, IncompleteRows
  <2>3. CASE errno = EIO
    <3>1. failure' = Failure("CLEANUP", "CLEANUP_INCOMPLETE", EIO)
      BY <1>2, <2>3 DEF EIO
    <3> QED
      BY <2>2, <3>1, TakenAtErrno
  <2>4. CASE incomplete /\ errno = 0
    <3>1. failure' = Failure("CLEANUP", "CLEANUP_INCOMPLETE", 0)
      BY <1>2, <2>4
    <3>2. leg[2] # {}
      BY <1>0, <1>5, <2>4 DEF Cleanup, Created, AfterSweep
    <3>3. CASE SweepBits \subseteq achieved
      <4>1. PIDFD_EXIT_OBSERVED \in achieved
        BY <1>0, <2>4, <3>3 DEF Cleanup
      <4>2. PIDFD_EXIT_OBSERVED \in leg[2]
        BY <1>5, <4>1, Flags DEF AfterSweep, SweepBits
      <4>3. leg[2] = WithExit /\ CHILD_REAPED \in achieved
        BY <3>3, <4>2, ExitFlags DEF SweepBits
      <4>4. Mask(achieved) = ACHIEVED_RESULT_MASK
        BY <1>5, <4>3, ExitMasks DEF ACHIEVED_RESULT_MASK
      <4> QED
        BY <2>0, <3>1, <4>4
    <3>4. CASE ~(SweepBits \subseteq achieved)
      <4> DEFINE e == ErrorFrame(leg[1], Failure("CLEANUP", "CLEANUP_INCOMPLETE", 0), achieved)
      <4>1. e.reason = "CLEANUP_INCOMPLETE" /\ e.value0 = Mask(achieved)
        BY DEF ErrorFrame, Failure
      <4> HIDE DEF e
      <4>2. Mask(achieved) \notin {0, \hC1, \hC3, \h1C3, \h1C7, \h1CF, \h1DF, \h1FF}
        BY SMTT(30), <1>5, <3>2, <3>4, CutShort
      <4>3. ~Listed(NonzeroErrno, leg[1], e)
        <5>1. ASSUME NEW row \in NonzeroErrno, row[2] = "CLEANUP_INCOMPLETE"
              PROVE  row[4] \subseteq {0, \hC1, \hC3, \h1C3, \h1C7, \h1CF, \h1DF, \h1FF}
          BY <5>1 DEF NonzeroErrno
        <5> QED
          BY <4>1, <4>2, <5>1 DEF Listed
      <4>4. CloneErrno(e)
        BY <4>1 DEF CloneErrno
      <4>5. Taken(leg[1], Failure("CLEANUP", "CLEANUP_INCOMPLETE", 0), achieved)
        BY <2>2, <4>3, <4>4, TakenByRow DEF e
      <4> QED
        BY <3>1, <4>5
    <3> QED
      BY <3>3, <3>4
  <2> QED
    BY <2>1, <2>3, <2>4
<1>7. Ending'
  BY <1>1, <1>5, <1>6 DEF Ending
<1>8. Left'
  <2>1. failure'.reason # "CLEANUP_INCOMPLETE" => ~incomplete
    BY <1>2 DEF Failure
  <2> QED
    BY <1>0, <1>1, <2>1 DEF Left, Gone, worldVars
<1>9. Way' /\ Cleanup' /\ NoChildLeftBehind' /\ TranscriptAccepted'
  BY <1>1 DEF Way, OnTheWay, Startup, Cleanup, Failing, Sweeping, NoChildLeftBehind,
     TranscriptAccepted, Told
<1> QED
  BY <1>3, <1>7, <1>8, <1>9 DEF NativeIInv


(***************************************************************************)
(* The child, the kernel, the peer and the clock.                          *)
(***************************************************************************)
\* Main did nothing.
LEMMA Outside ==
  ASSUME NativeIInv, World', MaskIsTrue', Gone => Gone',
         UNCHANGED <<pc, failure, achieved, usable, peerOpen, incomplete, frames, exit>>,
         pc = "exited" => peer' = peer
  PROVE  NativeIInv'
<1>0. Way /\ Cleanup /\ Ending /\ Left /\ NoChildLeftBehind /\ TranscriptAccepted
  BY DEF NativeIInv
<1>1. Way'
  BY SMTT(30), <1>0 DEF Way, OnTheWay
<1>2. Cleanup'
  BY <1>0 DEF Cleanup, LeftAt, Created, Reaped
<1>3. Ending'
  BY <1>0 DEF Ending
<1>4. Left' /\ NoChildLeftBehind'
  BY <1>0 DEF Left, NoChildLeftBehind, Gone
<1>5. TranscriptAccepted'
  BY <1>0 DEF TranscriptAccepted, Told, LastLookFailed, Verdict
<1> QED
  BY <1>1, <1>2, <1>3, <1>4, <1>5 DEF NativeIInv

\* Neither the child nor the kernel, the peer or the clock breaks the invariant.
LEMMA OutsideSteps ==
  ASSUME NativeIInv,
         \/ bpe_child_fixture \/ DeliverSignal \/ KernelExit \/ KillFromOutside \/ PeerActs
         \/ Expire \/ UNCHANGED nativeVars
  PROVE  NativeIInv'
<1>0. World /\ MaskIsTrue
  BY DEF NativeIInv
<1>1. /\ UNCHANGED <<pc, failure, achieved, usable, peerOpen, incomplete, frames, exit>>
      /\ seen' = seen
      /\ pc = "exited" => peer' = peer
  BY DEF bpe_child_fixture, DeliverSignal, KernelExit, KillFromOutside, PeerActs, Expire,
     nativeVars, launcherVars, worldVars
<1>2. World' /\ MaskIsTrue' /\ (Gone => Gone')
  <2> USE DEF World, MaskIsTrue, Created, Reaped, Alive, Dead, Gone
  <2>1. CASE bpe_child_fixture
    BY <1>0, <1>1, <2>1 DEF bpe_child_fixture
  <2>2. CASE DeliverSignal
    BY SMTT(30), <1>0, <1>1, <2>2 DEF DeliverSignal
  <2>3. CASE KernelExit
    <3> USE <1>0, <1>1
    <3>0. UNCHANGED <<how, pipe, stopped>>
      BY <2>3 DEF KernelExit
    <3>1. CASE child \in {"exiting", "zombie"} /\ populated' = FALSE /\ child' = child
      BY <3>0, <3>1
    <3>2. CASE child = "exiting" /\ child' = "zombie" /\ populated' = populated
      BY <3>0, <3>2
    <3> QED
      BY <2>3, <3>1, <3>2 DEF KernelExit
  <2>4. CASE KillFromOutside \/ PeerActs \/ Expire \/ UNCHANGED nativeVars
    <3>1. UNCHANGED <<child, how, pipe, populated, stopped>>
      BY <2>4 DEF KillFromOutside, PeerActs, Expire, nativeVars, worldVars
    <3> QED
      BY <1>0, <1>1, <3>1
  <2> QED
    BY <2>1, <2>2, <2>3, <2>4
<1> QED
  BY <1>1, <1>2, Outside

\* A launcher killed from outside claims nothing.
LEMMA KillLauncherStep == NativeIInv /\ KillLauncher => NativeIInv'
<1> SUFFICES ASSUME NativeIInv, KillLauncher PROVE NativeIInv'
  OBVIOUS
<1>1. pc' = "exited" /\ exit' = KILLED /\ UNCHANGED <<achieved, worldVars>> /\ seen' = seen
  BY DEF KillLauncher
<1>2. World' /\ MaskIsTrue'
  BY <1>1, SameWorld DEF NativeIInv
<1>3. NoChildLeftBehind' /\ TranscriptAccepted'
  BY <1>1 DEF NoChildLeftBehind, TranscriptAccepted, Told
<1> QED
  BY <1>1, <1>2, <1>3, AfterExit

(***************************************************************************)
(* The results.                                                            *)
(***************************************************************************)
\* Nothing has been done, and nothing was sent.
LEMMA NativeInitInv == NativeInit => NativeIInv
<1> SUFFICES ASSUME NativeInit PROVE NativeIInv
  OBVIOUS
<1> USE DEF NativeInit
<1>1. frames = Successes(0)
  <2> DEFINE F(i) == SuccessFrame(i)
  <2> HIDE DEF F
  <2>1. [i \in 1..0 |-> F(i)] = <<>>
    OBVIOUS
  <2> QED
    BY <2>1 DEF F, Successes
<1>2. Way
  BY <1>1 DEF Way, OnTheWay, Startup
<1>3. World /\ MaskIsTrue
  BY DEF World, MaskIsTrue, Created, Reaped, Alive, Dead
<1>4. Cleanup /\ Ending /\ Left /\ NoChildLeftBehind /\ TranscriptAccepted
  BY DEF Cleanup, Failing, Sweeping, Ending, Left, NoChildLeftBehind, TranscriptAccepted, Told
<1> QED
  BY <1>2, <1>3, <1>4 DEF NativeIInv

\* Every step of the launcher and of its surroundings keeps the invariant.
LEMMA NativeStep == NativeIInv /\ [NativeNext]_nativeVars => NativeIInv'
<1> SUFFICES ASSUME NativeIInv, [NativeNext]_nativeVars PROVE NativeIInv'
  OBVIOUS
<1>1. ASSUME NEW fault \in BOOLEAN, Launcher(fault) PROVE NativeIInv'
  <2>1. CASE ValidateArguments \/ bpe_validate_control_fd
    BY <2>1, ValidateArgumentsStep, ControlFdStep
  <2>2. CASE \/ bpe_validate_cgroup_fd \/ bpe_validate_no_extra_fds \/ bpe_open_cgroup_files
             \/ CheckLeafEmpty \/ bpe_install_seccomp
    BY <2>2, ValidationSteps
  <2>3. CASE EmitHello \/ ArmDeadline \/ Checkpoint \/ EmitProgress \/ bpe_clone_fixture
    BY <2>3, HelloStep, CheckpointStep, ProgressStep, CloneStep
  <2>4. CASE bpe_wait_child_ready(fault) \/ bpe_wait_populated_one(fault) \/ CheckProcs
    BY <2>4, ReadySteps, ProcsStep
  <2>5. CASE SendStop \/ ObserveStop(fault) \/ RecheckMembership
    BY <2>5, StopSteps
  <2>6. CASE KillCgroup \/ ObserveEvents \/ ObserveExit(fault) \/ JudgeExit
    BY <2>6, KillSteps
  <2>7. CASE bpe_reap_child \/ CheckAchieved \/ bpe_close_owned \/ EmitFinal
    BY <2>7, ReapSteps, FinalStep
  <2>8. CASE BeginCleanup \/ CloseAfterFailure \/ EmitError
    BY <2>8, BeginCleanupStep, CloseStep, ErrorStep
  <2>9. CASE SweepEvents \/ SweepExit(fault) \/ SweepReap \/ SweepEmpty
    BY <2>9, SweepSteps
  <2> QED
    BY <1>1, <2>1, <2>2, <2>3, <2>4, <2>5, <2>6, <2>7, <2>8, <2>9 DEF Launcher
<1>2. CASE \/ bpe_child_fixture \/ DeliverSignal \/ KernelExit \/ KillFromOutside \/ PeerActs
           \/ Expire \/ UNCHANGED nativeVars
  BY <1>2, OutsideSteps
<1>3. CASE KillLauncher
  BY <1>3, KillLauncherStep
<1> QED
  BY <1>1, <1>2, <1>3 DEF NativeNext

\* The invariant holds in every reachable state.
THEOREM NativeInvariant == NativeSpec => []NativeIInv
  BY NativeInitInv, NativeStep, PTL DEF NativeSpec

\* The parser takes every transcript that launcher.c ends with its last frame
\* sent, but for the one whose last look at the leaf failed.
THEOREM TranscriptsAccepted == NativeSpec => []TranscriptAccepted
<1>1. NativeIInv => TranscriptAccepted
  BY DEF NativeIInv
<1> QED
  BY <1>1, NativeInvariant, PTL

\* Whenever a flag is in runtime.achieved, what it stands for has happened.
THEOREM MaskTrue == NativeSpec => []MaskIsTrue
<1>1. NativeIInv => MaskIsTrue
  BY DEF NativeIInv
<1> QED
  BY <1>1, NativeInvariant, PTL

\* main returns another status than CLEANUP only if it left no child and an
\* empty leaf.
THEOREM NoChildLeft == NativeSpec => []NoChildLeftBehind
<1>1. NativeIInv => NoChildLeftBehind
  BY DEF NativeIInv
<1> QED
  BY <1>1, NativeInvariant, PTL
=============================================================================
