----------------------------- MODULE Orchestrator -----------------------------
(***************************************************************************)
(* orchestrate_linux_inert_fixture (inert_orchestration.py): several       *)
(* controllers, each a process of its own, share one launch ledger and one *)
(* launcher file and may be given the same claim.  A controller seals the  *)
(* launcher (LauncherArtifact), stages its descriptor, prepares its        *)
(* process, consumes the claim, verifies the committed receipt and only    *)
(* then launches; on the way every call may fail with or without its       *)
(* effect, and the process may die.                                        *)
(*                                                                         *)
(* The ledger is what LaunchLedger refines: a claim is consumed once, by a *)
(* receipt or by a tombstone.  A receipt is named by the controller whose  *)
(* transaction committed it.  What follows a launch is ConsumedAttempt.    *)
(***************************************************************************)
EXTENDS LauncherArtifact

CONSTANTS Claims, Free, Tombstone

ASSUME OrchestratorAssumption ==
    /\ Free \notin Controllers /\ Tombstone \notin Controllers
    /\ Free # Tombstone

VARIABLES
    at,         \* where each controller is
    claim,      \* the claim it was called with
    ledger,     \* for each claim: free, a tombstone or the receipt's owner
    altered,    \* what of its process state differs from what it found
    told,       \* what of it the call could not put back
    receipt,    \* the receipt it works with
    launched,   \* controllers that entered _orchestrate_consumed_attempt
    ending      \* how the call ended

callVars == <<at, claim, ledger, altered, told, receipt, launched, ending>>
orchVars == <<artifactVars, callVars>>

\* The child-subreaper attribute and the action of SIGCHLD.
ProcessState == {"subreaper", "sigchld"}

OrchInit ==
    /\ ArtifactInit
    /\ at = [c \in Controllers |-> "start"]
    /\ claim \in [Controllers -> Claims]
    /\ ledger = [k \in Claims |-> Free]
    /\ altered = [c \in Controllers |-> {}]
    /\ told = [c \in Controllers |-> {}]
    /\ receipt = [c \in Controllers |-> Free]
    /\ launched = {}
    /\ ending = [c \in Controllers |-> "none"]

Move(c, place) == at' = [at EXCEPT ![c] = place]

End(c, how) == Move(c, "ended") /\ ending' = [ending EXCEPT ![c] = how]

OpenIs(c, set) ==
    /\ fds' = [fds EXCEPT ![c] = set]
    /\ UNCHANGED <<file, stamp, rewrites, step, binding, content,
                   copy, unsound>>

\* SIGCHLD put back only if the subreaper attribute was.
RestoreInOrder(c) ==
    \E failed \in SUBSET ProcessState, left \in SUBSET ProcessState :
        /\ "subreaper" \notin failed => left \subseteq failed
        /\ altered' = [altered EXCEPT ![c] = @ \cap left]
        /\ told' = [told EXCEPT ![c] = failed]

\* _HostGuard.restore, and the rollback of _prepare_host_guard: each part is
\* put back whether or not the other could be; a failure is told and may or
\* may not have left its part altered.
RestoreHost(c) ==
    \E failed \in SUBSET ProcessState :
        \E left \in SUBSET failed :
            /\ altered' = [altered EXCEPT ![c] = @ \cap left]
            /\ told' = [told EXCEPT ![c] = failed]

\* A step that keeps what the call holds.
Keep == UNCHANGED <<artifactVars, altered, told>>

\* _release_prelaunch_resources.
Release(c) == OpenIs(c, {}) /\ RestoreHost(c)

\* The clean-up after a launch or in place of one: the process state is put
\* back only when no child remains.
CleanUp(c) ==
    /\ OpenIs(c, {})
    /\ \/ RestoreHost(c)
       \/ told' = [told EXCEPT ![c] = ProcessState] /\ UNCHANGED altered

Committed(c) == ledger[claim[c]] \in Controllers

\* The ledger with the claim consumed, if it still was free.
Taken(c, by) ==
    IF ledger[claim[c]] = Free THEN [ledger EXCEPT ![claim[c]] = by] ELSE ledger

\* Policies, the signed intent, its claim and the launch ledger's identity are
\* verified before anything is opened.
VerifyInputs(c) ==
    /\ at[c] = "start"
    /\ \/ /\ Move(c, "artifact") /\ Advance(c, "source")
          /\ UNCHANGED ending
       \/ End(c, "raised") /\ UNCHANGED step
    /\ UNCHANGED <<claim, ledger, altered, told, receipt, launched,
                   file, stamp, rewrites, binding, content, fds,
                   copy, unsound>>

\* preflight_inert_launcher_artifact: its steps, and what it returns or raises.
PreflightArtifact(c) ==
    \/ at[c] = "artifact" /\ ArtifactStep(c) /\ UNCHANGED callVars
    \/ /\ at[c] = "artifact" /\ step[c] \in {"ready", "failed"}
       /\ \/ step[c] = "ready" /\ Move(c, "stage") /\ UNCHANGED ending
          \/ step[c] = "failed" /\ End(c, "raised")
       /\ UNCHANGED <<artifactVars, claim, ledger, altered, told, receipt,
                      launched>>

\* _stage_executable_descriptor: the sealed descriptor, validated again, is
\* duplicated twice and the first duplicate closed.
StageExecutable(c) ==
    /\ at[c] = "stage"
    /\ \/ /\ Duplicable(c)
          /\ Move(c, "guard") /\ UNCHANGED <<altered, told, ending>>
          /\ OpenIs(c, fds[c] \cup {"staged"})
       \/ End(c, "raised") /\ OpenIs(c, {}) /\ UNCHANGED <<altered, told>>
    /\ UNCHANGED <<claim, ledger, receipt, launched>>

\* _prepare_host_guard: checks that alter nothing, then SIGCHLD and the
\* subreaper attribute, rolled back when either fails.
PrepareHostGuard(c) ==
    /\ at[c] = "guard"
    /\ \/ /\ Move(c, "admit")
          /\ altered' = [altered EXCEPT ![c] = ProcessState]
          /\ UNCHANGED <<artifactVars, told, ending>>
       \/ /\ End(c, "raised") /\ OpenIs(c, {})
          /\ UNCHANGED <<altered, told>>
       \/ /\ End(c, "raised") /\ OpenIs(c, {})
          /\ \E failed \in SUBSET ProcessState :
                /\ told' = [told EXCEPT ![c] = failed]
                /\ \E left \in SUBSET failed :
                      altered' = [altered EXCEPT ![c] = left]
    /\ UNCHANGED <<claim, ledger, receipt, launched>>

\* admit_inert_fixture_launch_attempt.
Admit(c) ==
    /\ at[c] = "admit"
    /\ \/ \* committed, and the receipt returned
          /\ ledger[claim[c]] = Free
          /\ ledger' = [ledger EXCEPT ![claim[c]] = c]
          /\ receipt' = [receipt EXCEPT ![c] = c]
          /\ Move(c, "verify") /\ Keep /\ UNCHANGED ending
       \/ \* consumed by someone, or just now by a tombstone
          /\ ledger' = Taken(c, Tombstone)
          /\ End(c, "already_consumed") /\ Release(c) /\ UNCHANGED receipt
       \/ \* any other error, before or after a commit
          /\ ledger' \in {ledger, Taken(c, c)}
          /\ Move(c, "recover") /\ Keep /\ UNCHANGED <<receipt, ending>>
    /\ UNCHANGED <<claim, launched>>

\* Recovery taken for admission.
RecoverToLaunch(c) ==
    /\ at[c] = "recover" /\ Committed(c)
    /\ receipt' = [receipt EXCEPT ![c] = ledger[claim[c]]]
    /\ Move(c, "launch")
    /\ Keep /\ UNCHANGED <<claim, ledger, launched, ending>>

\* An ambiguous admission passed on as an ordinary error.
RecoverRaises(c) ==
    /\ at[c] = "recover"
    /\ End(c, "raised") /\ Release(c)
    /\ UNCHANGED <<claim, ledger, receipt, launched>>

\* recover_committed_receipt after an ambiguous admission.
Recover(c) ==
    /\ at[c] = "recover"
    /\ \/ /\ Committed(c)
          /\ receipt' = [receipt EXCEPT ![c] = ledger[claim[c]]]
          /\ Move(c, "finalize") /\ Keep /\ UNCHANGED ending
       \/ End(c, "terminal_error") /\ Release(c) /\ UNCHANGED receipt
    /\ UNCHANGED <<claim, ledger, launched>>

\* verify_committed_receipt; a failure is answered by recovering the same
\* receipt, which no longer leads to a launch.
Verify(c) ==
    /\ at[c] = "verify"
    /\ \/ /\ ledger[claim[c]] = receipt[c]
          /\ Move(c, "launch") /\ Keep /\ UNCHANGED ending
       \/ /\ Committed(c) /\ ledger[claim[c]] = receipt[c]
          /\ Move(c, "finalize") /\ Keep /\ UNCHANGED ending
       \/ End(c, "terminal_error") /\ Release(c)
    /\ UNCHANGED <<claim, ledger, receipt, launched>>

\* _start_post_consumption_clock, which may fail and release, and
\* _orchestrate_consumed_attempt.
Launch(c) ==
    /\ at[c] = "launch"
    /\ \/ /\ launched' = launched \cup {c} /\ CleanUp(c)
          /\ \E how \in {"result", "terminal_error"} : End(c, how)
       \/ End(c, "terminal_error") /\ Release(c) /\ UNCHANGED launched
    /\ UNCHANGED <<claim, ledger, receipt>>

\* The same clock and _finalize_consumed_without_launch.
FinalizeWithoutLaunch(c) ==
    /\ at[c] = "finalize"
    /\ \/ /\ CleanUp(c)
          /\ \E how \in {"no_launch_result", "terminal_error"} : End(c, how)
       \/ End(c, "terminal_error") /\ Release(c)
    /\ UNCHANGED <<claim, ledger, receipt, launched>>

\* The process dies and takes what it held with it.  While it launches, the
\* launcher may already run.
Die(c) ==
    /\ at[c] # "ended"
    /\ End(c, "died")
    /\ OpenIs(c, {})
    /\ altered' = [altered EXCEPT ![c] = {}] /\ UNCHANGED told
    /\ \/ UNCHANGED launched
       \/ at[c] = "launch" /\ launched' = launched \cup {c}
    /\ UNCHANGED <<claim, ledger, receipt>>

OrchNext ==
    \/ RewriteSource /\ UNCHANGED callVars
    \/ \E c \in Controllers :
          \/ VerifyInputs(c) \/ PreflightArtifact(c) \/ StageExecutable(c)
          \/ PrepareHostGuard(c) \/ Admit(c) \/ Recover(c) \/ Verify(c)
          \/ Launch(c) \/ FinalizeWithoutLaunch(c) \/ Die(c)

OrchSpec == OrchInit /\ [][OrchNext]_orchVars

(***************************************************************************)
(* Properties.                                                             *)
(***************************************************************************)
\* The types of the process state of each call.
HostTypes ==
    /\ altered \in [Controllers -> SUBSET ProcessState]
    /\ told \in [Controllers -> SUBSET ProcessState]

\* The types of the rest.
CallTypes ==
    /\ at \in [Controllers -> {"start", "artifact", "stage", "guard", "admit",
                               "recover", "verify", "launch", "finalize",
                               "ended"}]
    /\ claim \in [Controllers -> Claims]
    /\ ledger \in [Claims -> Controllers \cup {Free, Tombstone}]
    /\ receipt \in [Controllers -> Controllers \cup {Free}]
    /\ launched \in SUBSET Controllers
    /\ ending \in [Controllers -> {"none", "raised", "already_consumed",
                                   "terminal_error", "result",
                                   "no_launch_result", "died"}]

\* Types of the launcher file's, the ledger's and the controllers' state.
OrchTypeOK == ArtifactTypes /\ HostTypes /\ CallTypes

\* However many controllers are given one claim, and wherever they fail or
\* die, the launcher is started for it at most once; in particular a receipt
\* that was only recovered, one's own or another's, leads to no launch.
LaunchedAtMostOnce ==
    \A c, d \in launched : claim[c] = claim[d] => c = d

\* A call holds what it needs exactly while it needs it.  From its admission
\* until a launch or a finalization takes over, it has the sealed and the
\* staged descriptor open, no other that reaches the launcher's bytes, and its
\* process prepared: no error path gives up what a later one uses.  When it has
\* ended no descriptor is open, and the subreaper attribute and the SIGCHLD
\* action are as they were found, each unless that one could not be put back.
HeldExactly ==
    \A c \in Controllers :
        /\ at[c] \in {"admit", "recover", "verify", "launch", "finalize"} =>
              fds[c] = {"sealed", "staged"} /\ altered[c] = ProcessState
        /\ at[c] = "ended" => fds[c] = {} /\ altered[c] \subseteq told[c]

\* However the launcher file is rewritten while controllers read it, and
\* although a rewrite may leave its timestamps alone, what is launched is the
\* expected bytes, whole.
LaunchedIsExpected ==
    \A c \in launched : Expected(copy[c])

\* Bytes that pass the header-by-header checks load safely: no two segments
\* overlap, the entry point is in one that is executable and not writable, and
\* the seccomp markers are in bytes that are mapped.
LaunchedLoadsSafely == launched \cap unsound = {}

\* A call that raised an ordinary error, which a caller may answer by calling
\* again, consumed nothing itself.
RaisedConsumedNothing ==
    \A c \in Controllers : ending[c] = "raised" =>
        \A k \in Claims : ledger[k] # c
===============================================================================
