------------------------------ MODULE CgroupLeaf ------------------------------
(***************************************************************************)
(* Retained cgroup-v2 leaves under one delegated root (cgroup.py):         *)
(* retain_linux_cgroup_v2_leaf, LinuxCgroupV2RetainedLeaf and the cleanup  *)
(* both share.  Nothing locks the root: a retainer looks, creates its      *)
(* randomly named leaf, and looks again, twice.  Several retainers may do  *)
(* so at once, any of them may die, and a launcher that holds a handed-off *)
(* descriptor may put a process into the leaf at any time.                 *)
(*                                                                         *)
(* A retainer stands for one call; its leaf has the retainer's name, which *)
(* is what a fresh 256-bit nonce gives.  Control-file contents other than  *)
(* the population are abstracted to checks that may fail.                  *)
(***************************************************************************)
EXTENDS Integers

CONSTANTS
    Retainers,  \* calls of retain_linux_cgroup_v2_leaf
    MaxPolls,   \* polls of the leaf before the cleanup deadline
    MaxClones   \* processes a launcher creates in one leaf

ASSUME LeafAssumption == MaxPolls \in Nat /\ MaxClones \in Nat

VARIABLES
    pc,         \* where each retainer is
    leaves,     \* the child directories of the delegated root
    procs,      \* what occupies each leaf
    clones,     \* processes created in each leaf so far
    polls,      \* polls left before the cleanup deadline
    killed,     \* the cgroup.kill write was accepted
    cause,      \* the error a cleanup or rollback is to report
    outcome,    \* what the call, or the handle's one cleanup, reported
    handed      \* retainers whose leaf descriptor was duplicated

leafVars == <<pc, leaves, procs, clones, polls, killed, cause, outcome, handed>>

None == "none"

\* The reasons are kept apart only as far as the caller keeps them apart.
Errors == {"delegate_busy", "cgroup_changed", "cleanup_timeout", "io_failure",
           "cleanup_incomplete"}

LeafInit ==
    /\ pc = [r \in Retainers |-> "start"]
    /\ leaves = {}
    /\ procs = [r \in Retainers |-> "empty"]
    /\ clones = [r \in Retainers |-> 0]
    /\ polls = [r \in Retainers |-> MaxPolls]
    /\ killed = [r \in Retainers |-> FALSE]
    /\ cause = [r \in Retainers |-> None]
    /\ outcome = [r \in Retainers |-> None]
    /\ handed = {}

Goto(r, place) == pc' = [pc EXCEPT ![r] = place]

Report(r, what) ==
    /\ Goto(r, "finished")
    /\ outcome' = [outcome EXCEPT ![r] = what]

\* An error raised while the leaf is there: it is cleaned up first.
CleanUpBecause(r, why) ==
    /\ Goto(r, "kill")
    /\ cause' = [cause EXCEPT ![r] = why]

\* An error inside _cleanup_leaf_once, before the leaf is known removed.
FallBack(r, why) ==
    /\ Goto(r, "fallback")
    /\ cause' = [cause EXCEPT ![r] = why]

(***************************************************************************)
(* retain_linux_cgroup_v2_leaf.                                            *)
(***************************************************************************)
\* _require_empty_domain_root.
RequireEmptyRoot(r) ==
    /\ pc[r] = "start"
    /\ \/ leaves = {} /\ Goto(r, "create") /\ UNCHANGED outcome
       \/ leaves # {} /\ Report(r, "delegate_busy")
       \/ Report(r, "io_failure")
    /\ UNCHANGED <<leaves, procs, clones, polls, killed, cause, handed>>

\* os.mkdir under a fresh name.
CreateLeaf(r) ==
    /\ pc[r] = "create"
    /\ \/ leaves' = leaves \cup {r} /\ Goto(r, "open") /\ UNCHANGED outcome
       \/ Report(r, "io_failure") /\ UNCHANGED leaves
    /\ UNCHANGED <<procs, clones, polls, killed, cause, handed>>

\* The rest of _create_leaf: open the new directory, or remove it again.
OpenLeaf(r) ==
    /\ pc[r] = "open"
    /\ \/ Goto(r, "exclusive") /\ UNCHANGED <<leaves, outcome>>
       \/ leaves' = leaves \ {r} /\ Report(r, "cgroup_changed")
       \/ /\ leaves' \in {leaves, leaves \ {r}}
          /\ Report(r, "cleanup_incomplete")
    /\ UNCHANGED <<procs, clones, polls, killed, cause, handed>>

\* _require_leaf_identity: the name still leads to the retained directory.
NamedLeaf(r) == r \in leaves

\* Looking for one's own leaf only.
ExclusiveIfThere(r) == r \in leaves

\* _require_exclusive_leaf: no sibling, and nothing runs below the root.
Exclusive(r) == leaves = {r} /\ \A s \in leaves : procs[s] = "empty"

\* _require_leaf_empty.
LeafEmpty(r) == procs[r] = "empty"

\* Both looks, as _configure_leaf takes them twice and a hand-off once more.
Alone(r) == Exclusive(r) /\ LeafEmpty(r)

RequireExclusive(r) ==
    /\ pc[r] = "exclusive"
    /\ \/ Alone(r) /\ Goto(r, "configure") /\ UNCHANGED cause
       \/ ~Alone(r) /\ CleanUpBecause(r, "cgroup_changed")
       \/ CleanUpBecause(r, "io_failure")
    /\ UNCHANGED <<leaves, procs, clones, polls, killed, outcome, handed>>

\* The control writes, their readback, the second look and
\* _require_root_unchanged; then the handle exists.
Configure(r) ==
    /\ pc[r] = "configure"
    /\ \/ Alone(r) /\ Goto(r, "retained") /\ UNCHANGED cause
       \/ ~Alone(r) /\ CleanUpBecause(r, "cgroup_changed")
       \/ CleanUpBecause(r, "io_failure")
    /\ UNCHANGED <<leaves, procs, clones, polls, killed, outcome, handed>>

(***************************************************************************)
(* The retained handle.                                                    *)
(***************************************************************************)
\* duplicate_leaf_fd after _require_named_leaf_binding and the two looks; a
\* failure leaves the handle as it was.
DuplicateLeafFd(r) ==
    /\ pc[r] = "retained"
    /\ NamedLeaf(r) /\ Alone(r)
    /\ handed' = handed \cup {r}
    /\ UNCHANGED <<pc, leaves, procs, clones, polls, killed, cause, outcome>>

\* cleanup() or cleanup_with_timeout_ms(): once for the handle; a later call
\* repeats the first answer and changes nothing.
BeginCleanup(r) ==
    /\ pc[r] = "retained"
    /\ CleanUpBecause(r, None)
    /\ UNCHANGED <<leaves, procs, clones, polls, killed, outcome, handed>>

(***************************************************************************)
(* _cleanup_leaf: cgroup.kill, wait until unpopulated, remove, audit.      *)
(***************************************************************************)
\* SIGKILL to what is in the leaf; processes die a little later.
Killed(r) == [procs EXCEPT ![r] = IF @ = "live" THEN "dying" ELSE @]

WriteKill(r) ==
    /\ pc[r] = "kill"
    /\ \/ /\ procs' = Killed(r)
          /\ killed' = [killed EXCEPT ![r] = TRUE]
          /\ Goto(r, "wait") /\ UNCHANGED cause
       \/ Goto(r, "wait") /\ UNCHANGED <<procs, killed, cause>>
       \/ /\ FallBack(r, "io_failure")
          /\ UNCHANGED <<procs, killed>>
    /\ UNCHANGED <<leaves, clones, polls, outcome, handed>>

\* Polling without a deadline.
WaitForever(r) ==
    /\ pc[r] = "wait"
    /\ \/ procs[r] = "empty" /\ Goto(r, "remove")
       \/ procs[r] # "empty" /\ UNCHANGED pc
    /\ UNCHANGED <<leaves, procs, clones, killed, outcome, handed, polls, cause>>

\* _wait_populated_zero.
WaitPopulatedZero(r) ==
    /\ pc[r] = "wait"
    /\ \/ procs[r] = "empty" /\ Goto(r, "remove") /\ UNCHANGED <<polls, cause>>
       \/ /\ procs[r] # "empty" /\ polls[r] > 0
          /\ polls' = [polls EXCEPT ![r] = @ - 1] /\ UNCHANGED <<pc, cause>>
       \/ /\ procs[r] # "empty" /\ polls[r] = 0
          /\ FallBack(r, "cleanup_timeout") /\ UNCHANGED polls
    /\ UNCHANGED <<leaves, procs, clones, killed, outcome, handed>>

\* _require_leaf_identity and the listing, before the removal.
CheckBeforeRemoval(r) ==
    /\ pc[r] = "remove"
    /\ \/ NamedLeaf(r) /\ leaves = {r} /\ Goto(r, "rmdir") /\ UNCHANGED cause
       \/ ~(NamedLeaf(r) /\ leaves = {r}) /\ FallBack(r, "cgroup_changed")
       \/ FallBack(r, "io_failure")
    /\ UNCHANGED <<leaves, procs, clones, polls, killed, outcome, handed>>

\* os.rmdir: a populated leaf is EBUSY, killed again and waited for again.
RemoveLeaf(r) ==
    /\ pc[r] = "rmdir"
    /\ \/ /\ procs[r] = "empty" /\ leaves' = leaves \ {r} /\ Goto(r, "audit")
          /\ UNCHANGED <<procs, polls, cause>>
       \/ /\ procs[r] # "empty" /\ polls[r] > 0
          /\ procs' = Killed(r) /\ polls' = [polls EXCEPT ![r] = @ - 1]
          /\ Goto(r, "wait") /\ UNCHANGED <<leaves, cause>>
       \/ /\ procs[r] # "empty" /\ polls[r] = 0
          /\ FallBack(r, "cleanup_timeout") /\ UNCHANGED <<leaves, procs, polls>>
       \/ /\ leaves' \in {leaves} \cup (IF procs[r] = "empty"
                                        THEN {leaves \ {r}} ELSE {})
          /\ FallBack(r, "io_failure") /\ UNCHANGED <<procs, polls>>
    /\ UNCHANGED <<clones, killed, outcome, handed>>

\* The root must be empty again.  A rollback then reports its own cause.
AuditRoot(r) ==
    /\ pc[r] = "audit"
    /\ \/ /\ leaves = {} /\ killed[r]
          /\ Report(r, IF cause[r] = None THEN "cleaned" ELSE cause[r])
       \/ leaves # {} /\ Report(r, "cgroup_changed")
       \/ ~killed[r] /\ Report(r, "io_failure")
       \/ \E why \in {"io_failure", "cleanup_timeout"} : Report(r, why)
    /\ UNCHANGED <<leaves, procs, clones, polls, killed, cause, handed>>

\* A fallback that reports the first error whatever it could remove.
FallbackQuietly(r) ==
    /\ pc[r] = "fallback"
    /\ leaves' \in {leaves} \cup (IF procs[r] = "empty"
                                  THEN {leaves \ {r}} ELSE {})
    /\ Report(r, cause[r])
    /\ UNCHANGED <<procs, clones, polls, killed, cause, handed>>

\* _fallback_remove_empty_leaf: the exact leaf, once.
FallbackRemove(r) ==
    /\ pc[r] = "fallback"
    /\ \/ r \notin leaves /\ Report(r, cause[r]) /\ UNCHANGED leaves
       \/ /\ r \in leaves /\ procs[r] = "empty"
          /\ leaves' = leaves \ {r} /\ Report(r, cause[r])
       \/ /\ leaves' \in {leaves} \cup (IF procs[r] = "empty"
                                        THEN {leaves \ {r}} ELSE {})
          /\ Report(r, "cleanup_incomplete")
    /\ UNCHANGED <<procs, clones, polls, killed, cause, handed>>

(***************************************************************************)
(* The world.                                                              *)
(***************************************************************************)
\* A launcher that was given the descriptor clones into the leaf; it may do so
\* during the cleanup and after the retaining process died.
Occupy(r) ==
    /\ r \in handed /\ r \in leaves
    /\ procs[r] = "empty" /\ clones[r] < MaxClones
    /\ procs' = [procs EXCEPT ![r] = "live"]
    /\ clones' = [clones EXCEPT ![r] = @ + 1]
    /\ UNCHANGED <<pc, leaves, polls, killed, cause, outcome, handed>>

Vacate(r) ==
    /\ procs[r] # "empty"
    /\ procs' = [procs EXCEPT ![r] = "empty"]
    /\ UNCHANGED <<pc, leaves, clones, polls, killed, cause, outcome, handed>>

\* The retaining process dies; its leaf stays.
Crash(r) ==
    /\ pc[r] \notin {"start", "finished", "dead"}
    /\ Goto(r, "dead")
    /\ UNCHANGED <<leaves, procs, clones, polls, killed, cause, outcome, handed>>

\* The steps a running call takes by itself, in the order of its places.
Proceed(r) ==
    \/ RequireEmptyRoot(r) \/ CreateLeaf(r) \/ OpenLeaf(r)
    \/ RequireExclusive(r) \/ Configure(r)
    \/ WriteKill(r) \/ WaitPopulatedZero(r) \/ CheckBeforeRemoval(r)
    \/ RemoveLeaf(r) \/ AuditRoot(r) \/ FallbackRemove(r)

LeafNext ==
    \E r \in Retainers :
        \/ Proceed(r) \/ DuplicateLeafFd(r) \/ BeginCleanup(r)
        \/ Occupy(r) \/ Vacate(r) \/ Crash(r)

\* A call that runs keeps running.  Nobody has to call cleanup, and nothing
\* is assumed of the processes in the leaf.
LeafSpec ==
    /\ LeafInit /\ [][LeafNext]_leafVars
    /\ \A r \in Retainers : WF_leafVars(Proceed(r))

(***************************************************************************)
(* Properties.                                                             *)
(***************************************************************************)
Working == {"start", "create", "open", "exclusive", "configure", "kill",
            "wait", "remove", "rmdir", "audit", "fallback"}

\* Types of the retainers' and the root's state.
LeafTypeOK ==
    /\ pc \in [Retainers -> Working \cup {"retained", "finished", "dead"}]
    /\ leaves \in SUBSET Retainers
    /\ procs \in [Retainers -> {"empty", "live", "dying"}]
    /\ clones \in [Retainers -> 0 .. MaxClones]
    /\ polls \in [Retainers -> 0 .. MaxPolls]
    /\ killed \in [Retainers -> BOOLEAN]
    /\ cause \in [Retainers -> Errors \cup {None}]
    /\ outcome \in [Retainers -> Errors \cup {None, "cleaned"}]
    /\ handed \in SUBSET Retainers

\* A leaf in use: its handle is live, or its descriptor was handed out and
\* the directory still exists.
InUse(r) == r \in leaves /\ (pc[r] = "retained" \/ r \in handed)

\* No two leaves are ever in use under one delegated root: creating before the
\* exclusive look is enough of a lock, and a leaf whose owner died or is still
\* cleaning up keeps every other caller out.
OneRetainedLeaf == \A r, s \in Retainers : InUse(r) /\ InUse(s) => r = s

\* A call that reports anything but cleanup_incomplete has left no leaf
\* behind; the orchestrator counts on it when it says cleanup is not required.
NoSilentResidue ==
    \A r \in Retainers :
        pc[r] = "finished" /\ outcome[r] # "cleanup_incomplete" => r \notin leaves

\* A running call ends, even if the leaf never empties.
CallsEnd == \A r \in Retainers : pc[r] = "kill" ~> pc[r] \in {"finished", "dead"}
===============================================================================
