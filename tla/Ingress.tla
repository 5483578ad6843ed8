------------------------------- MODULE Ingress -------------------------------
(***************************************************************************)
(* ingress_claimed_evaluation_job (ingress.py).  Calls, concurrent or      *)
(* repeated, copy the job of a committed dispatch claim from the spool to  *)
(* the worker store.  The object's name is fixed by the claim, so calls    *)
(* for one claim meet at one name; renameat2 without replacement decides,  *)
(* and the others accept what they find if it is the same job.             *)
(*                                                                         *)
(* A system call may fail at any step (fault), a process may die and the   *)
(* host may lose power, when a rename that was not synchronised may be     *)
(* undone.  An object stands for its bytes: "object" is the claim's job,   *)
(* "foreign" is anything else that already has the name.                   *)
(***************************************************************************)
EXTENDS Naturals

CONSTANTS Calls, Claims, Retries

ASSUME IngressAssumption == Retries \in Nat

VARIABLES
    committed,  \* claims committed in the dispatch ledger
    spool,      \* claims whose job the spool holds, whole
    store,      \* per claim: what has the object's name in the worker store
    disk,       \* the part of store that survives a loss of power
    lost,       \* the host has lost power
    claim,      \* the claim each call was made with
    at,         \* where each call is, or how it ended
    tries,      \* retryable failures of its openat2
    staged,     \* it has a staging directory in the worker store
    fault       \* a system call has failed it

ingressVars ==
    <<committed, spool, store, disk, lost, claim, at, tries, staged, fault>>

world == <<committed, spool, lost, claim>>

Running == {"verify", "open", "stage", "publish", "sync", "check", "existing", "resync"}

Refusals == {"uncommitted_claim", "source_refused", "source_changed"}

Endings == Refusals \cup {"returned", "destination_conflict", "failed", "died"}

IngressInit ==
    /\ committed = {} /\ spool \in SUBSET Claims
    /\ store \in [Claims -> {"absent", "foreign"}]
    /\ disk = store /\ lost = FALSE
    /\ claim \in [Calls -> Claims]
    /\ at = [c \in Calls |-> "verify"]
    /\ tries = [c \in Calls |-> 0]
    /\ staged = [c \in Calls |-> FALSE]
    /\ fault = [c \in Calls |-> FALSE]

Go(c, place) == at' = [at EXCEPT ![c] = place]

\* _discard_staged_bundle removes the staging directory if no call fails it.
Discard(c) == staged' = [staged EXCEPT ![c] = FALSE] /\ UNCHANGED fault

DiscardFails(c) == fault' = [fault EXCEPT ![c] = TRUE] /\ UNCHANGED staged

\* The end of a call whose staging directory was not published.
EndUnpublished(c, how) == Go(c, how) /\ (Discard(c) \/ DiscardFails(c))

\* verify_committed_receipt, after the arguments and before any descriptor.
VerifyClaim(c) ==
    /\ at[c] = "verify"
    /\ Go(c, IF claim[c] \in committed THEN "open" ELSE "uncommitted_claim")
    /\ UNCHANGED <<world, store, disk, tries, staged, fault>>

\* openat2 answers EAGAIN, or EINTR while it may be tried again; after the last
\* try EINTR is a Fault.  The count stands for that of any one component.
OpenAgain(c) ==
    /\ at[c] = "open"
    /\ IF tries[c] < Retries
       THEN tries' = [tries EXCEPT ![c] = @ + 1] /\ UNCHANGED at
       ELSE Go(c, "source_changed") /\ UNCHANGED tries
    /\ UNCHANGED <<world, store, disk, staged, fault>>

\* _open_source_job seals the job's bytes, or refuses a source that is missing,
\* incomplete or not the claimed one.
OpenSource(c) ==
    /\ at[c] = "open"
    /\ Go(c, IF claim[c] \in spool THEN "stage" ELSE "source_refused")
    /\ UNCHANGED <<world, store, disk, tries, staged, fault>>

\* The sealed bytes are staged, synchronised and loaded back.
StageCopy(c) ==
    /\ at[c] = "stage"
    /\ staged' = [staged EXCEPT ![c] = TRUE]
    /\ Go(c, "publish")
    /\ UNCHANGED <<world, store, disk, tries, fault>>

\* Mutant: the name is taken from whoever has it.
RenameReplacing(c) ==
    /\ at[c] = "publish"
    /\ store' = [store EXCEPT ![claim[c]] = "object"]
    /\ staged' = [staged EXCEPT ![c] = FALSE]
    /\ Go(c, "sync")
    /\ UNCHANGED <<world, disk, tries, fault>>

\* Mutant: EEXIST is reported as a conflict without a look.
RenameNoRecovery(c) ==
    /\ at[c] = "publish"
    /\ \/ /\ store[claim[c]] = "absent"
          /\ store' = [store EXCEPT ![claim[c]] = "object"]
          /\ staged' = [staged EXCEPT ![c] = FALSE]
          /\ Go(c, "sync")
          /\ UNCHANGED fault
       \/ /\ store[claim[c]] # "absent"
          /\ EndUnpublished(c, "destination_conflict")
          /\ UNCHANGED store
    /\ UNCHANGED <<world, disk, tries>>

\* renameat2 with RENAME_NOREPLACE publishes the staging directory, or answers
\* EEXIST.
Rename(c) ==
    /\ at[c] = "publish"
    /\ \/ /\ store[claim[c]] = "absent"
          /\ store' = [store EXCEPT ![claim[c]] = "object"]
          /\ staged' = [staged EXCEPT ![c] = FALSE]
          /\ Go(c, "sync")
       \/ /\ store[claim[c]] # "absent"
          /\ Go(c, "existing")
          /\ UNCHANGED <<store, staged>>
    /\ UNCHANGED <<world, disk, tries, fault>>

\* _open_existing_worker_object compares what has the name with the source.
OpenExisting(c) ==
    /\ at[c] = "existing"
    /\ \/ /\ store[claim[c]] = "object" /\ Go(c, "resync")
          /\ UNCHANGED <<staged, fault>>
       \/ /\ store[claim[c]] # "object"
          /\ EndUnpublished(c, "destination_conflict")
    /\ UNCHANGED <<world, store, disk, tries>>

Synced == disk' = [k \in Claims |-> store[k]]

\* Mutant: an existing object is returned as it is found.
ReturnUnsynced(c) ==
    /\ at[c] = "resync"
    /\ EndUnpublished(c, "returned")
    /\ UNCHANGED <<world, store, disk, tries>>

\* The worker root is synchronised for an existing object, too: its publisher
\* may have died before it did so.
ReturnExisting(c) ==
    /\ at[c] = "resync"
    /\ Synced
    /\ EndUnpublished(c, "returned")
    /\ UNCHANGED <<world, store, tries>>

SyncRoot(c) ==
    /\ at[c] = "sync"
    /\ Synced
    /\ Go(c, "check")
    /\ UNCHANGED <<world, store, tries, staged, fault>>

\* The published tree is loaded once more through the retained descriptor.
ReturnPublished(c) ==
    /\ at[c] = "check"
    /\ Go(c, "returned")
    /\ UNCHANGED <<world, store, disk, tries, staged, fault>>

\* What a system call's failure is reported as: the ledger's as a claim that is
\* not committed, that of looking at an existing object as a conflict.
FaultEndings(place) ==
    {"failed"} \cup (IF place = "verify" THEN {"uncommitted_claim"} ELSE {})
               \cup (IF place = "existing" THEN {"destination_conflict"} ELSE {})

\* A system call fails the step the call is at.  A half-written staging
\* directory is discarded with the others, as far as that succeeds.
Fault(c) ==
    /\ at[c] \in Running
    /\ fault' = [fault EXCEPT ![c] = TRUE]
    /\ \E how \in FaultEndings(at[c]) : Go(c, how)
    /\ \/ staged' = [staged EXCEPT ![c] = FALSE]
       \/ at[c] = "stage" /\ staged' = [staged EXCEPT ![c] = TRUE]
       \/ UNCHANGED staged
    /\ UNCHANGED <<world, store, disk, tries>>

-----------------------------------------------------------------------------
(* The environment                                                         *)

\* A claim is committed by the dispatch ledger.
CommitClaim(k) ==
    /\ k \notin committed
    /\ committed' = committed \cup {k}
    /\ UNCHANGED <<spool, store, disk, lost, claim, at, tries, staged, fault>>

\* The spool's bundle is removed or altered.
SpoolBreaks(k) ==
    /\ k \in spool
    /\ spool' = spool \ {k}
    /\ UNCHANGED <<committed, store, disk, lost, claim, at, tries, staged, fault>>

\* The process dies and leaves its staging directory, complete or not.
CallDies(c) ==
    /\ at[c] \in Running
    /\ Go(c, "died")
    /\ UNCHANGED <<world, store, disk, tries, staged, fault>>

\* Power is lost once; calls not yet begun happen after it.
PowerLost ==
    /\ ~lost /\ lost' = TRUE
    /\ store' \in {s \in [Claims -> {"absent", "foreign", "object"}] :
                      \A k \in Claims : s[k] \in {disk[k], store[k]}}
    /\ disk' = store'
    /\ at' = [c \in Calls |->
                IF at[c] \in Running \ {"verify"} THEN "died" ELSE at[c]]
    /\ UNCHANGED <<committed, spool, claim, tries, staged, fault>>

\* The steps of one call that no system call fails.
CallStep(c) ==
    \/ VerifyClaim(c) \/ OpenSource(c) \/ OpenAgain(c) \/ StageCopy(c)
    \/ Rename(c) \/ OpenExisting(c) \/ ReturnExisting(c)
    \/ SyncRoot(c) \/ ReturnPublished(c)

IngressNext ==
    \/ \E c \in Calls : CallStep(c) \/ Fault(c) \/ CallDies(c)
    \/ \E k \in Claims : CommitClaim(k) \/ SpoolBreaks(k)
    \/ PowerLost

IngressSpec == IngressInit /\ [][IngressNext]_ingressVars

-----------------------------------------------------------------------------
(* Properties                                                              *)

\* Every variable has its type; the retries stay within their limit.
IngressTypeOK ==
    /\ committed \in SUBSET Claims /\ spool \in SUBSET Claims /\ lost \in BOOLEAN
    /\ store \in [Claims -> {"absent", "foreign", "object"}]
    /\ disk \in [Claims -> {"absent", "foreign", "object"}]
    /\ claim \in [Calls -> Claims]
    /\ at \in [Calls -> Running \cup Endings]
    /\ tries \in [Calls -> 0..Retries]
    /\ staged \in [Calls -> BOOLEAN]
    /\ fault \in [Calls -> BOOLEAN]

\* A receipt of ingress_claimed_evaluation_job is for a committed claim whose
\* job is in the worker store and survives a loss of power, also when the call
\* only found the object another call had published and not yet synchronised.
ReturnedIsDurable ==
    \A c \in Calls : at[c] = "returned" =>
        /\ claim[c] \in committed
        /\ store[claim[c]] = "object" /\ disk[claim[c]] = "object"

\* "The deterministic name makes retries idempotent": a call that no system
\* call failed returns the object, however earlier calls for the claim ended,
\* unless claim or source is refused or the name belongs to something else.
UndisturbedCallReturns ==
    \A c \in Calls : at[c] \in Endings \ {"died"} /\ ~fault[c] =>
        \/ at[c] \in Refusals \cup {"returned"}
        \/ at[c] = "destination_conflict" /\ store[claim[c]] = "foreign"

\* A call that ends, having published or lost the race, leaves no staging
\* directory behind unless a system call failed it.
StagingIsDiscarded ==
    \A c \in Calls : at[c] \in Endings \ {"died"} /\ ~fault[c] => ~staged[c]

\* "The implementation never removes or overwrites an existing target": only a
\* loss of power changes what has a name, and only an unsynchronised rename.
NeverReplaced ==
    [][\A k \in Claims : store[k] # "absent" /\ store'[k] # store[k] =>
          lost' # lost /\ store'[k] = disk[k]]_ingressVars
==============================================================================
