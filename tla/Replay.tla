------------------------------- MODULE Replay -------------------------------
(***************************************************************************)
(* Write-once replay bundles: write_replay, verify_replay and              *)
(* rescore_replay of bpe.replay.                                           *)
(*                                                                         *)
(* A writer reserves the target with mkdir, fills it through the pinned    *)
(* descriptor, verifies the result the way any reader would and rolls back *)
(* what it made when anything fails.  Each writer makes one call and so at *)
(* most one directory: a directory (an inode) is named by the writer that  *)
(* made it.  An entry of a directory is there or not; what it holds is     *)
(* part of its writer's submission unless the entry is in damaged.  The    *)
(* artifact store, with its two directories and its files, is one entry.   *)
(* SHA-256 does not collide, so the name of a submission stands for the    *)
(* digest of the manifest that describes it.                               *)
(***************************************************************************)
EXTENDS Grading

CONSTANTS
  Writers,      \* calls of write_replay
  Readers,      \* calls of verify_replay or rescore_replay
  RecordFiles,  \* the JSON files other than the manifest, in writing order
  Paths,        \* run directories a call may name
  Offered,      \* writer -> the submissions its caller may bring
  Contract,     \* the scoring contract
  Policy,       \* the reward policy the grades use
  NewPolicies   \* policies rescore_replay is asked to apply; NoValue stands
                \* for a call of verify_replay

ASSUME ReplayAssumption ==
  RecordFiles \in Seq(STRING) /\ NoValue \notin Writers

\* The orders in which _write_replay_tree creates the entries of a replay, in
\* which _discard_owned_replay_tree removes them, and in which _inspect_replay
\* reads them once it has the manifest.
WriteOrder == <<"artifacts">> \o RecordFiles \o <<"manifest">>
DiscardOrder == RecordFiles \o <<"manifest", "artifacts">>
ReadOrder == RecordFiles \o <<"artifacts">>
Names == {WriteOrder[j] : j \in DOMAIN WriteOrder}

Callers == Writers \cup Readers

VARIABLES
  parent,    \* the parent directory: absent, fresh (made, not synced), durable
  at,        \* path -> the directory it names
  tree,      \* directory -> the entries it holds
  durAt,     \* the same two as a power loss would find them
  durTree,
  removed,   \* directories rmdir has removed: nothing can be made in them
  damaged,   \* <<directory, entry>> cut short by a crash or altered on disk
  writer,    \* each writer's control state and locals
  insp,      \* each caller's inspection: control state and locals
  disturbed, \* history: directories somebody else moved or altered
  powerLost, \* history: the machine has lost power
  report     \* what the consumer of the replays has published (Evaluation)

disk == <<parent, at, tree, durAt, durTree, removed, damaged>>
history == <<disturbed, powerLost, report>>
vars == <<disk, writer, insp, history>>

NoInspection ==
  [pc |-> "idle", path |-> NoValue, expect |-> NoValue, root |-> NoValue,
   meta |-> {}, n |-> 1, seen |-> {}, valid |-> FALSE, policy |-> NoValue]

Init ==
  /\ parent \in {"absent", "durable"}
  /\ at = [p \in Paths |-> NoValue]
  /\ tree = [w \in Writers |-> {}]
  /\ durAt = at
  /\ durTree = tree
  /\ removed = {}
  /\ damaged = {}
  /\ writer = [w \in Writers |->
                 [pc |-> "idle", path |-> NoValue, sub |-> NoValue, n |-> 1]]
  /\ insp = [i \in Callers |-> NoInspection]
  /\ disturbed = {}
  /\ powerLost = FALSE
  /\ report = NoValue

-----------------------------------------------------------------------------
(* write_replay                                                            *)

\* The submissions whose parts pass their validators and whose grade is the
\* score of their evidence.
WellGraded ==
  {s \in DOMAIN Submission :
     /\ Scorable(EvidenceOf[s].stages, Contract, Policy)
     /\ GradeOf[s] = Score(EvidenceOf[s], Policy)}

Goto(w, pc) == writer' = [writer EXCEPT ![w].pc = pc, ![w].n = 1]

\* The model validations, the comparison of the grade with score_evidence,
\* and target.parent.mkdir(parents=True), whose result nobody syncs.
Begin(w) ==
  /\ writer[w].pc = "idle"
  /\ \E p \in Paths, s \in Offered[w] :
       LET accepted == s \in WellGraded
       IN  /\ writer' = [writer EXCEPT ![w] =
                [pc |-> IF accepted THEN "look" ELSE "failed",
                 path |-> p, sub |-> s, n |-> 1]]
           /\ parent' = IF accepted /\ parent = "absent" THEN "fresh" ELSE parent
  /\ UNCHANGED <<at, tree, durAt, durTree, removed, damaged, insp, history>>

\* _open_writer_parent and the stat of the target.
Look(w) ==
  /\ writer[w].pc = "look"
  /\ Goto(w, IF at[writer[w].path] = NoValue THEN "reserve" ELSE "failed")
  /\ UNCHANGED <<disk, insp, history>>

\* _reserve_replay_target: mkdir decides who owns the name.  A directory that
\* cannot be opened is removed again by name; one that fails a later check is
\* discarded while it is empty (Raise).
Reserve(w) ==
  /\ writer[w].pc = "reserve"
  /\ IF at[writer[w].path] = NoValue
       THEN /\ \E pc \in {"write", "rmdir"} : Goto(w, pc)
            /\ at' = [at EXCEPT ![writer[w].path] = w]
       ELSE Goto(w, "failed") /\ UNCHANGED at
  /\ UNCHANGED <<parent, tree, durAt, durTree, removed, damaged, insp, history>>

Entry(w) == WriteOrder[writer[w].n]

Wrote(w) ==
  writer' = [writer EXCEPT
    ![w].n = @ + 1,
    ![w].pc = IF writer[w].n = Len(WriteOrder) THEN "sync" ELSE "write"]

\* _create_directory_at, twice, and the files of the store.  The root is not
\* synced after the store is made in it.
MakeStore(w) ==
  /\ writer[w].pc = "write" /\ Entry(w) = "artifacts"
  /\ w \notin removed
  /\ tree' = [tree EXCEPT ![w] = @ \cup {"artifacts"}]
  /\ Wrote(w)
  /\ UNCHANGED <<parent, at, durAt, durTree, removed, damaged, insp, history>>

\* _write_file_at: O_EXCL create, write, fsync, read back, fsync of the root.
WriteFile(w) ==
  /\ writer[w].pc = "write" /\ Entry(w) # "artifacts"
  /\ w \notin removed
  /\ tree' = [tree EXCEPT ![w] = @ \cup {Entry(w)}]
  /\ durTree' = [durTree EXCEPT ![w] = tree'[w]]
  /\ Wrote(w)
  /\ UNCHANGED <<parent, at, durAt, removed, damaged, insp, history>>

\* Mutant: the parent directory is not synced.
SyncParentSkipped(w) ==
  /\ writer[w].pc = "sync"
  /\ LET named == at[writer[w].path] = w
     IN  /\ Goto(w, IF named THEN "verify" ELSE "discard")
         /\ insp' = IF named
                      THEN [insp EXCEPT ![w] = [NoInspection EXCEPT
                              !.pc = "open", !.path = writer[w].path,
                              !.expect = writer[w].sub]]
                      ELSE insp
  /\ UNCHANGED <<disk, history>>

\* fsync of the parent, _require_writer_parent and _recheck_directory, then
\* _inspect_replay is called with the writer's own digest.
SyncParent(w) ==
  /\ writer[w].pc = "sync"
  /\ durAt' = [durAt EXCEPT ![writer[w].path] = at[writer[w].path]]
  /\ LET named == at[writer[w].path] = w
     IN  /\ Goto(w, IF named THEN "verify" ELSE "discard")
         /\ insp' = IF named
                      THEN [insp EXCEPT ![w] = [NoInspection EXCEPT
                              !.pc = "open", !.path = writer[w].path,
                              !.expect = writer[w].sub]]
                      ELSE insp
  /\ UNCHANGED <<parent, at, tree, durTree, removed, damaged, history>>

\* The verdict of the self-verification.
Verified(w) ==
  /\ writer[w].pc = "verify"
  /\ insp[w].pc = "done"
  /\ Goto(w, IF insp[w].valid THEN "recheck" ELSE "discard")
  /\ insp' = [insp EXCEPT ![w] = NoInspection]
  /\ UNCHANGED <<disk, history>>

\* _recheck_written_tree and the second _recheck_directory.
Publish(w) ==
  /\ writer[w].pc = "recheck"
  /\ Goto(w, IF tree[w] = Names /\ at[writer[w].path] = w
               THEN "returned" ELSE "discard")
  /\ UNCHANGED <<disk, insp, history>>

\* A system call fails: write_replay raises, after rolling back if it had
\* reserved the target.
Raise(w) ==
  \/ /\ writer[w].pc \in {"look", "reserve"}
     /\ Goto(w, "failed")
     /\ UNCHANGED <<disk, insp, history>>
  \/ /\ writer[w].pc \in {"write", "sync", "recheck"}
     /\ Goto(w, "discard")
     /\ UNCHANGED <<disk, insp, history>>

\* Mutant: the artifact store is left out of the rollback.
DiscardEntryNoStore(w) ==
  /\ writer[w].pc = "discard"
  /\ LET left == {j \in 1..(Len(DiscardOrder) - 1) : DiscardOrder[j] \in tree[w]}
     IN  IF left = {}
           THEN /\ Goto(w, IF at[writer[w].path] = w THEN "rmdir" ELSE "failed")
                /\ UNCHANGED tree
           ELSE /\ tree' = [tree EXCEPT ![w] = @ \ {DiscardOrder[Min(left)]}]
                /\ UNCHANGED writer
  /\ UNCHANGED <<parent, at, durAt, durTree, removed, damaged, insp, history>>

\* _discard_owned_replay_tree, one _unlink_if_recorded at a time, through the
\* pinned root; then the stat of _rmdir_if_pinned.  No removal is synced.
DiscardEntry(w) ==
  /\ writer[w].pc = "discard"
  /\ LET left == {j \in DOMAIN DiscardOrder : DiscardOrder[j] \in tree[w]}
     IN  IF left = {}
           THEN /\ Goto(w, IF at[writer[w].path] = w THEN "rmdir" ELSE "failed")
                /\ UNCHANGED tree
           ELSE /\ tree' = [tree EXCEPT ![w] = @ \ {DiscardOrder[Min(left)]}]
                /\ UNCHANGED writer
  /\ UNCHANGED <<parent, at, durAt, durTree, removed, damaged, insp, history>>

\* The rollback is best effort: a removal that fails is passed over, and with
\* an entry left in it the directory stays.
DiscardFails(w) ==
  /\ writer[w].pc = "discard"
  /\ \E kept \in (SUBSET tree[w]) \ {{}} : tree' = [tree EXCEPT ![w] = kept]
  /\ Goto(w, "residue")
  /\ UNCHANGED <<parent, at, durAt, durTree, removed, damaged, insp, history>>

\* The rmdir of _rmdir_if_pinned takes a name: by now the name may be another
\* writer's directory, which it removes only if that is still empty.
RemoveTarget(w) ==
  /\ writer[w].pc = "rmdir"
  /\ LET found == at[writer[w].path]
     IN  IF found # NoValue /\ tree[found] = {}
           THEN /\ at' = [at EXCEPT ![writer[w].path] = NoValue]
                /\ removed' = removed \cup {found}
           ELSE UNCHANGED <<at, removed>>
  /\ Goto(w, "failed")
  /\ UNCHANGED <<parent, tree, durAt, durTree, damaged, insp, history>>

-----------------------------------------------------------------------------
(* _inspect_replay, called by verify_replay, by rescore_replay and by a    *)
(* writer that verifies itself                                             *)

Invalid(i) == insp' = [insp EXCEPT ![i] = [NoInspection EXCEPT !.pc = "done"]]

\* verify_replay, or rescore_replay when a policy is given.  An expected digest
\* is one some receipt carried.
Verify(i) ==
  /\ insp[i].pc = "idle"
  /\ \E p \in Paths,
       d \in {NoValue} \cup {writer[w].sub : w \in {v \in Writers : writer[v].pc = "returned"}},
       q \in NewPolicies :
       insp' = [insp EXCEPT ![i] = [NoInspection EXCEPT
                  !.pc = "open", !.path = p, !.expect = d, !.policy = q]]
  /\ UNCHANGED <<disk, writer, history>>

\* _open_root pins the directory and keeps its metadata; an entry added or
\* removed changes them.
OpenRoot(i) ==
  /\ insp[i].pc = "open"
  /\ LET root == at[insp[i].path]
     IN  IF root = NoValue
           THEN Invalid(i)
           ELSE insp' = [insp EXCEPT ![i].pc = "manifest", ![i].root = root,
                                     ![i].meta = tree[root]]
  /\ UNCHANGED <<disk, writer, history>>

\* An entry that is there and whole; a damaged one fails its parse or the
\* comparison with the manifest's digest.
Intact(root, name) == name \in tree[root] /\ <<root, name>> \notin damaged

\* What an inspection has read: from which directory, what, and whether whole.
Read(root, name) == <<root, name, Intact(root, name)>>

\* _read_file_at for the manifest, its digest and its parse.
ReadManifest(i) ==
  /\ insp[i].pc = "manifest"
  /\ IF Intact(insp[i].root, "manifest")
       THEN insp' = [insp EXCEPT ![i].pc = "list",
                                 ![i].seen = {Read(insp[i].root, "manifest")}]
       ELSE Invalid(i)
  /\ UNCHANGED <<disk, writer, history>>

\* _directory_entries: the tree is closed.
ListEntries(i) ==
  /\ insp[i].pc = "list"
  /\ IF tree[insp[i].root] = Names
       THEN insp' = [insp EXCEPT ![i].pc = "read"]
       ELSE Invalid(i)
  /\ UNCHANGED <<disk, writer, history>>

\* Mutant: a file is not compared with the digest the manifest gives.
ReadEntryUncompared(i) ==
  /\ insp[i].pc = "read"
  /\ LET name == ReadOrder[insp[i].n]
     IN  IF name \in tree[insp[i].root]
           THEN insp' = [insp EXCEPT
                  ![i].pc = IF insp[i].n = Len(ReadOrder) THEN "recheck" ELSE "read",
                  ![i].n = @ + 1,
                  ![i].seen = @ \cup {Read(insp[i].root, name)}]
           ELSE Invalid(i)
  /\ UNCHANGED <<disk, writer, history>>

\* _read_file_at, _parse_canonical_model and _require_ref for one entry.
ReadEntry(i) ==
  /\ insp[i].pc = "read"
  /\ LET name == ReadOrder[insp[i].n]
     IN  IF Intact(insp[i].root, name)
           THEN insp' = [insp EXCEPT
                  ![i].pc = IF insp[i].n = Len(ReadOrder) THEN "recheck" ELSE "read",
                  ![i].n = @ + 1,
                  ![i].seen = @ \cup {Read(insp[i].root, name)}]
           ELSE Invalid(i)
  /\ UNCHANGED <<disk, writer, history>>

\* _recheck_file, _recheck_directory and _recheck_root: the pinned directory
\* still has its name, and nothing in it has changed since it was opened or read.
Unchanged(i) ==
  /\ at[insp[i].path] = insp[i].root
  /\ tree[insp[i].root] = insp[i].meta
  /\ \A x \in insp[i].seen : Read(x[1], x[2]) = x

\* The second enumeration, the rechecks, the trust anchor and the rescore.
Recheck(i) ==
  /\ insp[i].pc = "recheck"
  /\ LET sub == writer[insp[i].root].sub
         valid == /\ tree[insp[i].root] = Names
                  /\ Unchanged(i)
                  /\ insp[i].expect \in {NoValue, sub}
                  /\ sub \in WellGraded
     IN  insp' = [insp EXCEPT ![i].pc = "done", ![i].valid = valid,
           ![i].meta = {}, ![i].n = 1]
  /\ UNCHANGED <<disk, writer, history>>

\* What rescore_replay returns for a valid replay: the sealed evidence under the
\* policy it was given.
Rescored(i) == Score(EvidenceOf[writer[insp[i].root].sub], insp[i].policy)

\* A system call of the inspection fails, or metadata changed under it.
InspectionFails(i) ==
  /\ insp[i].pc \notin {"idle", "done"}
  /\ Invalid(i)
  /\ UNCHANGED <<disk, writer, history>>

-----------------------------------------------------------------------------
(* Faults                                                                  *)

\* An inspection still running when its process dies reports nothing.
Stop(i) == IF insp[i].pc \in {"idle", "done"} THEN insp[i]
           ELSE [NoInspection EXCEPT !.pc = "done"]

\* A writer dies; a file it was writing may be left cut short.
Crash(w) ==
  /\ writer[w].pc \notin {"idle", "returned", "failed", "residue", "dead"}
  /\ Goto(w, "dead")
  /\ insp' = [insp EXCEPT ![w] = Stop(w)]
  /\ \/ UNCHANGED <<tree, damaged>>
     \/ /\ writer[w].pc = "write"
        /\ w \notin removed
        /\ tree' = [tree EXCEPT ![w] = @ \cup {Entry(w)}]
        /\ damaged' = damaged \cup {<<w, Entry(w)>>}
  /\ UNCHANGED <<parent, at, durAt, durTree, removed, history>>

\* Power fails once.  A directory, one block on disk, is found as it was last
\* synced or as it was last seen, and an unsynced parent may be gone.
PowerLoss ==
  /\ ~powerLost
  /\ powerLost' = TRUE
  /\ \E old \in SUBSET Writers :
       tree' = [w \in Writers |-> IF w \in old THEN durTree[w] ELSE tree[w]]
  /\ \/ /\ parent = "fresh"
        /\ parent' = "absent"
        /\ at' = [p \in Paths |-> NoValue]
     \/ /\ parent' = IF parent = "fresh" THEN "durable" ELSE parent
        /\ at' \in {at, durAt}
  /\ durTree' = tree'
  /\ durAt' = at'
  /\ writer' = [w \in Writers |->
       [writer[w] EXCEPT !.pc = IF @ \in {"idle", "returned", "failed", "residue"} THEN @ ELSE "dead"]]
  /\ insp' = [i \in Callers |-> Stop(i)]
  /\ UNCHANGED <<removed, damaged, disturbed, report>>

\* Somebody moves a run directory away.
MoveAway(p) ==
  /\ disturbed = {}
  /\ at[p] # NoValue
  /\ disturbed' = {at[p]}
  /\ at' = [at EXCEPT ![p] = NoValue]
  /\ durAt' = [durAt EXCEPT ![p] = NoValue]
  /\ UNCHANGED <<parent, tree, durTree, removed, damaged, writer, insp, powerLost, report>>

\* An entry of a stored replay is altered.
Alter(w, name) ==
  /\ disturbed = {}
  /\ writer[w].pc = "returned"
  /\ Intact(w, name)
  /\ disturbed' = {w}
  /\ damaged' = damaged \cup {<<w, name>>}
  /\ UNCHANGED <<parent, at, tree, durAt, durTree, removed, writer, insp, powerLost, report>>

WriterStep(w) ==
  \/ Begin(w) \/ Look(w) \/ Reserve(w) \/ MakeStore(w) \/ WriteFile(w)
  \/ SyncParent(w) \/ Verified(w) \/ Publish(w) \/ Raise(w) \/ DiscardEntry(w) \/ DiscardFails(w)
  \/ RemoveTarget(w) \/ Crash(w)

InspectionStep(i) ==
  \/ OpenRoot(i) \/ ReadManifest(i) \/ ListEntries(i) \/ ReadEntry(i)
  \/ Recheck(i) \/ InspectionFails(i)

Next ==
  \/ \E w \in Writers : WriterStep(w)
  \/ \E i \in Readers : Verify(i)
  \/ \E i \in Callers : InspectionStep(i)
  \/ PowerLoss
  \/ \E p \in Paths : MoveAway(p)
  \/ \E w \in Writers, name \in Names : Alter(w, name)

Spec == Init /\ [][Next]_vars

-----------------------------------------------------------------------------
(* Properties                                                              *)

\* A verdict of valid is about one whole bundle: everything was read, intact,
\* from the directory of a single writer, the stored grade is the score of the
\* stored evidence, an expected digest is that bundle's, and rescoring under
\* another policy changes the reward and nothing else.  _inspect_replay reads
\* file by file while writers, rollbacks and power losses change the tree.
VerifiedIsWhole ==
  \A i \in Callers : insp[i].valid =>
    \E w \in Writers :
      LET sub == writer[w].sub
      IN  /\ insp[i].seen = {w} \X Names \X {TRUE}
          /\ insp[i].expect \in {NoValue, sub}
          /\ GradeOf[sub] = Score(EvidenceOf[sub], Policy)
          /\ insp[i].policy # NoValue =>
               LET regrade == Rescored(i)
               IN  \A f \in {"of", "comparable", "success", "first", "outcomes"} :
                     regrade[f] = GradeOf[sub][f]

\* A receipt is for good: once write_replay has returned it, the bundle is at
\* its path, whole, and a power loss leaves it there, whatever other writers
\* and their rollbacks do.  The promise needs a parent directory that was
\* durable when the call began, and nobody moving or altering the bundle.
SealedStays ==
  \A w \in Writers :
    writer[w].pc = "returned" /\ w \notin disturbed /\ parent = "durable" =>
      /\ at[writer[w].path] = w
      /\ tree[w] = Names
      /\ \A name \in Names : Intact(w, name)

\* A call that raised leaves nothing of its own behind, so the target can be
\* written again: unless a removal fails, the rollback finds every entry the
\* call recorded.  Only a directory moved away under the call, or a power loss
\* that undoes removals nobody synced, escapes it.
FailedLeavesNothing ==
  \A w \in Writers :
    writer[w].pc = "failed" /\ ~powerLost /\ w \notin disturbed =>
      tree[w] = {} /\ \A p \in Paths : at[p] # w
=============================================================================
