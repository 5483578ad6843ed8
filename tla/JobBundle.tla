------------------------------ MODULE JobBundle ------------------------------
(***************************************************************************)
(* Evaluation-job bundles on disk (job.py).  Writers publish a bundle, its *)
(* manifest and its blob store, under one target name; readers load what   *)
(* they find there.  Nobody takes a lock: the writer reserves the target   *)
(* by mkdir, moves the blob store in and then the manifest, the readiness  *)
(* marker.  Every call may fail, a writer may die, and the host may lose   *)
(* power, when entries that were not synchronised may or may not survive.  *)
(* Staging directories are private to their writers, and are not modelled. *)
(*                                                                         *)
(* A bundle is named by its writer: digests make its manifest and its blob *)
(* store recognisable, and nothing else about the bytes matters here.      *)
(***************************************************************************)
CONSTANTS Writers, Readers, None

ASSUME BundleAssumption == None \notin Writers

VARIABLES
    target,     \* what readers see under the target name
    durable,    \* the part of it that survives a loss of power
    powerLost,  \* the host has lost power
    writer,     \* where each writer is
    reader,     \* where each reader is
    read        \* the manifest and the blobs each reader has read

bundleVars == <<target, durable, powerLost, writer, reader, read>>

\* The target directory: whether it exists, whose blob store and manifest.
Target ==
    {t \in [dir : BOOLEAN, blobs : Writers \cup {None}, manifest : Writers \cup {None}] :
        ~t.dir => t.blobs = None /\ t.manifest = None}

Absent == [dir |-> FALSE, blobs |-> None, manifest |-> None]

Whole(w) == [dir |-> TRUE, blobs |-> w, manifest |-> w]

BundleInit ==
    /\ target = Absent /\ durable = Absent /\ powerLost = FALSE
    /\ writer = [w \in Writers |-> "new"]
    /\ reader = [r \in Readers |-> "new"]
    /\ read = [r \in Readers |-> [manifest |-> None, blobs |-> None]]

-----------------------------------------------------------------------------
(* write_evaluation_job_bundle                                             *)

WriterMoves(w, place) == writer' = [writer EXCEPT ![w] = place]

\* Any error: _discard_staged_bundle clears the staging directory as far as it
\* can, what has moved to the target stays there.
WriterFails(w) ==
    /\ writer[w] \notin {"new", "failed", "receipt", "dead"}
    /\ WriterMoves(w, "failed")
    /\ UNCHANGED <<target, durable, powerLost, reader, read>>

\* Manifest, blobs and parent directory are in order or not, and
\* _entry_exists_at finds no target yet.
Begin(w) ==
    /\ writer[w] = "new"
    /\ \/ ~target.dir /\ WriterMoves(w, "staging")
       \/ WriterMoves(w, "failed")
    /\ UNCHANGED <<target, durable, powerLost, reader, read>>

\* The complete tree is written, synchronised and loaded back.
Stage(w) ==
    /\ writer[w] = "staging"
    /\ WriterMoves(w, "reserving")
    /\ UNCHANGED <<target, durable, powerLost, reader, read>>

\* mkdir of the target fails when it exists; WriterFails is that case.
Reserve(w) ==
    /\ writer[w] = "reserving"
    /\ ~target.dir
    /\ target' = [target EXCEPT !.dir = TRUE]
    /\ WriterMoves(w, "blobs")
    /\ UNCHANGED <<durable, powerLost, reader, read>>

\* Mutant: the manifest moves first.
MoveManifestFirst(w) ==
    /\ writer[w] = "blobs"
    /\ target' = [target EXCEPT !.manifest = w]
    /\ WriterMoves(w, "manifest")
    /\ UNCHANGED <<durable, powerLost, reader, read>>

MoveBlobs(w) ==
    /\ writer[w] = "blobs"
    /\ target' = [target EXCEPT !.blobs = w]
    /\ WriterMoves(w, "manifest")
    /\ UNCHANGED <<durable, powerLost, reader, read>>

MoveManifest(w) ==
    /\ writer[w] = "manifest"
    /\ target' = [target EXCEPT !.manifest = w]
    /\ WriterMoves(w, "syncing")
    /\ UNCHANGED <<durable, powerLost, reader, read>>

\* Mutant: the renames are not synchronised.
SyncNothing(w) ==
    /\ writer[w] = "syncing"
    /\ WriterMoves(w, "verifying")
    /\ UNCHANGED <<target, durable, powerLost, reader, read>>

\* fsync of the target, then of its parent; WriterFails is a failing one.
SyncTarget(w) ==
    /\ writer[w] = "syncing"
    /\ durable' = target
    /\ WriterMoves(w, "verifying")
    /\ UNCHANGED <<target, powerLost, reader, read>>

\* The published bundle is loaded again and the receipt returned.
Finish(w) ==
    /\ writer[w] = "verifying"
    /\ target = Whole(w)
    /\ WriterMoves(w, "receipt")
    /\ UNCHANGED <<target, durable, powerLost, reader, read>>

-----------------------------------------------------------------------------
(* load_evaluation_job_bundle, in the order of its reads                   *)

ReaderMoves(r, place) == reader' = [reader EXCEPT ![r] = place]

ReaderFails(r) ==
    /\ reader[r] \notin {"failed", "loaded", "dead"}
    /\ ReaderMoves(r, "failed")
    /\ UNCHANGED <<target, durable, powerLost, writer, read>>

ReadManifest(r) ==
    /\ reader[r] = "new"
    /\ target.manifest # None
    /\ read' = [read EXCEPT ![r].manifest = target.manifest]
    /\ ReaderMoves(r, "blobs")
    /\ UNCHANGED <<target, durable, powerLost, writer>>

\* Mutant: digests are not compared with the manifest's.
ReadBlobsUnchecked(r) ==
    /\ reader[r] = "blobs"
    /\ read' = [read EXCEPT ![r].blobs = target.blobs]
    /\ ReaderMoves(r, "loaded")
    /\ UNCHANGED <<target, durable, powerLost, writer>>

\* The directories hold exactly what the manifest lists, before and after the
\* blobs were read, and every digest is the manifest's.
ReadBlobs(r) ==
    /\ reader[r] = "blobs"
    /\ target.manifest # None
    /\ target.blobs = read[r].manifest
    /\ read' = [read EXCEPT ![r].blobs = target.blobs]
    /\ ReaderMoves(r, "loaded")
    /\ UNCHANGED <<target, durable, powerLost, writer>>

-----------------------------------------------------------------------------
(* The environment                                                         *)

\* A writer's process dies; a staging directory stays behind.
Die(w) ==
    /\ writer[w] \notin {"new", "failed", "receipt", "dead"}
    /\ WriterMoves(w, "dead")
    /\ UNCHANGED <<target, durable, powerLost, reader, read>>

\* What may be left of the target: each entry is the synchronised one or the
\* present one, in any combination.
Survivors ==
    {t \in Target :
        /\ t.dir \in {durable.dir, target.dir}
        /\ t.dir => /\ t.blobs \in {durable.blobs, target.blobs}
                    /\ t.manifest \in {durable.manifest, target.manifest}}

\* Power is lost once; calls not yet begun happen after it.
LosePower ==
    /\ ~powerLost /\ powerLost' = TRUE
    /\ target' \in Survivors /\ durable' = target'
    /\ writer' = [w \in Writers |->
         IF writer[w] \in {"new", "failed", "receipt"} THEN writer[w] ELSE "dead"]
    /\ reader' = [r \in Readers |->
         IF reader[r] \in {"new", "failed", "loaded"} THEN reader[r] ELSE "dead"]
    /\ UNCHANGED read

Write(w) ==
    \/ Begin(w) \/ Stage(w) \/ Reserve(w) \/ MoveBlobs(w) \/ MoveManifest(w)
    \/ SyncTarget(w) \/ Finish(w) \/ WriterFails(w)

Load(r) == ReadManifest(r) \/ ReadBlobs(r) \/ ReaderFails(r)

BundleNext ==
    \/ \E w \in Writers : Write(w) \/ Die(w)
    \/ \E r \in Readers : Load(r)
    \/ LosePower

BundleSpec == BundleInit /\ [][BundleNext]_bundleVars

-----------------------------------------------------------------------------
(* Properties                                                              *)

\* Every variable has its type.
BundleTypeOK ==
    /\ target \in Target /\ durable \in Target /\ powerLost \in BOOLEAN
    /\ writer \in [Writers -> {"new", "staging", "reserving", "blobs", "manifest",
                               "syncing", "verifying", "receipt", "failed", "dead"}]
    /\ reader \in [Readers -> {"new", "blobs", "loaded", "failed", "dead"}]
    /\ read \in [Readers -> [manifest : Writers \cup {None},
                             blobs : Writers \cup {None}]]

\* "The manifest is the readiness marker": while power lasts, a manifest under
\* the target name stands beside the blob store of the same bundle, whichever
\* writers race, fail or die in _publish_staged_bundle.
ReadyMeansWhole ==
    ~powerLost /\ target.manifest # None => target.blobs = target.manifest

\* A load that succeeds has one bundle's manifest and that bundle's blobs, also
\* when it overlaps a publication and after a loss of power.
LoadedIsOneBundle ==
    \A r \in Readers : reader[r] = "loaded" =>
        read[r].manifest # None /\ read[r].blobs = read[r].manifest

\* Once write_evaluation_job_bundle has returned its receipt, the whole bundle
\* is under the target name and stays there, through a loss of power and
\* whatever other writers of the same target do.
ReceiptIsDurable ==
    \A w \in Writers : writer[w] = "receipt" => target = Whole(w) /\ durable = Whole(w)
==============================================================================
