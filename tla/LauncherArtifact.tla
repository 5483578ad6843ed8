--------------------------- MODULE LauncherArtifact ---------------------------
(***************************************************************************)
(* preflight_inert_launcher_artifact (inert_artifact.py): each controller  *)
(* duplicates the descriptor of the launcher file, reads it between two    *)
(* looks at its metadata, compares the digest, checks the bytes, and keeps *)
(* a sealed copy in memory, of which only a read-only descriptor remains.  *)
(*                                                                         *)
(* The file is shared and may be rewritten at any time.  It is read in     *)
(* Chunks pieces, each of which holds the expected bytes or others, so a   *)
(* read may be torn.  A rewrite may leave the timestamps as they were:     *)
(* their grain is coarser than a write.  What the bytes with the expected  *)
(* digest are is left open: any of Images.                                 *)
(***************************************************************************)
EXTENDS ElfShape

CONSTANTS
    Controllers,    \* the processes
    Images,         \* what the bytes with the expected digest may be
    Chunks,         \* pieces of at most ARTIFACT_READ_CHUNK_BYTES
    MaxRewrites     \* how often the file is rewritten

ASSUME ArtifactAssumption ==
    /\ Chunks \in Nat \ {0} /\ MaxRewrites \in Nat

ASSUME ImagesAssumption == \A image \in Images : ImageFields(image)

VARIABLES
    file,       \* for each chunk of the file: the expected bytes or others
    stamp,      \* its metadata: size and timestamps
    rewrites,   \* number of rewrites so far
    step,       \* where each controller's preflight is
    binding,    \* the metadata it bound the source to
    content,    \* the chunks it has read
    fds,        \* the descriptors it has open
    copy,       \* the bytes of its sealed copy
    unsound     \* controllers whose copy does not load as LoadsSafely says

artifactVars == <<file, stamp, rewrites, step, binding, content, fds, copy,
                  unsound>>

\* What a chunk may hold.
Bytes == {"expected", "other"}

ArtifactInit ==
    /\ file = [i \in 1 .. Chunks |-> "expected"]
    /\ stamp = 0 /\ rewrites = 0
    /\ step = [c \in Controllers |-> "idle"]
    /\ binding = [c \in Controllers |-> 0]
    /\ content = [c \in Controllers |-> <<>>]
    /\ fds = [c \in Controllers |-> {}]
    /\ copy = [c \in Controllers |-> <<>>]
    /\ unsound = {}

\* Anybody who may write the file.
RewriteSource ==
    /\ rewrites < MaxRewrites
    /\ rewrites' = rewrites + 1
    /\ file' \in [1 .. Chunks -> Bytes]
    /\ stamp' \in {stamp, stamp + 1}
    /\ UNCHANGED <<step, binding, content, fds, copy, unsound>>

Advance(c, to) == step' = [step EXCEPT ![c] = to]

\* The local variables and the copy are gone.
Forget(c) ==
    /\ binding' = [binding EXCEPT ![c] = 0]
    /\ content' = [content EXCEPT ![c] = <<>>]
    /\ copy' = [copy EXCEPT ![c] = <<>>]
    /\ unsound' = unsound \ {c}

\* An exception: both finally blocks close whatever is open.
GiveUp(c) ==
    /\ Advance(c, "failed")
    /\ fds' = [fds EXCEPT ![c] = {}]
    /\ Forget(c)
    /\ UNCHANGED <<file, stamp, rewrites>>

\* _duplicate_source_fd.
DuplicateSource(c) ==
    /\ step[c] = "source"
    /\ Advance(c, "stat")
    /\ fds' = [fds EXCEPT ![c] = {"source"}]
    /\ binding' = [binding EXCEPT ![c] = stamp]
    /\ UNCHANGED <<file, stamp, rewrites, content, copy, unsound>>

\* The look at the metadata before the first read.
StatBeforeRead(c) ==
    /\ step[c] = "stat" /\ stamp = binding[c]
    /\ Advance(c, "read")
    /\ UNCHANGED <<file, stamp, rewrites, binding, content, fds, copy, unsound>>

\* One os.pread.
ReadChunk(c) ==
    /\ step[c] = "read" /\ Len(content[c]) < Chunks
    /\ content' = [content EXCEPT ![c] = Append(@, file[Len(@) + 1])]
    /\ UNCHANGED <<file, stamp, rewrites, step, binding, fds, copy, unsound>>

\* The look at the metadata after the last read.
StatAfterRead(c) ==
    /\ step[c] = "read" /\ Len(content[c]) = Chunks
    /\ stamp = binding[c]
    /\ Advance(c, "check")
    /\ UNCHANGED <<file, stamp, rewrites, binding, content, fds, copy, unsound>>

\* The bytes that were expected, whole.
Expected(bytes) ==
    Len(bytes) = Chunks /\ \A i \in 1 .. Chunks : bytes[i] = "expected"

\* A hash of the first chunk only.
FirstChunkMatches(bytes) == bytes # <<>> /\ bytes[1] = "expected"

\* The digest is the expected one for the expected bytes alone.
DigestMatches(bytes) == Expected(bytes)

AcceptedImages == {image \in Images : ArtifactAccepted(image)}
UnsafeImages == {image \in AcceptedImages : ~LoadsSafely(image)}

\* The digest, then the checks on the bytes that have it.
CheckContent(c) ==
    /\ step[c] = "check" /\ DigestMatches(content[c])
    /\ \E image \in AcceptedImages :
          unsound' = IF image \in UnsafeImages THEN unsound \cup {c} ELSE unsound
    /\ Advance(c, "copy")
    /\ UNCHANGED <<file, stamp, rewrites, binding, content, fds, copy>>

\* _create_sealed_exec_copy: a memory file is created, written and sealed.
WriteAndSeal(c) ==
    /\ step[c] = "copy"
    /\ Advance(c, "reopen")
    /\ fds' = [fds EXCEPT ![c] = @ \cup {"writable"}]
    /\ copy' = [copy EXCEPT ![c] = content[c]]
    /\ UNCHANGED <<file, stamp, rewrites, binding, content, unsound>>

\* It is opened again through procfs, read-only.
ReopenReadOnly(c) ==
    /\ step[c] = "reopen"
    /\ Advance(c, "retain")
    /\ fds' = [fds EXCEPT ![c] = @ \cup {"procfd", "sealed"}]
    /\ UNCHANGED <<file, stamp, rewrites, binding, content, copy, unsound>>

\* _validate_sealed_exec_fd with rehash: the copy has the digest, too.
SealedIsExact(c) == DigestMatches(copy[c])

\* The writable descriptor is closed, the copy is validated, the receipt is
\* built, and on the way out the other descriptors are closed.
RetainSealed(c) ==
    /\ step[c] = "retain" /\ SealedIsExact(c)
    /\ Advance(c, "ready")
    /\ fds' = [fds EXCEPT ![c] = @ \ {"writable", "procfd", "source"}]
    /\ binding' = [binding EXCEPT ![c] = 0]
    /\ content' = [content EXCEPT ![c] = <<>>]
    /\ UNCHANGED <<file, stamp, rewrites, copy, unsound>>

\* duplicate_executable_fd: refused once the artifact is closed.
Duplicable(c) == "sealed" \in fds[c]

\* Any of these may fail: a check that does not hold, a descriptor that
\* cannot be had, a system call that is not available.
ArtifactStep(c) ==
    \/ DuplicateSource(c) \/ StatBeforeRead(c) \/ ReadChunk(c)
    \/ StatAfterRead(c) \/ CheckContent(c) \/ WriteAndSeal(c)
    \/ ReopenReadOnly(c) \/ RetainSealed(c)
    \/ step[c] \notin {"idle", "ready", "failed"} /\ GiveUp(c)

Descriptors == {"source", "writable", "procfd", "sealed", "staged"}

\* The types of the launcher file and of what each preflight works with.
ArtifactTypes ==
    /\ file \in [1 .. Chunks -> Bytes]
    /\ stamp \in Nat /\ rewrites \in Nat
    /\ step \in [Controllers -> {"idle", "source", "stat", "read", "check",
                                 "copy", "reopen", "retain", "ready",
                                 "failed"}]
    /\ binding \in [Controllers -> Nat]
    /\ content \in [Controllers -> Seq(Bytes)]
    /\ fds \in [Controllers -> SUBSET Descriptors]
    /\ copy \in [Controllers -> Seq(Bytes)]
    /\ unsound \subseteq Controllers
===============================================================================
