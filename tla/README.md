# BPE verification

TLA+ models of the execution foundation of BPE, the TLC runs that check them on small
instances, and TLAPS proofs of the main safety results for every value of the constants.
Sources are named relative to the repository, modules relative to this directory.

## The system and its parts

BPE grades candidate eBPF repairs. It has two halves. The execution half is the path by which
one signed authorization leads, at most once, to one fixed inert child in one cgroup, and to
evidence about it that nobody has to trust. The evaluation half grades evidence, seals evidence
and grade in a replay bundle, and makes a benchmark report from sealed attempts. The parts, in
the order an evaluation meets them:

| part | source | state it keeps | modelled by |
|---|---|---|---|
| evaluation-job bundles | `job.py` | a directory whose manifest marks it complete | `JobBundle` |
| dispatch admission | `dispatch.py` | SQLite claim ledger, durable clock, retry lineage | `DispatchLedger` |
| Linux ingress | `ingress.py` | worker store of sealed, published job objects | `Ingress` |
| intent admission | `inert_fixture.py` | SQLite ledger of reservations (tombstones) and claims | `IntentLedger` |
| launch attempts | `inert_launch.py` | second ledger that rests on the first | `LaunchLedger` |
| cgroup leaf | `cgroup.py` | one leaf directory under a delegated root | `CgroupLeaf` |
| launcher artifact | `inert_artifact.py` | descriptors of one call, a sealed copy of the launcher | `LauncherArtifact`, `ElfShape` |
| orchestrator, up to consumption | `inert_orchestration.py` | resources a call owns, the claim it consumed | `Orchestrator` |
| orchestrator, consumed attempt | `inert_orchestration.py` | child processes, leaf, subreaper mode, deadlines | `ConsumedAttempt` |
| native launcher | `worker/linux/inert_fixture_launcher` | its child, the achieved mask, the frames it sent | `NativeLauncher` |
| transcript parser | `inert_native_protocol.py` | none (pure) | `NativeTranscript` |
| grading | `grading.py`, `models.py` | none (pure) | `Grading` |
| replay bundles | `replay.py` | a write-once run directory | `Replay` |
| aggregation | `aggregate.py`, `models.py` | none (pure) | `Aggregate` |
| from graded evidence to a report | the three above | receipts and the report | `Evaluation` |

Interactions: a dispatch claim authenticates an ingress call. An intent claim is what a launch
attempt consumes; `LaunchLedger` extends `IntentLedger`, so both ledgers run under one clock.
The orchestrator passes its artifact preflight, consumes an attempt, retains a leaf and hands
it to the launcher. The launcher clones one child into the leaf and reports over a socket. The
parser turns the report into a verdict, and the controller cleans up and builds a result that
its own validator must accept. A replay is written only with the grade that `score_evidence`
gives its evidence; receipts of replays become the registry of anchors that strict aggregation
demands; `Evaluation` composes the three.

What makes it hard: several processes share each ledger and directory and may die between any
two steps. A commit may succeed although the call that made it fails. The wall clock may step
back, and the ledgers keep a durable high-water mark against that. Power may be lost between a
rename and the synchronisation of its directory. A replay is verified file by file while its
directory may change. Kernel notifications arrive in either order.
Every wait is bounded by a deadline that may pass at the worst moment.

## Modules

`OneShot` is the abstract promise of all three ledgers: a register per key that is free, then
spent, at most once with a receipt. Each ledger is shown to implement it through a refinement
mapping.

**`DispatchLedger`.** `clock` is the wall clock; `ledger`, `highWater` and `claims` are the database
file (how far it is initialised, the durable clock, the rows); `worker` is the local state of
each call. Each transaction (`BEGIN IMMEDIATE` to `COMMIT`) is one action, since SQLite
serialises writers; a call may die or lose its reply at any step. An envelope is a record of
what its signature covers. `SchemaTrusted` is what every opening checks of the rows,
`ReceiptValid` what the receipt's validators demand of one row, and `VerifyCommitted` what
`verify_committed_receipt` compares.

**`IntentLedger`, `LaunchLedger`.** The reserve-then-claim transactions, the recovery of a
receipt that was committed and lost, and the row checks on every later opening. A reservation
that outlived its claim is a tombstone and never becomes usable again. `Recordable` is the
validation of a row before it is inserted, `VerifyCommitted` and `VerifyAttempt` the comparison
of a receipt in hand with the committed row. The trust store may be rotated between any two
steps, to one in which the key is revoked or valid for longer.

**`LauncherArtifact`, `ElfShape`.** The preflight: each controller duplicates the descriptor of
one shared launcher file, reads it in chunks between two looks at its metadata, compares the
digest, checks the bytes and keeps a sealed copy. Anybody may rewrite the file meanwhile, with or
without a change of its timestamps, so a read may be torn. `ElfShape` gives the checks on the
program headers one by one, as the code makes them, and beside them `LoadsSafely`, which says
what they are for: no overlap, an executable entry point that is not writable, and the seccomp
markers in bytes that are mapped.

**`Orchestrator`.** One action per block of `orchestrate_linux_inert_fixture` that can fail on
its own, for several controllers that share a launch ledger and the launcher file of
`LauncherArtifact`. A call that fails may have had its effect or not. The ledger is the register
of `OneShot`, which `LaunchLedger` implements. The host guard is the pair of process attributes
it alters (subreaper, `SIGCHLD`) and what it could not put back.

**`ConsumedAttempt`.** Everything after consumption, for one controller: leaf, spawn, collection
of records, the two-pass wait, cleanup, the adopted child, the result and its validator. The
launcher and the child are an unconstrained environment here. Left out: the consistency rules
between `signal_sent` and errno, the bound of `cgroup_cleanup_duration_ms`, a clock that cannot
be read, digests, and an asynchronous interrupt between a system call and the `try` behind it.

**`NativeLauncher`, `NativeTranscript`.** Every checkpoint of `main` in `launcher.c`, its
emergency cleanup, the child, and the two orders in which the kernel reports an exit. Any system
call may fail, and anybody may kill the child or the launcher. The parser is an operator on the
frames that were sent. The result flags are a set of bit numbers, and `Mask` is the word they
make on the wire, so the masks of the grammar are the hexadecimal numbers of the source.

**`CgroupLeaf`.** Callers that retain, hand over and clean up leaves of one delegated root, with
launchers that clone into a leaf while it is being removed. `Exclusive`, `LeafEmpty` and
`NamedLeaf` are the looks the code takes, at the places where it takes them.

**`Ingress`.** `store` and `disk` are the worker store as it is and as it survives a loss
of power. A call verifies its claim, opens the spool with bounded retries, stages, publishes by
`renameat2` without replacement, synchronises, or meets an object that is already there.

**`JobBundle`.** Writers that stage, reserve and rename payload and manifest, readers that open
manifest and payload, and one loss of power.

**`Grading`.** `score_evidence` and the validators of evidence, contract, policy and grade, as
operators. A stage is its position in the pipeline, checks are a function from check ids, a
reason code is whether it has the explicit-hack prefix. Rewards are exact fractions where the
code has floating point.

**`Replay`.** `write_replay`, `verify_replay` and `rescore_replay`. Each writer makes at most one
directory, which is therefore named by its writer. `at` and `tree` are names and entries as they
are, `durAt` and `durTree` as a loss of power would find them; `damaged` marks entries that are
cut short or altered. `writer` and `insp` are the locals of each call and of each running
`_inspect_replay`, a writer's inspection of its own result included. Reservation by `mkdir`,
every file, the synchronisation of the parent, each read of the inspection, the rechecks, and
every removal of the rollback are separate steps, and each may fail. After a loss of power a
directory is found as last synchronised or as last seen. A call whose `mkdir(parents=True)` made
the parent never synchronises the entry of the parent itself, so `SealedStays` is stated for
parents that were durable before or became so.

**`Aggregate`.** `aggregate_attempts` as operators: the checks on identity, membership,
eligibility and completeness, pass@k, the slices, the report and its validator. Scores stay
integers over `Choose(n, k)`, so that equality is exact.

**`Evaluation`.** The composition: receipts of finished writers and of earlier calls are the
anchors, and the records handed to the aggregation are those of the receipts with one dropped,
one repeated or one foreign record among them.

`MC*` modules hold only the values of constants, symmetry sets, views and constraints.

## Runs

| run | instance | what it shows |
|---|---|---|
| `dispatch_claims` | 2 workers, a root and its retry, 2 claim ids and nonces, times 0..1 | somebody wins unless a clock step, a crash or a bad identity excuses it; the lineage is linear and ordered; the ledger implements `OneShot` |
| `dispatch_two_authorizations` | 3 workers, 2 authorizations | a violation, see Findings |
| `intent_claims` | 2 workers, 3 intents of which two share an id, times 0..2, a rotation that revokes the key | the ledger never refuses its own rows, an undisturbed call consumes, `OneShot` |
| `launch_race` | 1 intent, 1 claiming worker, 2 launch callers, 2 trust stores | lost receipts of both ledgers are recovered exactly, one attempt at most, resting on a committed claim, `OneShot` |
| `attempt_lifecycle` | both timeouts 1, 2 records | every result passes the validator and tells the truth about processes, leaf and subreaper; the controller returns even if the launcher never exits and SIGKILL has no effect |
| `orchestrate_once` | 2 controllers, 2 claims, a launcher of 2 chunks rewritten twice, small ELF images | one launch per claim; an ordinary error means nothing was consumed; descriptors and process state are held exactly as long as needed; what is launched is the expected bytes, and they load safely |
| `leaf_race` | 2 callers, 2 polls, 2 clones | at most one leaf in use, none left behind unreported, and a cleanup ends although a launcher refills the leaf |
| `ingress_publish` | 2 calls, 2 claims, the policy's 3 retries | what is returned is durable, repeated calls succeed, nothing is replaced |
| `bundle_publish` | 3 writers, 2 readers | the manifest marks a whole bundle, loads never mix bundles, a returned receipt survives |
| `native_transcript` | no bound | what the launcher reports is true, the parser takes it, no status but CLEANUP leaves a child, and the launcher exits whatever the child, the kernel and the peer do |
| `native_every_transcript` | no bound | a violation, see Findings |
| `evaluation` | 2 writers, 1 reader, 1 run directory, 1 record file, 1 loss of power, 1 disturbance; 2 tasks, 2 seeds, 3 samples | a valid verdict is about one whole bundle, a sealed bundle stays, a failed call leaves nothing; grades and strict reports mean what they say |

**Bounds.** Two callers are enough for every race between a check and a transaction; the third
writer of `bundle_publish` meets what two others left behind, and the proofs cover any number.
Two chunks and two rewrites tear a read and put the file back as it was. The ELF images vary two
or three segments over a file of three and an address space of eight units of 16 bytes, the size
of a dynamic entry, which is enough for touching, overlapping and out-of-order segments and for
one that reaches past the last address. In the intent and launch runs times reach the expiry, at
which a call is refused, so that both sides of the edge occur. The two times of `dispatch_claims` let a retry be signed before its parent is claimed and the clock step back;
that a claim lies in its window is proved instead. Two claim ids and nonces let callers
collide or not in each. In `evaluation`, one path makes both writers compete for it, one record
file beside manifest and store is enough for a change between any two reads, and the search ends
with the report, which no call reads. Scoring is compared over every list of stages that stops at any stage
with any set of failed checks, under three policies. One loss of power is
enough, since the durable state before it is arbitrary and nothing is remembered of an earlier
one. The native runs have no bound: the launcher is one process with finite state. `VIEW` drops
histories that no property of that run reads.

**Deadlock** is checked in the ledger and attempt runs, where time or another call can always go
on. It is not checked where all callers may have ended: `orchestrate_once`, `leaf_race`,
`ingress_publish`, `bundle_publish`, `native_*`, `evaluation`.

**Fairness.** `leaf_race` assumes only that a process whose call is running
goes on running; nobody has to start a call. `attempt_lifecycle` and `native_transcript` assume
the same of the one process in a form without faults, so that a fault never has to happen to get
out of a wait, and that its monotonic clock advances. Nothing is assumed of launchers, children,
peers or the kernel: the code bounds each wait by a deadline, and that is what these runs check.

**Where a promise ends.** `GradesMeanProgress` says that a candidate that fails later is never
paid less. It has one exception (`PaidBefore`): a functional failure with no required check passed
earns zero (`grading.py:49`), also under a policy that pays for failures before it; the shipped
policy does not. `FailedLeavesNothing` does not speak of a rollback in which a removal failed, which
the code passes over, nor of removals that a loss of power undoes.

## Findings

`dispatch_two_authorizations`: `docs/dispatch-admission.md:90` promises that exactly one of
several racing callers wins. The durable clock is shared by all authorizations, so a caller of
another authorization with a later time can make every caller of the first one fail
(`dispatch.py:1371`) although no clock ever moved back. The passing `SomeWinner` states what does
hold.

`native_every_transcript`: after its reap the launcher looks at `cgroup.events` once more
(`launcher.c:1161`). If that look fails after the exit was observed, it sends
`CLEANUP_INCOMPLETE` with errno zero and the full mask. `protocol.h:121` says that such a frame
has a nonzero errno, and the parser rejects it. `TranscriptAccepted` shows that this is the only
disagreement.

## Proofs

Eight modules hold proofs; each theorem `Spec => []P` is for every value of the constants.

* `DispatchLedgerProofs`: types, the schema constraints, unique receipts, the window, the
  lineage, monotonicity, the refinement of `OneShot`, and that somebody wins. The inductive
  invariant adds that the file is initialised in order, that calls and claims carry verified
  payloads, and that a receipt in a caller's hand is committed; without these a claim could rest
  on an unverified envelope or an absent table. `SomeWinner` is about calls that have all returned;
  `WinnerInv` says what holds before: while nothing is excused no time the ledger or a caller
  remembers is ahead of the clock, so no comparison with the durable clock fails, and an
  authorization that is alone in play and not claimed has a call that can still claim it.
* `LaunchLedgerProofs`, for both ledgers of the fixture: types, never locked out, exact recovery,
  monotonicity, refinement. The key facts are `SchemaTrusted`, that whatever is in the tables would
  pass the checks of the next opening, and `ClaimsValid`, that every claim row would still pass the
  validators of its receipt; recovery is exact because of the second. The launch invariant includes
  the intent invariant unchanged. `SubmittedIsConsumed` follows from `ConsumeInv`: while the clock
  only advances and no call dies, every running call is level with the clock and authentic under
  its own trust store, and a submitted intent is consumed or still has such a call.
* `OrchestratorProofs`: at most one launch per claim, ordinary errors are clean, resources are
  held exactly, the launched bytes are the expected ones, and they load safely. `CallInv` adds that a
  controller that launches or is about to owns the ledger entry of its claim, and the entry never
  changes hands. `Holding` and `Exactly` give the descriptors and the process state at each place;
  `Carrying` follows the bytes from the digest check through the sealed copy to the launch.
  `AcceptedLoadsSafely` is about images with any number of program headers: the code compares each
  load only with the one before it. The proof takes the first load that does not lie above some
  earlier one (`LeastMember`); the load just before it does, and the code compared these two.
* `ConsumedAttemptProofs`: the strict validator admits every result the controller builds, a claim
  of complete cleanup and a verdict are true of the world, the controller stays a subreaper while it
  has to, and only its own child is signalled, for every value of the timeouts and the frame limit.
  The properties speak of the end of an attempt. `AttemptInv` says for each place which facts are
  recorded (`FactsInPlace`) and that they agree with each other (`FactsAgree`) and with the
  processes and the leaf (`FactsAreTrue`), which failures can be recorded with them (`FailureFits`,
  `FailureInPlace`), what a verdict rests on (`VerdictGround`), and how the deadlines bound what is
  published (`PublishedInTime`).
* `NativeLauncherProofs`: the parser takes what the launcher reports, every reported flag is true,
  and no status but CLEANUP leaves a child. `Way` gives the flags and the frames at each place of
  `main`. A failure leaves the way at one of twelve points (`Exits`); one lemma for each leg shows
  that every failure possible there is a row of the parser's table once the
  cleanup has added its two flags, and `CutShort` that a cleanup that stops halfway makes a mask the
  table lists for `CLEANUP_INCOMPLETE`, but for the one finding above. `World` ties flags and
  observations to the child and the leaf: what has been seen (an exit, an empty leaf, a readiness
  record) cannot become false again. The state space is finite for fixed process ids and TLC visits all of
  it; the proof covers every pair of them and gives the reason.
* `CgroupLeafProofs`: exclusivity and reported residue, for any number of callers. Exclusivity
  rests on the order of the two looks at the root around `mkdir`.
* `TransferProofs`, for bundles: readiness, loads, durability. The strengthening relates each
  writer's progress to what the target holds. For ingress: durability, idempotence, cleaning, no
  replacement. The strengthening is that an object a call found in place is durable before the call
  returns it.
* `EvaluationProofs`: types, sealed replays stay, failed calls leave nothing, verified replays are
  whole, for any number of writers, readers, paths and record files. None of the three is
  inductive. `SealInv` says, for each place of a writer, whether its directory has its name
  (`Placed`, `Named`), how much of it is filled in memory and on disk (`Progress`), which entries may
  be damaged (`Damage`) and what the rollback has removed (`RolledBack`); a name is
  only ever removed while its directory is empty, which is why one writer's rollback cannot take
  another's sealed bundle. `InspectionInv` says that what an inspection has read so far was intact
  and came from the one directory it pinned.

The assumptions are the named `ASSUME`s of the modules: the constants are sets or naturals, a
marker value such as `None` is in none of the sets it marks the absence from, the two process ids
are different Linux pids, and the fields of an ELF image are naturals (`ImagesAssumption`), as
`struct.unpack` returns them.

Each proof has one step per action, one lemma for the initial states, and a last step by PTL. The
type invariants of the proved modules, that ledgers only grow (`LedgerOnlyGrows`,
`IntentLedgerOnlyGrows`), unique receipts and the window of the dispatch ledger, `SchemaHolds`,
`ReservationNeverDiffers` and `StagingIsDiscarded` are stated as theorems and not repeated in a run.

Model-checked only: `AttemptReturns`, `CallsEnd` and `LauncherExits`, since liveness under fairness
is outside the prover's reach; and `GradesMeanProgress` and `ReportIsEarned`, which are about sums
over sets of checks and of attempts and about binomials. Those are folds and recursive functions,
and what such a definition computes for every input needs an induction theorem with an operator as
its parameter. The argument by a least counterexample, which serves for the program headers,
does not help, as it never unfolds a recursive definition.

## Not modelled

Signatures and digests are records compared as values: no two inputs share a digest, and a
signature verifies exactly for what was signed. The shape checks on files (mode, owner, link
count, size) are one step that may fail. Of the evaluation half, the bootstrap interval of a
report is left out (it is drawn from a seeded generator, and nothing depends on it), as are the
byte, entry and JSON complexity limits and bundles without artifacts.

The remaining parts are listed as components in `PROJECT.json` with their reasons. The oracle
(`oracle.py`), dynamic admission (`admission.py`) and the two qualifications (`qualification.py`,
`inert_native_qualification.py`) are single passes of equalities between fields of frozen
records: they keep no state and no order of events can go wrong, so a model would repeat the code.
The others are text processing (`corpus.py`, `task.py`, `submission.py`), canonical bytes and schemas
(`canonical.py`, `identity.py`, `schemas.py`), the stateless capability protocol
(`worker_protocol.py`, `worker_cli.py`, `worker.py`), the command line and the scripts.

## Open

* Composition of `NativeLauncher` with the controller of `ConsumedAttempt`, and of dispatch claims
  with `Ingress`; each is checked against an unconstrained environment instead.
