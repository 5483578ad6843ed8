------------------------------ MODULE Aggregate ------------------------------
(***************************************************************************)
(* aggregate_attempts of bpe.aggregate: attempt records in, a benchmark    *)
(* report out, or an exception.  These are pure functions of the records,  *)
(* the frozen suite and experiment, and the registry of replay anchors.    *)
(*                                                                         *)
(* An attempt record is [evidence, grade, replay]: what the record repeats *)
(* of its evidence is read from the evidence.  Records come as a function  *)
(* from positions, whose order plays no part.  evidence.run stands for all *)
(* the identities a run shares (experiment, model, sampling configuration, *)
(* environment, harness, grader, reward policy, suite).  A digest stands   *)
(* for what it digests.  The number of samples and k are the same for      *)
(* every task and seed, so every pass@k is an integer over Choose(n, k).   *)
(* The bootstrap interval, which is drawn at random, is left out.          *)
(***************************************************************************)
EXTENDS Grading, Combinatorics

CONSTANTS
  Run,         \* the run identity the experiment manifest freezes
  TaskType,    \* SuiteManifest.tasks: task -> program_type
  Plans,       \* seed_plans: training seed -> [checkpoint, gens]
  ReportedK    \* reported_k of the experiment

Tasks == DOMAIN TaskType
Seeds == DOMAIN Plans

SamplesPerTaskSeed == Len(Plans[CHOOSE s \in Seeds : TRUE].gens)

\* The validators of SuiteManifest, SeedPlan and ExperimentManifest: checkpoints
\* and generation seeds are distinct, every training seed plans the same number
\* of samples, and no reported k exceeds it.
DesignWellFormed ==
  /\ Tasks # {} /\ Seeds # {} /\ ReportedK # {}
  /\ \A s, t \in Seeds : s # t => Plans[s].checkpoint # Plans[t].checkpoint
  /\ \A s \in Seeds :
       /\ Len(Plans[s].gens) = SamplesPerTaskSeed
       /\ \A a, b \in DOMAIN Plans[s].gens :
            a # b => Plans[s].gens[a] # Plans[s].gens[b]
  /\ \A k \in ReportedK : 1 <= k /\ k <= SamplesPerTaskSeed

\* pass_at_k_estimate, times choose(n, k).
Estimate(n, c, k) ==
  IF n - c < k THEN choose(n, k) ELSE choose(n, k) - choose(n - c, k)

\* AttemptRecord.identities_match_evidence_and_grade.
RecordValid(r) ==
  /\ r.grade.of = r.evidence
  /\ r.grade.outcomes = [i \in Stages |-> r.evidence.stages[i].outcome]
  /\ r.evidence.turn = 0 <=> r.evidence.parent = NoValue

\* _validate_run_identity.
RunIdentityValid(records) ==
  \A a \in DOMAIN records : records[a].evidence.run = Run

Sample(e) == <<e.task, e.seed, e.sample>>

\* The checks _validate_attempt_membership makes on one record.
Member(e) ==
  /\ e.task \in Tasks
  /\ e.seed \in Seeds
  /\ e.checkpoint = Plans[e.seed].checkpoint
  /\ e.turn = 0 =>
       /\ e.sample < Len(Plans[e.seed].gens)
       /\ e.gen = Plans[e.seed].gens[e.sample + 1]

\* _validate_attempt_membership: every record belongs to the plan, none comes
\* twice under any of its identities, and a repair turn has its parent there.
MembershipValid(records) ==
  \A a \in DOMAIN records :
    LET e == records[a].evidence
    IN  /\ Member(e)
        /\ \A b \in DOMAIN records \ {a} :
             LET f == records[b].evidence
             IN  /\ <<Sample(e), e.turn>> # <<Sample(f), f.turn>>
                 /\ e.id # f.id
                 /\ records[a].replay # records[b].replay
                 /\ Sample(e) = Sample(f) => e.episode = f.episode
        /\ e.turn > 0 => \E b \in DOMAIN records :
             LET f == records[b].evidence
             IN  Sample(f) = Sample(e) /\ f.turn = e.turn - 1 /\ f.id = e.parent

TurnZero(records) == {a \in DOMAIN records : records[a].evidence.turn = 0}

\* Mutant: an anchor only has to exist.
EligibleUnbound(records, strict, anchors) ==
  strict => \A a \in TurnZero(records) :
    /\ records[a].evidence.origin = "microvm"
    /\ records[a].replay \in anchors

\* _eligible_turn_zero: strict aggregation takes microVM evidence whose replay
\* the registry anchors with the very evidence and grade of the record.
Eligible(records, strict, anchors) ==
  strict => \A a \in TurnZero(records) :
    LET r == records[a]
    IN  /\ r.evidence.origin = "microvm"
        /\ r.replay \in anchors
        /\ EvidenceOf[r.replay] = r.grade.of
        /\ GradeOf[r.replay] = r.grade

Group(records, t, s) ==
  {a \in TurnZero(records) : records[a].evidence.task = t /\ records[a].evidence.seed = s}

\* The refusals of _task_scores: an incomparable grade, a sample too many or
\* too few, an index that is not there.
Complete(records) ==
  \A t \in Tasks, s \in Seeds :
    LET group == Group(records, t, s)
    IN  /\ \A a \in group : records[a].grade.comparable
        /\ Cardinality(group) = SamplesPerTaskSeed
        /\ {records[a].evidence.sample : a \in group} = 0..(SamplesPerTaskSeed - 1)

\* _task_scores: pass@k of each task and seed.
TaskSeedScore(records, t, s, k) ==
  LET successes == {a \in Group(records, t, s) : records[a].grade.success = TRUE}
  IN  Estimate(SamplesPerTaskSeed, Cardinality(successes), k)

\* Everything aggregate_attempts demands of its inputs.
Acceptable(records, k, strict, anchors) ==
  /\ DesignWellFormed
  /\ k \in ReportedK
  /\ strict => anchors # {}
  /\ DOMAIN records # {}
  /\ \A a \in DOMAIN records : RecordValid(records[a])
  /\ RunIdentityValid(records)
  /\ MembershipValid(records)
  /\ Eligible(records, strict, anchors)
  /\ Complete(records)

SumOver(S, op(_)) == MapThenSumSet(op, S)

\* The BenchmarkReport that aggregate_attempts builds.  Scores are sums of
\* Estimate; dividing by the number of terms and by Choose(n, k) is left to
\* the reader of the report.
Report(records, k, strict, anchors) ==
  LET score(t, s) == TaskSeedScore(records, t, s, k)
      taskScore(t) == SumOver(Seeds, LAMBDA s : score(t, s))
      eligible == TurnZero(records)
  IN  [k        |-> k,
       strict   |-> strict,
       anchors  |-> anchors,
       eligible |-> Cardinality(eligible),
       excluded |-> Cardinality(DOMAIN records) - Cardinality(eligible),
       passAtK  |-> SumOver(Tasks, taskScore),
       byType   |-> [y \in {TaskType[t] : t \in Tasks} |->
                       SumOver({t \in Tasks : TaskType[t] = y}, taskScore)],
       bySeed   |-> [s \in Seeds |-> SumOver(Tasks, LAMBDA t : score(t, s))],
       failures |-> Cardinality({a \in eligible : records[a].grade.first # 0})]

\* BenchmarkReport.report_fields_are_consistent.
ReportConsistent(r) ==
  /\ r.eligible = Cardinality(Tasks) * Cardinality(Seeds) * SamplesPerTaskSeed
  /\ r.failures <= r.eligible
  /\ SumOver(DOMAIN r.byType, LAMBDA y : r.byType[y]) = r.passAtK
  /\ SumOver(DOMAIN r.bySeed, LAMBDA s : r.bySeed[s]) = r.passAtK
=============================================================================
