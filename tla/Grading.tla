------------------------------- MODULE Grading -------------------------------
(***************************************************************************)
(* Strict scoring and shaped training reward: bpe.grading, with the        *)
(* validators of bpe.models that its inputs and its result must pass.      *)
(*                                                                         *)
(* A stage is its position in STAGE_ORDER.  Evidence is a sequence of six  *)
(* stage records; a stage's checks are a function from check IDs, so IDs   *)
(* are unique by construction.  A reason code is abstracted to whether it  *)
(* starts with the policy's explicit_hack_reason_prefix.  Rewards are      *)
(* exact fractions <<numerator, denominator>>, policy rewards integers in  *)
(* units of 1 / One.                                                       *)
(***************************************************************************)
EXTENDS Naturals, Integers, Sequences, FiniteSetsExt

CONSTANTS
  Submission,  \* the digest of a replay manifest -> its [evidence, grade]
  One,         \* the integer that stands for a reward of 1.0
  NoValue      \* None of the source

EvidenceOf == [s \in DOMAIN Submission |-> Submission[s].evidence]
GradeOf == [s \in DOMAIN Submission |-> Submission[s].grade]

STAGE_ORDER ==
  <<"ingest", "compile", "object_policy", "verifier", "functional", "semantics">>
Stages == 1..Len(STAGE_ORDER)
CheckedStages ==
  {i \in Stages : STAGE_ORDER[i] \in {"object_policy", "functional", "semantics"}}

InfraOutcomes == {"infra_error", "unsupported"}

Required(checks) == {c \in DOMAIN checks : checks[c].required}
Failed(checks) == {c \in Required(checks) : checks[c].outcome # "pass"}
Weight(checks, ids) == MapThenSumSet(LAMBDA c : checks[c].weight, ids)

\* StageEvidence.checks_must_agree_with_stage.
StageAgrees(i, s) ==
  /\ s.outcome = "pass" /\ i \in CheckedStages => Required(s.checks) # {}
  /\ s.outcome = "pass" => Failed(s.checks) = {}
  /\ s.outcome = "fail" /\ Required(s.checks) # {} => Failed(s.checks) # {}
  /\ s.outcome = "skipped" => DOMAIN s.checks = {}

\* EvaluationEvidence.validate_pipeline: every stage is there in order, and
\* from the first one that did not pass the rest are skipped.
PipelineValid(stages) ==
  /\ DOMAIN stages = Stages
  /\ \A i \in Stages :
       /\ StageAgrees(i, stages[i])
       /\ stages[i].outcome = "skipped" <=>
            \E j \in 1..(i - 1) : stages[j].outcome # "pass"

\* StageEvidence.required_fraction.
RequiredFraction(s) ==
  LET required == Required(s.checks)
  IN  IF required = {}
        THEN <<IF s.outcome = "pass" THEN 1 ELSE 0, 1>>
        ELSE <<Weight(s.checks, required \ Failed(s.checks)),
               Weight(s.checks, required)>>

\* ScoringContract.check_manifest_is_complete_and_unique.  A contract maps
\* every checked stage to its expected checks.
ContractComplete(contract) ==
  \A i \in CheckedStages : Required(contract[i]) # {}

\* RewardPolicy.rewards_must_be_monotonic and the ranges of its fields.
PolicyValid(p) ==
  /\ -One <= p.ingest /\ p.ingest <= p.compile /\ p.compile <= p.object_policy
  /\ p.object_policy <= p.verifier /\ p.verifier <= p.functional
  /\ p.functional <= p.semantics /\ p.semantics <= p.success /\ p.success <= One
  /\ 0 <= p.functional
  /\ -One <= p.hack /\ p.hack <= 0

\* _validate_contract: the checks that ran are the contract's, with the
\* contract's weights; an infrastructure stop may report none.
MatchesContract(stages, contract) ==
  \A i \in Stages :
    LET checks == stages[i].checks
        expected == IF i \in CheckedStages THEN contract[i] ELSE <<>>
    IN  \/ stages[i].outcome = "skipped"
        \/ stages[i].outcome \in InfraOutcomes /\ DOMAIN checks = {}
        \/ /\ DOMAIN checks = DOMAIN expected
           /\ \A c \in DOMAIN expected :
                /\ checks[c].required = expected[c].required
                /\ checks[c].weight = expected[c].weight

\* _first_non_pass: 0 when every stage passed.
FirstNonPass(stages) ==
  LET bad == {i \in Stages : stages[i].outcome # "pass"}
  IN  IF bad = {} THEN 0 ELSE Min(bad)

\* Some required check failed for a reason with the hack prefix.
ExplicitHack(stages) ==
  \E i \in Stages : \E c \in Failed(stages[i].checks) : stages[i].checks[c].hack

\* Mutant: a semantics failure is scaled from zero instead of from the
\* functional cap.
TrainingRewardFromZero(stages, p) ==
  LET first == FirstNonPass(stages)
      fraction == RequiredFraction(stages[first])
  IN  CASE first = 0 -> <<p.success, 1>>
        [] first # 0 /\ (ExplicitHack(stages) \/ stages[first].hack) -> <<p.hack, 1>>
        [] OTHER ->
             CASE first < 5 -> <<p[STAGE_ORDER[first]], 1>>
               [] first = 5 -> <<p.functional * fraction[1], fraction[2]>>
               [] first = 6 -> <<p.semantics * fraction[1], fraction[2]>>

\* _training_reward.
TrainingReward(stages, p) ==
  LET first == FirstNonPass(stages)
      fraction == RequiredFraction(stages[first])
  IN  CASE first = 0 -> <<p.success, 1>>
        [] first # 0 /\ (ExplicitHack(stages) \/ stages[first].hack) -> <<p.hack, 1>>
        [] OTHER ->
             CASE first < 5 -> <<p[STAGE_ORDER[first]], 1>>
               [] first = 5 -> <<p.functional * fraction[1], fraction[2]>>
               [] first = 6 -> <<p.functional * fraction[2]
                                   + (p.semantics - p.functional) * fraction[1],
                                 fraction[2]>>

\* score_evidence, for inputs its validators accept.  benchmark_score is 1.0
\* or 0.0 as success is TRUE or FALSE; of stands for evidence_sha256.
Score(e, p) ==
  LET stages == e.stages
      first == FirstNonPass(stages)
      infra == first # 0 /\ stages[first].outcome \in InfraOutcomes
  IN  [of         |-> e,
       comparable |-> ~infra,
       success    |-> IF infra THEN NoValue ELSE first = 0,
       reward     |-> IF infra THEN NoValue ELSE TrainingReward(stages, p),
       first      |-> first,
       outcomes   |-> [i \in Stages |-> stages[i].outcome]]

\* What score_evidence demands before it scores.
Scorable(stages, contract, p) ==
  /\ PipelineValid(stages)
  /\ ContractComplete(contract)
  /\ PolicyValid(p)
  /\ MatchesContract(stages, contract)

\* Grade.comparable_fields_are_consistent and the range of training_reward.
GradeConsistent(g) ==
  LET bad == {i \in Stages : g.outcomes[i] # "pass"}
  IN  /\ g.comparable => g.success # NoValue /\ g.reward # NoValue
      /\ ~g.comparable => g.success = NoValue /\ g.reward = NoValue
      /\ g.reward # NoValue =>
           /\ -One * g.reward[2] <= g.reward[1]
           /\ g.reward[1] <= One * g.reward[2]
      /\ IF g.success = TRUE
           THEN bad = {} /\ g.first = 0
           ELSE /\ bad # {} /\ g.first = Min(bad)
                /\ g.comparable <=> g.outcomes[g.first] \notin InfraOutcomes

AtMost(r, s) == r[1] * s[2] <= s[1] * r[2]
=============================================================================
