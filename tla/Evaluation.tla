----------------------------- MODULE Evaluation -----------------------------
(***************************************************************************)
(* From graded evidence to a benchmark report: writers seal replays        *)
(* (Replay), receipts become anchors of a registry, and aggregate_attempts *)
(* (Aggregate) turns attempt records and the registry into a report.       *)
(***************************************************************************)
EXTENDS Replay, Aggregate

CONSTANTS
  Archive,  \* submissions sealed by earlier calls, whose receipts are at hand
  Foreign,  \* records that match no receipt: unsealed repair turns, reruns,
            \* and records that quote the replay of another attempt
  StageLists,  \* stage evidence an evaluator may produce
  Policies     \* reward policies

\* The anchors of the registry: one per receipt.
Receipts == Archive \cup {writer[w].sub : w \in {v \in Writers : writer[v].pc = "returned"}}

\* The record of a sealed attempt.
RecordOf(s) ==
  [evidence |-> EvidenceOf[s], grade |-> GradeOf[s], replay |-> s]

\* What aggregate_attempts may be given: the records of the receipts, perhaps
\* without one or without those of one sample, perhaps with one foreign record
\* or with one twice.
Inputs ==
  LET take(omitted, extra) ==
        [a \in (Receipts \ omitted) \cup (IF extra = NoValue THEN {} ELSE {NoValue}) |->
           IF a = NoValue THEN extra ELSE RecordOf(a)]
      extras == Foreign \cup {RecordOf(s) : s \in Receipts} \cup {NoValue}
      sameSample(s) == {t \in Receipts : Sample(EvidenceOf[t]) = Sample(EvidenceOf[s])}
      omissions == {{}} \cup {{s} : s \in Receipts} \cup {sameSample(s) : s \in Receipts}
  IN  {take(omitted, extra) : omitted \in omissions, extra \in extras}

\* aggregate_attempts; it raises on what is not acceptable.  It reads no replay
\* from disk, so it is enough to let it run once the writers are done and
\* nothing else has happened.
AggregateAttempts ==
  /\ report = NoValue /\ disturbed = {} /\ ~powerLost
  /\ \A w \in Writers : writer[w].pc \in {"returned", "failed", "residue"}
  /\ \A i \in Readers : insp[i].pc = "idle"
  /\ \E k \in ReportedK, strict \in BOOLEAN :
       \E records \in {r \in Inputs : Acceptable(r, k, strict, Receipts)} :
         report' = [body |-> Report(records, k, strict, Receipts),
                    records |-> {records[a].replay : a \in DOMAIN records}]
  /\ UNCHANGED <<disk, writer, insp, disturbed, powerLost>>

EvaluationNext == Next \/ AggregateAttempts

EvaluationSpec == Init /\ [][EvaluationNext]_vars

-----------------------------------------------------------------------------
(* Properties                                                              *)

Rejected(e) == ExplicitHack(e) \/ (FirstNonPass(e) # 0 /\ e[FirstNonPass(e)].hack)

\* Whether the earlier of two failures may be paid for more than the later one:
\* a functional failure with no required check passed earns nothing, even when
\* the policy pays for failures before it.
PaidBefore(p, first, second) ==
  second = 5 /\ p[STAGE_ORDER[first]] > 0

GradesOrdered ==
  \A p \in Policies, e \in StageLists :
    Scorable(e, Contract, p) =>
      LET g == Score([stages |-> e], p)
      IN  /\ GradeConsistent(g)
          /\ g.success = TRUE <=>
               \A i \in Stages :
                 /\ e[i].outcome = "pass"
                 /\ i \in CheckedStages =>
                      \A c \in Required(Contract[i]) : e[i].checks[c].outcome = "pass"
          /\ \A f \in StageLists :
               LET h == Score([stages |-> f], p)
               IN  /\ Scorable(f, Contract, p)
                   /\ g.comparable /\ h.comparable
                   /\ ~Rejected(e) /\ ~Rejected(f)
                   /\ g.first # 0
                   /\ h.first = 0 \/ g.first < h.first
                   /\ ~PaidBefore(p, g.first, h.first)
                   => AtMost(g.reward, h.reward)

\* What write_replay seals as a grade means what it says: score_evidence never
\* builds a grade its own validator refuses, success is the conjunction of all
\* six stages and of every required check of the contract, and under a policy
\* that passes rewards_must_be_monotonic a candidate that fails later is never
\* paid less, except as PaidBefore says.
GradesMeanProgress ==
  (\E w \in Writers : writer[w].pc # "idle") => GradesOrdered

\* The attempts that could have been drawn for a task and a seed.
PlannedSamples == 0..(SamplesPerTaskSeed - 1)
SealedSample(s, t, d, i) ==
  LET e == EvidenceOf[s]
  IN  e.task = t /\ e.seed = d /\ e.sample = i /\ e.turn = 0

\* A strict report is earned: every planned sample of every task and seed has
\* exactly one sealed microVM attempt behind it, comparable and graded by the
\* score of its evidence, none is dropped or counted twice whatever records
\* were handed to aggregate_attempts, and the headline counts, over all tasks
\* and seeds, the ways to draw k of the planned samples with a success among
\* them.  The report passes its own validator.
ReportIsEarned ==
  report # NoValue /\ report.body.strict =>
    LET used(t, d, i) == {s \in report.records \cap Receipts : SealedSample(s, t, d, i)}
        won(t, d, i) == \A s \in used(t, d, i) :
                          FirstNonPass(EvidenceOf[s].stages) = 0
        draws(t, d) == {D \in kSubset(report.body.k, PlannedSamples) :
                          \E i \in D : won(t, d, i)}
    IN  /\ \A t \in Tasks, d \in Seeds, i \in PlannedSamples :
             /\ Cardinality(used(t, d, i)) = 1
             /\ \A s \in used(t, d, i) :
                  /\ EvidenceOf[s].origin = "microvm"
                  /\ GradeOf[s] = Score(EvidenceOf[s], Policy)
                  /\ GradeOf[s].comparable
        /\ report.body.passAtK =
             MapThenSumSet(LAMBDA x : Cardinality(draws(x[1], x[2])), Tasks \X Seeds)
        /\ ReportConsistent(report.body)
=============================================================================
