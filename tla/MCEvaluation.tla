---------------------------- MODULE MCEvaluation ----------------------------
(* Two writers and one reader of one run directory; an experiment of two   *)
(* tasks, two training seeds and three samples, of which all but one       *)
(* have been sealed before.                                                *)
EXTENDS Evaluation, TLC

CONSTANT FirstWriter

\* No call reads a report, so the search ends with it.
BeforeReport == report = NoValue

Check(required, weight) == [required |-> required, weight |-> weight]
MCRecordFiles == <<"evidence">>

MCContract ==
  [i \in CheckedStages |->
     CASE i = 3 -> [o |-> Check(TRUE, 1)]
       [] i = 5 -> [a |-> Check(TRUE, 1), b |-> Check(TRUE, 2), x |-> Check(FALSE, 1)]
       [] i = 6 -> [c |-> Check(TRUE, 1), d |-> Check(TRUE, 1)]]

RewardPolicyOf(ingest, compile, object, verifier, functional, semantics, success, hack) ==
  [ingest |-> ingest, compile |-> compile, object_policy |-> object,
   verifier |-> verifier, functional |-> functional, semantics |-> semantics,
   success |-> success, hack |-> hack]
\* reward-v1, one that pays nothing below success, one that pays for compiling.
MCPolicy == RewardPolicyOf(-20, -10, -5, 0, 2, 12, 20, -20)
MCSparse == RewardPolicyOf(0, 0, 0, 0, 0, 0, 20, 0)
MCNewPolicies == {MCSparse}
MCPolicies == {MCPolicy, MCSparse, RewardPolicyOf(-20, -10, 1, 2, 3, 12, 20, -20)}

\* The evidence of stage i when the checks in bad do not pass, or none ran.
Stage(i, outcome, bad, hack) ==
  LET expected == IF i \in CheckedStages THEN MCContract[i] ELSE <<>>
  IN  [outcome |-> outcome, hack |-> hack,
       checks |-> [c \in DOMAIN expected |->
         [required |-> expected[c].required, weight |-> expected[c].weight,
          outcome |-> IF c \in bad THEN "fail" ELSE "pass", hack |-> hack]]]
Unchecked(outcome) == [outcome |-> outcome, hack |-> FALSE, checks |-> <<>>]

\* Evidence that stops at stage i, or passes every stage when i is 0.
StopAt(i, stage) ==
  [j \in Stages |-> CASE i = 0 \/ j < i -> Stage(j, "pass", {}, FALSE)
                      [] j = i /\ i # 0 -> stage
                      [] OTHER -> Unchecked("skipped")]
MCStageLists ==
  {StopAt(0, Unchecked("pass"))}
    \cup {StopAt(i, Unchecked(o)) : i \in Stages, o \in InfraOutcomes}
    \cup UNION {{StopAt(i, Stage(i, o, bad, h)) :
                   bad \in SUBSET (IF i \in CheckedStages THEN DOMAIN MCContract[i] ELSE {})} :
                 i \in Stages, o \in {"fail", "timeout"}, h \in BOOLEAN}

-----------------------------------------------------------------------------
(* The experiment and its attempts                                         *)

MCTaskType == [t1 |-> "xdp", t2 |-> "tc"]
MCPlans == [s \in {0, 1} |->
  [checkpoint |-> IF s = 0 THEN "c0" ELSE "c1", gens |-> <<7, 8, 9>>]]

Evidence(id, t, s, i, turn, before, origin, stages) ==
  [id |-> id, run |-> "run", task |-> t, seed |-> s, checkpoint |-> MCPlans[s].checkpoint,
   sample |-> i, gen |-> 7 + i, turn |-> turn, parent |-> before,
   episode |-> <<t, s, i>>, origin |-> origin, stages |-> stages]
Graded(e) == [evidence |-> e, grade |-> Score(e, MCPolicy)]

Win == StopAt(0, Unchecked("pass"))
Lose == StopAt(5, Stage(5, "fail", {"b"}, FALSE))
Infra == StopAt(2, Unchecked("unsupported"))

First(t, s, i, stages) == Evidence(<<t, s, i>>, t, s, i, 0, NoValue, "microvm", stages)

Rerun == Evidence(<<"r">>, "t1", 0, 1, 0, NoValue, "microvm", Win)

\* Sealed before: every sample, but for sample 2 of task t1 and seed 0 only an
\* evaluation that the infrastructure cut short.
MCArchive == {"t1", "t2"} \X {0, 1} \X (0..2)
Sealed(t, s, i) ==
  Graded(First(t, s, i, IF <<t, s, i>> = <<"t1", 0, 2>> THEN Infra
                        ELSE IF (s + i) % 2 = 0 THEN Win ELSE Lose))
\* Evaluated again, and a caller that submits the grade of something else.
Again == Evidence(<<"again">>, "t1", 0, 2, 0, NoValue, "microvm", Lose)
Better == Graded(Evidence(<<"better">>, "t1", 0, 2, 0, NoValue, "microvm", Win))
MCSubmission ==
  [s \in MCArchive |-> Sealed(s[1], s[2], s[3])]
    @@ (<<"again">> :> Graded(Again)) @@ (<<"better">> :> Better)
    @@ (<<"wrong">> :> [evidence |-> Again, grade |-> Score(Rerun, MCPolicy)])
MCOffered ==
  [w \in Writers |-> IF w = FirstWriter THEN {<<"again">>, <<"wrong">>} ELSE {<<"better">>}]

\* Records without a receipt of their own.
Turn1 == Graded(Evidence(<<"u">>, "t2", 1, 0, 1, <<"t2", 1, 0>>, "synthetic", Win))
Orphan == Graded(Evidence(<<"v">>, "t2", 1, 0, 1, <<"r">>, "synthetic", Win))
Untrusted == Graded(Evidence(<<"n">>, "t1", 0, 2, 0, NoValue, "native", Win))
Record(sub, replay) == [evidence |-> sub.evidence, grade |-> sub.grade, replay |-> replay]
MCForeign ==
  {Record(Graded(Rerun), <<"x">>), Record(Turn1, <<"x">>), Record(Orphan, <<"x">>),
   Record(Untrusted, <<"x">>), Record(Better, <<"again">>), Record(Better, <<"x">>)}
=============================================================================
