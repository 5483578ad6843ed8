SPECIFICATION EvaluationSpec
CONSTANTS
  One = 20
  NoValue = NoValue
  Writers = {w1, w2}
  FirstWriter = w1
  Readers = {r1}
  Paths = {p1}
  RecordFiles <- MCRecordFiles
  Submission <- MCSubmission
  Offered <- MCOffered
  Contract <- MCContract
  Policy <- MCPolicy
  NewPolicies <- MCNewPolicies
  Run = "run"
  TaskType <- MCTaskType
  Plans <- MCPlans
  ReportedK = {1, 2}
  Archive <- MCArchive
  Foreign <- MCForeign
  StageLists <- MCStageLists
  Policies <- MCPolicies
INVARIANTS
  
  SealedStays
  FailedLeavesNothing
  GradesMeanProgress
  ReportIsEarned
CHECK_DEADLOCK FALSE
CONSTRAINT BeforeReport
