SPECIFICATION Spec
CONSTANTS
  Configs <- MCConfigs
  Bundles = {"export", "bench"}
  Evaluations <- MCEvaluations
  TASK_PATHS <- MCTasks
  MIN_TEST_SEEDS = 1
  MIN_TURNS = 33
  PATIENCE = 2
  MAX_STEPS = 2
  Earlier = {"export"}
  MaxActs = 3
  Disclosed <- MCDisclosed
  Transcripts <- MCTranscripts
  Place <- MCPlace
  MAX_ISSUE_ACTIVATIONS = 8
  MAX_DIGEST_ADDR_TOKENS = 2
  MAX_PROBE = 6
  ACT_BUDGET = 12
  NoCount = NoCount
  Malformed = Malformed
  None = None
  Unset = Unset
  Bad = Bad
INVARIANTS TypeOK EasyBeforeHard HeldOut FailureNeverOutearns TrainsOnPoC CompleteIsWhole
PROPERTIES LadderEnds
CHECK_DEADLOCK FALSE
