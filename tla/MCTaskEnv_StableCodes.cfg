SPECIFICATION Spec
CONSTANTS
  Budgets <- MCBudgets
  MaxActs = 1
  MaxCycles = 1
  MaxIssue = 2
  MaxStale = 1
  ScriptCallCap = 2
  WorkerMayDie = TRUE
  RaisesAt = {}
INVARIANT StableCodes
