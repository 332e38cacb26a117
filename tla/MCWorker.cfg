SPECIFICATION Spec
CONSTANTS
  b1 = b1
  b2 = b2
  Banks = {b1, b2}
  Rows = {0, 1}
  FlatBank <- MCFlatBank
  BankOf <- MCBankOf
  RowOf <- MCRowOf
  Capacity = 4
  Addr = {0, 1, 3}
  Word = 16
  tx_bytes = 2
  WaitCycles = {0, 2}
  Deadline = 4
  MaxRequests = 2
  MaxActs = 2
  MaxRefs = 1
  MaxResumes = 1
INVARIANTS TypeOK NoDanglingCallback SessionSeesAll TracksOpenRows
PROPERTY Answered
