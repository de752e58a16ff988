CONSTANTS
  c1 = c1
  c2 = c2
  None = None
  Calls <- MCCalls
  Requests <- MCRequests
  Clients = {"chat", "machine"}
  Names = {"t", "x"}
  Tables = {"t", "x"}
  Untimed = {"x"}
  MaxChanges = 1
  RowLimit = 2
  Limits = {0, 1, 3}
  MaxRows = 3
  TopN = 1
SPECIFICATION Spec
SYMMETRY Symmetry
CHECK_DEADLOCK FALSE
INVARIANT MistakeIsNoError
