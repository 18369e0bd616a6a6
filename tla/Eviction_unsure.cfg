SPECIFICATION Spec
CONSTANTS
  Threshold = 2
  MaxVram = 2
  Timeout = 2
  Settle = 1
INVARIANTS UnsureIsStopped
