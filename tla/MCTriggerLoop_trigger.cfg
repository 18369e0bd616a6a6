SPECIFICATION FairSpec
\* The daemon may have stopped.
CHECK_DEADLOCK FALSE
CONSTANTS
  a = a
  b = b
  c = c
  Requests = {a, b, c}
  Managed = {a, b}
  Depth = 1
  Window = 2
  Interval = 1
  JoinLimit = 1
  MaxDue = 1
INVARIANTS NoRequestLost
PROPERTIES PassIsNotAborted EveryClientIsAnswered ChangesAreSeen ShutdownGoesThrough
