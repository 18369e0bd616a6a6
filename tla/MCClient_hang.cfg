SPECIFICATION Spec
\* The client may have ended.
CHECK_DEADLOCK FALSE
CONSTANTS
  MaxWords = 1
  Lines <- PlainWait
  PollInterval = 1
  DefaultTimeout = 3
PROPERTIES WaitGivesUp
