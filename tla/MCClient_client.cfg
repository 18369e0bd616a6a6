SPECIFICATION Spec
\* The client may have ended.
CHECK_DEADLOCK FALSE
CONSTANTS
  MaxWords = 3
  Lines <- MCLines
  PollInterval = 1
  DefaultTimeout = 3
INVARIANTS ExitCodesTellTheTruth NoAccidentalDaemon
PROPERTIES ChangesChain CommandsEnd StaysShown
