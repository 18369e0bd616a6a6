SPECIFICATION Spec
\* The listener may have ended, and its channel be closed.
CHECK_DEADLOCK FALSE
CONSTANTS
  Depth = 2
  Buffer = 2
  MaxLength = 2
  MaxEmitted = 5
INVARIANTS MissesShow
PROPERTIES ListenerIsCoarse
