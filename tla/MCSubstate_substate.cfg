SPECIFICATION Spec
\* A walk and a refresh end.
CHECK_DEADLOCK FALSE
CONSTANTS
  ollama = ollama
  asr = asr
  Gone = Gone
  Unset = Unset
  Pids = {1, 2}
  Programs <- MCPrograms
  GamePatterns <- MCPatterns
  detect_steam = TRUE
  Units <- MCUnits
  Systemd = {ollama}
  Asks <- MCAsks
  VramMatch <- MCMatch
  Earlier <- MCEarlier
  QueryTime = 0
  ControlTime = 1
  IntrospectTime = 1
  MaxMoves = 2
INVARIANTS ClaimsAreOfTheWalk StatusIsOfThisRefresh VramIsTheUnits RefreshIsBounded
