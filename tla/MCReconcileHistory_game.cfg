SPECIFICATION HSpec
CONSTANTS
  low = low
  high = high
  NoUnit = NoUnit
  Units <- MCUnits
  Rank <- MCRank
  Priority <- MCPriority
  GamePriority = 100
  Eager = {low, high}
  HasBusyCmd = {high}
  Grace = 2
  BackoffMin = 1
  BackoffMax = 1
  Faults = {"scan", "probe", "start", "slow", "stop", "resume", "crash"}
INVARIANTS FreedForGame NoTenuredSurvivor NoStartIntoKnownGame DegradedTellsTheTruth ResumeNeverLost LadderEnforced
PROPERTIES HandsOver GraceHonoured
