SPECIFICATION FairSpec
CONSTANTS
  low = low
  high = high
  NoUnit = NoUnit
  Units <- MCUnits
  Rank <- MCRank
  Priority <- MCPriorityAbove
  GamePriority = 100
  Eager = {low, high}
  HasBusyCmd = {high}
  Grace = 2
  BackoffMin = 1
  BackoffMax = 2
  Faults = {"scan", "probe", "start", "slow", "stop", "resume", "crash"}
PROPERTIES HoldRespected GameIsSeen GpuIsReturned IntruderIsStopped EagerComesUp ResumeIsDelivered
