SPECIFICATION Spec
CONSTANTS
  Node <- MCNode
  CanId <- MCCanId
  BaseId <- MCBase
  Stored <- MCStored
  CobidValues <- MCCobids
  PeriodValues <- MCPeriods
  MaxValues <- MCMax
  LocalObjects <- MCLocal
  MaxCount = 3
  Cycle = 2
  TickMax = 2
  MaxRx = 1
INVARIANTS TypeOK ServiceFollowsObjects Aligned CounterInRange
PROPERTIES NoSkippedCounter SyncArrives
