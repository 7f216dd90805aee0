SPECIFICATION Spec
CONSTANTS
  Node <- MCNode
  CanId <- MCCanId
  BaseId <- MCBase
  Stored <- MCStored
  CobidValues <- MCCobids
  PeriodValues <- MCPeriods
  MaxValues <- MCMax
  LocalObjects <- MCNoLocal
  MaxCount = 3
  Cycle = 2
  TickMax = 2
  MaxRx = 1
PROPERTIES SilentWhenStopped
