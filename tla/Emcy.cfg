SPECIFICATION Spec
CONSTANTS
  MaxMsg = 3
  BufSize = 2
  HistLen = 2
  Inhibits <- MCInhibits
  Stored <- MCStored
  MaxErr = 5
INVARIANTS TypeOK HistoryMirrorsStack PendingIsTimed InOrder
PROPERTIES Delivered
