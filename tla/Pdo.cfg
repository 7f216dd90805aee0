SPECIFICATION Spec
CONSTANTS
  StoredT <- MCStoredT
  StoredR <- MCStoredR
  Cobids <- MCCobids
  TransT = {0, 2, 252, 253, 254}
  TransR = {1, 254}
  Inhibits = {0}
  Events = {0, 2}
  Starts = {2}
  Window = 1
  SyncMax = 2
  MaxFrame = 2
  MaxChange = 3
INVARIANTS TypeOK InhibitKept EventTimerRuns
PROPERTIES SyncSeparates
