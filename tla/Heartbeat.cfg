SPECIFICATION FairSpec
CONSTANTS
  Period = 2
  Ms = 7
  TickMax = 2
  Delay = 1
  MaxWire = 1
INVARIANTS TypeOK NeverEarly NeverLate NoFalseAlarm StateTold
PROPERTIES MonitorSpec CrashReported
