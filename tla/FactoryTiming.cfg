CONSTANTS
  Hz <- MCHz
  PollMs = 20
  WriteMs = 100
  DelayMs = 100
  SessionTicks = 15
  WatchdogTicks = 12
  MaxText = 2
  MaxWork = 2
SPECIFICATION Spec
INVARIANTS TypeOK ExpiredInTime
PROPERTIES WarningNeedsFlood ComesUp
