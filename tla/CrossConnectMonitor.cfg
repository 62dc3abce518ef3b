CONSTANTS
  u1 = u1
  u2 = u2
  URLs <- MCURLs
  MaxChanges <- MCMaxChanges
SPECIFICATION Spec
INVARIANT MonitorStartedOnce
PROPERTY RegisteredGetsMonitor
PROPERTY ExitsAfterSignal
CHECK_DEADLOCK FALSE
