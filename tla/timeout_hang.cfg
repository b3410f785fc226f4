\* The 20 s respChan timeout may fire.
CONSTANTS
  c1 = c1
  c2 = c2
  k1 = k1
  k2 = k2
  Callers <- MCCallers
  NumWorkers <- MCNumWorkers
  MaxRetries <- MCMaxRetries
  QueueSize <- MCQueueSize
  Keys <- OneKey
  Results <- DataOnly
  MaxCalls = 2
  MaxClears = 0
  QueueTimeouts = TRUE
SPECIFICATION Spec
PROPERTY CallsTerminate
\* a caller parked forever on a ticket leaves no step enabled; the
\* question asked is the liveness property, so deadlock is not reported
CHECK_DEADLOCK FALSE
