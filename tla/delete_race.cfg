\* Errors but no ClearCache: can two workers lead the same key?
CONSTANTS
  c1 = c1
  c2 = c2
  k1 = k1
  k2 = k2
  Callers <- MCCallers
  NumWorkers <- MCNumWorkers
  MaxRetries <- MCMaxRetries
  QueueSize <- MCQueueSize
  Keys <- OneKey
  Results <- DataOrErr
  MaxCalls = 2
  MaxClears = 0
  QueueTimeouts = FALSE
SPECIFICATION Spec
INVARIANT SingleFlight
