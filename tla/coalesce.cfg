\* Same-key calls with backends that return data or an empty payload,
\* no ClearCache, no queue timeout.
CONSTANTS
  c1 = c1
  c2 = c2
  k1 = k1
  k2 = k2
  Callers <- MCCallers
  Keys <- OneKey
  NumWorkers <- MCNumWorkers
  MaxRetries <- MCMaxRetries
  QueueSize <- MCQueueSize
  Results <- DataOrEmpty
  MaxCalls = 2
  MaxClears = 0
  QueueTimeouts = FALSE
SPECIFICATION Spec
INVARIANT TypeOK
INVARIANT SingleFlight
INVARIANT PendingOwned
PROPERTY CallsTerminate
PROPERTY ImplementsKeyCache
