\* A backend whose first answer is an empty payload and every later answer
\* data (an empty directory that is then filled), no ClearCache.
CONSTANTS
  c1 = c1
  c2 = c2
  k1 = k1
  k2 = k2
  Callers <- MCCallers
  NumWorkers <- MCNumWorkers
  MaxRetries <- MCMaxRetries
  QueueSize <- MCQueueSize
  Keys <- OneKey
  Results <- EmptyThenData
  MaxCalls = 1
  MaxClears = 0
  QueueTimeouts = FALSE
SPECIFICATION Spec
INVARIANT NoExhaustion
