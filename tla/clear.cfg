\* Backends that return data or an error, one ClearCache at any moment,
\* and the 20 s respChan timeout may fire.
CONSTANTS
  c1 = c1
  c2 = c2
  k1 = k1
  k2 = k2
  Callers <- MCCallers
  NumWorkers <- MCNumWorkers
  MaxRetries <- MCMaxRetries
  QueueSize <- MCQueueSize
  Keys <- OneKey
  Results <- DataOrErr
  MaxCalls = 1
  MaxClears = 1
  QueueTimeouts = TRUE
SPECIFICATION Spec
INVARIANT NoStaleError
\* A timed-out caller can leave a worker blocked for ever on its respChan
\* (run timeout_hang), so the program really can stop here.
CHECK_DEADLOCK FALSE
