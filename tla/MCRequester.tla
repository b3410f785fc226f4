---------------------------- MODULE MCRequester ----------------------------
(* Instantiation of Requester for TLC: the callers and keys are model     *)
(* values given in each .cfg; the bounds are named here.                   *)
EXTENDS Requester

CONSTANTS c1, c2, k1, k2

MCCallers == {c1, c2}
OneKey == {k1}
TwoKeys == {k1, k2}

\* Two workers: enough for a second worker to find the first one's entry,
\* and for one to lead a key while the other serves a caller.
MCNumWorkers == 2
\* cacheErrRetryAttempts in makerequest.go
MCMaxRetries == 3
\* workQueueSize is 1000; a queue of one item is full as soon as two
\* callers miss the cache together, so a caller blocks on the send.
MCQueueSize == 1
\* What the backend answers: the n-th backend call may return any of a set.
DataOrEmpty(n) == {"Data", "Empty"}
DataOrErr(n) == {"Data", "Err"}
DataOnly(n) == {"Data"}
\* A directory or file that is empty when first read and filled later:
\* every backend call after the first returns data.
EmptyThenData(n) == IF n = 1 THEN {"Empty"} ELSE {"Data"}
=============================================================================
