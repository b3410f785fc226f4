\* Provider calls from three goroutines on a pool of capacity 2, with
\* dial failures, operation failures and broken connections.
CONSTANTS
  w1 = w1
  w2 = w2
  w3 = w3
  Clients <- MCClients
  Capacity <- MCCapacity
  MaxConns <- MCMaxConns
  MaxBreaks <- MCMaxBreaks
SYMMETRY Symmetry
SPECIFICATION Spec
INVARIANT ExclusiveUse
INVARIANT NoLeak
INVARIANT NoClosedReuse
