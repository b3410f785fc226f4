\* Spec section 5: a connection whose operation failed is probed and
\* discarded if it is dead.  ReadFile's WriteTo failure skips the probe.
CONSTANTS
  w1 = w1
  w2 = w2
  w3 = w3
  Clients <- MCClients
  Capacity <- MCCapacity
  MaxConns <- MCMaxConns
  MaxBreaks <- MCMaxBreaks
SYMMETRY Symmetry
SPECIFICATION Spec
PROPERTY FailedNotReturned
