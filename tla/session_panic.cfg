\* A short subsystem payload from one client ends another client's
\* session.  Deadlock is not checked: after the panic the process is gone,
\* and with every client done the accept loop waits forever.
CONSTANTS
  c1 = c1
  c2 = c2
  good = good
  bad = bad
  Clients <- MCClients
  Creds <- MCCreds
  GoodCreds <- MCGoodCreds
  ChanTypes <- MCChanTypes
  Requests <- MCRequests
  MaxReqs <- MCMaxReqs
SPECIFICATION Spec
SYMMETRY MCSymmetry
PROPERTY SessionsIsolated
CHECK_DEADLOCK FALSE
