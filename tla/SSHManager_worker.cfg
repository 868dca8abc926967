\* A worker's goroutines, a caller and two spawned markDowns in every order, with a
\* peer that may never answer.
CONSTANTS
  d1 = d1
  t1 = t1
  t2 = t2
  Dialers <- OneDialer
  Tasks <- TwoTasks
  StartAttempts = 2
  MinBackoff = 1
  MaxBackoff = 2
  MaxConns = 8
  MaxFaults = 2
  MaxDials = 1
SPECIFICATION FairSpec
CHECK_DEADLOCK FALSE
INVARIANTS
  TypeOK
  StateMatchesConnector
  ConnectFindsDown
  ClientOwned
  NoOrphan
  UpMeansConn
  CloseReleases
  BackoffMatchesFails
PROPERTIES
  ImplementsTunnel
  Heals
  ShutdownCompletes
  StuckDialReturns
