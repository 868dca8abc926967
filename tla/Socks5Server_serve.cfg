\* Two clients for one slot; dials may hang for ever.
CONSTANTS
  c1 = c1
  c2 = c2
  NoConn = NoConn
  Conns <- TwoConns
  MaxConns = 1
  HandshakeTO = 2
  IdleTimeout = 2
SPECIFICATION FairSpec
INVARIANTS
  LimitHeld
  CleanDrainIsQuiet
  NoneLeaks
PROPERTIES
  ServeReturns
  SlotsComeBack
CHECK_DEADLOCK FALSE
