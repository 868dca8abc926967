\* The timeouts of a worker: 15 s for the handshake, 20 s of idleness.
CONSTANTS
  c1 = c1
  c2 = c2
  NoConn = NoConn
  Conns <- TwoConns
  MaxConns = 2
  HandshakeTO = 3
  IdleTimeout = 4
SPECIFICATION Spec
INVARIANT RelayOutlivesHandshake
CHECK_DEADLOCK FALSE
