SPECIFICATION SafeSpec
CONSTANTS
  Workers = {w1, w2}
  Clients = {c1, c2, c3}
  Signals = {SIGINT, SIGTERM}
  Main = Main
  Listener = Listener
  NoClient = NoClient
  Free = Free
  MaxSends = 2
  EarlySignals = TRUE
  FixedPort = TRUE
  FdLimit = 2
  AcceptErrors = TRUE
  TasksMayKill = TRUE
SYMMETRY Symmetry
INVARIANTS
  TypeOK
  ServedInOrderOfConnection
  OpenWhileNeeded
  PoolOutlivesListener
PROPERTIES
  ImplementsSafeSerialServer
  NothingAcceptedAfterStop
CHECK_DEADLOCK FALSE
