SPECIFICATION SafeSpec
CONSTANTS
  Workers = {w1, w2}
  Clients = {c1, c2}
  Signals = {SIGINT}
  Main = Main
  Listener = Listener
  NoClient = NoClient
  Free = Free
  MaxSends = 1
  EarlySignals = FALSE
  FixedPort = TRUE
  FdLimit = 2
  AcceptErrors = FALSE
  TasksMayKill = FALSE
INVARIANTS
  AcceptedClientsFindAPool
