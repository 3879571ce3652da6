SPECIFICATION ProgramSafeSpec
CONSTANTS
  Workers = {w1}
  Clients = {c1, c2}
  Signals = {SIGINT}
  Main = Main
  Listener = Listener
  NoClient = NoClient
  Free = Free
  MaxSends = 2
  EarlySignals = FALSE
  FixedPort = FALSE
  FdLimit = 2
  AcceptErrors = FALSE
  TasksMayKill = TRUE
  HangUps = FALSE
  LineKinds = {"request", "header", "malformed", "nul", "blank", "body"}
  MaxLines = 2
  MaxPieces = 1
  NoStatus = NoStatus
SYMMETRY Symmetry
INVARIANTS
  ConnectionsAreSafe
  SlowClientsAreToldSo
CHECK_DEADLOCK FALSE
