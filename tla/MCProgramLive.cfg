SPECIFICATION ProgramSpec
CONSTANTS
  Workers = {w1}
  Clients = {c1, c2}
  Signals = {SIGINT}
  Main = Main
  Listener = Listener
  NoClient = NoClient
  Free = Free
  MaxSends = 1
  EarlySignals = FALSE
  FixedPort = FALSE
  FdLimit = 2
  AcceptErrors = FALSE
  TasksMayKill = TRUE
  HangUps = FALSE
  LineKinds = {"request", "blank", "nul"}
  MaxLines = 2
  MaxPieces = 0
  NoStatus = NoStatus
PROPERTIES
  ImplementsServer
  ImplementsSerialServer
  GracefulShutdown
  ClientsAreServed
