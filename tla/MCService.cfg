SPECIFICATION ServiceSpec
CONSTANTS
  LineKinds = {"request", "header", "malformed", "nul", "blank", "body"}
  MaxLines = 5
  MaxPieces = 4
  NoStatus = NoStatus
  Routes <- MCRoutes
  Requests <- MCRequests
  Malformed = Malformed
  None = None
INVARIANTS
  TypeOK
  HandlerSeesWholeHead
  ResponseKeepsOrder
  BadHeadIsReported
  NothingIsHeldBack
  StatusFitsRequest
  SuccessMeansAnswered
  CompletionReachesClient
PROPERTIES
  ImplementsConnection
  EveryConnectionEnds
