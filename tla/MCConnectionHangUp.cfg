SPECIFICATION SafeSpec
CONSTANTS
  LineKinds = {"request", "header", "malformed", "nul", "blank", "body"}
  MaxLines = 3
  MaxPieces = 5
  NoStatus = NoStatus
INVARIANTS
  SurvivesHangUp
