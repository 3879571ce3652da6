SPECIFICATION ModelSpec
CONSTANTS
  Sources <- MCSources
  MaxLexemes = 3
  MaxUnits = 3
  Precision = 2
  MaxLate = 3
  ByteBits = 2
  IntBytes = 2
  SizeBytes = 4
INVARIANTS
  TypeOK
  AcceptsTheGrammar
  PrintedIsReadBack
  DisturbancesNeverChangeTheValue
  TakesExactlyTheBody
  ModelIsReadWhole
  EqualityTellsValuesApart
