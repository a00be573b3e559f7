CONSTANTS
  NULL = NULL
  MaxWords = 3
  MaxMoves = 6
  Inputs <- MCInputs
  Elfs <- MCElfs
SPECIFICATION FairSpec
INVARIANTS
  TypeOK
  ExchangeRotates
  ArgvPartitioned
  OutcomeAsGiven
PROPERTIES
  ParseEnds
