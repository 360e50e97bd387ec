CONSTANTS
  Word = 2
  Sizes <- MCSizes
  SzBuf = 4
  Iters = 2
  Capacity = 3
  Unknown <- MCUnknown
SPECIFICATION FairSpec
INVARIANTS TypeOK InTurn AnswersRight
PROPERTIES Completes EndsTogether
CHECK_DEADLOCK FALSE
