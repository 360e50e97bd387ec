CONSTANTS
  Answers <- MCAnswers
  Buffers <- MCBuffers
  GarbageKeys <- MCGarbage
  RcvTimeout = TRUE
SPECIFICATION FairSpec
INVARIANTS TypeOK NoOverrun WholeAnswer KeysAndValues
PROPERTIES Returns
