CONSTANTS
  Lens <- MCLens
  MaxLen = 4
  MaxSent = 9
  RcvTimeout = TRUE
SPECIFICATION FairSpec
INVARIANTS TypeOK NoOverrun Contiguous
PROPERTIES ImplementsExactRead CallReturns
