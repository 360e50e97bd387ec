CONSTANTS
  x = x
  y = y
  absent = absent
  noname = noname
  noval = noval
  junk = junk
  Names <- MCNames
  NoName <- noname
  Values <- AllValues
  Absent <- absent
  NoVal <- noval
  Junk <- junk
  Calls <- SessionCalls
  MaxCalls = 3
  RcvTimeout = TRUE
  SndTimeout = TRUE
  Segmented = FALSE
  Disciplined = TRUE
  ErrTexts = {0}
  GarbageLens = {0}
SPECIFICATION ServedSpec
INVARIANTS InStep NoMutualWait
PROPERTIES OwnAnswer ReadBack ImplementsRemoteVars ServedReturns
