CONSTANTS
  x = x
  y = y
  absent = absent
  noname = noname
  noval = noval
  junk = junk
  Names <- MCNames
  NoName <- noname
  Values <- AllValues
  Absent <- absent
  NoVal <- noval
  Junk <- junk
  Calls <- AllCalls
  MaxCalls = 2
  RcvTimeout = TRUE
  SndTimeout = TRUE
  Segmented = TRUE
  Disciplined = FALSE
  ErrTexts = {0, 8}
  GarbageLens = {0, 8, 16}
SPECIFICATION FairSpec
INVARIANTS TypeOK AnsweredOnce
PROPERTIES CallReturns
