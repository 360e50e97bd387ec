CONSTANTS
  x = x
  y = y
  absent = absent
  noname = noname
  noval = noval
  junk = junk
  Names <- MCNames
  NoName <- noname
  Values <- BufValues
  Absent <- absent
  NoVal <- noval
  Junk <- junk
  Calls <- BufCalls
  MaxCalls = 2
  RcvTimeout = TRUE
  SndTimeout = TRUE
  Segmented = TRUE
  Disciplined = TRUE
  ErrTexts = {0}
  GarbageLens = {0}
SPECIFICATION Spec
PROPERTIES StoredOnSuccess
