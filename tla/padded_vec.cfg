CONSTANTS
  x = x
  y = y
  absent = absent
  noname = noname
  noval = noval
  junk = junk
  Names <- MCNames
  NoName <- noname
  Values <- RawValues
  Absent <- absent
  NoVal <- noval
  Junk <- junk
  Calls <- RawCalls
  MaxCalls = 2
  RcvTimeout = FALSE
  SndTimeout = FALSE
  Segmented = FALSE
  Disciplined = TRUE
  ErrTexts = {0}
  GarbageLens = {0}
SPECIFICATION Spec
PROPERTIES VectorAsStored
