CONSTANTS
  x = x
  y = y
  noname = noname
  absent = absent
  Names <- MCNames
  NoName = noname
  Objects <- MCObjects
  Absent = absent
  Classes <- MCClasses
  MaxCalls = 3
  RcvTimeout = TRUE
SPECIFICATION Spec
INVARIANTS TypeOK InStep
PROPERTIES TellsTruth
