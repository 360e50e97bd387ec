CONSTANTS
  Requests <- MCRequests
  LenMod = 64
  WordMod = 256
  SendMax = 120
SPECIFICATION FairSpec
INVARIANTS ParameterBy8
