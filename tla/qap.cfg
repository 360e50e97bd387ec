CONSTANTS
  Requests <- MCRequests
  LenMod = 64
  WordMod = 256
  SendMax = 120
SPECIFICATION FairSpec
INVARIANTS TypeOK AnnouncedIsSent NamePadded StringsKept VectorSaid
PROPERTIES Ends
