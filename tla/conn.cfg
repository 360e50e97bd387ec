CONSTANTS
  s1 = s1
  s2 = s2
  here = here
  there = there
  Fds <- MCFds
  NoSock = nosock
  Slots <- MCSlots
  Hosts <- MCHosts
  Local = here
  Texts = {ipv6}
  NoServer = noserver
  Free = free
  None = none
  RcvTimeout = TRUE
  MaxOps = 4
SPECIFICATION FairSpec
INVARIANTS TypeOK HeldIsGood ConnectsWhereAsked
PROPERTIES ImplementsSockets Returns
