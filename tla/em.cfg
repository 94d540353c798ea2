CONSTANTS
  Threads = {t1, t2}
  Nodes = {n1, n2, n3}
  Fds = {mixed, single, closed}
  mixed = mixed
  single = single
  closed = closed
  EPOLLIN = EPOLLIN
  EPOLLOUT = EPOLLOUT
  EPOLLHUP = EPOLLHUP
  Null = Null
  Bits <- MCBits
  ErrBits <- MCErrBits
  Usage <- MCUsage
  Closable = {closed}
SYMMETRY Symmetry
SPECIFICATION ListSpec
INVARIANTS
  ManagerTypeOK
  RecordsAgree
  NeverBlind
  CacheSound
  InterestExact
  NoOrphanInterest
  WellLinked
