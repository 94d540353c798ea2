CONSTANTS
  Threads = {1, 2, 3}
  Nodes = {n1, n2}
  Fds = {f1}
  EPOLLIN = EPOLLIN
  EPOLLOUT = EPOLLOUT
  EPOLLHUP = EPOLLHUP
  Null = Null
  Bits <- MCBits
  ErrBits <- NoErrBits
  Usage <- SingleUsage
  Closable = {}
  Api <- TaskCalls

SPECIFICATION FairSpec
INVARIANTS
  TypeOK
  ListsPartition
  NoDangling
  NothingLeftBehind
PROPERTIES
  CancelTakesEffect
  NoLostWakeup
  ReadyRuns
  CancelledRemoved
