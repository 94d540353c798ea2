CONSTANTS
  Threads = {1, 2}
  Nodes = {n1, n2, n3}
  Fds = {f1}
  EPOLLIN = EPOLLIN
  EPOLLOUT = EPOLLOUT
  EPOLLHUP = EPOLLHUP
  Null = Null
  Bits <- MCBits
  ErrBits <- MCErrBits
  Usage <- MixedUsage
  Closable = {f1}
  Api <- AllCalls
SYMMETRY Symmetry
SPECIFICATION Spec
PROPERTIES
  UsesManager
  WokenByItsEvent
  ImplementsTaskLife
