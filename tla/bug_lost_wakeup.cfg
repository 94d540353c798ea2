CONSTANTS
  Threads = {1, 2}
  Nodes = {n1, n2}
  Fds = {f1}
  EPOLLIN = EPOLLIN
  EPOLLOUT = EPOLLOUT
  EPOLLHUP = EPOLLHUP
  Null = Null
  Bits <- MCBits
  ErrBits <- NoErrBits
  Usage <- MixedUsage
  Closable = {}
  Api <- TaskCalls

SPECIFICATION EagerSpec
PROPERTIES
  NoLostWakeup
