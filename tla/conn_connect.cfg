CONSTANTS
  Threads = {1, 2}
  Nodes = {n1, n2, n3}
  Fds = {s1, s2, f1}
  Timers = {f1}
  s1 = s1
  s2 = s2
  EPOLLIN = EPOLLIN
  EPOLLOUT = EPOLLOUT
  EPOLLHUP = EPOLLHUP
  Null = Null
  Bits <- MCBits
  ErrBits <- NoErrBits
  Usage <- MCUsage
  Closable = {}
  Api <- ConnApi
  Ops = {"connect"}
  SocketsOf <- OwnSocket
  AddressesFitInt = FALSE

SPECIFICATION ConnFairSpec
PROPERTIES
  TimeoutTakesEffect
