CONSTANTS
  Threads = {1}
  Nodes = {n1, n2}
  Fds = {s1, f1}
  Timers = {f1}
  s1 = s1
  s2 = s2
  EPOLLIN = EPOLLIN
  EPOLLOUT = EPOLLOUT
  EPOLLHUP = EPOLLHUP
  Null = Null
  Bits <- MCBits
  ErrBits <- NoErrBits
  Usage <- MCUsage
  Closable = {}
  Api <- ConnApi
  Ops = {"read_n_bytes"}
  SocketsOf <- OwnSocket
  AddressesFitInt = TRUE

SPECIFICATION ConnFairSpec
PROPERTIES
  TimeoutTakesEffect
