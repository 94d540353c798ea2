CONSTANTS
  Threads = {1, 2}
  Nodes = {n1, n2, n3, n4}
  Fds = {s1, f1}
  Timers = {f1}
  s1 = s1
  s2 = s2
  EPOLLIN = EPOLLIN
  EPOLLOUT = EPOLLOUT
  EPOLLHUP = EPOLLHUP
  Null = Null
  Bits <- MCBits
  ErrBits <- MCErrBits
  Usage <- MCUsage
  Closable = {}
  Api <- ConnApi
  Ops = {"read_n_bytes", "read_some", "write_some", "connect"}
  SocketsOf <- OneSocket
  AddressesFitInt = TRUE
SYMMETRY Symmetry
SPECIFICATION ConnSpec
INVARIANT
  ConnTypeOK
PROPERTIES
  WaitsForItsEvent
  NothingComesLoose
  UsesCoEnv
  FailureIsReal
