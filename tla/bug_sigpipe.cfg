CONSTANTS
  Threads = {1, 2, 3, 4}
  Listener = 2
  Checker = 3
  Nodes = {n1, n2, n3, n4}
  Fds = {listen, timer, s1, s2}
  ListenFd = listen
  CheckTimer = timer
  ClientFds = {s1, s2}
  Clients = {c1, c2}
  Timers = {}
  EPOLLIN = EPOLLIN
  EPOLLOUT = EPOLLOUT
  EPOLLHUP = EPOLLHUP
  Null = Null
  Bits <- MCBits
  ErrBits <- MCErrBits
  Usage <- MCUsage
  Closable = {s1, s2}
  Api <- EchoApi
  Ops = {"read_some", "write_some"}
  SocketsOf <- AnySocket
  AddressesFitInt = TRUE
SYMMETRY Symmetry
SPECIFICATION EchoSpec
INVARIANT
  WritesIgnoreSigpipe
