CONSTANTS
  Threads = {1, 2, 3, 4}
  Listener = 4
  ProcessTasks = {3}
  RelayTasks = {1, 2}
  Nodes = {n1, n2, n3, n4}
  Fds = {listen, s1, s2, s3}
  ListenFd = listen
  ClientFds = {s1, s2, s3}
  Clients = {c1, c2}
  Timers = {}
  EPOLLIN = EPOLLIN
  EPOLLOUT = EPOLLOUT
  EPOLLHUP = EPOLLHUP
  Null = Null
  Bits <- MCBits
  ErrBits <- MCErrBits
  Usage <- MCUsage
  Closable = {s1, s2, s3}
  Api <- SocksApi
  Ops = {"read_n_bytes", "read_some", "write_some", "connect"}
  SocketsOf <- AnySocket
  AddressesFitInt = TRUE
CHECK_DEADLOCK FALSE
SYMMETRY Symmetry
CONSTRAINT OneGreets
SPECIFICATION SocksSpec
INVARIANTS
  RelaysShareSafely
  HandedOver
  EventsFollowSockets
  NewClientsHeard
PROPERTIES
  ClientsKeepTasks
