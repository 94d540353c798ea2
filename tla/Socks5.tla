------------------------------- MODULE Socks5 -------------------------------
(***************************************************************************)
(* The SOCKS5 server (examples/socks5_server): a program over co_env and   *)
(* connection, whose calls are the actions of CoEnv and Connection.  The   *)
(* listener accepts clients.  A client has first one task (process), which *)
(* shakes hands and connects to the remote side, and then two (trans_func1 *)
(* and trans_func2), which relay in one direction each: every socket is    *)
(* read by one of them and written by the other.                           *)
(*                                                                         *)
(* Null stands for -1.  The two handlers of SIGPIPE that overlap are in    *)
(* EchoServer and not here.                                                *)
(***************************************************************************)
EXTENDS Connection

CONSTANTS
  Listener,             (* the task of listen_func                          *)
  ProcessTasks,         (* the addresses that add_task returns for process  *)
  RelayTasks,           (* and for the two relays                           *)
  ListenFd,             (* m_listen_socket                                  *)
  ClientFds,            (* the numbers that accept and socket return        *)
  Clients               (* the addresses of socks5_client objects           *)

ASSUME SocksAssumption ==
  /\ Listener \in Threads
  /\ ProcessTasks \cup RelayTasks \subseteq Threads \ {Listener}
  /\ {ListenFd} \cup ClientFds \subseteq Fds \ Timers /\ ListenFd \notin ClientFds
  /\ ClientFds \subseteq Closable
  /\ Null \notin Clients \cup Fds
ASSUME ServesAssumption ==
  /\ {"read_n_bytes", "read_some", "write_some", "connect"} \subseteq Ops
  /\ \A t \in Threads : ClientFds \subseteq SocketsOf[t]

VARIABLES
  client,     (* the socks5_client objects                                  *)
  m_clients,  (* the set that the server keeps of them                      *)
  work        (* each task: its function and argument, the fds of its       *)
              (* connections, and where it is between the calls of those    *)

serverVars == <<client, m_clients, work>>
socksVars == <<connVars, serverVars>>

Workers == ProcessTasks \cup RelayTasks

NoWork == [func |-> Null, self |-> Null, from |-> Null, to |-> Null, at |-> "start"]
Task(func, self) == [NoWork EXCEPT !.func = func, !.self = self]

\* The constructor of socks5_server, and main: the listener is added, loop() runs.
SocksInit ==
  /\ ConnInit
  /\ client = [c \in {} |-> Null]
  /\ m_clients = {}
  /\ work = [t \in Threads |-> NoWork]

ServerStarts ==
  /\ pc = "main"
  /\ AddTask(Listener)
  /\ UNCHANGED <<conn, timers, serverVars>>

-----------------------------------------------------------------------------
AtPlace(p) == pc = "run" /\ ManagerIdle /\ conn[it].at = "outside" /\ work[it].at = p

GoesTo(p) == work' = [work EXCEPT ![it].at = p]

Self == work[it].self

-----------------------------------------------------------------------------
(* listen_func                                                             *)

\* yield_event(m_listen_socket, EPOLLIN)
ListenAgain(n) ==
  /\ it = Listener
  /\ AtPlace("start")
  /\ RegisterEvent(n, ListenFd, {EPOLLIN})
  /\ GoesTo("yield")
  /\ UNCHANGED <<conn, timers, client, m_clients>>

ListenerBlocks ==
  /\ it = Listener
  /\ AtPlace("yield")
  /\ Block
  /\ GoesTo("woken")
  /\ UNCHANGED <<conn, timers, client, m_clients>>

\* accept takes the connection that has come.
TakesConnection ==
  /\ it = Listener
  /\ AtPlace("woken")
  /\ Environment(ListenFd, {})
  /\ GoesTo("accepted")
  /\ UNCHANGED <<conn, timers, client, m_clients>>

\* What accept and socket may return: a number that is not in use, or -1; `new' returns
\* an address that no client occupies.
FreeFds == ClientFds \ UNION {{client[c].m_socket, client[c].m_remote_socket} : c \in DOMAIN client}
Opened == FreeFds \cup {Null}
FreeAddress(c) == c \notin DOMAIN client

\* The constructor of socks5_client.
NewClient(fd, t) == [m_socket |-> fd, m_remote_socket |-> Null, m_cothread |-> t,
                     m_trans_cothread1 |-> Null, m_trans_cothread2 |-> Null]

\* new socks5_client(...), m_clients.insert.
Accept(c, fd, t) ==
  /\ it = Listener
  /\ AtPlace("accepted")
  /\ fd \in Opened /\ FreeAddress(c)
  /\ AddTask(t)
  /\ client' = [d \in DOMAIN client \cup {c} |-> IF d = c THEN NewClient(fd, t) ELSE client[d]]
  /\ m_clients' = m_clients \cup {c}
  /\ work' = [work EXCEPT ![t] = Task("process", c), ![it].at = "start"]
  /\ UNCHANGED <<conn, timers>>

-----------------------------------------------------------------------------
(* The tasks of a client as tables: the call of connection that is made at *)
(* each place, and where the task goes on when it has succeeded and when   *)
(* it has failed.                                                          *)

OpAt == [greet1 |-> "read_n_bytes", greet2 |-> "read_n_bytes", greet3 |-> "read_n_bytes",
         welcome |-> "write_some", ask1 |-> "read_n_bytes", ask2 |-> "read_n_bytes",
         connect |-> "connect", answer |-> "write_some", refuse |-> "write_some",
         read |-> "read_some", write |-> "write_some"]

\* A message that is not to the server's taste is refused, with an answer or
\* without; the results of the writes of process are not looked at.
OnSuccess ==
  [greet1 |-> {"greet2", "close"}, greet2 |-> {"greet3", "close"}, greet3 |-> {"welcome", "refuse"},
   welcome |-> {"ask1"}, ask1 |-> {"ask2", "refuse"}, ask2 |-> {"socket"},
   connect |-> {"answer"}, answer |-> {"relay1"}, refuse |-> {"close"},
   read |-> {"write"}, write |-> {"read"}]

\* Mutation: a relay that fails returns without close_client.
FailsUnclosed ==
  [greet1 |-> "close", greet2 |-> "close", greet3 |-> "close",
   welcome |-> "ask1", ask1 |-> "close", ask2 |-> "close",
   connect |-> "refuse", answer |-> "relay1", refuse |-> "close",
   read |-> "ended", write |-> "close"]

OnFailure ==
  [greet1 |-> "close", greet2 |-> "close", greet3 |-> "close",
   welcome |-> "ask1", ask1 |-> "close", ask2 |-> "close",
   connect |-> "refuse", answer |-> "relay1", refuse |-> "close",
   read |-> "close", write |-> "close"]
-----------------------------------------------------------------------------
(* Each task opens its connections and makes its calls.                    *)

\* connection conn(self->m_socket, thread): process and the relays begin.
\* trans_func1 goes from the client to the remote side, trans_func2 back.
Opens ==
  /\ it \in Workers
  /\ AtPlace("start")
  /\ LET c == client[Self]
         fds == CASE work[it].func = "process" -> <<c.m_socket, Null>>
                  [] work[it].func = "trans_func1" -> <<c.m_socket, c.m_remote_socket>>
                  [] work[it].func = "trans_func2" -> <<c.m_remote_socket, c.m_socket>>
     IN  work' = [work EXCEPT ![it].from = fds[1], ![it].to = fds[2],
                              ![it].at = IF work[it].func = "process" THEN "greet1" ELSE "read"]
  /\ UNCHANGED <<connVars, client, m_clients>>

\* connect is called on the remote socket, a relay writes to the other side; the
\* rest is on the socket that the task reads.
FdAt(place) == IF place \in {"connect", "write"} THEN work[it].to ELSE work[it].from

Calling ==
  /\ it \in Workers
  /\ work[it].at \in DOMAIN OpAt
  /\ FdAt(work[it].at) # Null
  /\ StartCall(OpAt[work[it].at], FdAt(work[it].at))
  /\ UNCHANGED serverVars

\* A call on -1 fails at once: neither accept nor socket is checked.
CallsInVain ==
  /\ it \in Workers
  /\ \E p \in DOMAIN OpAt : AtPlace(p)
  /\ FdAt(work[it].at) = Null
  /\ GoesTo(OnFailure[work[it].at])
  /\ UNCHANGED <<connVars, client, m_clients>>

\* Inside a call of connection; what arrives meanwhile shows when epoll_wait looks.
InCall ==
  /\ \/ WouldBlock \/ MovePart \/ MoveAllOrFail \/ Retry \/ Wait \/ Resume
     \/ \E n \in Nodes : RegisterSocket(n)
  /\ \A fd \in ClientFds : ready'[fd] \subseteq ready[fd]
  /\ UNCHANGED serverVars

\* There are addresses left for the relays: the remote sides of the instance
\* accept no more connections than that.
RoomForRelays == \E t, u \in RelayTasks \ valid_cothreads : t # u

SucceedsTo(p) == p \in OnSuccess[work[it].at] /\ (p = "answer" => RoomForRelays)

CallSucceeds ==
  /\ FinishCall
  /\ \E p \in OnSuccess[work[it].at] : SucceedsTo(p) /\ GoesTo(p)
  /\ UNCHANGED <<client, m_clients>>

\* It has returned -1 or false.
CallFails ==
  /\ FinishCall \/ GiveUp
  /\ GoesTo(OnFailure[work[it].at])
  /\ UNCHANGED <<client, m_clients>>

\* m_remote_socket = socket(...)
OpensRemote(fd) ==
  /\ AtPlace("socket")
  /\ fd \in Opened
  /\ client' = [client EXCEPT ![Self].m_remote_socket = fd]
  /\ work' = [work EXCEPT ![it].to = fd, ![it].at = "connect"]
  /\ UNCHANGED <<connVars, m_clients>>

\* ::connect does not answer EINPROGRESS.
ConnectsAtOnce ==
  /\ AtPlace("connect")
  /\ work[it].to # Null
  /\ \E p \in {"answer", "refuse"} : (p = "answer" => RoomForRelays) /\ GoesTo(p)
  /\ UNCHANGED <<connVars, client, m_clients>>

\* m_trans_cothread1 = add_task(trans_func1, self)
AddsRelay1(t) ==
  /\ AtPlace("relay1")
  /\ AddTask(t)
  /\ client' = [client EXCEPT ![Self].m_trans_cothread1 = t]
  /\ work' = [work EXCEPT ![t] = Task("trans_func1", Self), ![it].at = "relay2"]
  /\ UNCHANGED <<conn, timers, m_clients>>

\* Mutation: m_cothread is left as it is.
AddsRelay2Only(t) ==
  /\ AtPlace("relay2")
  /\ AddTask(t)
  /\ client' = [client EXCEPT ![Self].m_trans_cothread2 = t]
  /\ work' = [work EXCEPT ![t] = Task("trans_func2", Self), ![it].at = "ended"]
  /\ UNCHANGED <<conn, timers, m_clients>>

\* m_trans_cothread2 = add_task(trans_func2, self); m_cothread = -1; return
AddsRelay2(t) ==
  /\ AtPlace("relay2")
  /\ AddTask(t)
  /\ client' = [client EXCEPT ![Self].m_trans_cothread2 = t, ![Self].m_cothread = Null]
  /\ work' = [work EXCEPT ![t] = Task("trans_func2", Self), ![it].at = "ended"]
  /\ UNCHANGED <<conn, timers, m_clients>>

-----------------------------------------------------------------------------
(* close_client(self), and the destructor: a member after the other.       *)

ClosesClient ==
  /\ AtPlace("close")
  /\ GoesTo(IF Self \in m_clients THEN "m_socket" ELSE "ended")
  /\ UNCHANGED <<connVars, client, m_clients>>

NextMember == [m_socket |-> "m_remote_socket", m_remote_socket |-> "m_cothread",
               m_cothread |-> "m_trans_cothread1", m_trans_cothread1 |-> "m_trans_cothread2"]

\* ::close: an fd that epoll does not watch is closed unnoticed.
ClosesSocket(fd) == Close(fd) \/ (epoll[fd] = {} /\ Environment(fd, {}))

ClosesMember(socket) ==
  /\ AtPlace(socket)
  /\ LET fd == client[Self][socket]
     IN  IF fd = Null THEN UNCHANGED vars ELSE ClosesSocket(fd)
  /\ GoesTo(NextMember[socket])
  /\ UNCHANGED <<conn, timers, client, m_clients>>

\* cancel_task(m_cothread), of an int.
CancelsTask(id) ==
  IF AddressesFitInt /\ id \in valid_cothreads THEN CancelTask(id) ELSE UNCHANGED vars

CancelsMember(task) ==
  /\ task \in DOMAIN NextMember
  /\ AtPlace(task)
  /\ CancelsTask(client[Self][task])
  /\ GoesTo(NextMember[task])
  /\ UNCHANGED <<conn, timers, client, m_clients>>

\* Mutation: the destructor forgets m_trans_cothread2.
DeletedUncancelled ==
  /\ AtPlace("m_trans_cothread2")
  /\ client' = [c \in DOMAIN client \ {Self} |-> client[c]]
  /\ m_clients' = m_clients \ {Self}
  /\ GoesTo("ended")
  /\ UNCHANGED connVars

\* The last member; the object is gone, and m_clients.erase.
Deleted ==
  /\ AtPlace("m_trans_cothread2")
  /\ CancelsTask(client[Self].m_trans_cothread2)
  /\ client' = [c \in DOMAIN client \ {Self} |-> client[c]]
  /\ m_clients' = m_clients \ {Self}
  /\ GoesTo("ended")
  /\ UNCHANGED <<conn, timers>>

\* The function of the task returns.
Ended ==
  /\ AtPlace("ended")
  /\ Finish
  /\ UNCHANGED <<conn, timers, serverVars>>

-----------------------------------------------------------------------------
\* The scheduler moves; what a task has on its stack goes with it.
ServerSchedule ==
  /\ Loop \/ (CallLoop /\ Listener \in valid_cothreads)
  /\ LET exists(t) == t \in valid_cothreads' \cup {leaving'}
     IN  /\ conn' = [t \in Threads |-> IF exists(t) THEN conn[t] ELSE Outside]
         /\ work' = [t \in Threads |-> IF exists(t) THEN work[t] ELSE NoWork]
  /\ UNCHANGED <<timers, client, m_clients>>

\* A client connects, if there is room for one more in the instance.
Connects ==
  /\ pc = "check"
  /\ ProcessTasks \ valid_cothreads # {}
  /\ \E c \in Clients : FreeAddress(c)
  /\ Environment(ListenFd, {EPOLLIN})
  /\ UNCHANGED <<conn, timers, serverVars>>

\* Something happens to a socket that epoll watches for it; what nobody waits for
\* shows in what the next call does.
Stirs(fd, bits) ==
  /\ pc = "check"
  /\ epoll[fd] # {}
  /\ bits \subseteq epoll[fd] \cup ErrBits
  /\ Environment(fd, bits)
  /\ UNCHANGED <<conn, timers, serverVars>>

ListenStep ==
  \/ \E n \in Nodes : ListenAgain(n)
  \/ ListenerBlocks
  \/ TakesConnection
  \/ \E c \in Clients, fd \in ClientFds \cup {Null}, t \in ProcessTasks : Accept(c, fd, t)

WorkStep ==
  \/ Opens \/ Calling \/ CallsInVain \/ InCall \/ CallSucceeds \/ CallFails
  \/ \E fd \in ClientFds \cup {Null} : OpensRemote(fd)
  \/ ConnectsAtOnce
  \/ \E t \in RelayTasks : AddsRelay1(t) \/ AddsRelay2(t)
  \/ ClosesClient
  \/ \E socket \in {"m_socket", "m_remote_socket"} : ClosesMember(socket)
  \/ \E task \in {"m_cothread", "m_trans_cothread1"} : CancelsMember(task)
  \/ Deleted
  \/ Ended

SocksNext ==
  \/ ServerStarts
  \/ ListenStep \/ WorkStep
  \/ ServerSchedule
  \/ Connects
  \/ \E fd \in ClientFds, bits \in SUBSET AllBits : Stirs(fd, bits)

SocksSpec == SocksInit /\ [][SocksNext]_socksVars

-----------------------------------------------------------------------------
ServedBy(c) == {client[c].m_cothread, client[c].m_trans_cothread1, client[c].m_trans_cothread2} \ {Null}

\* A task that runs has the client that it was given, not one that is deleted or
\* that was put at its address: the two relays share the client, and either may
\* delete it while the other is ready to run (socks5_client.cpp:185, 205).
RelaysShareSafely ==
  pc = "run" /\ it \in Workers /\ work[it].at # "ended" =>
    Self \in DOMAIN client /\ it \in ServedBy(Self)

\* The member of a client that names the task of each function.
MemberOf == [process |-> "m_cothread", trans_func1 |-> "m_trans_cothread1", trans_func2 |-> "m_trans_cothread2"]

\* When the loop waits, every handover and every deletion is complete: the clients
\* are those in m_clients, a client names process or both its relays and never a
\* task of each kind, and a task that is left works for a client that names it in
\* the member of its function.
HandedOver ==
  pc = "check" =>
    /\ m_clients = DOMAIN client
    /\ \A c \in m_clients :
         /\ client[c].m_cothread = Null <=> client[c].m_trans_cothread1 # Null
         /\ client[c].m_trans_cothread1 = Null <=> client[c].m_trans_cothread2 = Null
    /\ \A t \in Workers \cap valid_cothreads :
         work[t].self \in m_clients /\ client[work[t].self][MemberOf[work[t].func]] = t

\* t is a task of the client c.
Serves(t, c) == t \in valid_cothreads /\ work[t].self = c

\* The tasks that a client names work for it, from the handover on until the client is
\* deleted: process does not return before both its relays are there, and neither
\* relay before it has deleted the client.  A client loses a task only to a
\* cancellation, which may be one meant for an earlier task at the same address
\* (co_env.cpp:104, 138).
ClientsKeepTasks ==
  [][\A c \in m_clients' : \A t \in ServedBy(c)' :
       \/ Serves(t, c)'
       \/ c \in m_clients /\ t \in ServedBy(c) /\ ~Serves(t, c)
       \/ t \in cancel_list]_socksVars

\* When the loop waits, an event on a socket is that of a task of the client that
\* has that socket: the events of a relay are gone before the number of its socket
\* is used by another client, although the destructor closes first and cancels the
\* tasks then (socks5_client.cpp:162-174).
EventsFollowSockets ==
  pc = "check" => \A n \in DOMAIN node : node[n].fd \in ClientFds =>
    \E c \in m_clients :
      /\ node[n].thread_ptr \in ServedBy(c)
      /\ node[n].fd \in {client[c].m_socket, client[c].m_remote_socket}

\* The events of the listener and of every task that waits on the socket of a new
\* client are watched by epoll, also when the number of that socket was closed with
\* events of two relays on it.
NewClientsHeard ==
  pc = "check" => \A n \in DOMAIN node : LET t == node[n].thread_ptr IN
    t = Listener \/ (work[t].func = "process" /\ work[t].at # "connect") =>
      node[n].events \subseteq epoll[node[n].fd]

\* The same of process while it connects: "when event triggered, the co_thread will
\* move from block_list" (co_env.h:43) needs that epoll watches for the event.
ConnectIsHeard ==
  pc = "check" => \A t \in ProcessTasks \cap block_list : work[t].at = "connect" =>
    {EPOLLOUT} \subseteq epoll[conn[t].fd]

\* A relay that waits is heard.
RelaysHeard ==
  pc = "check" => \A t \in RelayTasks \cap block_list : Mask(conn[t].op) \subseteq epoll[conn[t].fd]

=============================================================================
