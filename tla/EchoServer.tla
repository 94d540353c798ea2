----------------------------- MODULE EchoServer -----------------------------
(***************************************************************************)
(* The echo server (examples/echo_server/echo_server.cpp): a program over  *)
(* co_env and connection, whose calls are the actions of CoEnv and         *)
(* Connection.  Three kinds of cothread share the set of clients: one that *)
(* accepts them, one that deletes the inactive ones, and the task of each  *)
(* client.                                                                 *)
(*                                                                         *)
(* An echo_client is known by its address.  Deleting one cancels its task, *)
(* which goes on to exist until the sweep, and closes its socket, whose    *)
(* number the next accept may return.                                      *)
(***************************************************************************)
EXTENDS Connection

CONSTANTS
  Listener, Checker,   (* the tasks of listen_func and check_inavtive_func  *)
  ListenFd,            (* m_listen_socket                                   *)
  CheckTimer,          (* the timer of the last yield_for: no earlier one   *)
                       (* has an event                                      *)
  ClientFds,           (* the numbers that accept returns                   *)
  Clients              (* the addresses of echo_client objects              *)

ASSUME EchoAssumption ==
  /\ {Listener, Checker} \subseteq Threads /\ Listener # Checker
  /\ {ListenFd, CheckTimer} \cup ClientFds \subseteq Fds \ Timers
  /\ ListenFd # CheckTimer /\ {ListenFd, CheckTimer} \cap ClientFds = {}
  /\ ClientFds \subseteq Closable
  /\ Null \notin Clients \cup Fds
ASSUME ServesAssumption ==
  /\ {"read_some", "write_some"} \subseteq Ops
  /\ \A t \in Threads : ClientFds \subseteq SocketsOf[t]

VARIABLES
  client,    (* the echo_client objects: m_task_id and m_socket             *)
  m_conns,   (* the set that the server keeps of them                       *)
  args,      (* what each task was given                                    *)
  m_fd,      (* the socket of the connection that each task has             *)
  place,     (* where each task is, between the calls of connection         *)
  sigpipe,   (* what SIGPIPE does: "DFL" or "IGN"                            *)
  saved,     (* m_old_sighandler of that connection                         *)
  inactive   (* the clients whose m_last_activate_time is too long ago      *)

\* The connection objects of the tasks.
connections == <<m_fd, sigpipe, saved>>

serverVars == <<client, m_conns, args, place, inactive, connections>>
echoVars == <<connVars, serverVars>>

Workers == Threads \ {Listener, Checker}

\* The constructor of echo_server, and main: the two tasks are added, loop() runs.
EchoInit ==
  /\ ConnInit
  /\ client = [c \in {} |-> Null]
  /\ m_conns = {}
  /\ args = [t \in Threads |-> Null]
  /\ m_fd = [t \in Threads |-> Null]
  /\ sigpipe = "DFL"
  /\ saved = [t \in Threads |-> Null]
  /\ place = [t \in Threads |-> "start"]
  /\ inactive = {}

ServerStarts ==
  /\ pc = "main"
  /\ \E t \in {Listener, Checker} : AddTask(t)
  /\ UNCHANGED <<conn, timers, serverVars>>

-----------------------------------------------------------------------------
AtPlace(p) == pc = "run" /\ ManagerIdle /\ conn[it].at = "outside" /\ place[it] = p

GoesTo(p) == place' = [place EXCEPT ![it] = p]

-----------------------------------------------------------------------------
(* listen_func                                                             *)

\* Mutation: the registration is done once, before the loop.
ListensOnce(n) ==
  /\ it = Listener
  /\ AtPlace("start")
  /\ IF DOMAIN client = {} THEN RegisterEvent(n, ListenFd, {EPOLLIN}) ELSE UNCHANGED vars
  /\ GoesTo("yield")
  /\ UNCHANGED <<conn, timers, client, m_conns, args, connections, inactive>>

\* yield_event(m_listen_socket, EPOLLIN)
ListenAgain(n) ==
  /\ it = Listener
  /\ AtPlace("start")
  /\ RegisterEvent(n, ListenFd, {EPOLLIN})
  /\ GoesTo("yield")
  /\ UNCHANGED <<conn, timers, client, m_conns, args, connections, inactive>>

\* accept takes the connection that has come; what else comes shows when
\* epoll_wait looks again.
TakesConnection ==
  /\ it = Listener
  /\ AtPlace("woken")
  /\ Environment(ListenFd, {})
  /\ GoesTo("accepted")
  /\ UNCHANGED <<conn, timers, client, m_conns, args, connections, inactive>>

\* The kernel returns a number that is not in use, `new' an address that no
\* client occupies.
Free(c, fd) == c \notin DOMAIN client /\ \A d \in DOMAIN client : client[d].socket # fd

\* Mutation: m_task_id is the id of the task that runs.
NewClientWrongTask(c, fd, t) ==
  /\ it = Listener
  /\ AtPlace("accepted")
  /\ Free(c, fd)
  /\ t \in Workers
  /\ AddTask(t)
  /\ client' = [d \in DOMAIN client \cup {c} |-> IF d = c THEN [task |-> it, socket |-> fd] ELSE client[d]]
  /\ args' = [args EXCEPT ![t] = c]
  /\ GoesTo("start")
  /\ UNCHANGED <<conn, timers, connections, inactive>>

NewClient(c, fd, t) ==
  /\ it = Listener
  /\ AtPlace("accepted")
  /\ Free(c, fd)
  /\ t \in Workers
  /\ AddTask(t)
  /\ client' = [d \in DOMAIN client \cup {c} |-> IF d = c THEN [task |-> t, socket |-> fd] ELSE client[d]]
  /\ args' = [args EXCEPT ![t] = c]
  /\ GoesTo("start")
  /\ UNCHANGED <<conn, timers, connections, inactive>>

\* Mutation: the new client is not put into m_conns.
AcceptForgets(c, fd, t) == NewClient(c, fd, t) /\ UNCHANGED m_conns

\* new echo_client(...), m_conns.emplace.
Accept(c, fd, t) == NewClient(c, fd, t) /\ m_conns' = m_conns \cup {c}

-----------------------------------------------------------------------------
(* ~echo_client, in three steps: cancel_task(m_task_id), which is an int;  *)
(* close(m_socket); the object is gone, and its caller drops it from       *)
(* m_conns.                                                                *)

\* Mutation: the destructor closes the socket only.
CancelNothing(c) == UNCHANGED vars

CancelsTask(c) ==
  LET id == IF AddressesFitInt THEN client[c].task ELSE Null
  IN  IF id \in valid_cothreads THEN CancelTask(id) ELSE UNCHANGED vars

\* close(m_socket): an fd that epoll does not watch is closed unnoticed.
ClosesSocket(c) ==
  LET fd == client[c].socket
  IN  Close(fd) \/ (epoll[fd] = {} /\ Environment(fd, {}))

Deletes(c) ==
  /\ client' = [d \in DOMAIN client \ {c} |-> client[d]]
  /\ m_conns' = m_conns \ {c}
  /\ inactive' = inactive \ {c}

-----------------------------------------------------------------------------
(* check_inavtive_func                                                     *)

\* yield_for creates a timer, which has not expired.
CheckerSets ==
  /\ it = Checker
  /\ AtPlace("start")
  /\ Environment(CheckTimer, {})
  /\ GoesTo("register")
  /\ UNCHANGED <<conn, timers, client, m_conns, args, connections, inactive>>

CheckerWaits(n) ==
  /\ it = Checker
  /\ AtPlace("register")
  /\ RegisterEvent(n, CheckTimer, {EPOLLIN})
  /\ GoesTo("yield")
  /\ UNCHANGED <<conn, timers, client, m_conns, args, connections, inactive>>

\* The switch of yield_event and yield_for.
ServerBlocks ==
  /\ it \in {Listener, Checker}
  /\ AtPlace("yield")
  /\ Block
  /\ GoesTo("woken")
  /\ UNCHANGED <<conn, timers, client, m_conns, args, connections, inactive>>

\* delete (*it)
Expels(c) ==
  /\ it = Checker
  /\ AtPlace("woken")
  /\ c \in m_conns \cap inactive
  /\ CancelsTask(c)
  /\ args' = [args EXCEPT ![it] = c]
  /\ GoesTo("close")
  /\ UNCHANGED <<conn, timers, client, m_conns, connections, inactive>>

\* The rest of the destructor, and m_conns.erase(it).
Expelled ==
  /\ it = Checker
  /\ AtPlace("close")
  /\ ClosesSocket(args[it])
  /\ Deletes(args[it])
  /\ GoesTo("woken")
  /\ args' = [args EXCEPT ![it] = Null]
  /\ UNCHANGED <<conn, timers, connections>>

Checked ==
  /\ it = Checker
  /\ AtPlace("woken")
  /\ m_conns \cap inactive = {}
  /\ GoesTo("start")
  /\ UNCHANGED <<connVars, client, m_conns, args, connections, inactive>>

-----------------------------------------------------------------------------
(* echo_client::work                                                       *)

\* connection conn(self->m_socket, t), which ignores SIGPIPE from now on.
Connect ==
  /\ AtPlace("start")
  /\ m_fd' = [m_fd EXCEPT ![it] = client[args[it]].socket]
  /\ saved' = [saved EXCEPT ![it] = sigpipe]
  /\ sigpipe' = "IGN"

\* conn.read_some(buf, 200)
Reads ==
  /\ it \in Workers
  /\ Connect \/ (AtPlace("read") /\ UNCHANGED connections)
  /\ StartCall("read_some", m_fd'[it])
  /\ GoesTo("read")
  /\ UNCHANGED <<client, m_conns, args, inactive>>

\* conn.write_some(buf, cnt)
Writes ==
  /\ it \in Workers
  /\ AtPlace("write")
  /\ StartCall("write_some", m_fd[it])
  /\ UNCHANGED serverVars

\* Inside a call of connection.
InCall ==
  /\ \/ WouldBlock \/ MovePart \/ MoveAllOrFail \/ Retry \/ Wait \/ Resume
     \/ \E n \in Nodes : RegisterSocket(n)
  /\ UNCHANGED serverVars

\* The call has succeeded: m_last_activate_time is now.
CallSucceeds ==
  /\ FinishCall
  /\ GoesTo(IF conn[it].op = "read_some" THEN "write" ELSE "read")
  /\ inactive' = inactive \ {args[it]}
  /\ UNCHANGED <<client, m_conns, args, connections>>

\* Mutation: the task returns without close_client.
FailsUnclosed ==
  /\ FinishCall \/ GiveUp
  /\ GoesTo("ended")
  /\ UNCHANGED <<client, m_conns, args, connections, inactive>>

\* It has returned -1: the loop is left.
CallFails ==
  /\ FinishCall \/ GiveUp
  /\ GoesTo("failed")
  /\ UNCHANGED <<client, m_conns, args, connections, inactive>>

\* close_client(self)
ClosesItself ==
  /\ it \in Workers
  /\ AtPlace("failed")
  /\ CancelsTask(args[it])
  /\ GoesTo("close")
  /\ UNCHANGED <<conn, timers, client, m_conns, args, connections, inactive>>

Closed ==
  /\ it \in Workers
  /\ AtPlace("close")
  /\ ClosesSocket(args[it])
  /\ Deletes(args[it])
  /\ GoesTo("ended")
  /\ UNCHANGED <<conn, timers, args, connections>>

\* The task returns, which destroys its connection; a task that is cancelled is
\* removed with its stack as it is.
Ended ==
  /\ it \in Workers
  /\ AtPlace("ended")
  /\ Finish
  /\ sigpipe' = saved[it]
  /\ UNCHANGED <<conn, timers, client, m_conns, args, place, m_fd, saved, inactive>>

-----------------------------------------------------------------------------
\* The scheduler moves; what a task has on its stack goes with it.
ServerSchedule ==
  /\ Loop \/ (CallLoop /\ {Listener, Checker} \subseteq valid_cothreads)
  /\ LET exists(t) == t \in valid_cothreads' \cup {leaving'}
     IN  /\ conn' = [t \in Threads |-> IF exists(t) THEN conn[t] ELSE Outside]
         /\ args' = [t \in Threads |-> IF exists(t) THEN args[t] ELSE Null]
         /\ m_fd' = [t \in Threads |-> IF exists(t) THEN m_fd[t] ELSE Null]
         /\ saved' = [t \in Threads |-> IF exists(t) THEN saved[t] ELSE Null]
         /\ place' = [t \in Threads |-> IF exists(t) THEN place[t] ELSE "start"]
  /\ UNCHANGED <<timers, client, m_conns, sigpipe, inactive>>

\* A client connects, if there is room for one more in the instance.
Connects ==
  /\ pc = "check"
  /\ Workers \ valid_cothreads # {}
  /\ \E c \in Clients, fd \in ClientFds : Free(c, fd)
  /\ Environment(ListenFd, {EPOLLIN})
  /\ UNCHANGED <<conn, timers, serverVars>>

\* Something happens to the socket of a client.
Stirs(c, bits) ==
  /\ pc = "check"
  /\ Environment(client[c].socket, bits)
  /\ UNCHANGED <<conn, timers, serverVars>>

\* The timer of check_inavtive_func expires.
CheckTime ==
  /\ pc = "check"
  /\ place[Checker] = "woken"
  /\ Environment(CheckTimer, {EPOLLIN})
  /\ UNCHANGED <<conn, timers, serverVars>>

\* m_timeout seconds have passed since a client was last active.
Ages(c) ==
  /\ pc = "check"
  /\ inactive' = inactive \cup {c}
  /\ UNCHANGED <<connVars, client, m_conns, args, connections, place>>

ListenStep ==
  \/ \E n \in Nodes : ListenAgain(n)
  \/ TakesConnection
  \/ \E c \in Clients, fd \in ClientFds, t \in Workers : Accept(c, fd, t)

CheckStep ==
  \/ CheckerSets
  \/ \E n \in Nodes : CheckerWaits(n)
  \/ \E c \in m_conns : Expels(c)
  \/ Expelled
  \/ Checked

WorkStep == Reads \/ Writes \/ InCall \/ CallSucceeds \/ CallFails \/ ClosesItself \/ Closed \/ Ended

EchoNext ==
  \/ ServerStarts
  \/ ListenStep \/ CheckStep \/ ServerBlocks \/ WorkStep
  \/ ServerSchedule
  \/ Connects \/ CheckTime
  \/ \E c \in DOMAIN client : Ages(c) \/ \E bits \in SUBSET AllBits : Stirs(c, bits)

EchoSpec == EchoInit /\ [][EchoNext]_echoVars

-----------------------------------------------------------------------------
EchoTypeOK ==
  /\ DOMAIN client \subseteq Clients
  /\ \A c \in DOMAIN client : client[c] \in [task : Workers, socket : ClientFds]
  /\ m_conns \subseteq Clients
  /\ args \in [Threads -> Clients \cup {Null}]
  /\ m_fd \in [Threads -> ClientFds \cup {Null}]
  /\ place \in [Threads -> {"start", "yield", "woken", "accepted", "register", "close", "read", "write", "failed", "ended"}]
  /\ sigpipe \in {"DFL", "IGN"}
  /\ saved \in [Threads -> {"DFL", "IGN", Null}]
  /\ inactive \subseteq Clients

\* The object that a task was given is there as long as the task uses it: a task
\* that runs has its client, and no other client that was put at its address.
\* The server deletes clients whose tasks still exist (echo_server.cpp:116), so
\* this rests on the cancellation of the destructor (57).
SelfIsAlive ==
  pc = "run" /\ it \in Workers /\ place[it] # "ended" =>
    args[it] \in DOMAIN client /\ client[args[it]].task = it

\* When the loop waits, m_conns is the set of the clients there are, and every task
\* that is left has its client, which knows it: nothing that was deleted in the turn,
\* by the checker or by the task itself, is still served or still in the set.
TasksHaveClients ==
  pc = "check" =>
    /\ m_conns = DOMAIN client
    /\ \A t \in Workers \cap valid_cothreads : args[t] \in m_conns /\ client[args[t]].task = t

\* c has a task, which works for it.
Served(c) == client[c].task \in valid_cothreads /\ args[client[c].task] = c

\* A client is given a task and keeps it as long as it is in m_conns: its task never
\* returns or changes its client before the client is deleted.  A client loses its
\* task only to a cancellation, which may be one meant for an earlier task at the
\* same address (co_env.cpp:104, 138).
ClientsKeepTasks ==
  [][\A c \in m_conns' :
       \/ Served(c)'
       \/ c \in m_conns /\ ~Served(c)
       \/ client'[c].task \in cancel_list]_echoVars

\* When the loop waits, every client is served.  cancel_task is to "cancel task by
\* task_id return by add_task" (co_env.h:49): nobody cancels the task of a client
\* that is not deleted.
EveryClientServed == pc = "check" => \A c \in m_conns : Served(c)

\* When the loop waits, an event on a socket belongs to the client that has that
\* socket: the events of a deleted client are gone before its fd, which accept may
\* have returned again in the same turn, is used by the next.
SocketsApart ==
  pc = "check" => \A n \in DOMAIN node : node[n].fd \in ClientFds =>
    \E c \in m_conns : client[c] = [task |-> node[n].thread_ptr, socket |-> node[n].fd]

\* When the loop waits, epoll watches for every event that is registered, of the
\* listener, the checker and the clients, although sockets are closed while they have
\* events, their numbers come back in the same turn, and ids of events that were
\* consumed are cancelled (connection.cpp:118).
EveryoneHeard == pc = "check" => \A n \in DOMAIN node : node[n].events \subseteq epoll[node[n].fd]

\* A task that blocks has an event registered, and keeps it until it is woken or
\* removed, or another one's stale id takes the event away (connection.cpp:118).
NobodyForgotten ==
  [][\A t \in block_list' \cap valid_cothreads' :
       \/ NodesOfThread(t)' # {}
       \/ t \in block_list /\ NodesOfThread(t) = {}
       \/ Robbed(t)]_echoVars

\* A connection writes with SIGPIPE ignored, "reset signal to ignore SIGPIPE"
\* (connection.h:12), also when the connections of other tasks come and go.
WritesIgnoreSigpipe ==
  pc = "run" /\ conn[it].at = "try" /\ conn[it].op = "write_some" => sigpipe = "IGN"

\* The calls of the server are calls that Connection's scheduler allows.
ServerUsesCoEnv == Spec

=============================================================================
