-------------------------- MODULE EchoServerProofs --------------------------
(***************************************************************************)
(* Proofs about the echo server: that it uses the scheduler and the        *)
(* connections as they allow, that no task uses a client that is deleted,  *)
(* that clients, tasks and events correspond, and that whoever is blocked  *)
(* is heard.  All of them need that the id of a task survives the int in   *)
(* which a client keeps it.                                                *)
(***************************************************************************)
EXTENDS EchoServer, ConnectionProofs

\* The task has the client that it was given, and this client knows it.
HasClient(t) == args[t] \in DOMAIN client /\ client[args[t]].task = t

\* The places of each function.
FunctionOf(t) ==
  CASE t = Listener -> {"start", "yield", "woken", "accepted"}
    [] t = Checker -> {"start", "register", "yield", "woken", "close"}
    [] OTHER -> {"start", "read", "write", "failed", "close", "ended"}

\* Where a task is, and the connection that it has there.
TaskInv(t) ==
  /\ place[t] \in FunctionOf(t)
  /\ t \notin valid_cothreads \cup {leaving} => args[t] = Null /\ m_fd[t] = Null /\ place[t] = "start" /\ conn[t] = Outside
  /\ conn[t].at # "outside" => t \in Workers /\ place[t] \in {"read", "write"} /\ conn[t].fd = m_fd[t]
  /\ t \in Workers => (place[t] = "start" <=> m_fd[t] = Null)
  /\ m_fd[t] # Null => saved[t] \in {"DFL", "IGN"}
  /\ place[t] = "close" => pc = "run" /\ it = t
  /\ place[t] = "ended" => (pc = "run" /\ it = t) \/ t \notin valid_cothreads

\* The sockets: a task has its client's, and its events are on it.
SocketInv ==
  /\ \A t \in Threads : HasClient(t) /\ m_fd[t] # Null => client[args[t]].socket = m_fd[t]
  /\ \A n \in DOMAIN node : node[n].fd \in ClientFds =>
       node[n].thread_ptr \in Workers /\ m_fd[node[n].thread_ptr] = node[n].fd

\* A task whose client is deleted is in cancel_list when it next may run.
AliveInv ==
  /\ SelfIsAlive
  /\ \A t \in Workers \cap valid_cothreads : place[t] = "ended" \/ t \in cancel_list \/ HasClient(t)
  /\ place[Checker] = "close" =>
       /\ args[Checker] \in DOMAIN client
       /\ client[args[Checker]].task \in valid_cothreads => client[args[Checker]].task \in cancel_list
  /\ pc \in {"main", "check", "events"} => cancel_list = {}
  /\ pc = "sweep" => add_list = {}
  /\ pc = "run" /\ place[it] = "ended" => ~HasClient(it)

\* All but what is known of the connections.
ServerRest ==
  /\ EchoTypeOK
  /\ \A t \in Threads : TaskInv(t)
  /\ SocketInv
  /\ AliveInv
  /\ m_conns = DOMAIN client

ServerInv == ConnInv /\ ServerRest

LEMMA EchoInitInv == EchoInit => ServerInv
<1> SUFFICES ASSUME EchoInit PROVE ServerInv
  OBVIOUS
<1>1. ConnInv
  BY ConnInitInv DEF EchoInit
<1> USE EchoAssumption DEF EchoInit
<1>2. EchoTypeOK
  BY DEF EchoTypeOK
<1>3. \A t \in Threads : TaskInv(t)
  BY DEF TaskInv, FunctionOf, ConnInit, Workers, Outside
<1>4. SocketInv /\ AliveInv
  BY DEF SocketInv, AliveInv, SelfIsAlive, HasClient, ConnInit, Init, ManagerInit
<1> QED  BY <1>1, <1>2, <1>3, <1>4 DEF ServerInv, ServerRest

-----------------------------------------------------------------------------
(* The steps of the server are steps of the connections or of the          *)
(* scheduler.                                                              *)

LEMMA ServerRuns ==
  ASSUME ConnInv, NEW p, AtPlace(p)
  PROVE  /\ pc = "run" /\ ManagerIdle /\ leaving = Null
         /\ it \in Threads /\ it \in valid_cothreads
         /\ conn[it].at = "outside" /\ place[it] = p
BY DEF AtPlace, ManagerIdle, ConnInv, EnvInv, Control, NoDangling

LEMMA CancelsTaskStep ==
  ASSUME EchoTypeOK, AddressesFitInt, NEW c \in DOMAIN client, CancelsTask(c), UNCHANGED <<conn, timers>>
  PROVE  /\ EnvStep
         /\ UNCHANGED <<node, leaving, pc, it, valid_cothreads, add_list>>
         /\ cancel_list' = cancel_list \cup ({client[c].task} \cap valid_cothreads)
<1>1. client[c].task \in Threads
  BY DEF EchoTypeOK, Workers
<1>2. CASE client[c].task \in valid_cothreads
  <2>1. CancelTask(client[c].task)
    BY <1>2 DEF CancelsTask
  <2> QED
    BY <1>1, <1>2, <2>1 DEF CancelTask, EnvStep, Next, Call, NodesShrink, managerVars, registry, walk
<1>3. CASE client[c].task \notin valid_cothreads
  <2>1. UNCHANGED vars
    BY <1>3 DEF CancelsTask
  <2> QED  BY <1>3, <2>1 DEF EnvStep, NodesShrink, vars, managerVars, registry, walk, lists
<1> QED  BY <1>2, <1>3

LEMMA ClosesSocketStep ==
  ASSUME EchoTypeOK, NEW c \in DOMAIN client, ClosesSocket(c), UNCHANGED <<conn, timers>>
  PROVE  EnvStep /\ UNCHANGED <<node, lists, leaving, pc, it>>
<1>1. client[c].socket \in Fds
  BY EchoAssumption DEF EchoTypeOK
<1>2. CASE Close(client[c].socket)
  BY <1>1, <1>2 DEF Close, CloseFd, EnvStep, Next, Call, NodesShrink, registry, walk
<1>3. CASE Environment(client[c].socket, {})
  BY <1>1, <1>3, EnvironmentStep
<1> QED  BY <1>2, <1>3 DEF ClosesSocket

\* A registration of the listener or the checker.
LEMMA RegistrationStep ==
  ASSUME NEW n \in Nodes, NEW fd \in {ListenFd, CheckTimer}, RegisterEvent(n, fd, {EPOLLIN}),
         it \in Threads, UNCHANGED <<conn, timers>>
  PROVE  /\ EnvStep
         /\ UNCHANGED <<lists, leaving, pc, it>>
         /\ \A m \in DOMAIN node' :
              (m \in DOMAIN node /\ node'[m] = node[m]) \/ (node'[m].thread_ptr = it /\ node'[m].fd = fd)
<1>1. fd \in Fds /\ {EPOLLIN} \in Usage[fd]
  BY EchoAssumption, MasksAssumption
<1>2. Next
  BY <1>1 DEF Next, Call
<1> QED  BY <1>2 DEF EnvStep, RegisterEvent, AddEvent, walk

\* The calls of a task.
LEMMA CallStep ==
  ASSUME ServerInv, it \in Workers
  PROVE  /\ Reads => pc = "run" /\ StartCall("read_some", m_fd'[it]) /\ m_fd'[it] \in ClientFds /\ ConnStep
         /\ Writes => pc = "run" /\ StartCall("write_some", m_fd[it]) /\ m_fd[it] \in ClientFds /\ ConnStep
<1>1. \A fd \in ClientFds : fd \in SocketsOf[it]
  BY ServesAssumption DEF Workers
<1>2. it \in Threads
  BY DEF Workers
<1>3. ASSUME Reads PROVE m_fd'[it] \in ClientFds
  <2>1. CASE Connect
    <3>1. HasClient(it)
      BY <2>1 DEF Connect, AtPlace, ServerInv, ServerRest, AliveInv, SelfIsAlive, HasClient
    <3> QED  BY <1>2, <2>1, <3>1 DEF Connect, HasClient, ServerInv, ServerRest, EchoTypeOK
  <2>2. CASE AtPlace("read") /\ UNCHANGED connections
    BY <1>2, <2>2 DEF AtPlace, connections, ServerInv, ServerRest, EchoTypeOK, TaskInv
  <2> QED  BY <1>3, <2>1, <2>2 DEF Reads
<1>4. ASSUME Writes PROVE m_fd[it] \in ClientFds
  BY <1>2, <1>4 DEF Writes, AtPlace, ServerInv, ServerRest, EchoTypeOK, TaskInv
<1> QED
  BY <1>1, <1>3, <1>4, ServesAssumption DEF Reads, Writes, Connect, AtPlace, ConnStep

LEMMA EchoStepConn ==
  ASSUME ServerInv, AddressesFitInt, [EchoNext]_echoVars
  PROVE  [ConnNext]_connVars \/ EnvStep
<1> USE DEF ServerInv, ServerRest
<1>1. ASSUME ServerStarts PROVE EnvStep
  BY <1>1, EchoAssumption DEF ServerStarts, AddTask, EnvStep, Next, Call, NodesShrink, managerVars, registry
<1>2. ASSUME ListenStep PROVE EnvStep
  <2>1. ASSUME NEW n \in Nodes, ListenAgain(n) PROVE EnvStep
    BY <2>1, ServerRuns, RegistrationStep DEF ListenAgain
  <2>2. ASSUME TakesConnection PROVE EnvStep
    BY <2>2, EnvironmentStep, EchoAssumption DEF TakesConnection
  <2>3. ASSUME NEW c \in Clients, NEW fd \in ClientFds, NEW t \in Workers, Accept(c, fd, t) PROVE EnvStep
    BY <2>3 DEF Accept, NewClient, AddTask, Workers, EnvStep, Next, Call, NodesShrink, managerVars, registry
  <2> QED  BY <1>2, <2>1, <2>2, <2>3 DEF ListenStep
<1>3. ASSUME CheckStep PROVE [ConnNext]_connVars \/ EnvStep
  <2>1. ASSUME NEW n \in Nodes, CheckerWaits(n) PROVE EnvStep
    BY <2>1, ServerRuns, RegistrationStep DEF CheckerWaits
  <2>2. ASSUME CheckerSets PROVE EnvStep
    BY <2>2, EnvironmentStep, EchoAssumption DEF CheckerSets
  <2>3. ASSUME NEW c \in m_conns, Expels(c) PROVE EnvStep
    BY <2>3, CancelsTaskStep DEF Expels
  <2>4. ASSUME Expelled PROVE EnvStep
    BY <2>4, ClosesSocketStep DEF Expelled, AtPlace, AliveInv
  <2>5. ASSUME Checked PROVE UNCHANGED connVars
    BY <2>5 DEF Checked
  <2> QED  BY <1>3, <2>1, <2>2, <2>3, <2>4, <2>5 DEF CheckStep
<1>4. ASSUME ServerBlocks PROVE EnvStep
  BY <1>4 DEF ServerBlocks, Block, EnvStep, Next, Switch, NodesShrink, managerVars, registry
<1>5. ASSUME WorkStep PROVE [ConnNext]_connVars \/ EnvStep
  <2>1. Reads \/ Writes => ConnNext
    BY CallStep DEF Reads, Writes, ConnNext
  <2>2. InCall \/ CallSucceeds \/ CallFails => ConnNext
    BY DEF InCall, CallSucceeds, CallFails, ConnNext, ConnStep, WouldBlock, MovePart, MoveAllOrFail, Retry, Wait,
           Resume, RegisterSocket, FinishCall, GiveUp, At
  <2>3. ASSUME ClosesItself PROVE EnvStep
    BY <2>3, CancelsTaskStep DEF ClosesItself, AtPlace, AliveInv, SelfIsAlive
  <2>4. ASSUME Closed PROVE EnvStep
    BY <2>4, ClosesSocketStep DEF Closed, AtPlace, AliveInv, SelfIsAlive
  <2>5. Ended => ConnNext
    BY DEF Ended, AtPlace, ConnNext, ConnStep, Between, At
  <2> QED  BY <1>5, <2>1, <2>2, <2>3, <2>4, <2>5 DEF WorkStep
<1>6. ServerSchedule => ConnNext
  BY DEF ServerSchedule, ConnNext, Schedule
<1>7. ASSUME Connects \/ CheckTime \/ \E c \in DOMAIN client : Ages(c) \/ \E bits \in SUBSET AllBits : Stirs(c, bits)
      PROVE  [ConnNext]_connVars \/ EnvStep
  <2>1. {EPOLLIN} \in SUBSET AllBits
    BY MasksAssumption DEF AllBits
  <2>2. \A c \in DOMAIN client : client[c].socket \in Fds
    BY EchoAssumption DEF EchoTypeOK
  <2>3. \A c \in DOMAIN client : Ages(c) => UNCHANGED connVars
    BY DEF Ages
  <2> QED  BY <1>7, <2>1, <2>2, <2>3, EnvironmentStep, EchoAssumption DEF Connects, CheckTime, Stirs
<1>8. UNCHANGED echoVars => UNCHANGED connVars
  BY DEF echoVars
<1> QED  BY <1>1, <1>2, <1>3, <1>4, <1>5, <1>6, <1>7, <1>8 DEF EchoNext

-----------------------------------------------------------------------------
(* The invariant of the server, step by step.                              *)

\* What the running task t may find of its client and of itself.
LEMMA RunningTask ==
  ASSUME ServerInv, pc = "run"
  PROVE  /\ it \in Threads /\ it \in valid_cothreads
         /\ TaskInv(it)
         /\ it \in Workers /\ place[it] # "ended" => HasClient(it)
BY DEF ServerInv, ServerRest, AliveInv, SelfIsAlive, HasClient, ConnInv, EnvInv, Control, NoDangling

LEMMA ClientTypes ==
  ASSUME EchoTypeOK
  PROVE  /\ Null \notin DOMAIN client
         /\ \A c \in DOMAIN client : client[c].task \in Workers /\ client[c].socket \in ClientFds
         /\ Null \notin ClientFds
         /\ \A t : HasClient(t) => t \in Workers
BY EchoAssumption DEF EchoTypeOK, HasClient

\* A task that does not run is left as it is.
LEMMA OtherTask ==
  ASSUME ServerInv, pc = "run", NEW t \in Threads, t # it, TaskInv(t),
         place'[t] = place[t], m_fd'[t] = m_fd[t], saved'[t] = saved[t], conn'[t] = conn[t],
         args'[t] = args[t] \/ t \in valid_cothreads',
         t \in valid_cothreads \cup {leaving} => t \in valid_cothreads' \cup {leaving'},
         t \in valid_cothreads' => t \in valid_cothreads \/ t # leaving
  PROVE  TaskInv(t)'
<1>1. t \in valid_cothreads' /\ t \notin valid_cothreads => place[t] = "start"
  BY DEF TaskInv
<1> QED  BY <1>1 DEF TaskInv, FunctionOf

\* The running task goes to another place, with another connection perhaps, and
\* nothing else changes for the clients.
LEMMA MovesOn ==
  ASSUME ServerInv, pc = "run", pc' \in {"run", "process"},
         UNCHANGED <<client, m_conns, args, valid_cothreads, cancel_list, leaving, add_list, it>>,
         inactive' \subseteq inactive,
         place[it] \notin {"close", "ended"},
         NEW p \in FunctionOf(it) \ {"close", "ended"}, place' = [place EXCEPT ![it] = p],
         NEW fd \in ClientFds \cup {Null}, m_fd' = [m_fd EXCEPT ![it] = fd],
         NEW s \in {"DFL", "IGN", Null}, saved' = [saved EXCEPT ![it] = s],
         sigpipe' \in {"DFL", "IGN"},
         it \in Workers => (p = "start" <=> fd = Null),
         fd # Null => s \in {"DFL", "IGN"},
         m_fd[it] # Null => fd = m_fd[it],
         HasClient(it) /\ fd # Null => client[args[it]].socket = fd,
         \A t \in Threads : t # it => conn'[t] = conn[t],
         conn'[it].at # "outside" => it \in Workers /\ p \in {"read", "write"} /\ conn'[it].fd = fd,
         \A n \in DOMAIN node' :
           \/ n \in DOMAIN node /\ node'[n] = node[n]
           \/ node'[n].thread_ptr = it /\ (node'[n].fd \in ClientFds => it \in Workers /\ node'[n].fd = fd)
  PROVE  ServerRest'
<1> USE RunningTask, ClientTypes
<1>1. EchoTypeOK'
  BY DEF ServerInv, ServerRest, EchoTypeOK, FunctionOf
<1>2. \A t \in Threads : TaskInv(t)'
  <2>1. ASSUME NEW t \in Threads, t # it PROVE TaskInv(t)'
    BY <2>1, OtherTask DEF ServerInv, ServerRest, EchoTypeOK
  <2>2. TaskInv(it)'
    BY DEF ServerInv, ServerRest, EchoTypeOK, TaskInv, FunctionOf
  <2> QED  BY <2>1, <2>2
<1>3. \A t : HasClient(t)' <=> HasClient(t)
  BY DEF HasClient
<1>4. SocketInv'
  <2>1. \A t \in Threads : HasClient(t)' /\ m_fd'[t] # Null => client'[args'[t]].socket = m_fd'[t]
    BY <1>3 DEF ServerInv, ServerRest, EchoTypeOK, SocketInv
  <2>2. \A n \in DOMAIN node' : node'[n].fd \in ClientFds =>
          node'[n].thread_ptr \in Workers /\ m_fd'[node'[n].thread_ptr] = node'[n].fd
    BY DEF ServerInv, ServerRest, EchoTypeOK, SocketInv, Workers
  <2> QED  BY <2>1, <2>2 DEF SocketInv
<1>5. AliveInv'
  <2>1. SelfIsAlive'
    BY DEF SelfIsAlive, HasClient
  <2>2. \A t \in Workers \cap valid_cothreads' : place'[t] = "ended" \/ t \in cancel_list' \/ HasClient(t)'
    BY <1>3 DEF ServerInv, ServerRest, EchoTypeOK, AliveInv, Workers
  <2>3. place'[Checker] # "close"
    BY EchoAssumption DEF ServerInv, ServerRest, EchoTypeOK, TaskInv
  <2> QED  BY <2>1, <2>2, <2>3 DEF AliveInv
<1> QED  BY <1>1, <1>2, <1>4, <1>5 DEF ServerInv, ServerRest

-----------------------------------------------------------------------------
\* The listener and the checker, between the steps that touch clients.
LEMMA ServantMoves ==
  ASSUME ServerInv, NEW p, AtPlace(p), it \in {Listener, Checker}, p \notin {"close", "ended"},
         pc' \in {"run", "process"},
         NEW q \in FunctionOf(it) \ {"close", "ended"}, GoesTo(q),
         UNCHANGED <<conn, client, m_conns, args, connections, inactive>>,
         UNCHANGED <<valid_cothreads, cancel_list, leaving, add_list, it>>,
         \A n \in DOMAIN node' :
           (n \in DOMAIN node /\ node'[n] = node[n]) \/ (node'[n].thread_ptr = it /\ node'[n].fd \notin ClientFds)
  PROVE  ServerRest'
<1> USE DEF ServerInv, ServerRest
<1>1. it \in Threads /\ it \notin Workers /\ pc = "run" /\ place[it] = p /\ conn[it].at = "outside"
  BY ServerRuns DEF Workers
<1>2. /\ m_fd' = [m_fd EXCEPT ![it] = m_fd[it]] /\ m_fd[it] \in ClientFds \cup {Null}
      /\ saved' = [saved EXCEPT ![it] = saved[it]] /\ saved[it] \in {"DFL", "IGN", Null}
      /\ sigpipe' \in {"DFL", "IGN"}
  BY <1>1 DEF connections, EchoTypeOK
<1>3. m_fd[it] # Null => saved[it] \in {"DFL", "IGN"}
  BY <1>1 DEF TaskInv
<1>4. HasClient(it) /\ m_fd[it] # Null => client[args[it]].socket = m_fd[it]
  BY <1>1 DEF SocketInv
<1> QED  BY <1>1, <1>2, <1>3, <1>4, MovesOn DEF GoesTo

LEMMA ServantsKeep ==
  ASSUME ServerInv
  PROVE  /\ \A n \in Nodes : ListenAgain(n) \/ CheckerWaits(n) => ServerRest'
         /\ TakesConnection \/ CheckerSets \/ Checked \/ ServerBlocks => ServerRest'
<1> USE EchoAssumption DEF FunctionOf
<1>1. ASSUME NEW n \in Nodes, ListenAgain(n) PROVE ServerRest'
  BY <1>1, ServerRuns, RegistrationStep, ServantMoves DEF ListenAgain, ServerInv, lists
<1>2. ASSUME NEW n \in Nodes, CheckerWaits(n) PROVE ServerRest'
  BY <1>2, ServerRuns, RegistrationStep, ServantMoves DEF CheckerWaits, ServerInv, lists
<1>3. ASSUME TakesConnection PROVE ServerRest'
  BY <1>3, ServerRuns, ServantMoves DEF TakesConnection, Environment, managerVars, registry, walk, lists, ServerInv
<1>4. ASSUME CheckerSets PROVE ServerRest'
  BY <1>4, ServerRuns, ServantMoves DEF CheckerSets, Environment, managerVars, registry, walk, lists, ServerInv
<1>5. ASSUME Checked PROVE ServerRest'
  BY <1>5, ServerRuns, ServantMoves DEF Checked, connVars, vars, managerVars, registry, walk, lists, ServerInv
<1>6. ASSUME ServerBlocks PROVE ServerRest'
  BY <1>6, ServerRuns, ServantMoves DEF ServerBlocks, Block, managerVars, registry, walk, lists, ServerInv
<1> QED  BY <1>1, <1>2, <1>3, <1>4, <1>5, <1>6

LEMMA AcceptKeeps ==
  ASSUME ServerInv, ConnInv', NEW c \in Clients, NEW fd \in ClientFds, NEW t \in Workers, Accept(c, fd, t)
  PROVE  ServerRest'
<1> USE EchoAssumption DEF ServerInv, ServerRest
<1>1. /\ pc = "run" /\ leaving = Null /\ it = Listener /\ it \in Threads /\ it \in valid_cothreads
      /\ place[it] = "accepted" /\ it \notin Workers /\ it # t /\ t \in Threads
  BY ServerRuns DEF Accept, NewClient, Workers
<1>2. /\ t \notin valid_cothreads /\ t # leaving /\ valid_cothreads' = valid_cothreads \cup {t}
      /\ UNCHANGED <<node, cancel_list, leaving, pc, it>>
  BY DEF Accept, NewClient, AddTask, managerVars, registry, walk
<1>3. /\ c \notin DOMAIN client
      /\ client' = [d \in DOMAIN client \cup {c} |-> IF d = c THEN [task |-> t, socket |-> fd] ELSE client[d]]
      /\ args' = [args EXCEPT ![t] = c]
      /\ place' = [place EXCEPT ![it] = "start"]
      /\ m_conns' = m_conns \cup {c}
      /\ UNCHANGED <<conn, m_fd, saved, sigpipe, inactive>>
  BY DEF Accept, NewClient, Free, GoesTo, connections
<1>4. args[t] = Null /\ m_fd[t] = Null /\ place[t] = "start"
  BY <1>1, <1>2 DEF TaskInv
<1>5. EchoTypeOK'
  BY <1>1, <1>3 DEF EchoTypeOK
<1>6. \A u \in Threads : TaskInv(u)'
  <2>1. ASSUME NEW u \in Threads, u # it PROVE TaskInv(u)'
    BY <1>1, <1>2, <1>3, <2>1, OtherTask DEF EchoTypeOK
  <2>2. TaskInv(it)'
    BY <1>1, <1>2, <1>3 DEF EchoTypeOK, TaskInv, FunctionOf
  <2> QED  BY <1>2, <2>1, <2>2
<1>7. \A u \in Threads : HasClient(u)' <=> u = t \/ HasClient(u)
  BY <1>1, <1>3, <1>4, ClientTypes DEF HasClient, EchoTypeOK
<1>8. SocketInv'
  <2>1. \A u \in Threads : HasClient(u)' /\ m_fd'[u] # Null => client'[args'[u]].socket = m_fd'[u]
    BY <1>1, <1>3, <1>4, <1>7 DEF SocketInv, HasClient, EchoTypeOK
  <2> QED  BY <1>2, <1>3, <2>1 DEF SocketInv
<1>9. AliveInv'
  <2>1. SelfIsAlive'
    BY <1>1, <1>2 DEF SelfIsAlive
  <2>2. \A u \in Workers \cap valid_cothreads' : place'[u] = "ended" \/ u \in cancel_list' \/ HasClient(u)'
    BY <1>1, <1>2, <1>3, <1>7 DEF AliveInv, EchoTypeOK, Workers
  <2>3. place'[Checker] # "close"
    BY <1>1, <1>3 DEF TaskInv, EchoTypeOK
  <2>4. place'[it'] # "ended"
    BY <1>1, <1>2, <1>3 DEF EchoTypeOK
  <2> QED  BY <1>1, <1>2, <2>1, <2>2, <2>3, <2>4 DEF AliveInv
<1> QED  BY <1>3, <1>5, <1>6, <1>8, <1>9

\* The first step of the destructor.
LEMMA CancelKeeps ==
  ASSUME ServerInv, AddressesFitInt, NEW c \in DOMAIN client, CancelsTask(c),
         NEW p, AtPlace(p), p \notin {"close", "ended"}, GoesTo("close"),
         "close" \in FunctionOf(it), p # "start" \/ it = Checker,
         args' = [args EXCEPT ![it] = c], args[it] = c \/ it = Checker,
         UNCHANGED <<conn, timers, client, m_conns, connections, inactive>>
  PROVE  ServerRest'
<1> USE EchoAssumption DEF ServerInv, ServerRest
<1>1. pc = "run" /\ leaving = Null /\ it \in Threads /\ it \in valid_cothreads /\ place[it] = p /\ conn[it].at = "outside"
  BY ServerRuns
<1>2. /\ UNCHANGED <<node, leaving, pc, it, valid_cothreads, add_list>>
      /\ cancel_list' = cancel_list \cup ({client[c].task} \cap valid_cothreads)
  BY CancelsTaskStep
<1>3. place' = [place EXCEPT ![it] = "close"] /\ UNCHANGED <<m_fd, saved, sigpipe>>
  BY DEF GoesTo, connections
<1>4. EchoTypeOK'
  BY <1>1, <1>3 DEF EchoTypeOK
<1>5. \A u \in Threads : TaskInv(u)'
  <2>1. ASSUME NEW u \in Threads, u # it PROVE TaskInv(u)'
    BY <1>1, <1>2, <1>3, <2>1, OtherTask DEF EchoTypeOK
  <2>2. TaskInv(it)'
    BY <1>1, <1>2, <1>3 DEF EchoTypeOK, TaskInv, FunctionOf, Workers
  <2> QED  BY <1>2, <2>1, <2>2
<1>6. \A u \in Workers : args'[u] = args[u] /\ (HasClient(u)' <=> HasClient(u))
  BY <1>1 DEF HasClient, EchoTypeOK, Workers
<1>7. SocketInv'
  <2>1. \A u \in Threads : HasClient(u)' => u \in Workers
    BY ClientTypes DEF HasClient
  <2>2. \A u \in Threads : HasClient(u)' /\ m_fd'[u] # Null => client'[args'[u]].socket = m_fd'[u]
    BY <1>3, <1>6, <2>1 DEF SocketInv
  <2> QED  BY <1>2, <1>3, <2>2 DEF SocketInv
<1>8. AliveInv'
  <2>1. SelfIsAlive'
    BY <1>1, <1>2, <1>6, RunningTask DEF SelfIsAlive, HasClient
  <2>2. \A u \in Workers \cap valid_cothreads' : place'[u] = "ended" \/ u \in cancel_list' \/ HasClient(u)'
    BY <1>1, <1>2, <1>3, <1>6 DEF AliveInv, EchoTypeOK
  <2>3. place'[Checker] = "close" => it = Checker
    BY <1>1, <1>3 DEF TaskInv, EchoTypeOK
  <2>4. place'[it'] # "ended"
    BY <1>1, <1>2, <1>3 DEF EchoTypeOK
  <2> QED  BY <1>1, <1>2, <2>1, <2>2, <2>3, <2>4 DEF AliveInv, EchoTypeOK
<1> QED  BY <1>4, <1>5, <1>7, <1>8

\* The rest of the destructor, for the client c.
LEMMA DeleteKeeps ==
  ASSUME ServerInv, NEW c, AtPlace("close"), args[it] = c, ClosesSocket(c), Deletes(c),
         UNCHANGED <<conn, timers, connections>>,
         \/ it = Checker /\ GoesTo("woken") /\ args' = [args EXCEPT ![it] = Null]
         \/ it \in Workers /\ GoesTo("ended") /\ UNCHANGED args
  PROVE  ServerRest'
<1> USE EchoAssumption DEF ServerInv, ServerRest
<1>1. pc = "run" /\ leaving = Null /\ it \in Threads /\ it \in valid_cothreads /\ place[it] = "close" /\ conn[it].at = "outside"
  BY ServerRuns
<1>2. c \in DOMAIN client
  BY <1>1 DEF AliveInv, SelfIsAlive
<1>3. UNCHANGED <<node, leaving, pc, it, valid_cothreads, add_list, cancel_list>>
  BY <1>2, ClosesSocketStep DEF lists
<1>4. /\ client' = [d \in DOMAIN client \ {c} |-> client[d]]
      /\ m_conns' = DOMAIN client'
      /\ inactive' \subseteq inactive
      /\ UNCHANGED <<m_fd, saved, sigpipe>>
  BY DEF Deletes, connections
<1>5. /\ \A u \in Threads : u # it => place'[u] = place[u] /\ args'[u] = args[u]
      /\ args' \in [Threads -> Clients \cup {Null}]
      /\ place' = [place EXCEPT ![it] = IF it = Checker THEN "woken" ELSE "ended"]
  BY <1>1 DEF GoesTo, EchoTypeOK, Workers
<1>6. EchoTypeOK'
  BY <1>1, <1>4, <1>5 DEF EchoTypeOK
<1>7. \A u \in Threads : TaskInv(u)'
  <2>1. ASSUME NEW u \in Threads, u # it PROVE TaskInv(u)'
    BY <1>1, <1>3, <1>4, <1>5, <2>1, OtherTask
  <2>2. TaskInv(it)'
    BY <1>1, <1>3, <1>4, <1>5 DEF EchoTypeOK, TaskInv, FunctionOf, Workers
  <2> QED  BY <1>3, <2>1, <2>2
<1>8. \A u \in Workers : args'[u] = args[u]
  BY <1>5 DEF Workers
<1>9. \A u \in Threads : HasClient(u)' => HasClient(u)
  <2>1. \A u \in Threads : HasClient(u)' => u \in Workers
    BY <1>6, ClientTypes DEF HasClient, EchoTypeOK
  <2> QED  BY <1>4, <1>8, <2>1 DEF HasClient
<1>10. \A u \in Workers : HasClient(u) /\ args[u] # c => HasClient(u)'
  BY <1>4, <1>8 DEF HasClient
<1>11. SocketInv'
  <2>1. ASSUME NEW u \in Threads, HasClient(u)', m_fd'[u] # Null PROVE client'[args'[u]].socket = m_fd'[u]
    <3>1. HasClient(u) /\ u \in Workers
      BY <1>9, <2>1, ClientTypes
    <3>2. args'[u] \in DOMAIN client'
      BY <2>1 DEF HasClient
    <3> QED  BY <1>4, <1>8, <2>1, <3>1, <3>2 DEF SocketInv
  <2> QED  BY <1>3, <1>4, <2>1 DEF SocketInv
<1>12. AliveInv'
  <2>1. SelfIsAlive'
    BY <1>1, <1>3, <1>5 DEF SelfIsAlive, Workers, EchoTypeOK
  <2>2. \A u \in Workers \cap valid_cothreads' : place'[u] = "ended" \/ u \in cancel_list' \/ HasClient(u)'
    <3> SUFFICES ASSUME NEW u \in Workers, u \in valid_cothreads, u # it, u \notin cancel_list
                 PROVE  place'[u] = "ended" \/ HasClient(u)'
      BY <1>1, <1>3, <1>5 DEF Workers, EchoTypeOK
    <3>1. place[u] = "ended" \/ HasClient(u)
      BY DEF AliveInv
    <3>2. HasClient(u) => args[u] # c
      BY <1>1 DEF HasClient, AliveInv, SelfIsAlive
    <3> QED  BY <1>5, <1>10, <3>1, <3>2 DEF Workers
  <2>3. place'[Checker] # "close"
    BY <1>1, <1>5 DEF TaskInv, EchoTypeOK, Workers
  <2>4. place'[it'] = "ended" => ~HasClient(it)'
    BY <1>1, <1>3, <1>4, <1>5 DEF EchoTypeOK, HasClient, Workers
  <2> QED  BY <1>1, <1>3, <2>1, <2>2, <2>3, <2>4 DEF AliveInv
<1> QED  BY <1>4, <1>6, <1>7, <1>11, <1>12

LEMMA DestructorKeeps ==
  ASSUME ServerInv, AddressesFitInt
  PROVE  /\ \A c \in m_conns : Expels(c) => ServerRest'
         /\ ClosesItself \/ Expelled \/ Closed => ServerRest'
<1> USE EchoAssumption DEF ServerInv, ServerRest
<1>1. ASSUME NEW c \in m_conns, Expels(c) PROVE ServerRest'
  BY <1>1, CancelKeeps DEF Expels, FunctionOf
<1>2. ASSUME ClosesItself PROVE ServerRest'
  <2>1. args[it] \in DOMAIN client /\ it \in Threads
    BY <1>2 DEF ClosesItself, AtPlace, AliveInv, SelfIsAlive, Workers
  <2>2. args' = [args EXCEPT ![it] = args[it]]
    BY <1>2, <2>1 DEF ClosesItself, EchoTypeOK
  <2> QED  BY <1>2, <2>1, <2>2, CancelKeeps DEF ClosesItself, FunctionOf, Workers
<1>3. Expelled \/ Closed => ServerRest'
  BY DeleteKeeps DEF Expelled, Closed
<1> QED  BY <1>1, <1>2, <1>3

LEMMA EndedKeeps ==
  ASSUME ServerInv, ConnInv', Ended
  PROVE  ServerRest'
<1> USE EchoAssumption DEF ServerInv, ServerRest
<1>1. /\ pc = "run" /\ leaving = Null /\ it \in Threads /\ it \in valid_cothreads /\ place[it] = "ended"
      /\ conn[it].at = "outside" /\ it \in Workers
  BY ServerRuns DEF Ended
<1>2. /\ valid_cothreads' = valid_cothreads \ {it} /\ leaving' = it /\ pc' = "process"
      /\ UNCHANGED <<node, cancel_list, add_list, it>>
  BY DEF Ended, Finish, RemoveCoThread, CancelCoThread, registry
<1>3. UNCHANGED <<conn, client, m_conns, args, place, m_fd, saved, inactive>> /\ sigpipe' = saved[it]
  BY DEF Ended
<1>4. EchoTypeOK'
  <2>1. TaskInv(it)
    BY <1>1
  <2>2. saved[it] \in {"DFL", "IGN"}
    BY <1>1, <2>1 DEF TaskInv, EchoTypeOK
  <2> QED  BY <1>3, <2>2 DEF EchoTypeOK
<1>5. \A u \in Threads : TaskInv(u)'
  <2>1. ASSUME NEW u \in Threads, u # it PROVE TaskInv(u)'
    BY <1>1, <1>2, <1>3, <2>1, OtherTask, NullAssumption
  <2>2. TaskInv(it)'
    BY <1>1, <1>2, <1>3 DEF TaskInv, FunctionOf
  <2> QED  BY <1>2, <2>1, <2>2
<1>6. SocketInv'
  BY <1>2, <1>3 DEF SocketInv, HasClient
<1>7. AliveInv'
  BY <1>1, <1>2, <1>3 DEF AliveInv, SelfIsAlive, HasClient, TaskInv, Workers
<1> QED  BY <1>3, <1>4, <1>5, <1>6, <1>7

-----------------------------------------------------------------------------
(* The calls of a client's task.                                           *)

LEMMA WorkKeeps ==
  ASSUME ServerInv
  PROVE  Reads \/ Writes \/ InCall \/ CallSucceeds \/ CallFails => ServerRest'
<1> USE EchoAssumption DEF ServerInv, ServerRest, FunctionOf
<1>1. ASSUME Reads \/ Writes PROVE ServerRest'
  <2>1. pc = "run" /\ it \in Workers /\ it \in Threads /\ place[it] \in {"start", "read", "write"}
    BY <1>1, ServerRuns DEF Reads, Writes, Connect, AtPlace, Workers
  <2>2. /\ UNCHANGED <<node, client, m_conns, args, valid_cothreads, cancel_list, leaving, add_list, it, pc, inactive>>
        /\ \E p \in {"read", "write"} :
             /\ place' = [place EXCEPT ![it] = p]
             /\ conn'[it].fd = m_fd'[it]
        /\ \A t \in Threads : t # it => conn'[t] = conn[t]
    <3>1. ASSUME NEW op, NEW fd, StartCall(op, fd)
          PROVE  /\ UNCHANGED <<node, valid_cothreads, cancel_list, leaving, add_list, it, pc>>
                 /\ conn'[it].fd = fd
                 /\ \A t \in Threads : t # it => conn'[t] = conn[t]
      BY <2>1, <3>1 DEF StartCall, Outside, vars, lists, managerVars, registry, walk, ConnInv, ConnTypeOK
    <3>2. CASE Reads
      BY <3>1, <3>2 DEF Reads, GoesTo
    <3>3. CASE Writes
      BY <2>1, <3>1, <3>3 DEF Writes, serverVars, connections, AtPlace, EchoTypeOK
    <3> QED  BY <1>1, <3>2, <3>3
  <2>3. HasClient(it)
    BY <2>1, RunningTask
  <2>4. /\ m_fd' = [m_fd EXCEPT ![it] = m_fd'[it]] /\ m_fd'[it] = client[args[it]].socket
        /\ saved' = [saved EXCEPT ![it] = saved'[it]] /\ saved'[it] \in {"DFL", "IGN"}
        /\ sigpipe' \in {"DFL", "IGN"}
        /\ m_fd[it] # Null => m_fd'[it] = m_fd[it]
    <3>1. TaskInv(it)
      BY <2>1
    <3>2. CASE Connect
      BY <2>1, <3>1, <3>2 DEF Connect, AtPlace, EchoTypeOK, TaskInv
    <3>3. CASE (AtPlace("read") \/ AtPlace("write")) /\ UNCHANGED connections
      BY <2>1, <2>3, <3>1, <3>3 DEF AtPlace, connections, EchoTypeOK, TaskInv, SocketInv
    <3> QED  BY <1>1, <3>2, <3>3 DEF Reads, Writes, serverVars
  <2>5. m_fd'[it] \in ClientFds
    BY <2>3, <2>4, ClientTypes DEF HasClient
  <2>6. PICK p \in {"read", "write"} : place' = [place EXCEPT ![it] = p] /\ conn'[it].fd = m_fd'[it]
    BY <2>2
  <2>7. p \in FunctionOf(it) \ {"close", "ended"} /\ p # "start"
    BY <2>1 DEF Workers
  <2> HIDE DEF ServerInv, ServerRest, FunctionOf
  <2> QED  BY <2>1, <2>2, <2>3, <2>4, <2>5, <2>6, <2>7, ClientTypes, MovesOn
<1>2. ASSUME InCall \/ CallSucceeds \/ CallFails PROVE ServerRest'
  <2>1. pc = "run" /\ (CallGoesOn \/ FinishCall \/ GiveUp)
    BY <1>2 DEF InCall, CallGoesOn, CallSucceeds, CallFails, WouldBlock, MovePart, MoveAllOrFail, Retry, Wait, Resume,
                RegisterSocket, FinishCall, GiveUp, At
  <2>2. it \in Threads /\ conn[it].at # "outside" /\ TaskInv(it)
    BY <2>1, CallEvents, RunningTask
  <2>3. /\ it \in Workers /\ place[it] \in {"read", "write"} /\ conn[it].fd = m_fd[it]
        /\ m_fd[it] \in ClientFds /\ saved[it] \in {"DFL", "IGN"}
    BY <2>2 DEF TaskInv, EchoTypeOK
  <2>4. HasClient(it) /\ client[args[it]].socket = m_fd[it]
    BY <2>1, <2>2, <2>3, RunningTask, ClientTypes DEF SocketInv
  <2>5. /\ \E p \in {"read", "write", "failed"} : /\ place' = [place EXCEPT ![it] = p]
                                                  /\ conn'[it].at # "outside" => p # "failed" /\ conn'[it].fd = m_fd[it]
        /\ UNCHANGED <<client, m_conns, args, m_fd, saved, sigpipe>> /\ inactive' \subseteq inactive
    <3>1. CASE InCall
      BY <2>1, <2>3, <3>1, CallEvents DEF InCall, CallGoesOn, serverVars, connections, EchoTypeOK
    <3>2. CASE CallSucceeds \/ CallFails
      <4>1. \E p \in {"read", "write", "failed"} : place' = [place EXCEPT ![it] = p]
        BY <3>2 DEF CallSucceeds, CallFails, GoesTo
      <4>2. conn'[it] = Outside
        BY <2>1, <3>2, CallEvents DEF CallSucceeds, CallFails
      <4>3. conn'[it].at = "outside"
        BY <4>2 DEF Outside
      <4>4. UNCHANGED <<client, m_conns, args, m_fd, saved, sigpipe>> /\ inactive' \subseteq inactive
        BY <3>2 DEF CallSucceeds, CallFails, connections
      <4> QED  BY <4>1, <4>3, <4>4
    <3> QED  BY <1>2, <3>1, <3>2
  <2>6. m_fd' = [m_fd EXCEPT ![it] = m_fd[it]] /\ saved' = [saved EXCEPT ![it] = saved[it]] /\ sigpipe' \in {"DFL", "IGN"}
    BY <2>2, <2>5 DEF EchoTypeOK
  <2>7. PICK p \in {"read", "write", "failed"} :
          /\ place' = [place EXCEPT ![it] = p]
          /\ conn'[it].at # "outside" => p # "failed" /\ conn'[it].fd = m_fd[it]
    BY <2>5
  <2>8. p \in FunctionOf(it) \ {"close", "ended"} /\ p # "start"
    BY <2>3 DEF Workers
  <2>9. /\ UNCHANGED <<valid_cothreads, cancel_list, leaving, add_list, it>> /\ pc' \in {"run", "process"}
        /\ \A t \in Threads : t # it => conn'[t] = conn[t]
        /\ \A n \in DOMAIN node' :
              \/ n \in DOMAIN node /\ node'[n] = node[n]
              \/ node'[n].thread_ptr = it /\ node'[n].fd = m_fd[it]
    BY <2>1, <2>3, CallEvents
  <2>10. m_fd[it] # Null
    BY <2>3
  <2>11. conn'[it].at # "outside" => it \in Workers /\ p \in {"read", "write"} /\ conn'[it].fd = m_fd[it]
    BY <2>3, <2>7
  <2>12. UNCHANGED <<client, m_conns, args>> /\ inactive' \subseteq inactive
    BY <2>5
  <2> HIDE DEF ServerInv, ServerRest, FunctionOf
  <2>13. m_fd[it] \in ClientFds \cup {Null} /\ saved[it] \in {"DFL", "IGN", Null}
    BY <2>3
  <2>14. \A n \in DOMAIN node' :
           \/ n \in DOMAIN node /\ node'[n] = node[n]
           \/ node'[n].thread_ptr = it /\ (node'[n].fd \in ClientFds => it \in Workers /\ node'[n].fd = m_fd[it])
    BY <2>3, <2>9
  <2> QED  BY <2>1, <2>3, <2>4, <2>6, <2>7, <2>8, <2>9, <2>10, <2>11, <2>12, <2>13, <2>14, MovesOn
<1> QED  BY <1>1, <1>2

-----------------------------------------------------------------------------
(* The scheduler.                                                          *)

LEMMA ScheduleKeeps ==
  ASSUME ServerInv, ConnInv', ServerSchedule
  PROVE  ServerRest'
<1> USE EchoAssumption DEF ServerInv, ServerRest
<1> DEFINE exists(t) == t \in valid_cothreads' \cup {leaving'}
<1>1. /\ \A t \in Threads : exists(t) =>
           /\ conn'[t] = conn[t] /\ args'[t] = args[t] /\ m_fd'[t] = m_fd[t] /\ saved'[t] = saved[t]
           /\ place'[t] = place[t]
      /\ \A t \in Threads : ~exists(t) =>
           conn'[t] = Outside /\ args'[t] = Null /\ m_fd'[t] = Null /\ saved'[t] = Null /\ place'[t] = "start"
      /\ UNCHANGED <<client, m_conns, sigpipe, inactive>>
  BY DEF ServerSchedule
<1>2. EchoTypeOK'
  BY DEF ServerSchedule, EchoTypeOK
<1>3. Loop \/ CallLoop
  BY DEF ServerSchedule
<1>4. /\ valid_cothreads' \subseteq valid_cothreads
      /\ \A t \in valid_cothreads \ valid_cothreads' : t \in cancel_list
      /\ \A t \in Threads : exists(t) => t \in valid_cothreads \cup {leaving}
      /\ cancel_list' = cancel_list \/ (cancel_list' = {} /\ valid_cothreads \cap cancel_list = {})
      /\ pc = "run" => pc' = "run" /\ UNCHANGED <<it, valid_cothreads, cancel_list>>
      /\ pc' = "run" /\ pc # "run" => it' \notin cancel_list /\ UNCHANGED <<valid_cothreads, cancel_list>>
      /\ pc' \in {"main", "check", "events"} => cancel_list' = {}
      /\ pc' = "sweep" => add_list' = {}
  BY <1>3, LoopLists DEF AliveInv, ConnInv
<1>5. pc' = "run" => it' \in Threads /\ it' \in valid_cothreads'
  BY DEF ConnInv, EnvInv, Control, NoDangling
<1>6. valid_cothreads \subseteq Threads
  BY DEF ConnInv, EnvInv, EnvTypes
<1>7. ASSUME NEW t \in Threads PROVE TaskInv(t)'
  <2>1. TaskInv(t)
    OBVIOUS
  <2>2. CASE exists(t)
    BY <1>1, <1>4, <2>1, <2>2 DEF TaskInv, FunctionOf
  <2>3. CASE ~exists(t)
    BY <1>1, <2>3 DEF TaskInv, FunctionOf, Outside
  <2> QED  BY <2>2, <2>3
<1>8. \A t \in Threads : IF exists(t) THEN HasClient(t)' <=> HasClient(t) ELSE ~HasClient(t)'
  BY <1>1, <1>2, ClientTypes DEF HasClient
<1>9. SocketInv'
  <2>1. \A t \in Threads : HasClient(t)' /\ m_fd'[t] # Null => client'[args'[t]].socket = m_fd'[t]
    BY <1>1, <1>8 DEF SocketInv
  <2>2. ASSUME NEW n \in DOMAIN node', node'[n].fd \in ClientFds
        PROVE  node'[n].thread_ptr \in Workers /\ m_fd'[node'[n].thread_ptr] = node'[n].fd
    <3>1. n \in DOMAIN node /\ node'[n] = node[n]
      BY <1>3, LoopShrinks DEF NodesShrink, ConnInv
    <3>2. exists(node'[n].thread_ptr)
      BY DEF ConnInv, EnvInv, NoDangling
    <3> QED  BY <1>1, <2>2, <3>1, <3>2 DEF SocketInv, Workers
  <2> QED  BY <2>1, <2>2 DEF SocketInv
<1>10. \A t \in Workers \cap valid_cothreads' : place'[t] = "ended" \/ t \in cancel_list' \/ HasClient(t)'
  BY <1>1, <1>4, <1>8 DEF AliveInv, Workers
<1>11. SelfIsAlive'
  <2> SUFFICES ASSUME pc' = "run", it' \in Workers, place'[it'] # "ended"
               PROVE  args'[it'] \in DOMAIN client' /\ client'[args'[it']].task = it'
    BY DEF SelfIsAlive
  <2>1. exists(it') /\ it' \in Threads /\ it' \in valid_cothreads
    BY <1>4, <1>5
  <2>2. HasClient(it')
    <3>1. CASE pc = "run"
      BY <1>1, <1>4, <2>1, <3>1 DEF AliveInv, SelfIsAlive, HasClient
    <3>2. CASE pc # "run"
      BY <1>1, <1>4, <2>1, <3>2 DEF AliveInv
    <3> QED  BY <3>1, <3>2
  <2> QED  BY <1>1, <2>1, <2>2 DEF HasClient
<1>12. AliveInv'
  <2>1. ASSUME place'[Checker] = "close"
        PROVE  /\ args'[Checker] \in DOMAIN client'
               /\ client'[args'[Checker]].task \in valid_cothreads' => client'[args'[Checker]].task \in cancel_list'
    <3>1. exists(Checker) /\ place[Checker] = "close"
      BY <1>1, <2>1
    <3>2. pc = "run"
      BY <3>1 DEF TaskInv
    <3> QED  BY <1>1, <1>4, <3>1, <3>2 DEF AliveInv
  <2>2. ASSUME pc' = "run", place'[it'] = "ended" PROVE ~HasClient(it)'
    <3>1. exists(it') /\ it' \in Threads /\ it' \in valid_cothreads
      BY <1>4, <1>5, <2>2
    <3>2. pc = "run" /\ it' = it /\ place[it] = "ended"
      BY <1>1, <2>2, <3>1 DEF TaskInv
    <3> QED  BY <1>8, <3>1, <3>2 DEF AliveInv
  <2> QED  BY <1>4, <1>10, <1>11, <2>1, <2>2 DEF AliveInv
<1> QED  BY <1>1, <1>2, <1>7, <1>9, <1>12

-----------------------------------------------------------------------------
(* The rest: tasks are added before loop(), and the world goes on.         *)

LEMMA StartsKeeps ==
  ASSUME ServerInv, ServerStarts
  PROVE  ServerRest'
<1> USE EchoAssumption DEF ServerInv, ServerRest
<1>1. PICK t \in {Listener, Checker} : valid_cothreads' = valid_cothreads \cup {t}
  BY DEF ServerStarts, AddTask
<1>2. /\ pc = "main" /\ UNCHANGED <<node, leaving, cancel_list, pc, it>>
      /\ UNCHANGED <<conn, client, m_conns, args, place, inactive, m_fd, sigpipe, saved>>
  BY DEF ServerStarts, AddTask, managerVars, registry, walk, serverVars, connections
<1>3. \A u \in Workers : u \in valid_cothreads' <=> u \in valid_cothreads
  BY <1>1 DEF Workers
<1>4. EchoTypeOK' /\ SocketInv'
  BY <1>2 DEF EchoTypeOK, SocketInv, HasClient
<1>5. ASSUME NEW u \in Threads PROVE TaskInv(u)'
  <2>1. TaskInv(u)
    OBVIOUS
  <2>2. place[u] = "ended" => u \in Workers
    BY <2>1 DEF TaskInv, FunctionOf, Workers
  <2> QED  BY <1>1, <1>2, <1>3, <2>1, <2>2 DEF TaskInv, FunctionOf
<1>6. place[Checker] # "close"
  BY <1>2 DEF TaskInv
<1>7. AliveInv'
  BY <1>2, <1>3, <1>6 DEF AliveInv, SelfIsAlive, HasClient
<1> QED  BY <1>2, <1>4, <1>5, <1>7

\* Nothing happens to the server, except that clients may become inactive.
LEMMA QuietKeeps ==
  ASSUME ServerInv,
         UNCHANGED <<client, m_conns, args, place, m_fd, sigpipe, saved, conn>>, inactive' \subseteq Clients,
         UNCHANGED <<node, valid_cothreads, cancel_list, add_list, leaving, pc, it>>
  PROVE  ServerRest'
<1> USE DEF ServerInv, ServerRest
<1>1. EchoTypeOK' /\ SocketInv' /\ AliveInv'
  BY DEF EchoTypeOK, SocketInv, AliveInv, SelfIsAlive, HasClient
<1>2. \A t \in Threads : TaskInv(t)'
  BY DEF TaskInv, FunctionOf
<1> QED  BY <1>1, <1>2

LEMMA WorldKeeps ==
  ASSUME ServerInv,
         \/ Connects \/ CheckTime \/ UNCHANGED echoVars
         \/ \E c \in DOMAIN client : Ages(c) \/ \E bits \in SUBSET AllBits : Stirs(c, bits)
  PROVE  ServerRest'
<1>1. inactive \subseteq Clients /\ DOMAIN client \subseteq Clients
  BY DEF ServerInv, ServerRest, EchoTypeOK
<1>2. CASE Connects \/ CheckTime \/ \E c \in DOMAIN client, bits \in SUBSET AllBits : Stirs(c, bits)
  BY <1>1, <1>2, QuietKeeps DEF Connects, CheckTime, Stirs, Environment, serverVars, connections, managerVars, registry,
                                walk, lists
<1>3. CASE \E c \in DOMAIN client : Ages(c)
  BY <1>1, <1>3, QuietKeeps DEF Ages, connVars, vars, connections, managerVars, registry, walk, lists
<1>4. CASE UNCHANGED echoVars
  BY <1>1, <1>4, QuietKeeps DEF echoVars, serverVars, connVars, vars, connections, managerVars, registry, walk, lists
<1> QED  BY <1>2, <1>3, <1>4

LEMMA EchoStepInv ==
  ASSUME ServerInv, AddressesFitInt, [EchoNext]_echoVars
  PROVE  ServerInv' /\ [Next]_vars
<1>1. ConnInv' /\ [Next]_vars
  BY EchoStepConn, EnvStepKeeps DEF ServerInv
<1>2. ASSUME ListenStep PROVE ServerRest'
  BY <1>1, <1>2, ServantsKeep, AcceptKeeps DEF ListenStep
<1>3. ASSUME CheckStep PROVE ServerRest'
  BY <1>3, ServantsKeep, DestructorKeeps DEF CheckStep
<1>4. ASSUME WorkStep PROVE ServerRest'
  BY <1>1, <1>4, WorkKeeps, DestructorKeeps, EndedKeeps DEF WorkStep
<1> QED  BY <1>1, <1>2, <1>3, <1>4, StartsKeeps, ServantsKeep, ScheduleKeeps, WorldKeeps DEF EchoNext, ServerInv

LEMMA EchoInvariant == AddressesFitInt => (EchoSpec => []ServerInv)
<1> SUFFICES ASSUME AddressesFitInt PROVE EchoSpec => []ServerInv
  OBVIOUS
<1>1. ServerInv /\ [EchoNext]_echoVars => ServerInv'
  BY EchoStepInv
<1> QED  BY <1>1, EchoInitInv, PTL DEF EchoSpec

-----------------------------------------------------------------------------
\* The state of the server is well typed.
THEOREM EchoTypesOK == AddressesFitInt => (EchoSpec => []EchoTypeOK)
<1>1. ServerInv => EchoTypeOK
  BY DEF ServerInv, ServerRest
<1> QED  BY <1>1, EchoInvariant, PTL

\* The server calls the scheduler as CoEnv assumes: what is proved of CoEnv holds
\* under the server.
THEOREM EchoUsesCoEnv == AddressesFitInt => (EchoSpec => ServerUsesCoEnv)
<1> SUFFICES ASSUME AddressesFitInt PROVE EchoSpec => ServerUsesCoEnv
  OBVIOUS
<1>1. EchoInit => Init
  BY DEF EchoInit, ConnInit
<1>2. ServerInv /\ [EchoNext]_echoVars => [Next]_vars
  BY EchoStepInv
<1> QED  BY <1>1, <1>2, EchoInvariant, PTL DEF EchoSpec, ServerUsesCoEnv, Spec

\* So no task of the server is forgotten or touched after its end, a cancelled task is
\* gone after the turn, and whoever is woken is woken by an event of its own.
THEOREM EchoSchedulerSafe ==
  AddressesFitInt => (EchoSpec => [](ListsPartition /\ NoDangling) /\ CancelTakesEffect /\ WokenByItsEvent)
<1> QED
  BY EchoUsesCoEnv, ListsAlwaysPartition, NeverDangling, CancelAlwaysTakesEffect, AlwaysWokenByItsEvent, PTL
  DEF ServerUsesCoEnv

\* A task that runs has its client, however many clients come, time out, hang up
\* and are deleted in whatever order: each deletion first cancels the task of the
\* client (echo_server.cpp:57), and a cancelled task is not run again.
THEOREM SelfAlwaysAlive == AddressesFitInt => (EchoSpec => []SelfIsAlive)
<1>1. ServerInv => SelfIsAlive
  BY DEF ServerInv, ServerRest, AliveInv
<1> QED  BY <1>1, EchoInvariant, PTL

\* Whenever the loop waits, the events on sockets of clients belong to the clients
\* that have these sockets now, also when accept returns a number again.
THEOREM SocketsAlwaysApart == AddressesFitInt => (EchoSpec => []SocketsApart)
<1>1. ServerInv => SocketsApart
  <2> SUFFICES ASSUME ServerInv, pc = "check", NEW n \in DOMAIN node, node[n].fd \in ClientFds
               PROVE  \E c \in m_conns : client[c] = [task |-> node[n].thread_ptr, socket |-> node[n].fd]
    BY DEF SocketsApart
  <2> USE DEF ServerInv, ServerRest
  <2> DEFINE t == node[n].thread_ptr
  <2>1. t \in Workers /\ t \in Threads /\ m_fd[t] = node[n].fd
    BY DEF SocketInv, Workers
  <2>2. t \in valid_cothreads
    BY <2>1, NullAssumption DEF ConnInv, EnvInv, NoDangling, Control, ManagerIdle
  <2>3. place[t] # "ended"
    BY <2>1, <2>2 DEF TaskInv
  <2>4. HasClient(t)
    BY <2>1, <2>2, <2>3 DEF AliveInv
  <2>5. client[args[t]].socket = m_fd[t] /\ args[t] \in m_conns
    BY <2>1, <2>4, ClientTypes DEF SocketInv, HasClient
  <2> QED  BY <2>1, <2>4, <2>5 DEF HasClient, EchoTypeOK
<1> QED  BY <1>1, EchoInvariant, PTL

\* Whenever the loop waits, every task has its client, which knows it, and m_conns is
\* the set of the clients there are, whatever was accepted, expelled and deleted in
\* the turn.
THEOREM TasksAlwaysHaveClients == AddressesFitInt => (EchoSpec => []TasksHaveClients)
<1>1. ServerInv => TasksHaveClients
  BY DEF TasksHaveClients, ServerInv, ServerRest, AliveInv, TaskInv, HasClient, Workers
<1> QED  BY <1>1, EchoInvariant, PTL

-----------------------------------------------------------------------------
(* ClientsKeepTasks: a task ends only when its client is deleted.          *)

KeepTasks ==
  \A c \in m_conns' :
    \/ Served(c)'
    \/ c \in m_conns /\ ~Served(c)
    \/ client'[c].task \in cancel_list

\* No client comes, and a task that goes is cancelled or has no client.
LEMMA TasksStay ==
  ASSUME ServerInv, DOMAIN client' \subseteq DOMAIN client, \A c \in DOMAIN client' : client'[c] = client[c],
         m_conns' = DOMAIN client',
         \A t \in Workers : args'[t] = args[t] \/ t \notin valid_cothreads',
         \A t \in Workers \cap valid_cothreads : t \in valid_cothreads' \/ t \in cancel_list \/ ~HasClient(t)
  PROVE  KeepTasks
<1> SUFFICES ASSUME NEW c \in m_conns', Served(c)
             PROVE  Served(c)' \/ client'[c].task \in cancel_list
  BY DEF KeepTasks, ServerInv, ServerRest
<1>1. PICK t : t = client[c].task
  OBVIOUS
<1>2. t \in Workers /\ t \in valid_cothreads /\ args[t] = c /\ HasClient(t)
  BY <1>1, ClientTypes DEF Served, HasClient, ServerInv, ServerRest
<1> QED  BY <1>1, <1>2 DEF Served

LEMMA TasksKept ==
  ASSUME ServerInv, ServerInv', AddressesFitInt, [EchoNext]_echoVars
  PROVE  KeepTasks
<1> USE EchoAssumption DEF ServerInv, ServerRest
<1>1. ASSUME UNCHANGED <<client, valid_cothreads>>, \A t \in Workers : args'[t] = args[t] PROVE KeepTasks
  BY <1>1, TasksStay
<1>2. ASSUME ServerStarts PROVE KeepTasks
  BY <1>2, TasksStay DEF ServerStarts, AddTask, serverVars
<1>3. ASSUME ListenStep PROVE KeepTasks
  <2>1. ASSUME NEW n \in Nodes, ListenAgain(n) PROVE KeepTasks
    BY <1>1, <2>1 DEF ListenAgain, RegisterEvent, lists
  <2>2. ASSUME TakesConnection PROVE KeepTasks
    BY <1>1, <2>2 DEF TakesConnection, Environment, lists
  <2>3. ASSUME NEW c \in Clients, NEW fd \in ClientFds, NEW t \in Workers, Accept(c, fd, t) PROVE KeepTasks
    <3>1. /\ t \notin valid_cothreads /\ valid_cothreads' = valid_cothreads \cup {t}
          /\ c \notin DOMAIN client /\ m_conns' = m_conns \cup {c}
          /\ client'[c].task = t /\ \A d \in DOMAIN client : client'[d] = client[d]
          /\ args' = [args EXCEPT ![t] = c]
      BY <2>3 DEF Accept, NewClient, AddTask, Free
    <3>2. Served(c)'
      BY <3>1 DEF Served, EchoTypeOK, Workers
    <3>3. \A d \in DOMAIN client : Served(d) => Served(d)'
      BY <3>1 DEF Served, EchoTypeOK
    <3> QED  BY <3>1, <3>2, <3>3 DEF KeepTasks
  <2> QED  BY <1>3, <2>1, <2>2, <2>3 DEF ListenStep
\* The destructor.
<1>4. ASSUME NEW c \in DOMAIN client, CancelsTask(c), UNCHANGED <<conn, timers, client>>,
             \A t \in Workers : args'[t] = args[t]
      PROVE  KeepTasks
  BY <1>1, <1>4, CancelsTaskStep
<1>5. ASSUME AtPlace("close"), it \in Workers \cup {Checker}, ClosesSocket(args[it]), Deletes(args[it]),
             UNCHANGED <<conn, timers>>, \A t \in Workers : args'[t] = args[t]
      PROVE  KeepTasks
  <2>1. args[it] \in DOMAIN client
    BY <1>5 DEF AtPlace, AliveInv, SelfIsAlive
  <2>2. UNCHANGED valid_cothreads
    BY <1>5, <2>1, ClosesSocketStep DEF lists
  <2> QED  BY <1>5, <2>2, TasksStay DEF Deletes
<1>6. ASSUME CheckStep \/ ServerBlocks PROVE KeepTasks
  <2>1. ASSUME NEW n \in Nodes, CheckerWaits(n) PROVE KeepTasks
    BY <1>1, <2>1 DEF CheckerWaits, RegisterEvent, lists
  <2>2. ASSUME CheckerSets \/ Checked \/ ServerBlocks PROVE KeepTasks
    BY <1>1, <2>2 DEF CheckerSets, Environment, Checked, ServerBlocks, Block, connVars, vars, lists
  <2>3. ASSUME NEW c \in m_conns, Expels(c) PROVE KeepTasks
    BY <1>4, <2>3 DEF Expels, Workers, EchoTypeOK
  <2>4. ASSUME Expelled PROVE KeepTasks
    BY <1>5, <2>4 DEF Expelled, Workers, EchoTypeOK
  <2> QED  BY <1>6, <2>1, <2>2, <2>3, <2>4 DEF CheckStep
<1>7. ASSUME WorkStep PROVE KeepTasks
  <2>1. ASSUME Reads \/ Writes PROVE KeepTasks
    BY <1>1, <2>1 DEF Reads, Writes, StartCall, serverVars, vars, lists
  <2>2. ASSUME InCall \/ CallSucceeds \/ CallFails PROVE KeepTasks
    <3>1. pc = "run" /\ (CallGoesOn \/ FinishCall \/ GiveUp)
      BY <2>2 DEF InCall, CallGoesOn, CallSucceeds, CallFails, WouldBlock, MovePart, MoveAllOrFail, Retry, Wait,
                  Resume, RegisterSocket, FinishCall, GiveUp, At
    <3>2. UNCHANGED <<client, valid_cothreads, args>>
      BY <2>2, <3>1, CallEvents DEF InCall, CallSucceeds, CallFails, serverVars
    <3> QED  BY <1>1, <3>2
  <2>3. ASSUME ClosesItself PROVE KeepTasks
    BY <1>4, <2>3 DEF ClosesItself, AtPlace, AliveInv, SelfIsAlive
  <2>4. ASSUME Closed PROVE KeepTasks
    BY <1>5, <2>4 DEF Closed
  <2>5. ASSUME Ended PROVE KeepTasks
    <3>1. ~HasClient(it) /\ valid_cothreads' = valid_cothreads \ {it} /\ UNCHANGED <<client, m_conns, args>>
      BY <2>5, ServerRuns DEF Ended, Finish, RemoveCoThread, AliveInv
    <3> QED  BY <3>1, TasksStay
  <2> QED  BY <1>7, <2>1, <2>2, <2>3, <2>4, <2>5 DEF WorkStep
<1>8. ASSUME ServerSchedule PROVE KeepTasks
  <2>1. /\ \A t \in valid_cothreads \ valid_cothreads' : t \in cancel_list
        /\ \A t \in Workers : args'[t] = args[t] \/ t \notin valid_cothreads'
        /\ UNCHANGED <<client, m_conns>>
    BY <1>8, LoopLists DEF ServerSchedule, ConnInv, AliveInv, Workers
  <2> QED  BY <2>1, TasksStay
<1>9. ASSUME \/ Connects \/ CheckTime \/ UNCHANGED echoVars
             \/ \E c \in DOMAIN client : Ages(c) \/ \E bits \in SUBSET AllBits : Stirs(c, bits)
      PROVE  KeepTasks
  <2>1. Connects \/ CheckTime => KeepTasks
    BY <1>1 DEF Connects, CheckTime, Environment, serverVars, lists
  <2>2. \A c \in DOMAIN client : Ages(c) => KeepTasks
    BY <1>1 DEF Ages, connVars, vars, lists
  <2>3. \A c \in DOMAIN client, bits \in SUBSET AllBits : Stirs(c, bits) => KeepTasks
    BY <1>1 DEF Stirs, Environment, serverVars, lists
  <2>4. UNCHANGED echoVars => KeepTasks
    BY <1>1 DEF echoVars, connVars, vars, serverVars, lists
  <2> QED  BY <1>9, <2>1, <2>2, <2>3, <2>4
<1> QED  BY <1>2, <1>3, <1>6, <1>7, <1>8, <1>9 DEF EchoNext

\* A client keeps its task until it is deleted itself, unless the task is cancelled:
\* however its calls end, a task closes its client before it returns.
THEOREM ClientsAlwaysKeepTasks == AddressesFitInt => (EchoSpec => ClientsKeepTasks)
<1> SUFFICES ASSUME AddressesFitInt PROVE EchoSpec => ClientsKeepTasks
  OBVIOUS
<1>1. ServerInv /\ ServerInv' /\ [EchoNext]_echoVars => [KeepTasks]_echoVars
  BY TasksKept
<1> QED  BY <1>1, EchoInvariant, PTL DEF EchoSpec, ClientsKeepTasks, KeepTasks

-----------------------------------------------------------------------------
(* EveryoneHeard: every event is what its task waits for, the only one of  *)
(* its fd, and epoll watches it.  A socket is closed while it has events   *)
(* only if the task that waits for them is cancelled, and its number comes *)
(* to the task of another client when those events are gone.               *)

WaitedFd(t) == CASE t = Listener -> ListenFd [] t = Checker -> CheckTimer [] OTHER -> m_fd[t]
WaitedMask(t) == IF t \in Workers THEN Mask(conn[t].op) ELSE {EPOLLIN}

\* Between the registration and the switch, and after the switch.
AtYield(t) == IF t \in Workers THEN conn[t].at = "yield" ELSE place[t] = "yield"
Waiting(t) == IF t \in Workers THEN conn[t].at = "waiting" ELSE place[t] = "woken"

HasEvent(t) == \E n \in DOMAIN node : node[n].thread_ptr = t

\* The event n is the one that t waits for.
EventOf(n, t) ==
  /\ node[n].fd = WaitedFd(t) /\ node[n].events = WaitedMask(t)
  /\ AtYield(t) \/ (Waiting(t) /\ t \in block_list)
  /\ \A m \in DOMAIN node : node[m].fd = node[n].fd => m = n
  /\ t \in cancel_list \/ epoll[node[n].fd] = node[n].events

Waiters ==
  /\ \A n \in DOMAIN node : EventOf(n, node[n].thread_ptr)
  /\ \A t \in Threads : AtYield(t) => pc = "run" /\ it = t /\ HasEvent(t)
  /\ \A t \in block_list : Waiting(t)
  /\ LeavesLast

\* Whose socket a number is: a task that has the number of another's client is
\* cancelled, and is gone when the task of that client first runs.
SocketsDistinct ==
  /\ \A t \in Threads \ Workers : m_fd[t] = Null
  /\ \A c, d \in DOMAIN client : client[c].socket = client[d].socket => c = d
  /\ \A t, u \in Threads : m_fd[t] = m_fd[u] /\ m_fd[t] # Null => t = u
  /\ \A c \in DOMAIN client, u \in Threads : m_fd[u] = client[c].socket /\ u # client[c].task =>
       u \in cancel_list /\ (client[c].task \in add_list \/ pc = "sweep")

HeardInv == Waiters /\ SocketsDistinct

\* What t waits for, and where it is, is as before.
Same(t) == conn'[t] = conn[t] /\ place'[t] = place[t] /\ m_fd'[t] = m_fd[t]

LEMMA SameWaits ==
  ASSUME NEW t, Same(t)
  PROVE  /\ WaitedFd(t)' = WaitedFd(t) /\ WaitedMask(t)' = WaitedMask(t)
         /\ AtYield(t)' <=> AtYield(t)
         /\ Waiting(t)' <=> Waiting(t)
BY DEF Same, WaitedFd, WaitedMask, AtYield, Waiting

LEMMA NodeThread ==
  ASSUME ServerInv, NEW n \in DOMAIN node
  PROVE  node[n].thread_ptr \in Threads /\ node[n].fd \in Fds
BY DEF ServerInv, ConnInv, EnvInv, ManagerInv, ManagerTypeOK, NodeInfo

\* The task that runs has an event between registration and switch only.
LEMMA RunnerHasNone ==
  ASSUME ServerInv, Waiters, pc = "run"
  PROVE  /\ it \in Threads /\ it \notin block_list /\ block_list \subseteq Threads
         /\ ~AtYield(it) => \A n \in DOMAIN node : node[n].thread_ptr # it
<1>1. it \in Threads /\ it \notin block_list /\ block_list \subseteq Threads
  BY DEF ServerInv, ConnInv, EnvInv, EnvTypes, Control, NoDangling, ListsPartition
<1>2. \A n \in DOMAIN node : node[n].thread_ptr = it => AtYield(it)
  BY <1>1 DEF Waiters, EventOf
<1> QED  BY <1>1, <1>2

\* A step of the running task that neither registers nor blocks.
LEMMA RunsHeard ==
  ASSUME ServerInv, Waiters, pc = "run", ~AtYield(it), ~AtYield(it)',
         NodesShrink, UNCHANGED <<block_list, it>>, cancel_list \subseteq cancel_list', LeavesLast',
         \A t \in Threads \ {it} : Same(t),
         \A n \in DOMAIN node' : epoll'[node[n].fd] = epoll[node[n].fd] \/ node[n].thread_ptr \in cancel_list'
  PROVE  Waiters'
<1>1. \A t \in Threads \ {it} : /\ WaitedFd(t)' = WaitedFd(t) /\ WaitedMask(t)' = WaitedMask(t)
                                /\ AtYield(t)' <=> AtYield(t)
                                /\ Waiting(t)' <=> Waiting(t)
  BY SameWaits
<1>2. \A n \in DOMAIN node' : n \in DOMAIN node /\ node'[n] = node[n] /\ EventOf(n, node[n].thread_ptr)'
  <2> SUFFICES ASSUME NEW n \in DOMAIN node'
               PROVE  n \in DOMAIN node /\ node'[n] = node[n] /\ EventOf(n, node[n].thread_ptr)'
    OBVIOUS
  <2>1. n \in DOMAIN node /\ node'[n] = node[n] /\ \A m \in DOMAIN node' : m \in DOMAIN node /\ node'[m] = node[m]
    BY DEF NodesShrink
  <2>2. node[n].thread_ptr \in Threads \ {it}
    BY <2>1, NodeThread, RunnerHasNone
  <2>3. EventOf(n, node[n].thread_ptr)
    BY <2>1 DEF Waiters
  <2> QED  BY <1>1, <2>1, <2>2, <2>3 DEF EventOf
<1>3. \A t \in Threads : ~AtYield(t)'
  BY <1>1 DEF Waiters
<1>4. \A t \in block_list : Waiting(t)'
  BY <1>1, RunnerHasNone DEF Waiters
<1> QED  BY <1>2, <1>3, <1>4 DEF Waiters

\* It registers the event that it will wait for.
LEMMA RegistersHeard ==
  ASSUME ServerInv, Waiters, NoOrphanInterest, CacheForgotten, pc = "run", ~AtYield(it), AtYield(it)',
         NEW n \in Nodes, NEW fd \in Fds, NEW events, AddEvent(n, fd, events, it),
         fd = WaitedFd(it)', events = WaitedMask(it)',
         \A m \in DOMAIN node : node[m].fd # fd,
         UNCHANGED <<lists, pc, it>>, \A t \in Threads \ {it} : Same(t)
  PROVE  Waiters'
<1>1. \A t \in Threads \ {it} : /\ WaitedFd(t)' = WaitedFd(t) /\ WaitedMask(t)' = WaitedMask(t)
                                /\ AtYield(t)' <=> AtYield(t)
                                /\ Waiting(t)' <=> Waiting(t)
  BY SameWaits
<1>2. /\ n \notin DOMAIN node /\ DOMAIN node' = DOMAIN node \cup {n}
      /\ \A m \in DOMAIN node : node'[m] = node[m]
      /\ node'[n] = [fd |-> fd, events |-> events, thread_ptr |-> it]
      /\ leaving' = leaving
  BY DEF AddEvent, walk
<1>3. epoll' = [epoll EXCEPT ![fd] = events] /\ epoll \in [Fds -> SUBSET Bits]
  BY FirstIsWatched DEF ServerInv, ConnInv, EnvInv, ManagerInv, ManagerTypeOK
<1>4. UNCHANGED <<block_list, cancel_list, valid_cothreads>>
  BY DEF lists
<1>5. \A m \in DOMAIN node' : EventOf(m, node[m].thread_ptr)' \/ m = n
  <2> SUFFICES ASSUME NEW m \in DOMAIN node PROVE EventOf(m, node[m].thread_ptr)'
    BY <1>2
  <2>1. node[m].thread_ptr \in Threads \ {it} /\ node[m].fd \in Fds
    BY NodeThread, RunnerHasNone
  <2>2. EventOf(m, node[m].thread_ptr)
    BY DEF Waiters
  <2>3. epoll'[node[m].fd] = epoll[node[m].fd] /\ node'[m] = node[m] /\ node[m].fd # node'[n].fd
    BY <1>2, <1>3, <2>1
  <2> QED  BY <1>1, <1>2, <1>4, <2>1, <2>2, <2>3 DEF EventOf
<1>6. EventOf(n, it)'
  BY <1>2, <1>3 DEF EventOf
<1>7. \A m \in DOMAIN node' : EventOf(m, node[m].thread_ptr)'
  BY <1>2, <1>5, <1>6
<1>8. HasEvent(it)'
  BY <1>2 DEF HasEvent
<1>9. \A t \in Threads \ {it} : ~AtYield(t)'
  BY <1>1 DEF Waiters
<1>10. \A t \in block_list : Waiting(t)'
  BY <1>1, RunnerHasNone DEF Waiters
<1>11. LeavesLast'
  BY <1>2, <1>4 DEF Waiters, LeavesLast
<1> QED  BY <1>4, <1>7, <1>8, <1>9, <1>10, <1>11 DEF Waiters

\* It switches, to wait for it.
LEMMA BlocksHeard ==
  ASSUME ServerInv, Waiters, pc = "run", AtYield(it), Waiting(it)', ~AtYield(it)',
         WaitedFd(it)' = WaitedFd(it), WaitedMask(it)' = WaitedMask(it), Block,
         \A t \in Threads \ {it} : Same(t)
  PROVE  Waiters'
<1>1. \A t \in Threads \ {it} : /\ WaitedFd(t)' = WaitedFd(t) /\ WaitedMask(t)' = WaitedMask(t)
                                /\ AtYield(t)' <=> AtYield(t)
                                /\ Waiting(t)' <=> Waiting(t)
  BY SameWaits
<1>2. /\ UNCHANGED <<node, epoll, leaving, it, cancel_list, valid_cothreads>>
      /\ block_list' = block_list \cup {it} /\ pc' = "process"
  BY DEF Block, managerVars, registry, interest, walk
<1>3. \A n \in DOMAIN node : EventOf(n, node[n].thread_ptr)'
  <2> TAKE n \in DOMAIN node
  <2>1. node[n].thread_ptr \in Threads /\ EventOf(n, node[n].thread_ptr)
    BY NodeThread DEF Waiters
  <2>2. CASE node[n].thread_ptr = it
    BY <1>2, <2>1, <2>2 DEF EventOf
  <2>3. CASE node[n].thread_ptr # it
    BY <1>1, <1>2, <2>1, <2>3 DEF EventOf
  <2> QED  BY <2>2, <2>3
<1>4. \A t \in Threads : ~AtYield(t)'
  BY <1>1, <1>2 DEF Waiters
<1>5. \A t \in block_list' : Waiting(t)'
  BY <1>1, <1>2, RunnerHasNone DEF Waiters
<1>6. LeavesLast'
  BY <1>2 DEF Waiters, LeavesLast
<1> QED  BY <1>2, <1>3, <1>4, <1>5, <1>6 DEF Waiters

\* What happens outside the tasks.
LEMMA QuietHeard ==
  ASSUME Waiters, UNCHANGED <<node, epoll, block_list, cancel_list, leaving, pc, it>>, LeavesLast',
         \A t : Same(t)
  PROVE  Waiters'
<1>1. \A t : /\ WaitedFd(t)' = WaitedFd(t) /\ WaitedMask(t)' = WaitedMask(t)
             /\ AtYield(t)' <=> AtYield(t)
             /\ Waiting(t)' <=> Waiting(t)
  BY SameWaits
<1>2. \A n \in DOMAIN node : EventOf(n, node[n].thread_ptr)'
  BY <1>1 DEF Waiters, EventOf
<1>3. \A t : HasEvent(t)' <=> HasEvent(t)
  BY DEF HasEvent
<1> QED  BY <1>1, <1>2, <1>3 DEF Waiters

\* A step of the scheduler: a task keeps its event until the event comes, or until
\* the task leaves.
LEMMA ScheduleHeard ==
  ASSUME ServerInv, ConnInv', Waiters, ServerSchedule
  PROVE  Waiters'
<1> USE EchoAssumption DEF ServerInv, ServerRest
<1> DEFINE exists(t) == t \in valid_cothreads' \cup {leaving'}
           EventsStay == \A n \in DOMAIN node' : /\ n \in DOMAIN node /\ node'[n] = node[n]
                                                  /\ epoll'[node[n].fd] = epoll[node[n].fd]
                                                  /\ node[n].thread_ptr \in block_list'
<1>1. /\ \A t \in Threads : exists(t) => Same(t)
      /\ \A t \in Threads : ~exists(t) => conn'[t] = Outside /\ place'[t] = "start"
  BY DEF ServerSchedule, Same
<1>2. Loop \/ CallLoop
  BY DEF ServerSchedule
<1>3. /\ pc # "run" /\ LeavesLast'
      /\ \/ UNCHANGED <<node, epoll, block_list>> /\ leaving \in {leaving', Null}
         \/ \E n \in DOMAIN node : /\ DeleteEvent(n) /\ node[n].thread_ptr = leaving
                                   /\ UNCHANGED <<block_list, leaving>>
         \/ \E n \in DOMAIN node : /\ DeleteEvent(n) /\ block_list' = block_list \ {node[n].thread_ptr}
                                   /\ UNCHANGED leaving
         \/ /\ UNCHANGED <<node, epoll>> /\ \A n \in DOMAIN node : node[n].thread_ptr # leaving
            /\ block_list' = block_list \ {leaving} /\ leaving' = Null
  BY <1>2, LoopKinds DEF Waiters, ConnInv
<1>4. \A t \in Threads : ~AtYield(t)'
  <2> TAKE t \in Threads
  <2>1. ~AtYield(t)
    BY <1>3 DEF Waiters
  <2>2. CASE exists(t)
    BY <1>1, <2>1, <2>2, SameWaits
  <2>3. CASE ~exists(t)
    BY <1>1, <2>3 DEF AtYield, Outside
  <2> QED  BY <2>2, <2>3
<1>5. \A t \in valid_cothreads \cup {leaving} : t \in cancel_list => t \in cancel_list'
  BY <1>2, LoopLists, NullAssumption DEF AliveInv, ConnInv, EnvInv, EnvTypes
<1>6. \A n \in DOMAIN node : /\ node[n].thread_ptr \in Threads /\ node[n].fd \in Fds
                             /\ node[n].thread_ptr \in valid_cothreads \cup {leaving}
                             /\ EventOf(n, node[n].thread_ptr)
                             /\ Waiting(node[n].thread_ptr) /\ node[n].thread_ptr \in block_list
  <2> TAKE n \in DOMAIN node
  <2>1. node[n].thread_ptr \in Threads /\ node[n].fd \in Fds /\ EventOf(n, node[n].thread_ptr)
    BY NodeThread DEF Waiters
  <2>2. ~AtYield(node[n].thread_ptr)
    BY <1>3, <2>1 DEF Waiters
  <2> QED  BY <2>1, <2>2 DEF EventOf, ConnInv, EnvInv, NoDangling
\* The events that stay, and the tasks that go on waiting.
<1>7. ASSUME EventsStay
      PROVE  \A n \in DOMAIN node' : EventOf(n, node[n].thread_ptr)'
  <2> TAKE n \in DOMAIN node'
  <2>1. n \in DOMAIN node /\ node'[n] = node[n] /\ epoll'[node[n].fd] = epoll[node[n].fd]
        /\ node[n].thread_ptr \in block_list'
    BY <1>7
  <2> PICK t \in Threads : t = node[n].thread_ptr
    BY <1>6, <2>1
  <2>2. exists(node'[n].thread_ptr)
    BY DEF ConnInv, EnvInv, NoDangling
  <2>3. EventOf(n, t) /\ Waiting(t) /\ Same(t) /\ (t \in cancel_list => t \in cancel_list')
    BY <1>1, <1>5, <1>6, <2>1, <2>2
  <2>4. /\ WaitedFd(t)' = WaitedFd(t) /\ WaitedMask(t)' = WaitedMask(t) /\ Waiting(t)'
    BY <2>3, SameWaits
  <2>5. \A m \in DOMAIN node' : node'[m].fd = node'[n].fd => m = n
    BY <1>7, <2>1, <2>3 DEF EventOf
  <2> QED  BY <2>1, <2>3, <2>4, <2>5 DEF EventOf
<1>8. \A t \in block_list' : Waiting(t)'
  <2> TAKE t \in block_list'
  <2>1. exists(t) /\ t \in Threads /\ Waiting(t)
    BY <1>3 DEF ConnInv, EnvInv, EnvTypes, ListsPartition, Waiters
  <2> QED  BY <1>1, <2>1, SameWaits
<1>9. EventsStay
  <2>1. ASSUME NEW n \in DOMAIN node, DeleteEvent(n)
        PROVE  /\ DOMAIN node' = DOMAIN node \ {n}
               /\ \A m \in DOMAIN node' : /\ node'[m] = node[m] /\ epoll'[node[m].fd] = epoll[node[m].fd]
                                          /\ node[m].thread_ptr # node[n].thread_ptr
    <3>1. /\ DOMAIN node' = DOMAIN node \ {n}
          /\ \A m \in DOMAIN node' : node'[m] = node[m]
          /\ \A fd \in Fds : fd # node[n].fd => epoll'[fd] = epoll[fd]
      BY <2>1, DeletedIsForgotten DEF ConnInv, EnvInv
    <3>2. \A m \in DOMAIN node : m # n => node[m].fd # node[n].fd /\ node[m].thread_ptr # node[n].thread_ptr
      BY <1>6 DEF EventOf
    <3> QED  BY <1>6, <3>1, <3>2
  <2>2. CASE UNCHANGED <<node, epoll, block_list>>
    BY <1>6, <2>2
  <2>3. ASSUME NEW n \in DOMAIN node, DeleteEvent(n), block_list' \in {block_list, block_list \ {node[n].thread_ptr}}
        PROVE  EventsStay
    BY <1>6, <2>1, <2>3
  <2>4. CASE UNCHANGED <<node, epoll>> /\ block_list' = block_list \ {leaving} /\ \A n \in DOMAIN node : node[n].thread_ptr # leaving
    BY <1>6, <2>4
  <2> QED  BY <1>3, <2>2, <2>3, <2>4
<1> QED  BY <1>3, <1>4, <1>7, <1>8, <1>9 DEF Waiters

\* Nobody waits on the fd of another.
LEMMA FdIsFree ==
  ASSUME ServerInv, HeardInv, pc = "run", ~AtYield(it), NEW m \in DOMAIN node
  PROVE  node[m].fd # WaitedFd(it)
<1>1. PICK u \in Threads : u = node[m].thread_ptr /\ u # it /\ node[m].fd = WaitedFd(u) /\ node[m].fd \in Fds
  BY NodeThread, RunnerHasNone DEF HeardInv, Waiters, EventOf
<1>2. \A t \in Threads : m_fd[t] \in ClientFds \cup {Null}
  BY DEF ServerInv, ServerRest, EchoTypeOK
<1>3. it \in Threads
  BY RunnerHasNone DEF HeardInv
<1> QED  BY <1>1, <1>2, <1>3, EchoAssumption DEF WaitedFd, HeardInv, SocketsDistinct, Workers

\* The listener and the checker.
LEMMA ServantsHeard ==
  ASSUME ServerInv, HeardInv, NoOrphanInterest, CacheForgotten
  PROVE  /\ \A n \in Nodes : ListenAgain(n) \/ CheckerWaits(n) => Waiters'
         /\ TakesConnection \/ CheckerSets \/ Checked \/ ServerBlocks => Waiters'
<1> USE EchoAssumption DEF HeardInv
<1>1. place \in [Threads -> {"start", "yield", "woken", "accepted", "register", "close", "read", "write", "failed", "ended"}]
  BY DEF ServerInv, ServerRest, EchoTypeOK
<1>2. ASSUME NEW p, NEW q, AtPlace(p), GoesTo(q), UNCHANGED <<conn, connections, it>>
      PROVE  /\ it \in Threads /\ pc = "run" /\ place[it] = p /\ place'[it] = q
             /\ \A t \in Threads \ {it} : Same(t)
             /\ m_fd' = m_fd
  BY <1>1, <1>2, ServerRuns DEF GoesTo, Same, connections, ServerInv
<1>3. ASSUME it \in {Listener, Checker}
      PROVE  (AtYield(it) <=> place[it] = "yield") /\ (Waiting(it) <=> place[it] = "woken") /\ WaitedMask(it) = {EPOLLIN}
             /\ WaitedFd(it) = IF it = Listener THEN ListenFd ELSE CheckTimer
  BY <1>3 DEF AtYield, Waiting, WaitedMask, WaitedFd, Workers
<1>4. ASSUME it' \in {Listener, Checker}
      PROVE  (AtYield(it)' <=> place'[it'] = "yield") /\ (Waiting(it)' <=> place'[it'] = "woken") /\ WaitedMask(it)' = {EPOLLIN}
             /\ WaitedFd(it)' = IF it' = Listener THEN ListenFd ELSE CheckTimer
  BY <1>4 DEF AtYield, Waiting, WaitedMask, WaitedFd, Workers
<1>5. ASSUME NEW n \in Nodes, NEW fd \in Fds, NEW p, AtPlace(p), p # "yield", it \in {Listener, Checker}, fd = WaitedFd(it),
             RegisterEvent(n, fd, {EPOLLIN}), GoesTo("yield"), UNCHANGED <<conn, connections>>
      PROVE  Waiters'
  <2>1. AddEvent(n, fd, {EPOLLIN}, it) /\ UNCHANGED <<lists, pc, it>>
    BY <1>5 DEF RegisterEvent
  <2>2. /\ pc = "run" /\ ~AtYield(it) /\ AtYield(it)' /\ \A t \in Threads \ {it} : Same(t)
        /\ {EPOLLIN} = WaitedMask(it)' /\ fd = WaitedFd(it)'
    BY <1>2, <1>3, <1>4, <1>5, <2>1
  <2>3. \A m \in DOMAIN node : node[m].fd # fd
    BY <1>5, <2>2, FdIsFree
  <2> HIDE DEF HeardInv
  <2>4. Waiters
    BY DEF HeardInv
  <2> QED  BY <2>1, <2>2, <2>3, <2>4, RegistersHeard
<1>6. ASSUME NEW p \in {"start", "woken"}, NEW q \in {"start", "woken", "accepted", "register"},
             AtPlace(p), it \in {Listener, Checker}, GoesTo(q),
             UNCHANGED <<conn, connections, node, epoll, lists, leaving, pc, it>>
      PROVE  Waiters'
  <2>1. pc = "run" /\ ~AtYield(it) /\ ~AtYield(it)' /\ \A t \in Threads \ {it} : Same(t)
    BY <1>2, <1>3, <1>4, <1>6
  <2>2. LeavesLast' /\ UNCHANGED <<node, block_list, it, epoll>> /\ cancel_list \subseteq cancel_list'
    BY <1>6 DEF Waiters, LeavesLast, lists
  <2> HIDE DEF HeardInv
  <2>3. Waiters
    BY DEF HeardInv
  <2> QED  BY <2>1, <2>2, <2>3, RunsHeard DEF NodesShrink
<1>7. ASSUME NEW n \in Nodes, ListenAgain(n) PROVE Waiters'
  BY <1>3, <1>5, <1>7 DEF ListenAgain
<1>8. ASSUME NEW n \in Nodes, CheckerWaits(n) PROVE Waiters'
  BY <1>3, <1>5, <1>8 DEF CheckerWaits
<1>9. ASSUME TakesConnection \/ CheckerSets PROVE Waiters'
  BY <1>6, <1>9 DEF TakesConnection, CheckerSets, Environment, managerVars, registry, interest, walk
<1>10. ASSUME Checked PROVE Waiters'
  BY <1>6, <1>10 DEF Checked, connVars, vars, managerVars, registry, interest, walk
<1>11. ASSUME ServerBlocks PROVE Waiters'
  <2>1. Block /\ AtPlace("yield") /\ GoesTo("woken") /\ UNCHANGED <<conn, connections, it>> /\ it \in {Listener, Checker}
    BY <1>11 DEF ServerBlocks, Block
  <2>2. /\ pc = "run" /\ AtYield(it) /\ Waiting(it)' /\ ~AtYield(it)' /\ \A t \in Threads \ {it} : Same(t)
        /\ WaitedFd(it)' = WaitedFd(it) /\ WaitedMask(it)' = WaitedMask(it)
    BY <1>2, <1>3, <1>4, <2>1
  <2> HIDE DEF HeardInv
  <2>3. Waiters
    BY DEF HeardInv
  <2> QED  BY <2>1, <2>2, <2>3, BlocksHeard
<1> QED  BY <1>7, <1>8, <1>9, <1>10, <1>11

\* Clients come and are deleted.
LEMMA ClientsHeard ==
  ASSUME ServerInv, HeardInv, AddressesFitInt
  PROVE  /\ \A c \in Clients, fd \in ClientFds, t \in Workers : Accept(c, fd, t) => Waiters'
         /\ \A c \in m_conns : Expels(c) => Waiters'
         /\ ClosesItself \/ Expelled \/ Closed => Waiters'
<1> USE EchoAssumption
<1>1. place \in [Threads -> {"start", "yield", "woken", "accepted", "register", "close", "read", "write", "failed", "ended"}]
  BY DEF ServerInv, ServerRest, EchoTypeOK
<1>2. Waiters /\ ConnInv /\ EchoTypeOK
  BY DEF ServerInv, ServerRest, HeardInv
<1>3. ASSUME NEW p \in {"accepted", "woken", "close", "failed"}, NEW q \in {"start", "woken", "close", "ended"},
             AtPlace(p), GoesTo(q), it \in Workers \/ it \in {Listener, Checker}, UNCHANGED <<conn, connections, it>>
      PROVE  /\ it \in Threads /\ pc = "run" /\ leaving = Null
             /\ ~AtYield(it) /\ ~AtYield(it)' /\ \A t \in Threads \ {it} : Same(t)
  <2>1. it \in Threads /\ pc = "run" /\ leaving = Null /\ conn[it].at = "outside" /\ place[it] = p
    BY <1>2, <1>3, ServerRuns
  <2>2. place'[it'] = q /\ conn'[it'].at = "outside" /\ it' = it
    BY <1>1, <1>3, <2>1 DEF GoesTo
  <2>3. \A t \in Threads \ {it} : Same(t)
    BY <1>1, <1>3, <2>1 DEF GoesTo, Same, connections
  <2> QED  BY <1>3, <2>1, <2>2, <2>3 DEF AtYield, Workers
<1>4. ASSUME NEW c \in Clients, NEW fd \in ClientFds, NEW t \in Workers, Accept(c, fd, t) PROVE Waiters'
  <2>1. AtPlace("accepted") /\ GoesTo("start") /\ it = Listener /\ UNCHANGED <<conn, connections, it>>
    BY <1>4 DEF Accept, NewClient, AddTask
  <2>2. UNCHANGED <<node, epoll, block_list, leaving, cancel_list>> /\ valid_cothreads' \subseteq valid_cothreads \cup Threads
    BY <1>4 DEF Accept, NewClient, AddTask, managerVars, registry, interest, walk, Workers
  <2>3. LeavesLast'
    BY <1>2, <1>3, <2>1, <2>2, NullAssumption DEF Waiters, LeavesLast
  <2> QED  BY <1>2, <1>3, <2>1, <2>2, <2>3, RunsHeard DEF NodesShrink
<1>5. ASSUME NEW c \in DOMAIN client, CancelsTask(c), NEW p \in {"woken", "failed"}, AtPlace(p), GoesTo("close"),
             it \in Workers \/ it = Checker, UNCHANGED <<conn, timers, connections>>
      PROVE  Waiters'
  <2>1. /\ UNCHANGED <<node, leaving, pc, it, valid_cothreads>>
        /\ cancel_list' = cancel_list \cup ({client[c].task} \cap valid_cothreads)
    BY <1>2, <1>5, CancelsTaskStep
  <2>2. UNCHANGED <<epoll, block_list>>
    BY <1>5 DEF CancelsTask, CancelTask, vars, lists, managerVars, interest
  <2>3. LeavesLast'
    BY <1>2, <2>1 DEF Waiters, LeavesLast
  <2> QED  BY <1>2, <1>3, <1>5, <2>1, <2>2, <2>3, RunsHeard DEF NodesShrink
<1>6. ASSUME NEW c \in m_conns, Expels(c) PROVE Waiters'
  BY <1>5, <1>6 DEF Expels, ServerInv, ServerRest
<1>7. ASSUME ClosesItself PROVE Waiters'
  <2>1. args[it] \in DOMAIN client
    BY <1>7 DEF ClosesItself, AtPlace, ServerInv, ServerRest, AliveInv, SelfIsAlive
  <2> QED  BY <1>5, <1>7, <2>1 DEF ClosesItself
<1>8. ASSUME NEW q \in {"woken", "ended"}, AtPlace("close"), ClosesSocket(args[it]), GoesTo(q),
             it \in Workers \/ it = Checker, UNCHANGED <<conn, timers, connections>>
      PROVE  Waiters'
  <2>1. PICK c \in DOMAIN client : c = args[it]
    BY <1>8 DEF AtPlace, ServerInv, ServerRest, AliveInv, SelfIsAlive
  <2>2. UNCHANGED <<node, lists, leaving, pc, it>>
    BY <1>2, <1>8, <2>1, ClosesSocketStep
  <2>3. \A fd \in Fds : fd # client[c].socket => epoll'[fd] = epoll[fd]
    BY <1>8, <2>1 DEF ClosesSocket, Close, CloseFd, Environment, managerVars, interest, ServerInv, ConnInv, EnvInv,
                      ManagerInv, ManagerTypeOK
  <2>4. /\ it \in Threads /\ pc = "run" /\ leaving = Null
        /\ ~AtYield(it) /\ ~AtYield(it)' /\ \A t \in Threads \ {it} : Same(t)
    BY <1>3, <1>8, <2>2
  <2>5. ASSUME NEW n \in DOMAIN node, node[n].fd = client[c].socket PROVE node[n].thread_ptr \in cancel_list
    <3>1. PICK u \in Threads : u = node[n].thread_ptr
      BY NodeThread
    <3>2. u # it /\ u \in valid_cothreads
      BY <1>2, <2>4, <3>1, RunnerHasNone, NullAssumption DEF ConnInv, EnvInv, NoDangling
    <3>3. m_fd[u] = client[c].socket
      <4>1. client[c].socket \in ClientFds
        BY <1>2, ClientTypes
      <4> QED  BY <2>5, <3>1, <4>1 DEF ServerInv, ServerRest, SocketInv
    <3>4. CASE u # client[c].task
      BY <3>1, <3>3, <3>4 DEF HeardInv, SocketsDistinct
    <3>5. CASE u = client[c].task
      <4>1. it \notin Workers
        BY <1>8, <2>1, <2>4, <3>2, <3>5 DEF AtPlace, ServerInv, ServerRest, AliveInv, SelfIsAlive
      <4> QED  BY <1>8, <2>1, <3>1, <3>2, <3>5, <4>1 DEF AtPlace, ServerInv, ServerRest, AliveInv
    <3> QED  BY <3>4, <3>5
  <2>6. LeavesLast' /\ UNCHANGED <<block_list, cancel_list>>
    BY <1>2, <2>2 DEF Waiters, LeavesLast, lists
  <2>7. \A n \in DOMAIN node : epoll'[node[n].fd] = epoll[node[n].fd] \/ node[n].thread_ptr \in cancel_list'
    BY <2>3, <2>5, <2>6, NodeThread
  <2> QED  BY <1>2, <2>2, <2>4, <2>6, <2>7, RunsHeard DEF NodesShrink
<1>9. Expelled \/ Closed => Waiters'
  BY <1>8 DEF Expelled, Closed
<1> QED  BY <1>4, <1>6, <1>7, <1>9

\* A call that returns cancels an event, which need not be its own; it is the only one
\* of its fd.
LEMMA CancelHeard ==
  ASSUME ServerInv, Waiters, pc = "run", FinishCall \/ GiveUp
  PROVE  /\ NodesShrink /\ UNCHANGED <<block_list, cancel_list, it>> /\ LeavesLast'
         /\ \A n \in DOMAIN node' : epoll'[node[n].fd] = epoll[node[n].fd]
<1>1. PICK id : Cancels(id)
  BY DEF FinishCall, GiveUp
<1>2. UNCHANGED <<block_list, cancel_list, it, leaving, valid_cothreads, pc>>
  BY <1>1 DEF Cancels, CancelEvent, vars, lists, managerVars, walk
<1>3. LeavesLast'
  BY <1>2 DEF Waiters, LeavesLast
<1>4. CASE UNCHANGED <<node, epoll>>
  BY <1>2, <1>3, <1>4 DEF NodesShrink
<1>5. CASE id \in valid_event /\ DeleteEvent(id)
  <2>1. ManagerInv /\ id \in DOMAIN node
    BY <1>5 DEF ServerInv, ConnInv, EnvInv, ManagerInv, RecordsAgree
  <2>2. /\ DOMAIN node' = DOMAIN node \ {id}
        /\ \A m \in DOMAIN node' : node'[m] = node[m]
        /\ \A fd \in Fds : fd # node[id].fd => epoll'[fd] = epoll[fd]
    BY <1>5, <2>1, DeletedIsForgotten
  <2>3. \A m \in DOMAIN node' : node[m].fd # node[id].fd /\ node[m].fd \in Fds
    BY <2>1, <2>2, NodeThread DEF Waiters, EventOf
  <2> QED  BY <1>2, <1>3, <2>2, <2>3 DEF NodesShrink
<1> QED
  BY <1>1, <1>4, <1>5 DEF Cancels, CancelEvent, vars, managerVars, registry, interest

\* The task of a client.
LEMMA WorkHeard ==
  ASSUME ServerInv, HeardInv, NoOrphanInterest, CacheForgotten
  PROVE  Reads \/ Writes \/ InCall \/ CallSucceeds \/ CallFails \/ Ended => Waiters'
<1>1. Waiters /\ ConnInv /\ EchoTypeOK /\ conn \in [Threads -> Frames]
  BY DEF ServerInv, ServerRest, HeardInv, ConnInv, ConnTypeOK
<1>2. it \in Workers => (AtYield(it) <=> conn[it].at = "yield") /\ WaitedMask(it) = Mask(conn[it].op) /\ WaitedFd(it) = m_fd[it]
  BY DEF AtYield, WaitedMask, WaitedFd, Workers
<1>3. it' \in Workers =>
        /\ AtYield(it)' <=> conn'[it'].at = "yield"
        /\ Waiting(it)' <=> conn'[it'].at = "waiting"
        /\ WaitedMask(it)' = Mask(conn'[it'].op) /\ WaitedFd(it)' = m_fd'[it']
  BY DEF AtYield, Waiting, WaitedMask, WaitedFd, Workers
\* A step that leaves the events and the lists alone.
<1>4. ASSUME pc = "run", it \in Workers, conn[it].at # "yield", conn'[it].at # "yield", \A t \in Threads \ {it} : Same(t),
             UNCHANGED <<node, epoll, block_list, cancel_list, valid_cothreads, leaving, it>>
      PROVE  Waiters'
  <2>1. LeavesLast'
    BY <1>1, <1>4, NullAssumption DEF Waiters, LeavesLast
  <2>2. ~AtYield(it) /\ ~AtYield(it)'
    BY <1>2, <1>3, <1>4
  <2> QED  BY <1>1, <1>4, <2>1, <2>2, RunsHeard DEF NodesShrink
<1>5. ASSUME NEW p, place' = [place EXCEPT ![it] = p] \/ UNCHANGED place, \A t \in Threads \ {it} : conn'[t] = conn[t],
             \A t \in Threads \ {it} : m_fd'[t] = m_fd[t]
      PROVE  \A t \in Threads \ {it} : Same(t)
  BY <1>1, <1>5 DEF EchoTypeOK, Same
<1>6. UNCHANGED vars => UNCHANGED <<node, epoll, block_list, cancel_list, valid_cothreads, leaving, it>>
  BY DEF vars, lists, managerVars, registry, interest, walk
<1>7. ASSUME Reads \/ Writes PROVE Waiters'
  <2>1. /\ it \in Workers /\ it \in Threads /\ pc = "run" /\ conn[it].at = "outside"
        /\ \A t \in Threads \ {it} : m_fd'[t] = m_fd[t]
        /\ \E p : place' = [place EXCEPT ![it] = p] \/ UNCHANGED place
        /\ \E op, fd : StartCall(op, fd)
    BY <1>1, <1>7, ServerRuns DEF Reads, Writes, Connect, AtPlace, Workers, EchoTypeOK, GoesTo, serverVars, connections
  <2>2. PICK op, fd : StartCall(op, fd)
    BY <2>1
  <2>3. UNCHANGED vars /\ conn'[it].at # "yield" /\ \A t \in Threads \ {it} : conn'[t] = conn[t]
    BY <1>1, <2>1, <2>2 DEF StartCall, Outside, FirstStep
  <2> QED  BY <1>4, <1>5, <1>6, <2>1, <2>3
<1>8. ASSUME InCall \/ CallSucceeds \/ CallFails
      PROVE  /\ pc = "run" /\ it \in Threads /\ it \in Workers /\ it' = it /\ conn[it].fd = m_fd[it] /\ m_fd[it] \in ClientFds
             /\ UNCHANGED m_fd /\ \A t \in Threads \ {it} : Same(t)
  <2>1. pc = "run" /\ (CallGoesOn \/ FinishCall \/ GiveUp)
    BY <1>8 DEF InCall, CallGoesOn, CallSucceeds, CallFails, WouldBlock, MovePart, MoveAllOrFail, Retry, Wait, Resume,
                RegisterSocket, FinishCall, GiveUp, At
  <2>2. /\ it \in Threads /\ conn[it].at # "outside" /\ TaskInv(it) /\ it' = it
        /\ \A t \in Threads : t # it => conn'[t] = conn[t]
    BY <1>1, <2>1, CallEvents, RunningTask
  <2>3. it \in Workers /\ conn[it].fd = m_fd[it] /\ m_fd[it] \in ClientFds
    BY <1>1, <2>2 DEF TaskInv, EchoTypeOK
  <2>4. UNCHANGED m_fd /\ \E p : place' = [place EXCEPT ![it] = p] \/ UNCHANGED place
    BY <1>8 DEF InCall, CallSucceeds, CallFails, GoesTo, serverVars, connections
  <2> QED  BY <1>5, <2>1, <2>2, <2>3, <2>4
<1>9. ASSUME InCall, WouldBlock \/ MovePart \/ MoveAllOrFail \/ Retry \/ Resume PROVE Waiters'
  <2>1. UNCHANGED <<node, epoll, block_list, cancel_list, valid_cothreads, leaving, it>>
    BY <1>6, <1>9 DEF WouldBlock, MovePart, MoveAllOrFail, Retry, Resume, Moved, Environment, lists, managerVars,
                      registry, interest, walk
  <2>2. conn[it].at # "yield"
    BY <1>9 DEF WouldBlock, MovePart, MoveAllOrFail, Retry, Resume, At
  <2>3. \E q \in PlaceNames \ {"yield"} : conn'[it].at = q
    <3>1. \A op : NextStep(op) \in PlaceNames \ {"yield"}
      BY DEF NextStep, PlaceNames
    <3>2. \A q : Goes(q) => conn'[it].at = q
      BY <1>1, <1>8, <1>9 DEF Goes, Frames
    <3>3. CASE WouldBlock \/ MovePart \/ MoveAllOrFail \/ Retry \/ Goes("cancel")
      BY <3>2, <3>3 DEF WouldBlock, MovePart, MoveAllOrFail, Retry, PlaceNames
    <3>4. CASE conn' = [conn EXCEPT ![it].at = NextStep(conn[it].op), ![it].event_id = Null]
      BY <1>1, <1>8, <1>9, <3>1, <3>4 DEF Frames
    <3> QED  BY <1>9, <3>3, <3>4 DEF Resume
  <2> QED  BY <1>4, <1>8, <1>9, <2>1, <2>2, <2>3
<1>10. ASSUME InCall, NEW n \in Nodes, RegisterSocket(n) PROVE Waiters'
  <2>1. /\ conn[it].at = "register" /\ AddEvent(n, conn[it].fd, Mask(conn[it].op), it) /\ UNCHANGED <<lists, pc, it>>
        /\ conn'[it].at = "yield" /\ conn'[it].op = conn[it].op
    BY <1>1, <1>8, <1>10 DEF RegisterSocket, RegisterEvent, At, Frames
  <2>2. PICK fd \in Fds : fd = m_fd[it]
    BY <1>8, <1>10, EchoAssumption
  <2>3. /\ pc = "run" /\ ~AtYield(it) /\ AtYield(it)' /\ Mask(conn[it].op) = WaitedMask(it)' /\ fd = WaitedFd(it)'
        /\ fd = WaitedFd(it) /\ conn[it].fd = fd /\ \A t \in Threads \ {it} : Same(t)
    BY <1>2, <1>3, <1>8, <1>10, <2>1, <2>2
  <2>4. \A m \in DOMAIN node : node[m].fd # fd
    BY <2>3, FdIsFree
  <2> QED  BY <1>1, <2>1, <2>3, <2>4, RegistersHeard
<1>11. ASSUME InCall, Wait PROVE Waiters'
  <2>1. Block /\ conn[it].at = "yield" /\ conn'[it].at = "waiting" /\ conn'[it].op = conn[it].op
    BY <1>1, <1>8, <1>11 DEF Wait, At, Goes, Frames
  <2>2. /\ pc = "run" /\ AtYield(it) /\ Waiting(it)' /\ ~AtYield(it)' /\ \A t \in Threads \ {it} : Same(t)
        /\ WaitedFd(it)' = WaitedFd(it) /\ WaitedMask(it)' = WaitedMask(it)
    BY <1>2, <1>3, <1>8, <1>11, <2>1
  <2> QED  BY <1>1, <2>1, <2>2, BlocksHeard
<1>12. ASSUME CallSucceeds \/ CallFails PROVE Waiters'
  <2>1. FinishCall \/ GiveUp
    BY <1>12 DEF CallSucceeds, CallFails
  <2>2. conn[it].at \in {"done", "cancel"}
    BY <2>1 DEF FinishCall, GiveUp, At
  <2>3. /\ NodesShrink /\ UNCHANGED <<block_list, cancel_list, it>> /\ LeavesLast'
        /\ \A n \in DOMAIN node' : epoll'[node[n].fd] = epoll[node[n].fd]
    BY <1>1, <1>8, <1>12, <2>1, CancelHeard
  <2>4. conn'[it].at # "yield"
    BY <1>1, <1>8, <1>12, <2>1, CallEvents DEF Outside
  <2>5. pc = "run" /\ ~AtYield(it) /\ ~AtYield(it)' /\ \A t \in Threads \ {it} : Same(t)
    BY <1>2, <1>3, <1>8, <1>12, <2>2, <2>4
  <2> QED  BY <1>1, <2>3, <2>5, RunsHeard
<1>13. ASSUME Ended PROVE Waiters'
  <2>1. /\ pc = "run" /\ it \in Threads /\ it \in Workers /\ conn[it].at = "outside"
        /\ UNCHANGED <<conn, place, m_fd>>
    BY <1>1, <1>13, ServerRuns DEF Ended
  <2>2. UNCHANGED <<node, epoll, block_list, cancel_list, it>> /\ LeavesLast'
    BY <1>13 DEF Ended, Finish, RemoveCoThread, CancelCoThread, registry, interest, LeavesLast
  <2>3. ~AtYield(it) /\ ~AtYield(it)' /\ \A t \in Threads \ {it} : Same(t)
    BY <1>2, <1>3, <1>5, <2>1, <2>2
  <2> QED  BY <1>1, <2>1, <2>2, <2>3, RunsHeard DEF NodesShrink
<1> QED  BY <1>7, <1>9, <1>10, <1>11, <1>12, <1>13 DEF InCall

\* No client comes and no task gets a connection.
LEMMA DistinctKept ==
  ASSUME EchoTypeOK, SocketsDistinct,
         DOMAIN client' \subseteq DOMAIN client, \A c \in DOMAIN client' : client'[c] = client[c],
         \A t \in Threads : m_fd'[t] \in {m_fd[t], Null},
         cancel_list \subseteq cancel_list', pc' = "sweep" \/ (pc # "sweep" /\ add_list \subseteq add_list')
  PROVE  SocketsDistinct'
<1>1. \A c \in DOMAIN client : client[c].socket # Null
  BY ClientTypes
<1> QED  BY <1>1 DEF SocketsDistinct, Workers

LEMMA AcceptDistinct ==
  ASSUME ServerInv, SocketsDistinct, NEW c \in Clients, NEW fd \in ClientFds, NEW t \in Workers, Accept(c, fd, t)
  PROVE  SocketsDistinct'
<1> USE EchoAssumption DEF ServerInv, ServerRest
<1>1. /\ pc = "run" /\ leaving = Null /\ it = Listener /\ it \notin Workers
  BY ServerRuns DEF Accept, NewClient, Workers
<1>2. /\ add_list' = add_list \cup {t} /\ UNCHANGED <<cancel_list, pc, m_fd>>
      /\ c \notin DOMAIN client /\ \A d \in DOMAIN client : client[d].socket # fd
      /\ DOMAIN client' = DOMAIN client \cup {c} /\ \A d \in DOMAIN client : client'[d] = client[d]
      /\ client'[c].task = t /\ client'[c].socket = fd
  BY DEF Accept, NewClient, AddTask, Free, connections
<1>3. ASSUME NEW u \in Threads, m_fd[u] = fd, u # t PROVE u \in cancel_list
  <2>1. u \in Workers /\ TaskInv(u)
    BY <1>3 DEF SocketsDistinct
  <2>2. u \in valid_cothreads /\ place[u] # "ended"
    BY <1>1, <1>3, <2>1, NullAssumption DEF TaskInv
  <2>3. ~HasClient(u)
    BY <1>2, <1>3 DEF SocketInv, HasClient
  <2> QED  BY <2>1, <2>2, <2>3 DEF AliveInv
<1> QED  BY <1>2, <1>3 DEF SocketsDistinct

LEMMA ReadsDistinct ==
  ASSUME ServerInv, SocketsDistinct, Reads
  PROVE  SocketsDistinct'
<1> USE DEF ServerInv, ServerRest
<1>1. /\ UNCHANGED <<client, cancel_list, add_list, pc>> /\ it \in Workers /\ it \in Threads /\ pc = "run"
      /\ it \in valid_cothreads /\ it \notin add_list
  <2>1. UNCHANGED <<client, cancel_list, add_list, pc>>
    BY DEF Reads, StartCall, vars, lists
  <2>2. it \in Workers /\ it \in Threads /\ pc = "run" /\ it \in valid_cothreads
    BY ServerRuns DEF Reads, Connect, Workers
  <2>3. it \notin add_list
    BY <2>2 DEF ConnInv, EnvInv, NoDangling, ListsPartition
  <2> QED  BY <2>1, <2>2, <2>3
<1>2. CASE Connect
  <2>1. HasClient(it)
    BY <1>1, <1>2, RunningTask DEF Connect, AtPlace
  <2>2. PICK fd \in ClientFds : fd = client[args[it]].socket
    BY <2>1, ClientTypes DEF HasClient
  <2>3. \A u \in Threads : u # it => m_fd'[u] = m_fd[u] /\ m_fd[u] # fd
    <3>1. \A u \in Threads : u # it => m_fd[u] # fd
      BY <1>1, <2>1, <2>2 DEF SocketsDistinct, HasClient
    <3> QED  BY <1>1, <1>2, <3>1 DEF Connect, EchoTypeOK
  <2>4. m_fd'[it] = fd
    BY <1>1, <1>2, <2>2 DEF Connect, EchoTypeOK
  <2>5. \A d \in DOMAIN client : client[d].socket = fd => client[d].task = it
    BY <2>1, <2>2 DEF SocketsDistinct, HasClient
  <2>6. \A u \in Threads \ Workers : m_fd'[u] = Null
    BY <1>1, <2>3 DEF SocketsDistinct
  <2>7. \A u, w \in Threads : m_fd'[u] = m_fd'[w] /\ m_fd'[u] # Null => u = w
    BY <2>3, <2>4 DEF SocketsDistinct
  <2>8. \A d \in DOMAIN client, u \in Threads : m_fd'[u] = client[d].socket /\ u # client[d].task =>
          u \in cancel_list /\ (client[d].task \in add_list \/ pc = "sweep")
    BY <2>3, <2>4, <2>5 DEF SocketsDistinct
  <2> QED  BY <1>1, <2>6, <2>7, <2>8 DEF SocketsDistinct
<1>3. CASE UNCHANGED connections
  BY <1>1, <1>3, DistinctKept DEF connections
<1> QED  BY <1>2, <1>3 DEF Reads

\* At the end of the sweep the tasks of deleted clients are gone.
LEMMA ScheduleDistinct ==
  ASSUME ServerInv, SocketsDistinct, ServerSchedule
  PROVE  SocketsDistinct'
<1> USE DEF ServerInv, ServerRest
<1>1. /\ \A t \in Threads : m_fd'[t] = IF t \in valid_cothreads' \cup {leaving'} THEN m_fd[t] ELSE Null
      /\ UNCHANGED client
  BY DEF ServerSchedule
<1>2. Loop \/ CallLoop
  BY DEF ServerSchedule
<1>3. /\ \A t \in Threads : t \in valid_cothreads' \cup {leaving'} => t \in valid_cothreads \cup {leaving}
      /\ \/ cancel_list' = cancel_list
         \/ cancel_list' = {} /\ valid_cothreads \cap cancel_list = {} /\ leaving = Null
      /\ add_list' = add_list \/ pc' = "sweep"
      /\ pc = "sweep" => pc' = "sweep" \/ cancel_list' = {}
  BY <1>2, LoopLists DEF AliveInv, ConnInv
<1>4. CASE cancel_list' = cancel_list /\ (pc' = "sweep" \/ (pc # "sweep" /\ add_list' = add_list))
  BY <1>1, <1>4, DistinctKept
<1>5. CASE cancel_list' = {} /\ \A t \in Threads : t \in valid_cothreads' \cup {leaving'} => t \notin cancel_list
  BY <1>1, <1>5, ClientTypes DEF SocketsDistinct, Workers
<1> QED  BY <1>3, <1>4, <1>5, NullAssumption

-----------------------------------------------------------------------------
LEMMA WorldHeard ==
  ASSUME ServerInv, HeardInv,
         \/ ServerStarts \/ Connects \/ CheckTime \/ UNCHANGED echoVars
         \/ \E c \in DOMAIN client : Ages(c) \/ \E bits \in SUBSET AllBits : Stirs(c, bits)
  PROVE  HeardInv'
<1>1. /\ UNCHANGED <<node, epoll, block_list, cancel_list, leaving, pc, it>>
      /\ UNCHANGED <<client, conn, place, m_fd>>
      /\ add_list \subseteq add_list' /\ (pc # "main" => UNCHANGED <<add_list, valid_cothreads>>)
      /\ LeavesLast'
  <2> USE DEF HeardInv, Waiters, LeavesLast, managerVars, registry, interest, walk, lists, serverVars, connections
  <2>1. CASE ServerStarts
    BY <2>1 DEF ServerStarts, AddTask
  <2>2. CASE Connects \/ CheckTime \/ \E c \in DOMAIN client, bits \in SUBSET AllBits : Stirs(c, bits)
    BY <2>2 DEF Connects, CheckTime, Stirs, Environment
  <2>3. CASE \E c \in DOMAIN client : Ages(c)
    BY <2>3 DEF Ages, connVars, vars
  <2>4. CASE UNCHANGED echoVars
    BY <2>4 DEF echoVars, connVars, vars
  <2> QED  BY <2>1, <2>2, <2>3, <2>4
<1>2. \A t : Same(t)
  BY <1>1 DEF Same
<1>3. Waiters'
  BY <1>1, <1>2, QuietHeard DEF HeardInv
<1>4. SocketsDistinct'
  BY <1>1, DistinctKept DEF HeardInv, ServerInv, ServerRest
<1> QED  BY <1>3, <1>4 DEF HeardInv

LEMMA HeardStep ==
  ASSUME ServerInv, ServerInv', HeardInv, NoOrphanInterest, CacheForgotten, AddressesFitInt, [EchoNext]_echoVars
  PROVE  HeardInv'
<1> USE DEF HeardInv
<1>1. EchoTypeOK /\ ConnInv' /\ ConnInv
  BY DEF ServerInv, ServerRest
<1>2. ASSUME ListenStep PROVE HeardInv'
  <2>1. ASSUME NEW n \in Nodes, ListenAgain(n) PROVE HeardInv'
    BY <1>1, <2>1, ServantsHeard, DistinctKept, ServerRuns DEF ListenAgain, RegisterEvent, lists, connections
  <2>2. ASSUME TakesConnection PROVE HeardInv'
    BY <1>1, <2>2, ServantsHeard, DistinctKept, ServerRuns DEF TakesConnection, Environment, lists, connections
  <2>3. ASSUME NEW c \in Clients, NEW fd \in ClientFds, NEW t \in Workers, Accept(c, fd, t) PROVE HeardInv'
    BY <2>3, ClientsHeard, AcceptDistinct
  <2> QED  BY <1>2, <2>1, <2>2, <2>3 DEF ListenStep
<1>3. ASSUME NEW p, AtPlace(p), UNCHANGED <<client, m_fd, pc>>, cancel_list \subseteq cancel_list', UNCHANGED add_list
      PROVE  SocketsDistinct'
  BY <1>1, <1>3, DistinctKept, ServerRuns
<1>4. ASSUME NEW c \in DOMAIN client, CancelsTask(c), NEW p, AtPlace(p), UNCHANGED <<conn, timers, client, m_fd>>
      PROVE  SocketsDistinct'
  BY <1>1, <1>3, <1>4, CancelsTaskStep
<1>5. ASSUME AtPlace("close"), ClosesSocket(args[it]), Deletes(args[it]), UNCHANGED <<conn, timers, m_fd>>
      PROVE  SocketsDistinct'
  <2>1. args[it] \in DOMAIN client \/ it \notin Workers \cup {Checker}
    BY <1>5 DEF AtPlace, ServerInv, ServerRest, AliveInv, SelfIsAlive
  <2>2. it \in Workers \cup {Checker}
    BY <1>1, <1>5, ServerRuns, EchoAssumption DEF ServerInv, ServerRest, TaskInv, FunctionOf, Workers
  <2>3. UNCHANGED <<lists, pc>> /\ pc = "run"
    BY <1>1, <1>5, <2>1, <2>2, ClosesSocketStep, ServerRuns
  <2>4. DOMAIN client' \subseteq DOMAIN client /\ \A c \in DOMAIN client' : client'[c] = client[c]
    BY <1>5 DEF Deletes
  <2> QED  BY <1>1, <1>5, <2>3, <2>4, DistinctKept DEF lists
<1>6. ASSUME CheckStep \/ ServerBlocks PROVE HeardInv'
  <2>1. ASSUME NEW n \in Nodes, CheckerWaits(n) PROVE HeardInv'
    BY <1>3, <2>1, ServantsHeard DEF CheckerWaits, RegisterEvent, lists, connections
  <2>2. ASSUME CheckerSets \/ Checked PROVE HeardInv'
    BY <1>3, <2>2, ServantsHeard DEF CheckerSets, Environment, Checked, connVars, vars, lists, connections
  <2>3. ASSUME NEW c \in m_conns, Expels(c) PROVE HeardInv'
    BY <1>4, <2>3, ClientsHeard DEF Expels, connections, ServerInv, ServerRest
  <2>4. ASSUME Expelled PROVE HeardInv'
    BY <1>5, <2>4, ClientsHeard DEF Expelled, connections
  <2>5. ASSUME ServerBlocks PROVE HeardInv'
    <3>1. UNCHANGED <<client, m_fd, cancel_list, add_list>> /\ pc = "run" /\ pc' = "process"
      BY <1>1, <2>5, ServerRuns DEF ServerBlocks, Block, connections
    <3>2. SocketsDistinct'
      BY <1>1, <3>1, DistinctKept
    <3> QED  BY <2>5, <3>2, ServantsHeard
  <2> QED  BY <1>6, <2>1, <2>2, <2>3, <2>4, <2>5 DEF CheckStep
<1>7. ASSUME WorkStep PROVE HeardInv'
  <2>1. ASSUME Writes \/ InCall \/ CallSucceeds \/ CallFails \/ Ended PROVE SocketsDistinct'
    <3>1. UNCHANGED <<client, m_fd>>
      BY <2>1 DEF Writes, InCall, CallSucceeds, CallFails, Ended, serverVars, connections
    <3>2. UNCHANGED <<cancel_list, add_list>> /\ pc = "run" /\ pc' # "sweep"
      <4>1. CASE Writes
        BY <4>1, <1>1, ServerRuns DEF Writes, StartCall, vars, lists
      <4>2. CASE Ended
        BY <4>2, <1>1, ServerRuns DEF Ended, Finish, RemoveCoThread
      <4>3. CASE InCall \/ CallSucceeds \/ CallFails
        <5>1. pc = "run" /\ (CallGoesOn \/ FinishCall \/ GiveUp)
          BY <4>3 DEF InCall, CallGoesOn, CallSucceeds, CallFails, WouldBlock, MovePart, MoveAllOrFail, Retry, Wait,
                      Resume, RegisterSocket, FinishCall, GiveUp, At
        <5> QED  BY <1>1, <5>1, CallEvents
      <4> QED  BY <2>1, <4>1, <4>2, <4>3
    <3> QED  BY <1>1, <3>1, <3>2, DistinctKept
  <2>2. ASSUME ClosesItself PROVE SocketsDistinct'
    <3>1. args[it] \in DOMAIN client
      BY <2>2 DEF ClosesItself, AtPlace, ServerInv, ServerRest, AliveInv, SelfIsAlive
    <3> QED  BY <1>4, <2>2, <3>1 DEF ClosesItself, connections
  <2>3. ASSUME Closed PROVE SocketsDistinct'
    BY <1>5, <2>3 DEF Closed, connections
  <2> QED  BY <1>7, <2>1, <2>2, <2>3, WorkHeard, ReadsDistinct, ClientsHeard DEF WorkStep
<1>8. ServerSchedule => HeardInv'
  BY <1>1, ScheduleHeard, ScheduleDistinct
<1> QED  BY <1>2, <1>6, <1>7, <1>8, WorldHeard DEF EchoNext

LEMMA HeardInitInv == EchoInit => HeardInv
<1> SUFFICES ASSUME EchoInit PROVE HeardInv
  OBVIOUS
<1> USE DEF EchoInit, ConnInit, Init, ManagerInit
<1>1. \A t \in Threads : ~AtYield(t)
  BY DEF AtYield, Outside
<1>2. Waiters
  BY <1>1 DEF Waiters, LeavesLast
<1>3. SocketsDistinct
  BY DEF SocketsDistinct, Workers
<1> QED  BY <1>2, <1>3 DEF HeardInv

LEMMA HeardInvariant == AddressesFitInt => (EchoSpec => []HeardInv)
<1> SUFFICES ASSUME AddressesFitInt PROVE EchoSpec => []HeardInv
  OBVIOUS
<1>1. ServerInv /\ ServerInv' /\ HeardInv /\ NoOrphanInterest /\ CacheForgotten /\ [EchoNext]_echoVars => HeardInv'
  BY HeardStep
<1>2. EchoSpec => [](NoOrphanInterest /\ CacheForgotten)
  BY EchoUsesCoEnv, EnvUsesManager, NoOrphanAlways, CacheForgottenAlways, PTL DEF ServerUsesCoEnv, UsesManager
<1> QED  BY <1>1, <1>2, HeardInitInv, EchoInvariant, PTL DEF EchoSpec

\* Whoever of the server waits is heard, for every number of clients, sockets and
\* events: a socket is closed while it has events only if the task that waits for
\* them is cancelled, and when its number comes to the next client nothing of the
\* last one is left.
THEOREM EveryoneAlwaysHeard == AddressesFitInt => (EchoSpec => []EveryoneHeard)
<1>1. ServerInv /\ HeardInv => EveryoneHeard
  <2> SUFFICES ASSUME ServerInv, HeardInv, pc = "check", NEW n \in DOMAIN node
               PROVE  node[n].events \subseteq epoll[node[n].fd]
    BY DEF EveryoneHeard
  <2>1. cancel_list = {}
    BY DEF ServerInv, ServerRest, AliveInv
  <2> QED  BY <2>1 DEF HeardInv, Waiters, EventOf
<1> QED  BY <1>1, HeardInvariant, EchoInvariant, PTL

-----------------------------------------------------------------------------
(* NobodyForgotten: a task blocks with its event registered, and only the  *)
(* call of another task can take that away.                                *)

KeepsEvents ==
  \A t \in block_list' \cap valid_cothreads' :
    \/ NodesOfThread(t)' # {}
    \/ t \in block_list /\ NodesOfThread(t) = {}
    \/ Robbed(t)

\* Nobody blocks, and the events of those who stay blocked stay.
LEMMA EventsKept ==
  ASSUME block_list' \subseteq block_list,
         \A n \in DOMAIN node : node[n].thread_ptr \in block_list' \cap valid_cothreads' =>
           n \in DOMAIN node' /\ node'[n] = node[n]
  PROVE  KeepsEvents
<1>1. ASSUME NEW t \in block_list' \cap valid_cothreads', NEW n \in NodesOfThread(t) PROVE n \in NodesOfThread(t)'
  BY <1>1 DEF NodesOfThread
<1> QED  BY <1>1 DEF KeepsEvents

LEMMA EventsStayRegistered ==
  ASSUME ServerInv, HeardInv, AddressesFitInt, [EchoNext]_echoVars
  PROVE  KeepsEvents
<1>1. ASSUME UNCHANGED <<node, block_list>> PROVE KeepsEvents
  BY <1>1, EventsKept
<1>2. ASSUME NEW n, NEW fd, NEW events, RegisterEvent(n, fd, events) PROVE KeepsEvents
  <2>1. UNCHANGED block_list /\ \A m \in DOMAIN node : m \in DOMAIN node' /\ node'[m] = node[m]
    BY <1>2 DEF RegisterEvent, AddEvent, lists
  <2> QED  BY <2>1, EventsKept
<1>3. ASSUME pc = "run", it \in Threads, AtYield(it), Block PROVE KeepsEvents
  <2>1. UNCHANGED node /\ block_list' = block_list \cup {it}
    BY <1>3 DEF Block, managerVars, registry
  <2>2. PICK n \in DOMAIN node : node[n].thread_ptr = it
    BY <1>3 DEF HeardInv, Waiters, HasEvent
  <2> QED  BY <2>1, <2>2 DEF KeepsEvents, NodesOfThread
<1>4. ASSUME CallSucceeds \/ CallFails PROVE KeepsEvents
  <2>1. pc = "run" /\ (FinishCall \/ GiveUp)
    BY <1>4 DEF CallSucceeds, CallFails, FinishCall, GiveUp, At
  <2>2. it \notin block_list /\ UNCHANGED block_list
    BY <2>1, RunnerHasNone, CancelHeard DEF HeardInv
  <2>3. OthersStay
    BY <2>1, StepsLeaveOthers DEF ServerInv, ConnStep
  <2>4. ASSUME NEW t \in block_list, NEW n \in NodesOfThread(t) PROVE n \in NodesOfThread(t)' \/ Robbed(t)
    <3>1. n \in DOMAIN node /\ node[n].thread_ptr = t /\ t # it
      BY <2>2, <2>4 DEF NodesOfThread
    <3>2. CASE n \in DOMAIN node' /\ node'[n] = node[n]
      BY <3>1, <3>2 DEF NodesOfThread
    <3>3. CASE n \notin DOMAIN node' /\ n \in Ids(it)
      BY <2>1, <2>4, <3>1, <3>3 DEF Robbed, Ids
    <3> QED  BY <2>3, <3>1, <3>2, <3>3 DEF OthersStay
  <2> QED  BY <2>2, <2>4 DEF KeepsEvents
<1>5. ASSUME ListenStep PROVE KeepsEvents
  BY <1>1, <1>2, <1>5 DEF ListenStep, ListenAgain, TakesConnection, Accept, NewClient, AddTask, Environment, managerVars,
                          registry, lists
<1>6. ASSUME NEW c, CancelsTask(c) PROVE KeepsEvents
  BY <1>1, <1>6 DEF CancelsTask, CancelTask, vars, managerVars, registry, lists
<1>7. ASSUME NEW c, ClosesSocket(c) PROVE KeepsEvents
  BY <1>1, <1>7 DEF ClosesSocket, Close, CloseFd, Environment, managerVars, registry, lists
<1>8. ASSUME CheckStep PROVE KeepsEvents
  BY <1>1, <1>2, <1>6, <1>7, <1>8 DEF CheckStep, CheckerSets, CheckerWaits, Expels, Expelled, Checked, Environment, connVars,
                                      vars, managerVars, registry, lists
<1>9. ASSUME ServerBlocks PROVE KeepsEvents
  <2>1. pc = "run" /\ it \in Threads /\ AtYield(it) /\ Block
    BY <1>9, ServerRuns DEF ServerBlocks, ServerInv, AtYield, Workers
  <2> QED  BY <1>3, <2>1
<1>10. ASSUME WorkStep PROVE KeepsEvents
  <2>1. Reads \/ Writes => KeepsEvents
    BY <1>1 DEF Reads, Writes, StartCall, vars, managerVars, registry, lists
  <2>2. ASSUME InCall PROVE KeepsEvents
    <3>1. WouldBlock \/ MovePart \/ MoveAllOrFail \/ Retry \/ Resume => KeepsEvents
      BY <1>1 DEF WouldBlock, MovePart, MoveAllOrFail, Retry, Resume, Moved, Environment, vars, managerVars, registry, lists
    <3>2. ASSUME NEW n \in Nodes, RegisterSocket(n) PROVE KeepsEvents
      BY <1>2, <3>2 DEF RegisterSocket
    <3>3. ASSUME Wait PROVE KeepsEvents
      <4>1. pc = "run" /\ Wait /\ conn[it].at # "outside" /\ conn[it].at = "yield"
        BY <3>3 DEF Wait, At
      <4>2. it \in Workers /\ it \in Threads
        BY <4>1, RunningTask DEF TaskInv
      <4> QED  BY <1>3, <4>1, <4>2 DEF Wait, AtYield
    <3> QED  BY <2>2, <3>1, <3>2, <3>3 DEF InCall
  <2>3. ClosesItself \/ Closed => KeepsEvents
    BY <1>6, <1>7 DEF ClosesItself, Closed
  <2>4. Ended => KeepsEvents
    BY <1>1 DEF Ended, Finish, RemoveCoThread, CancelCoThread, registry
  <2> QED  BY <1>4, <1>10, <2>1, <2>2, <2>3, <2>4 DEF WorkStep
<1>11. ASSUME ServerSchedule PROVE KeepsEvents
  <2>1. Loop \/ CallLoop
    BY <1>11 DEF ServerSchedule
  <2>2. EnvInv /\ LeavesLast /\ ManagerInv
    BY DEF ServerInv, ConnInv, EnvInv, HeardInv, Waiters
  <2>3. \A n \in DOMAIN node : DeleteEvent(n) => \A m \in DOMAIN node \ {n} : m \in DOMAIN node' /\ node'[m] = node[m]
    BY <2>2, DeletedIsForgotten
  <2>4. block_list' \subseteq block_list
        /\ \A n \in DOMAIN node : node[n].thread_ptr \in block_list' \cap valid_cothreads' =>
             n \in DOMAIN node' /\ node'[n] = node[n]
    BY <2>1, <2>2, <2>3, LoopKinds DEF LeavesLast
  <2> QED  BY <2>4, EventsKept
<1>12. ServerStarts \/ Connects \/ CheckTime => KeepsEvents
  BY <1>1 DEF ServerStarts, AddTask, Connects, CheckTime, Environment, managerVars, registry, lists
<1>13. ASSUME NEW c, Ages(c) \/ \E bits : Stirs(c, bits) PROVE KeepsEvents
  BY <1>1, <1>13 DEF Ages, Stirs, Environment, connVars, vars, managerVars, registry, lists
<1>14. UNCHANGED echoVars => KeepsEvents
  BY <1>1 DEF echoVars, connVars, vars, managerVars, registry, lists
<1> QED  BY <1>5, <1>8, <1>9, <1>10, <1>11, <1>12, <1>13, <1>14 DEF EchoNext

\* A task that is blocked has an event registered that can wake it, until that event
\* comes or the task is removed; only the stale id of another task's call can take
\* the event away.
THEOREM NobodyEverForgotten == AddressesFitInt => (EchoSpec => NobodyForgotten)
<1> SUFFICES ASSUME AddressesFitInt PROVE EchoSpec => NobodyForgotten
  OBVIOUS
<1>1. ServerInv /\ HeardInv /\ [EchoNext]_echoVars => [KeepsEvents]_echoVars
  BY EventsStayRegistered
<1> QED  BY <1>1, EchoInvariant, HeardInvariant, PTL DEF EchoSpec, NobodyForgotten, KeepsEvents

=============================================================================
