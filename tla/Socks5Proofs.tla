---------------------------- MODULE Socks5Proofs ----------------------------
(***************************************************************************)
(* Proofs about the SOCKS5 server: that it uses the scheduler and the      *)
(* connections as they allow, that no task uses a client that is deleted   *)
(* although two relays share it, and that clients, tasks and events        *)
(* correspond, and that the listener and new clients are heard.  All of    *)
(* them need that the id of a task survives the int in which a client      *)
(* keeps it.                                                               *)
(***************************************************************************)
EXTENDS Socks5, ConnectionProofs

\* The places of the destructor, a member each, and of the three functions.
MemberPlaces == {"m_socket", "m_remote_socket", "m_cothread", "m_trans_cothread1", "m_trans_cothread2"}
EndPlaces == MemberPlaces \cup {"close", "ended"}
ListenerPlaces == {"start", "yield", "woken", "accepted"}
ProcessPlaces == {"greet1", "greet2", "greet3", "welcome", "ask1", "ask2", "socket", "connect", "answer", "refuse",
                  "relay1", "relay2"} \cup EndPlaces
RelayPlaces == {"read", "write"} \cup EndPlaces

\* Where process has not opened the remote socket yet.
BeforeRemote == {"start", "greet1", "greet2", "greet3", "welcome", "ask1", "ask2", "socket"}

Relays == {"trans_func1", "trans_func2"}
Jobs == [func : {"process", Null} \cup Relays, self : Clients \cup {Null},
         from : ClientFds \cup {Null}, to : ClientFds \cup {Null},
         at : ListenerPlaces \cup ProcessPlaces \cup RelayPlaces]
Members == [m_socket : ClientFds \cup {Null}, m_remote_socket : ClientFds \cup {Null},
            m_cothread : ProcessTasks \cup {Null},
            m_trans_cothread1 : RelayTasks \cup {Null}, m_trans_cothread2 : RelayTasks \cup {Null}]

SocksTypeOK ==
  /\ DOMAIN client \subseteq Clients
  /\ \A c \in DOMAIN client : client[c] \in Members
  /\ m_clients = DOMAIN client
  /\ work \in [Threads -> Jobs]

\* The task has the client that it was given, and this client knows it.
HasClient(t) == work[t].self \in DOMAIN client /\ t \in ServedBy(work[t].self)

\* Where a task may be.
PlaceInv(t) ==
  /\ t = Listener => work[t].at \in ListenerPlaces
  /\ t \notin Workers \cup {Listener} => work[t].at = "start"
  /\ t \in Workers => \/ work[t].at = "start"
                      \/ work[t].func = "process" /\ work[t].at \in ProcessPlaces
                      \/ work[t].func \in Relays /\ work[t].at \in RelayPlaces

\* The socket of the call that the task is about to make or makes.
FdOf(t) == IF work[t].at \in {"connect", "write"} THEN work[t].to ELSE work[t].from

CallInv(t) ==
  conn[t].at # "outside" =>
    /\ t \in Workers /\ work[t].at \in DOMAIN OpAt
    /\ conn[t].fd = FdOf(t) /\ conn[t].fd \in ClientFds

TaskInv(t) ==
  /\ PlaceInv(t)
  /\ CallInv(t)
  /\ t \notin valid_cothreads \cup {leaving} => work[t] = NoWork /\ conn[t] = Outside
  /\ IF t \in Workers THEN t \in valid_cothreads => work[t].func \in {"process"} \cup Relays ELSE work[t].self = Null
  /\ t \in Workers /\ work[t].at = "start" => work[t].from = Null /\ work[t].to = Null
  /\ work[t].at \in MemberPlaces \cup {"relay2"} => pc = "run" /\ it = t
  /\ work[t].at = "ended" => (pc = "run" /\ it = t) \/ t \notin valid_cothreads

\* The connections of a task are on the sockets of its client, and its events too.
FromOf(t) == IF work[t].func = "trans_func2" THEN client[work[t].self].m_remote_socket ELSE client[work[t].self].m_socket
ToOf(t) == IF work[t].func = "trans_func2" THEN client[work[t].self].m_socket ELSE client[work[t].self].m_remote_socket

SocketInv ==
  /\ \A t \in Workers : HasClient(t) /\ work[t].at # "start" => work[t].from = FromOf(t) /\ work[t].to = ToOf(t)
  /\ \A t \in Workers : HasClient(t) /\ work[t].at \in BeforeRemote /\ work[t].func = "process" => ToOf(t) = Null
  /\ \A n \in DOMAIN node : node[n].fd \in ClientFds =>
       /\ node[n].thread_ptr \in Workers
       /\ node[n].fd \in {work[node[n].thread_ptr].from, work[node[n].thread_ptr].to}

\* Who is who among the tasks of a client, and how many there are: process, then
\* process and one relay for a moment, then two relays.
FuncInv ==
  \A c \in DOMAIN client, t \in Workers : work[t].self = c =>
    /\ t = client[c].m_cothread => work[t].func = "process"
    /\ t = client[c].m_trans_cothread1 => work[t].func = "trans_func1"
    /\ t = client[c].m_trans_cothread2 => work[t].func = "trans_func2"

AtRelay2(c) == pc = "run" /\ work[it].at = "relay2" /\ work[it].self = c

Shape(c) ==
  LET d == client[c] IN
    \/ ~AtRelay2(c) /\ d.m_cothread # Null /\ d.m_trans_cothread1 = Null /\ d.m_trans_cothread2 = Null
    \/ ~AtRelay2(c) /\ d.m_cothread = Null /\ d.m_trans_cothread1 # Null /\ d.m_trans_cothread2 # Null
    \/ AtRelay2(c) /\ d.m_cothread = it /\ d.m_trans_cothread1 \in valid_cothreads /\ d.m_trans_cothread2 = Null

\* The task will not run again.
Gone(t) == t \in valid_cothreads => t \in cancel_list

\* What the destructor has done when it comes to a member.
DestructorInv ==
  pc = "run" /\ it \in Workers =>
    /\ work[it].at \in {"m_trans_cothread1", "m_trans_cothread2"} => Gone(client[Self].m_cothread)
    /\ work[it].at = "m_trans_cothread2" => Gone(client[Self].m_trans_cothread1)

\* A task whose client is deleted is in cancel_list when it next may run.
AliveInv ==
  /\ RelaysShareSafely
  /\ \A t \in Workers \cap valid_cothreads : work[t].at = "ended" \/ t \in cancel_list \/ HasClient(t)
  /\ pc \in {"main", "check", "events"} => cancel_list = {}
  /\ pc = "sweep" => add_list = {}
  /\ pc = "run" /\ work[it].at = "ended" => ~HasClient(it)

\* All but what is known of the connections.
ServerRest ==
  /\ SocksTypeOK
  /\ \A t \in Threads : TaskInv(t)
  /\ SocketInv
  /\ FuncInv
  /\ \A c \in DOMAIN client : Shape(c)
  /\ DestructorInv
  /\ AliveInv

ServerInv == ConnInv /\ ServerRest

LEMMA NoWorkFacts ==
  /\ NoWork \in Jobs /\ NoWork.at = "start" /\ NoWork.from = Null /\ NoWork.to = Null /\ NoWork.self = Null
  /\ \A c \in Clients, func \in {"process"} \cup Relays :
       /\ Task(func, c) \in Jobs
       /\ Task(func, c).func = func /\ Task(func, c).self = c /\ Task(func, c).at = "start"
       /\ Task(func, c).from = Null /\ Task(func, c).to = Null
BY DEF NoWork, Task, Jobs, ListenerPlaces, Relays

LEMMA SocksInitInv == SocksInit => ServerInv
<1> SUFFICES ASSUME SocksInit PROVE ServerInv
  OBVIOUS
<1>1. ConnInv
  BY ConnInitInv DEF SocksInit
<1> USE SocksAssumption, NoWorkFacts DEF SocksInit
<1>2. SocksTypeOK
  BY DEF SocksTypeOK
<1>3. \A t \in Threads : TaskInv(t)
  <2> TAKE t \in Threads
  <2>1. conn[t] = Outside /\ work[t] = NoWork /\ conn[t].at = "outside" /\ t \notin valid_cothreads
    BY DEF ConnInit, Outside, Init
  <2> QED  BY <2>1 DEF TaskInv, PlaceInv, CallInv, ListenerPlaces, MemberPlaces
<1>4. SocketInv /\ FuncInv /\ (\A c \in DOMAIN client : Shape(c)) /\ DestructorInv /\ AliveInv
  BY DEF SocketInv, FuncInv, DestructorInv, AliveInv, RelaysShareSafely, HasClient, ConnInit, Init, ManagerInit
<1> QED  BY <1>1, <1>2, <1>3, <1>4 DEF ServerInv, ServerRest

-----------------------------------------------------------------------------
(* The steps of the server are steps of the connections or of the          *)
(* scheduler.                                                              *)

\* The task that runs.
LEMMA ServerRuns ==
  ASSUME ServerInv, NEW p, AtPlace(p)
  PROVE  /\ pc = "run" /\ ManagerIdle /\ leaving = Null
         /\ it \in Threads /\ it \in valid_cothreads /\ it \notin add_list
         /\ conn[it].at = "outside" /\ work[it].at = p
         /\ work[it] \in Jobs /\ TaskInv(it)
BY DEF AtPlace, ManagerIdle, ServerInv, ServerRest, SocksTypeOK, ConnInv, EnvInv, Control, NoDangling, ListsPartition

LEMMA RunningTask ==
  ASSUME ServerInv, pc = "run"
  PROVE  /\ it \in Threads /\ it \in valid_cothreads
         /\ work[it] \in Jobs /\ TaskInv(it)
         /\ it \in Workers /\ work[it].at # "ended" => HasClient(it)
BY DEF ServerInv, ServerRest, SocksTypeOK, AliveInv, RelaysShareSafely, HasClient, Self, ConnInv, EnvInv, Control, NoDangling

LEMMA CancelsTaskStep ==
  ASSUME ConnInv, AddressesFitInt, NEW id, CancelsTask(id), UNCHANGED <<conn, timers>>
  PROVE  /\ EnvStep
         /\ UNCHANGED <<node, leaving, pc, it, valid_cothreads, add_list>>
         /\ cancel_list' = cancel_list \cup ({id} \cap valid_cothreads)
<1>1. CASE id \in valid_cothreads
  <2>1. CancelTask(id) /\ id \in Threads
    BY <1>1 DEF CancelsTask, ConnInv, EnvInv, EnvTypes
  <2> QED
    BY <1>1, <2>1 DEF CancelTask, EnvStep, Next, Call, NodesShrink, managerVars, registry, walk
<1>2. CASE id \notin valid_cothreads
  <2>1. UNCHANGED vars
    BY <1>2 DEF CancelsTask
  <2> QED  BY <1>2, <2>1 DEF EnvStep, NodesShrink, vars, managerVars, registry, walk, lists
<1> QED  BY <1>1, <1>2

LEMMA ClosesSocketStep ==
  ASSUME NEW fd \in ClientFds \cup {Null}, IF fd = Null THEN UNCHANGED vars ELSE ClosesSocket(fd), UNCHANGED <<conn, timers>>
  PROVE  EnvStep /\ UNCHANGED <<node, lists, leaving, pc, it>>
<1>1. CASE UNCHANGED vars
  BY <1>1 DEF EnvStep, NodesShrink, vars, managerVars, registry, walk, lists
<1>2. CASE fd \in Fds /\ ClosesSocket(fd)
  <2>1. CASE Close(fd)
    BY <1>2, <2>1 DEF Close, CloseFd, EnvStep, Next, Call, NodesShrink, registry, walk
  <2>2. CASE Environment(fd, {})
    BY <1>2, <2>2, EnvironmentStep
  <2> QED  BY <1>2, <2>1, <2>2 DEF ClosesSocket
<1> QED  BY <1>1, <1>2, SocksAssumption

\* The listener registers.
LEMMA RegistrationStep ==
  ASSUME NEW n \in Nodes, RegisterEvent(n, ListenFd, {EPOLLIN}), it \in Threads, UNCHANGED <<conn, timers>>
  PROVE  /\ EnvStep
         /\ UNCHANGED <<lists, leaving, pc, it>>
         /\ \A m \in DOMAIN node' :
              (m \in DOMAIN node /\ node'[m] = node[m]) \/ (node'[m].thread_ptr = it /\ node'[m].fd = ListenFd)
<1>1. ListenFd \in Fds /\ {EPOLLIN} \in Usage[ListenFd]
  BY SocksAssumption, MasksAssumption
<1>2. Next
  BY <1>1 DEF Next, Call
<1> QED  BY <1>2 DEF EnvStep, RegisterEvent, AddEvent, walk

\* The calls of a task are calls of connection on sockets of its own.
LEMMA CallStep ==
  ASSUME ServerInv, Calling
  PROVE  /\ ConnNext /\ pc = "run" /\ it \in Workers /\ work[it].at \in DOMAIN OpAt
         /\ StartCall(OpAt[work[it].at], FdOf(it)) /\ FdOf(it) \in ClientFds
<1>1. it \in Threads /\ pc = "run" /\ it \in Workers /\ work[it].at \in DOMAIN OpAt
  BY SocksAssumption DEF Calling, StartCall, At, Workers
<1>2. FdOf(it) \in ClientFds /\ StartCall(OpAt[work[it].at], FdOf(it))
  BY <1>1 DEF Calling, FdAt, FdOf, ServerInv, ServerRest, SocksTypeOK, Jobs
<1>3. \A p \in DOMAIN OpAt : OpAt[p] \in Ops
  BY ServesAssumption DEF OpAt
<1>4. FdOf(it) \in SocketsOf[it]
  BY <1>1, <1>2, ServesAssumption
<1> QED  BY <1>1, <1>2, <1>3, <1>4 DEF ConnNext, ConnStep

LEMMA AddTaskStep ==
  ASSUME NEW t \in Threads, AddTask(t), UNCHANGED <<conn, timers>>
  PROVE  /\ EnvStep
         /\ t \notin valid_cothreads \cup {leaving} /\ valid_cothreads' = valid_cothreads \cup {t}
         /\ add_list' = add_list \cup {t}
         /\ UNCHANGED <<node, cancel_list, leaving, pc, it>>
BY DEF AddTask, EnvStep, Next, Call, NodesShrink, managerVars, registry, walk

LEMMA SocksStepConn ==
  ASSUME ServerInv, AddressesFitInt, [SocksNext]_socksVars
  PROVE  [ConnNext]_connVars \/ EnvStep
<1> USE SocksAssumption
<1>1. ConnInv /\ SocksTypeOK
  BY DEF ServerInv, ServerRest
<1>2. ServerStarts => EnvStep
  BY AddTaskStep DEF ServerStarts
<1>3. ListenStep => EnvStep
  <2>1. \A n \in Nodes : ListenAgain(n) => EnvStep
    BY ServerRuns, RegistrationStep DEF ListenAgain
  <2>2. ListenerBlocks => EnvStep
    BY DEF ListenerBlocks, Block, EnvStep, Next, Switch, NodesShrink, managerVars, registry
  <2>3. TakesConnection => EnvStep
    BY EnvironmentStep DEF TakesConnection
  <2>4. \A c \in Clients, fd \in ClientFds \cup {Null}, t \in ProcessTasks : Accept(c, fd, t) => EnvStep
    BY AddTaskStep DEF Accept
  <2> QED  BY <2>1, <2>2, <2>3, <2>4 DEF ListenStep
<1>4. ASSUME WorkStep PROVE [ConnNext]_connVars \/ EnvStep
  <2>1. Opens \/ CallsInVain \/ (\E fd \in ClientFds \cup {Null} : OpensRemote(fd)) \/ ConnectsAtOnce \/ ClosesClient
          => UNCHANGED connVars
    BY DEF Opens, CallsInVain, OpensRemote, ConnectsAtOnce, ClosesClient
  <2>2. Calling => ConnNext
    BY CallStep
  <2>3. InCall \/ CallSucceeds \/ CallFails => ConnNext
    BY DEF InCall, CallSucceeds, CallFails, ConnNext, ConnStep, WouldBlock, MovePart, MoveAllOrFail, Retry, Wait,
           Resume, RegisterSocket, FinishCall, GiveUp, At
  <2>4. \A t \in RelayTasks : AddsRelay1(t) \/ AddsRelay2(t) => EnvStep
    BY AddTaskStep DEF AddsRelay1, AddsRelay2
  <2>5. ASSUME NEW socket \in {"m_socket", "m_remote_socket"}, ClosesMember(socket) PROVE EnvStep
    <3>1. PICK fd : fd = client[Self][socket]
      OBVIOUS
    <3>2. it \in Workers /\ pc = "run" /\ work[it].at # "ended"
      BY <2>5, ServerRuns DEF ClosesMember, TaskInv, PlaceInv, ListenerPlaces
    <3>3. fd \in ClientFds \cup {Null}
      BY <1>1, <3>1, <3>2, RunningTask DEF HasClient, Self, SocksTypeOK, Members
    <3> QED  BY <2>5, <3>1, <3>3, ClosesSocketStep DEF ClosesMember
  <2>6. \A task \in {"m_cothread", "m_trans_cothread1"} : CancelsMember(task) => EnvStep
    BY <1>1, CancelsTaskStep DEF CancelsMember
  <2>7. Deleted => EnvStep
    BY <1>1, CancelsTaskStep DEF Deleted
  <2>8. Ended => ConnNext
    BY DEF Ended, AtPlace, ConnNext, ConnStep, Between, At
  <2> QED  BY <1>4, <2>1, <2>2, <2>3, <2>4, <2>5, <2>6, <2>7, <2>8 DEF WorkStep
<1>5. ServerSchedule => ConnNext
  BY DEF ServerSchedule, ConnNext, Schedule
<1>6. Connects \/ (\E fd \in ClientFds, bits \in SUBSET AllBits : Stirs(fd, bits)) => EnvStep
  <2>1. {EPOLLIN} \in SUBSET AllBits
    BY MasksAssumption DEF AllBits
  <2> QED  BY <2>1, EnvironmentStep DEF Connects, Stirs
<1>7. UNCHANGED socksVars => UNCHANGED connVars
  BY DEF socksVars
<1> QED  BY <1>2, <1>3, <1>4, <1>5, <1>6, <1>7 DEF SocksNext

-----------------------------------------------------------------------------
(* The invariant of the server, step by step.                              *)

\* What the tables say: a call ends in no place that only one step leads to.
LEMMA Tables ==
  /\ \A p \in DOMAIN OpAt : OnSuccess[p] \subseteq ProcessPlaces \cup RelayPlaces /\ OnFailure[p] \in ProcessPlaces \cup RelayPlaces
  /\ \A p \in DOMAIN OpAt : /\ p \notin EndPlaces \cup ListenerPlaces \cup {"socket", "relay1", "relay2"}
                            /\ \A q \in OnSuccess[p] \cup {OnFailure[p]} : q \notin MemberPlaces \cup {"ended", "relay2", "start"}
                            /\ \A q \in OnSuccess[p] \cup {OnFailure[p]} : q \in BeforeRemote => p \in BeforeRemote
                            /\ p \in ProcessPlaces => OnSuccess[p] \cup {OnFailure[p]} \subseteq ProcessPlaces
                            /\ p \in RelayPlaces => OnSuccess[p] \cup {OnFailure[p]} \subseteq RelayPlaces
BY DEF OpAt, OnSuccess, OnFailure, ProcessPlaces, RelayPlaces, EndPlaces, MemberPlaces, ListenerPlaces, BeforeRemote

\* The types of what a client holds.
LEMMA ClientTypes ==
  ASSUME SocksTypeOK
  PROVE  /\ Null \notin DOMAIN client \cup ClientFds \cup Threads
         /\ \A c \in DOMAIN client : client[c] \in Members /\ ServedBy(c) \subseteq Workers
         /\ Workers \subseteq Threads \ {Listener} /\ Listener \in Threads
<1>1. Null \notin Threads
  BY NullAssumption
<1> QED  BY <1>1, SocksAssumption DEF SocksTypeOK, Members, ServedBy, Workers

\* A task that does not run is left as it is.
LEMMA OtherTask ==
  ASSUME ServerInv, pc = "run", NEW t \in Threads, t # it, TaskInv(t), conn'[t] = conn[t],
         t \in valid_cothreads \cup {leaving} => t \in valid_cothreads' \cup {leaving'},
         \/ work'[t] = work[t] /\ (t \in valid_cothreads' => t \in valid_cothreads)
         \/ /\ t \in Workers /\ t \notin valid_cothreads \cup {leaving} /\ t \in valid_cothreads'
            /\ \E c \in Clients, func \in {"process"} \cup Relays : work'[t] = Task(func, c)
  PROVE  TaskInv(t)'
<1>1. CASE work'[t] = work[t] /\ (t \in valid_cothreads' => t \in valid_cothreads)
  <2>1. PlaceInv(t)' /\ CallInv(t)'
    BY <1>1 DEF TaskInv, PlaceInv, CallInv, FdOf
  <2> QED  BY <1>1, <2>1 DEF TaskInv
<1>2. CASE /\ t \in Workers /\ t \notin valid_cothreads \cup {leaving} /\ t \in valid_cothreads'
           /\ \E c \in Clients, func \in {"process"} \cup Relays : work'[t] = Task(func, c)
  <2>1. conn'[t].at = "outside" /\ t # Listener
    BY <1>2, ClientTypes DEF TaskInv, Outside, ServerInv, ServerRest
  <2>2. work'[t].at = "start" /\ work'[t].func \in {"process"} \cup Relays /\ work'[t].from = Null /\ work'[t].to = Null
    <3>1. PICK c \in Clients, func \in {"process"} \cup Relays : work'[t] = Task(func, c)
      BY ONLY <1>2
    <3>2. Task(func, c).at = "start" /\ Task(func, c).func = func /\ Task(func, c).from = Null /\ Task(func, c).to = Null
      BY ONLY NoWorkFacts, <3>1
    <3> QED  BY ONLY <3>1, <3>2
  <2> QED  BY <1>2, <2>1, <2>2 DEF TaskInv, PlaceInv, CallInv, MemberPlaces
<1> QED  BY <1>1, <1>2

\* The running task goes to another place, with its connections opened perhaps, and
\* nothing else changes for the clients.
LEMMA MovesOn ==
  ASSUME ServerInv, pc = "run", pc' \in {"run", "process"},
         UNCHANGED <<client, m_clients, valid_cothreads, cancel_list, leaving, add_list, it>>,
         NEW w \in Jobs, work' = [work EXCEPT ![it] = w], w.func = work[it].func, w.self = work[it].self,
         PlaceInv(it)', CallInv(it)',
         work[it].at \notin {"ended", "relay2"}, w.at \notin {"ended", "relay2", "m_trans_cothread1", "m_trans_cothread2"},
         work[it].at \in MemberPlaces => w.at \in MemberPlaces,
         w.at \in MemberPlaces => pc' = "run",
         it \in Workers => w.at # "start" /\ w.from = FromOf(it) /\ w.to = ToOf(it),
         it \in Workers /\ w.at \in BeforeRemote => work[it].at \in BeforeRemote,
         \A t \in Threads : t # it => conn'[t] = conn[t],
         \A n \in DOMAIN node' :
           \/ n \in DOMAIN node /\ node'[n] = node[n]
           \/ node'[n].thread_ptr = it /\ (node'[n].fd \in ClientFds => it \in Workers /\ node'[n].fd \in {w.from, w.to})
  PROVE  ServerRest'
<1> USE RunningTask, ClientTypes DEF ServerInv, ServerRest
<1>1. SocksTypeOK' /\ work'[it] = w /\ \A t \in Threads \ {it} : work'[t] = work[t]
  BY DEF SocksTypeOK
<1>2. \A t \in Threads : TaskInv(t)'
  <2>1. \A t \in Threads \ {it} : TaskInv(t)'
    BY <1>1, OtherTask
  <2>2. TaskInv(it)'
    BY <1>1 DEF TaskInv, SocksTypeOK
  <2> QED  BY <2>1, <2>2
<1>3. \A t \in Threads : (HasClient(t)' <=> HasClient(t)) /\ FromOf(t)' = FromOf(t) /\ ToOf(t)' = ToOf(t)
  BY <1>1 DEF HasClient, ServedBy, FromOf, ToOf
<1>4. SocketInv'
  <2>1. \A t \in Workers : HasClient(t)' /\ work'[t].at # "start" => work'[t].from = FromOf(t)' /\ work'[t].to = ToOf(t)'
    BY <1>1, <1>3 DEF SocketInv
  <2>3. \A t \in Workers : HasClient(t)' /\ work'[t].at \in BeforeRemote /\ work'[t].func = "process" => ToOf(t)' = Null
    BY <1>1, <1>3 DEF SocketInv
  <2>2. ASSUME NEW n \in DOMAIN node', node'[n].fd \in ClientFds
        PROVE  node'[n].thread_ptr \in Workers /\ node'[n].fd \in {work'[node'[n].thread_ptr].from, work'[node'[n].thread_ptr].to}
    <3>1. CASE n \in DOMAIN node /\ node'[n] = node[n] /\ node[n].thread_ptr # it
      BY <1>1, <2>2, <3>1 DEF SocketInv
    <3>2. CASE n \in DOMAIN node /\ node'[n] = node[n] /\ node[n].thread_ptr = it
      <4>1. it \in Workers /\ node[n].fd \in {work[it].from, work[it].to}
        BY <2>2, <3>2 DEF SocketInv
      <4>2. work[it].from = w.from /\ work[it].to = w.to
        BY <2>2, <3>2, <4>1 DEF SocketInv, TaskInv
      <4> QED  BY <1>1, <3>2, <4>1, <4>2
    <3>3. CASE node'[n].thread_ptr = it /\ (node'[n].fd \in ClientFds => it \in Workers /\ node'[n].fd \in {w.from, w.to})
      BY <1>1, <2>2, <3>3
    <3> QED  BY <3>1, <3>2, <3>3
  <2> QED  BY <2>1, <2>2, <2>3 DEF SocketInv
<1>5. FuncInv'
  BY <1>1 DEF FuncInv
<1>6. \A c \in DOMAIN client : Shape(c)'
  BY <1>1 DEF Shape, AtRelay2
<1>7. DestructorInv'
  BY <1>1 DEF DestructorInv
<1>8. AliveInv'
  <2>1. RelaysShareSafely'
    BY <1>1, <1>3 DEF RelaysShareSafely, HasClient, Self, ServedBy
  <2>2. \A t \in Workers \cap valid_cothreads' : work'[t].at = "ended" \/ t \in cancel_list' \/ HasClient(t)'
    BY <1>1, <1>3 DEF AliveInv
  <2> QED  BY <2>1, <2>2 DEF AliveInv
<1> QED  BY <1>1, <1>2, <1>4, <1>5, <1>6, <1>7, <1>8

\* The running task is done with what it did at its place.
LEMMA StepsTo ==
  ASSUME ServerInv, NEW q, AtPlace(q), q \notin {"ended", "relay2"}, it \in Workers => q # "start",
         NEW p, GoesTo(p), p \notin {"ended", "relay2", "m_trans_cothread1", "m_trans_cothread2"},
         \/ it = Listener /\ p \in ListenerPlaces
         \/ it \in Workers /\ work[it].func = "process" /\ p \in ProcessPlaces
         \/ it \in Workers /\ work[it].func \in Relays /\ p \in RelayPlaces,
         it \in Workers /\ p \in BeforeRemote => q \in BeforeRemote,
         q \in MemberPlaces => p \in MemberPlaces, p \in MemberPlaces => pc' = "run",
         pc' \in {"run", "process"},
         UNCHANGED <<conn, client, m_clients, valid_cothreads, cancel_list, leaving, add_list, it>>,
         \A n \in DOMAIN node' :
           (n \in DOMAIN node /\ node'[n] = node[n]) \/ (node'[n].thread_ptr = it /\ node'[n].fd \notin ClientFds)
  PROVE  ServerRest'
<1> DEFINE w == [work[it] EXCEPT !.at = p]
<1> USE ServerRuns, ClientTypes DEF ServerInv, ServerRest
<1>1. /\ pc = "run" /\ it \in Threads /\ work[it] \in Jobs /\ work[it].at = q /\ conn[it].at = "outside" /\ TaskInv(it)
      /\ p \in ListenerPlaces \cup ProcessPlaces \cup RelayPlaces
  OBVIOUS
<1>2. w \in Jobs /\ w.func = work[it].func /\ w.self = work[it].self /\ w.at = p
      /\ w.from = work[it].from /\ w.to = work[it].to
  BY <1>1 DEF Jobs
<1>3. work' = [work EXCEPT ![it] = w]
  BY <1>1 DEF GoesTo, SocksTypeOK, Jobs
<1>4. work'[it] = w
  BY <1>1, <1>3 DEF SocksTypeOK
<1>5. PlaceInv(it)' /\ CallInv(it)'
  <2>1. it' = it /\ work'[it].func = work[it].func /\ work'[it].at = p /\ conn'[it].at = "outside"
    BY <1>1, <1>2, <1>4
  <2> QED  BY <2>1 DEF PlaceInv, CallInv
<1>6. it \in Workers => p # "start" /\ work[it].from = FromOf(it) /\ work[it].to = ToOf(it)
  BY <1>1, RunningTask DEF SocketInv, ListenerPlaces, ProcessPlaces, RelayPlaces, EndPlaces, MemberPlaces
<1> HIDE DEF w, ServerInv, ServerRest
<1>7. \A n \in DOMAIN node' :
           \/ n \in DOMAIN node /\ node'[n] = node[n]
           \/ node'[n].thread_ptr = it /\ (node'[n].fd \in ClientFds => it \in Workers /\ node'[n].fd \in {w.from, w.to})
  OBVIOUS
<1> QED  BY <1>1, <1>2, <1>3, <1>5, <1>6, <1>7, MovesOn

LEMMA ListenerKeeps ==
  ASSUME ServerInv
  PROVE  /\ \A n \in Nodes : ListenAgain(n) => ServerRest'
         /\ ListenerBlocks \/ TakesConnection => ServerRest'
<1> USE SocksAssumption DEF ListenerPlaces, MemberPlaces
<1>1. Listener \notin Workers /\ ListenFd \notin ClientFds
  BY DEF Workers
<1>2. ASSUME NEW n \in Nodes, ListenAgain(n) PROVE ServerRest'
  BY <1>1, <1>2, ServerRuns, RegistrationStep, StepsTo DEF ListenAgain, lists
<1>3. ASSUME ListenerBlocks PROVE ServerRest'
  BY <1>1, <1>3, ServerRuns, StepsTo DEF ListenerBlocks, Block, managerVars, registry, walk
<1>4. ASSUME TakesConnection PROVE ServerRest'
  BY <1>1, <1>4, ServerRuns, StepsTo DEF TakesConnection, Environment, managerVars, registry, walk, lists
<1> QED  BY <1>2, <1>3, <1>4

\* Where a task of a client is, by what it does.
LEMMA WorkerPlaces ==
  ASSUME ServerInv, NEW p, AtPlace(p), p \notin ListenerPlaces
  PROVE  /\ it \in Workers /\ it \in Threads /\ pc = "run"
         /\ \/ work[it].func = "process" /\ p \in ProcessPlaces
            \/ work[it].func \in Relays /\ p \in RelayPlaces
         /\ p # "ended" => HasClient(it) /\ work[it].from = FromOf(it) /\ work[it].to = ToOf(it) /\ Self \in DOMAIN client
<1>1. p # "start" /\ TaskInv(it) /\ work[it].at = p /\ it \in Threads /\ pc = "run"
  BY ServerRuns DEF ListenerPlaces
<1>2. it \in Workers
  BY <1>1, ClientTypes DEF TaskInv, PlaceInv, ServerInv, ServerRest
<1>3. \/ work[it].func = "process" /\ p \in ProcessPlaces
      \/ work[it].func \in Relays /\ p \in RelayPlaces
  BY <1>1, <1>2 DEF TaskInv, PlaceInv
<1>4. p # "ended" => HasClient(it)
  BY <1>1, <1>2, RunningTask
<1> QED  BY <1>1, <1>2, <1>3, <1>4 DEF HasClient, ServerInv, ServerRest, SocketInv, Self

\* The steps of a task on its way, outside calls.
LEMMA WayKeeps ==
  ASSUME ServerInv
  PROVE  /\ CallsInVain \/ ConnectsAtOnce \/ ClosesClient => ServerRest'
         /\ \A socket \in {"m_socket", "m_remote_socket"} : ClosesMember(socket) => ServerRest'
<1> USE DEF ListenerPlaces, MemberPlaces, EndPlaces, ProcessPlaces, RelayPlaces, BeforeRemote
<1>1. ASSUME CallsInVain PROVE ServerRest'
  <2>1. PICK q \in DOMAIN OpAt : AtPlace(q)
    BY <1>1 DEF CallsInVain
  <2>2. GoesTo(OnFailure[q])
    BY <1>1, <2>1, ServerRuns DEF CallsInVain
  <2>3. /\ q \notin EndPlaces \cup ListenerPlaces \cup {"socket", "relay1", "relay2"}
        /\ OnFailure[q] \notin MemberPlaces \cup {"ended", "relay2", "start"}
        /\ OnFailure[q] \in BeforeRemote => q \in BeforeRemote
        /\ q \in ProcessPlaces => OnFailure[q] \in ProcessPlaces
        /\ q \in RelayPlaces => OnFailure[q] \in RelayPlaces
    BY Tables
  <2>4. UNCHANGED <<node, lists, leaving, pc, it, conn, client, m_clients>>
    BY <1>1 DEF CallsInVain, connVars, vars, managerVars, registry, walk
  <2> QED  BY <2>1, <2>2, <2>3, <2>4, ServerRuns, WorkerPlaces, StepsTo DEF lists
<1>2. ASSUME ConnectsAtOnce PROVE ServerRest'
  <2>1. PICK p \in {"answer", "refuse"} : GoesTo(p)
    BY <1>2 DEF ConnectsAtOnce
  <2>2. AtPlace("connect") /\ UNCHANGED <<node, lists, leaving, pc, it, conn, client, m_clients>>
    BY <1>2 DEF ConnectsAtOnce, connVars, vars, managerVars, registry, walk
  <2>3. it \in Workers /\ work[it].func = "process"
    BY <2>2, WorkerPlaces DEF Relays
  <2> QED  BY <2>1, <2>2, <2>3, ServerRuns, StepsTo DEF lists
<1>3. ASSUME ClosesClient PROVE ServerRest'
  <2>1. AtPlace("close") /\ UNCHANGED <<node, lists, leaving, pc, it, conn, client, m_clients>>
    BY <1>3 DEF ClosesClient, connVars, vars, managerVars, registry, walk
  <2>2. GoesTo("m_socket")
    BY <1>3, <2>1, WorkerPlaces DEF ClosesClient, ServerInv, ServerRest, SocksTypeOK
  <2> QED  BY <2>1, <2>2, ServerRuns, WorkerPlaces, StepsTo DEF lists
<1>4. ASSUME NEW socket \in {"m_socket", "m_remote_socket"}, ClosesMember(socket) PROVE ServerRest'
  <2>1. AtPlace(socket) /\ UNCHANGED <<conn, timers, client, m_clients>> /\ GoesTo(NextMember[socket])
    BY <1>4 DEF ClosesMember
  <2>2. Self \in DOMAIN client
    BY <2>1, WorkerPlaces
  <2>3. PICK fd : fd = client[Self][socket]
    OBVIOUS
  <2>4. fd \in ClientFds \cup {Null}
    BY <2>2, <2>3, ClientTypes DEF Members, ServerInv, ServerRest
  <2>5. UNCHANGED <<node, lists, leaving, pc, it>>
    BY <1>4, <2>3, <2>4, ClosesSocketStep DEF ClosesMember
  <2>6. NextMember[socket] \in {"m_remote_socket", "m_cothread"}
    BY DEF NextMember
  <2> QED  BY <2>1, <2>5, <2>6, ServerRuns, WorkerPlaces, StepsTo DEF lists
<1> QED  BY <1>1, <1>2, <1>3, <1>4

\* The sockets of a client are free numbers, or -1.
LEMMA ClientSockets ==
  ASSUME ServerInv, NEW t \in Workers, HasClient(t)
  PROVE  FromOf(t) \in ClientFds \cup {Null} /\ ToOf(t) \in ClientFds \cup {Null}
BY ClientTypes DEF HasClient, FromOf, ToOf, Members, ServerInv, ServerRest

LEMMA OpensKeeps ==
  ASSUME ServerInv, Opens
  PROVE  ServerRest'
<1> USE ServerRuns, ClientTypes DEF ServerInv, ServerRest
<1>1. /\ AtPlace("start") /\ it \in Workers /\ it \in Threads /\ pc = "run" /\ work[it] \in Jobs /\ work[it].at = "start"
      /\ conn[it].at = "outside" /\ TaskInv(it) /\ it \in valid_cothreads
      /\ UNCHANGED <<node, lists, leaving, pc, it, conn, client, m_clients>>
  BY DEF Opens, connVars, vars, managerVars, registry, walk
<1>2. HasClient(it) /\ work[it].func \in {"process"} \cup Relays
  BY <1>1, RunningTask DEF TaskInv
<1> DEFINE fds == CASE work[it].func = "process" -> <<client[Self].m_socket, Null>>
                    [] work[it].func = "trans_func1" -> <<client[Self].m_socket, client[Self].m_remote_socket>>
                    [] work[it].func = "trans_func2" -> <<client[Self].m_remote_socket, client[Self].m_socket>>
           p == IF work[it].func = "process" THEN "greet1" ELSE "read"
           w == [work[it] EXCEPT !.from = FromOf(it), !.to = ToOf(it), !.at = p]
<1>3. fds[1] = FromOf(it) /\ fds[2] = ToOf(it)
  <2>1. CASE work[it].func = "process"
    <3>1. fds = <<client[Self].m_socket, Null>>
      BY <2>1
    <3>2. ToOf(it) = Null
      BY <1>1, <1>2, <2>1 DEF SocketInv, BeforeRemote
    <3> HIDE DEF fds
    <3> QED  BY <2>1, <3>1, <3>2 DEF FromOf, Self
  <2>2. CASE work[it].func = "trans_func1"
    <3>1. fds = <<client[Self].m_socket, client[Self].m_remote_socket>>
      BY <2>2
    <3> HIDE DEF fds
    <3> QED  BY <2>2, <3>1 DEF FromOf, ToOf, Self
  <2>3. CASE work[it].func = "trans_func2"
    <3>1. fds = <<client[Self].m_remote_socket, client[Self].m_socket>>
      BY <2>3
    <3> HIDE DEF fds
    <3> QED  BY <2>3, <3>1 DEF FromOf, ToOf, Self
  <2> QED  BY <1>2, <2>1, <2>2, <2>3 DEF Relays
<1>4. work' = [work EXCEPT ![it].from = fds[1], ![it].to = fds[2], ![it].at = p]
  BY DEF Opens
<1> HIDE DEF fds
<1>5. work' = [work EXCEPT ![it] = w]
  BY <1>1, <1>3, <1>4 DEF SocksTypeOK, Jobs
<1>6. p \in {"greet1", "read"}
  OBVIOUS
<1>7. w \in Jobs /\ w.func = work[it].func /\ w.self = work[it].self /\ w.from = FromOf(it) /\ w.to = ToOf(it) /\ w.at = p
  BY <1>1, <1>2, <1>6, ClientSockets DEF Jobs, ProcessPlaces, RelayPlaces
<1>8. PlaceInv(it)' /\ CallInv(it)'
  <2>1. work'[it] = w
    BY <1>1, <1>5 DEF SocksTypeOK
  <2>2. work'[it].func = work[it].func /\ work'[it].at = p /\ conn'[it].at = "outside" /\ it' = it
    BY <1>1, <1>7, <2>1
  <2> QED  BY <1>1, <1>2, <2>2 DEF PlaceInv, CallInv, ProcessPlaces, RelayPlaces
<1> HIDE DEF w, p, ServerInv, ServerRest
<1> QED  BY <1>1, <1>5, <1>6, <1>7, <1>8, MovesOn DEF lists, MemberPlaces, BeforeRemote

\* A call begins, goes on and ends.
LEMMA CallsKeep ==
  ASSUME ServerInv
  PROVE  Calling \/ InCall \/ CallSucceeds \/ CallFails => ServerRest'
<1> USE DEF ServerInv, ServerRest
<1>1. ASSUME it \in Workers, pc = "run", pc' \in {"run", "process"}, work[it].at \in DOMAIN OpAt,
             NEW p, work' = [work EXCEPT ![it].at = p],
             p = work[it].at \/ p \in OnSuccess[work[it].at] \cup {OnFailure[work[it].at]},
             p = work[it].at \/ conn'[it].at = "outside", conn'[it].at # "outside" => conn'[it].fd = FdOf(it) /\ FdOf(it) \in ClientFds,
             UNCHANGED <<client, m_clients, valid_cothreads, cancel_list, leaving, add_list, it>>,
             \A t \in Threads : t # it => conn'[t] = conn[t],
             p \in MemberPlaces => pc' = "run",
             \A n \in DOMAIN node' :
               (n \in DOMAIN node /\ node'[n] = node[n]) \/ (node'[n].thread_ptr = it /\ node'[n].fd = FdOf(it))
      PROVE  ServerRest'
  <2> DEFINE w == [work[it] EXCEPT !.at = p]
  <2>1. /\ work[it].at \notin EndPlaces \cup ListenerPlaces \cup {"socket", "relay1", "relay2"}
        /\ p \notin MemberPlaces \cup {"ended", "relay2", "start"}
        /\ p \in BeforeRemote => work[it].at \in BeforeRemote
        /\ work[it].at \in ProcessPlaces => p \in ProcessPlaces
        /\ work[it].at \in RelayPlaces => p \in RelayPlaces
    BY <1>1, Tables DEF EndPlaces, ListenerPlaces
  <2>2. /\ it \in Threads /\ work[it] \in Jobs /\ TaskInv(it) /\ work[it].at # "ended" /\ work[it].at # "start"
        /\ it \in Threads \ {Listener}
    BY <1>1, <2>1, RunningTask, ClientTypes DEF EndPlaces, ListenerPlaces
  <2>3. HasClient(it) /\ work[it].from = FromOf(it) /\ work[it].to = ToOf(it)
    BY <1>1, <2>2, RunningTask DEF SocketInv
  <2>4. PlaceInv(it) /\ p \in ProcessPlaces \cup RelayPlaces
    BY <1>1, <2>1, <2>2 DEF TaskInv, PlaceInv
  <2>5. w \in Jobs /\ w.func = work[it].func /\ w.self = work[it].self /\ w.at = p
        /\ w.from = work[it].from /\ w.to = work[it].to
    BY <2>2, <2>4 DEF Jobs
  <2>6. work' = [work EXCEPT ![it] = w]
    BY <1>1, <2>2 DEF SocksTypeOK, Jobs
  <2>7. work'[it] = w
    BY <2>2, <2>6 DEF SocksTypeOK
  <2>8. PlaceInv(it)'
    BY <1>1, <2>1, <2>2, <2>4, <2>5, <2>7 DEF PlaceInv
  <2>9. CallInv(it)'
    BY <1>1, <2>5, <2>7 DEF CallInv, FdOf
  <2>10. FdOf(it) \in {w.from, w.to}
    BY <2>5 DEF FdOf
  <2>11. work[it].at \notin MemberPlaces
    BY <2>1 DEF EndPlaces
  <2>12. \A n \in DOMAIN node' :
           \/ n \in DOMAIN node /\ node'[n] = node[n]
           \/ node'[n].thread_ptr = it /\ (node'[n].fd \in ClientFds => it \in Workers /\ node'[n].fd \in {w.from, w.to})
    BY <1>1, <2>10
  <2>13. p \notin {"ended", "relay2", "m_trans_cothread1", "m_trans_cothread2"} /\ work[it].at \notin {"ended", "relay2"}
    BY <2>1 DEF MemberPlaces, EndPlaces
  <2> HIDE DEF w, ServerInv, ServerRest
  <2> QED  BY <1>1, <2>1, <2>3, <2>5, <2>6, <2>8, <2>9, <2>11, <2>12, <2>13, MovesOn
<1>2. ASSUME Calling PROVE ServerRest'
  <2>1. /\ pc = "run" /\ it \in Workers /\ work[it].at \in DOMAIN OpAt
        /\ StartCall(OpAt[work[it].at], FdOf(it)) /\ FdOf(it) \in ClientFds /\ work' = work
        /\ UNCHANGED <<node, lists, leaving, pc, it, client, m_clients>>
    BY <1>2, CallStep DEF Calling, StartCall, serverVars, vars, managerVars, registry, walk
  <2>2. it \in Threads /\ work[it] \in Jobs
    BY <2>1, RunningTask
  <2>3. conn'[it].fd = FdOf(it) /\ \A t \in Threads : t # it => conn'[t] = conn[t]
    BY <2>1, <2>2 DEF StartCall, Outside, ConnInv, ConnTypeOK
  <2>4. work' = [work EXCEPT ![it].at = work[it].at]
    BY <2>1, <2>2 DEF SocksTypeOK, Jobs
  <2> HIDE DEF ServerInv, ServerRest
  <2> QED  BY <1>1, <2>1, <2>2, <2>3, <2>4 DEF lists
<1>3. ASSUME InCall \/ CallSucceeds \/ CallFails PROVE ServerRest'
  <2>1. pc = "run" /\ (CallGoesOn \/ FinishCall \/ GiveUp)
    BY <1>3 DEF InCall, CallGoesOn, CallSucceeds, CallFails, WouldBlock, MovePart, MoveAllOrFail, Retry, Wait, Resume,
                RegisterSocket, FinishCall, GiveUp, At
  <2>2. it \in Threads /\ conn[it].at # "outside" /\ TaskInv(it) /\ work[it] \in Jobs
    BY <2>1, CallEvents, RunningTask
  <2>3. it \in Workers /\ work[it].at \in DOMAIN OpAt /\ conn[it].fd = FdOf(it) /\ FdOf(it) \in ClientFds
    BY <2>2 DEF TaskInv, CallInv
  <2>4. /\ UNCHANGED <<valid_cothreads, cancel_list, leaving, add_list, it>> /\ pc' \in {"run", "process"}
        /\ \A t \in Threads : t # it => conn'[t] = conn[t]
        /\ CallGoesOn => conn'[it].fd = conn[it].fd
        /\ FinishCall \/ GiveUp => conn'[it].at = "outside"
        /\ \A n \in DOMAIN node' :
              \/ n \in DOMAIN node /\ node'[n] = node[n]
              \/ node'[n].thread_ptr = it /\ node'[n].fd = conn[it].fd
    BY <2>1, CallEvents DEF Outside
  <2>5. UNCHANGED <<client, m_clients>>
    BY <1>3 DEF InCall, CallSucceeds, CallFails, serverVars
  <2>6. CASE InCall
    <3>1. work' = [work EXCEPT ![it].at = work[it].at] /\ CallGoesOn
      BY <2>2, <2>6 DEF InCall, CallGoesOn, serverVars, SocksTypeOK, Jobs
    <3>2. work[it].at \notin MemberPlaces
      BY <2>3, Tables DEF EndPlaces
    <3> HIDE DEF ServerInv, ServerRest
    <3> QED  BY <1>1, <2>1, <2>3, <2>4, <2>5, <3>1, <3>2
  <2>7. CASE CallSucceeds \/ CallFails
    <3>1. PICK p \in OnSuccess[work[it].at] \cup {OnFailure[work[it].at]} : GoesTo(p)
      BY <2>7 DEF CallSucceeds, CallFails
    <3>2. p \notin MemberPlaces /\ (FinishCall \/ GiveUp)
      BY <2>3, <2>7, <3>1, Tables DEF CallSucceeds, CallFails
    <3> HIDE DEF ServerInv, ServerRest
    <3> QED  BY <1>1, <2>1, <2>3, <2>4, <2>5, <3>1, <3>2 DEF GoesTo
  <2> QED  BY <1>3, <2>6, <2>7
<1> QED  BY <1>2, <1>3

-----------------------------------------------------------------------------
(* The steps that change a client: process alone has it then.              *)

LEMMA ProcessAlone ==
  ASSUME ServerInv, NEW p, AtPlace(p), p \in {"socket", "relay1", "relay2"}
  PROVE  /\ it \in Workers /\ work[it].func = "process" /\ Self \in DOMAIN client
         /\ client[Self].m_cothread = it /\ client[Self].m_trans_cothread2 = Null
         /\ p # "relay2" => client[Self].m_trans_cothread1 = Null /\ ServedBy(Self) = {it}
         /\ p = "relay2" => client[Self].m_trans_cothread1 \in valid_cothreads \ {it}
<1> USE DEF ServerInv, ServerRest
<1>1. /\ it \in Workers /\ work[it].func = "process" /\ HasClient(it) /\ Self \in DOMAIN client
      /\ pc = "run" /\ work[it].at = p
  BY WorkerPlaces, ServerRuns DEF ListenerPlaces, RelayPlaces, EndPlaces, MemberPlaces
<1>2. it # client[Self].m_trans_cothread1 /\ it # client[Self].m_trans_cothread2 /\ it # Null
  BY <1>1, ClientTypes DEF FuncInv, Self
<1>3. client[Self].m_cothread = it
  BY <1>1, <1>2 DEF HasClient, ServedBy, Self
<1>4. Shape(Self) /\ (AtRelay2(Self) <=> p = "relay2")
  BY <1>1 DEF AtRelay2, Self
<1>5. p # "relay2" => client[Self].m_trans_cothread1 = Null /\ client[Self].m_trans_cothread2 = Null
  BY <1>2, <1>3, <1>4 DEF Shape
<1>6. p # "relay2" => ServedBy(Self) = {it}
  BY <1>2, <1>3, <1>5 DEF ServedBy
<1>7. p = "relay2" => client[Self].m_trans_cothread1 \in valid_cothreads /\ client[Self].m_trans_cothread2 = Null
  BY <1>3, <1>4 DEF Shape
<1> QED  BY <1>1, <1>2, <1>3, <1>5, <1>6, <1>7

LEMMA OpensRemoteKeeps ==
  ASSUME ServerInv, NEW fd \in ClientFds \cup {Null}, OpensRemote(fd)
  PROVE  ServerRest'
<1> USE ServerRuns, ClientTypes DEF ServerInv, ServerRest
<1>1. /\ AtPlace("socket") /\ it \in Workers /\ it \in Threads /\ pc = "run" /\ work[it] \in Jobs /\ work[it].at = "socket"
      /\ work[it].func = "process" /\ conn[it].at = "outside" /\ TaskInv(it) /\ it \in valid_cothreads
      /\ UNCHANGED <<node, valid_cothreads, cancel_list, add_list, leaving, pc, it, conn, m_clients>>
  BY ProcessAlone DEF OpensRemote, connVars, vars, managerVars, registry, walk, lists
<1>2. Self \in DOMAIN client /\ ServedBy(Self) = {it} /\ client[Self].m_cothread = it
  BY <1>1, ProcessAlone
<1>3. client' = [client EXCEPT ![Self].m_remote_socket = fd] /\ work' = [work EXCEPT ![it].to = fd, ![it].at = "connect"]
  BY DEF OpensRemote
<1>4. /\ DOMAIN client' = DOMAIN client
      /\ \A c \in DOMAIN client : /\ client'[c].m_socket = client[c].m_socket /\ client'[c].m_cothread = client[c].m_cothread
                                  /\ client'[c].m_trans_cothread1 = client[c].m_trans_cothread1
                                  /\ client'[c].m_trans_cothread2 = client[c].m_trans_cothread2
                                  /\ client'[c].m_remote_socket = IF c = Self THEN fd ELSE client[c].m_remote_socket
                                  /\ client'[c] \in Members
  BY <1>2, <1>3 DEF Members
<1>5. /\ \A t \in Threads \ {it} : work'[t] = work[t]
      /\ work'[it].func = "process" /\ work'[it].self = work[it].self /\ work'[it].at = "connect"
      /\ work'[it].from = work[it].from /\ work'[it].to = fd /\ work'[it] \in Jobs
      /\ work' \in [Threads -> Jobs]
  BY <1>1, <1>3 DEF SocksTypeOK, Jobs, ProcessPlaces
<1>6. SocksTypeOK'
  BY <1>1, <1>4, <1>5 DEF SocksTypeOK
<1>7. \A t \in Threads : TaskInv(t)'
  <2>1. \A t \in Threads \ {it} : TaskInv(t)'
    BY <1>1, <1>5, OtherTask
  <2>2. PlaceInv(it)' /\ CallInv(it)'
    BY <1>1, <1>5 DEF PlaceInv, CallInv, ProcessPlaces
  <2>3. TaskInv(it)'
    BY <1>1, <1>5, <2>2 DEF TaskInv, MemberPlaces
  <2> QED  BY <1>1, <2>1, <2>3
<1>8. \A c \in DOMAIN client : ServedBy(c)' = ServedBy(c)
  BY <1>4 DEF ServedBy
<1>9. \A t \in Threads : HasClient(t)' <=> HasClient(t)
  BY <1>2, <1>4, <1>5, <1>8 DEF HasClient
<1>10. \A t \in Workers \ {it} : HasClient(t) => FromOf(t)' = FromOf(t) /\ ToOf(t)' = ToOf(t)
  BY <1>2, <1>4, <1>5 DEF HasClient, FromOf, ToOf
<1>11. FromOf(it)' = work'[it].from /\ ToOf(it)' = fd
  <2>1. HasClient(it)
    BY <1>1, RunningTask
  <2>2. work[it].from = FromOf(it)
    BY <1>1, <2>1 DEF SocketInv
  <2> QED  BY <1>1, <1>2, <1>4, <1>5, <2>2 DEF FromOf, ToOf, Self
<1>12. SocketInv'
  <2>1. \A t \in Workers : HasClient(t)' /\ work'[t].at # "start" => work'[t].from = FromOf(t)' /\ work'[t].to = ToOf(t)'
    <3> SUFFICES ASSUME NEW t \in Workers, HasClient(t)', work'[t].at # "start"
                 PROVE  work'[t].from = FromOf(t)' /\ work'[t].to = ToOf(t)'
      OBVIOUS
    <3>1. CASE t = it
      BY <1>1, <1>5, <1>11, <3>1
    <3>2. CASE t # it
      <4>1. work'[t] = work[t] /\ HasClient(t)
        BY <1>5, <1>9, <3>2
      <4>2. work[t].from = FromOf(t) /\ work[t].to = ToOf(t)
        BY <4>1 DEF SocketInv
      <4> QED  BY <1>10, <3>2, <4>1, <4>2
    <3> QED  BY <3>1, <3>2
  <2>2. \A t \in Workers : HasClient(t)' /\ work'[t].at \in BeforeRemote /\ work'[t].func = "process" => ToOf(t)' = Null
    BY <1>5, <1>9, <1>10 DEF SocketInv, BeforeRemote
  <2>3. ASSUME NEW n \in DOMAIN node', node'[n].fd \in ClientFds
        PROVE  node'[n].thread_ptr \in Workers /\ node'[n].fd \in {work'[node'[n].thread_ptr].from, work'[node'[n].thread_ptr].to}
    <3>1. node[n].thread_ptr \in Workers /\ node[n].fd \in {work[node[n].thread_ptr].from, work[node[n].thread_ptr].to}
      BY <1>1, <2>3 DEF SocketInv
    <3>2. work[it].to = Null
      BY <1>1, RunningTask DEF SocketInv, BeforeRemote
    <3> QED  BY <1>1, <1>5, <2>3, <3>1, <3>2
  <2> QED  BY <2>1, <2>2, <2>3 DEF SocketInv
<1>13. FuncInv'
  <2>1. \A t \in Workers : work'[t].self = work[t].self /\ work'[t].func = work[t].func
    BY <1>1, <1>5
  <2>2. FuncInv
    OBVIOUS
  <2> HIDE DEF ServerInv
  <2> QED  BY <1>4, <2>1, <2>2 DEF FuncInv
<1>14. \A c \in DOMAIN client' : Shape(c)'
  BY <1>1, <1>4, <1>5 DEF Shape, AtRelay2
<1>15. DestructorInv'
  BY <1>1, <1>5 DEF DestructorInv
<1>16. AliveInv'
  <2>1. RelaysShareSafely'
    BY <1>1, <1>2, <1>4, <1>5, <1>8 DEF RelaysShareSafely, Self
  <2>2. \A t \in Workers \cap valid_cothreads' : work'[t].at = "ended" \/ t \in cancel_list' \/ HasClient(t)'
    BY <1>1, <1>5, <1>9 DEF AliveInv
  <2> QED  BY <1>1, <1>5, <2>1, <2>2 DEF AliveInv
<1> QED  BY <1>6, <1>7, <1>12, <1>13, <1>14, <1>15, <1>16

\* The first relay is added, and process is about to add the second.
LEMMA AddsRelay1Keeps ==
  ASSUME ServerInv, NEW t \in RelayTasks, AddsRelay1(t)
  PROVE  ServerRest'
<1> USE ServerRuns, ClientTypes DEF ServerInv, ServerRest
<1>1. /\ AtPlace("relay1") /\ it \in Workers /\ it \in Threads /\ pc = "run" /\ work[it] \in Jobs /\ work[it].at = "relay1"
      /\ work[it].func = "process" /\ conn[it].at = "outside" /\ TaskInv(it) /\ it \in valid_cothreads /\ leaving = Null
      /\ UNCHANGED <<conn, timers, m_clients>>
  BY ProcessAlone DEF AddsRelay1
<1>2. /\ t \in Workers /\ t \in Threads /\ t # it /\ t \notin valid_cothreads \cup {leaving}
      /\ valid_cothreads' = valid_cothreads \cup {t} /\ add_list' = add_list \cup {t}
      /\ UNCHANGED <<node, cancel_list, leaving, pc, it>>
  BY <1>1, AddTaskStep DEF AddsRelay1, Workers
<1>3. /\ Self \in DOMAIN client /\ Self \in Clients /\ ServedBy(Self) = {it} /\ client[Self].m_cothread = it
      /\ client[Self].m_trans_cothread1 = Null /\ client[Self].m_trans_cothread2 = Null
  BY <1>1, ProcessAlone DEF SocksTypeOK
<1>4. PICK job : job = Task("trans_func1", Self)
  OBVIOUS
<1>5. /\ job \in Jobs /\ job.func = "trans_func1" /\ job.self = Self /\ job.at = "start" /\ job.from = Null /\ job.to = Null
  BY <1>3, <1>4, NoWorkFacts DEF Relays
<1>6. /\ client' = [client EXCEPT ![Self].m_trans_cothread1 = t]
      /\ work' = [work EXCEPT ![t] = job, ![it].at = "relay2"]
  BY <1>4 DEF AddsRelay1
<1>7. /\ DOMAIN client' = DOMAIN client
      /\ \A c \in DOMAIN client : /\ client'[c].m_socket = client[c].m_socket /\ client'[c].m_cothread = client[c].m_cothread
                                  /\ client'[c].m_trans_cothread1 = IF c = Self THEN t ELSE client[c].m_trans_cothread1
                                  /\ client'[c].m_trans_cothread2 = client[c].m_trans_cothread2
                                  /\ client'[c].m_remote_socket = client[c].m_remote_socket
                                  /\ client'[c] \in Members
  BY <1>3, <1>6 DEF Members
<1>8. /\ \A u \in Threads \ {it, t} : work'[u] = work[u]
      /\ work'[t] = job
      /\ work'[it].func = "process" /\ work'[it].self = work[it].self /\ work'[it].at = "relay2"
      /\ work'[it].from = work[it].from /\ work'[it].to = work[it].to /\ work'[it] \in Jobs
      /\ work' \in [Threads -> Jobs]
  BY <1>1, <1>2, <1>5, <1>6 DEF SocksTypeOK, Jobs, ProcessPlaces
<1>9. SocksTypeOK'
  BY <1>1, <1>7, <1>8 DEF SocksTypeOK
<1>10. \A u \in Threads : TaskInv(u)'
  <2>1. \A u \in Threads \ {it, t} : TaskInv(u)'
    BY <1>1, <1>2, <1>8, OtherTask
  <2>2. TaskInv(t)'
    BY <1>1, <1>2, <1>3, <1>4, <1>8, OtherTask DEF Relays
  <2>3. PlaceInv(it)' /\ CallInv(it)'
    BY <1>1, <1>2, <1>8 DEF PlaceInv, CallInv, ProcessPlaces
  <2>4. TaskInv(it)'
    BY <1>1, <1>2, <1>8, <2>3 DEF TaskInv, MemberPlaces
  <2> QED  BY <1>2, <2>1, <2>2, <2>4
<1>11. \A c \in DOMAIN client : ServedBy(c)' = IF c = Self THEN {it, t} ELSE ServedBy(c)
  BY <1>2, <1>3, <1>7 DEF ServedBy
<1>12. /\ \A u \in Threads \ {t} : HasClient(u) => HasClient(u)'
       /\ \A u \in Threads \ {t} : HasClient(u)' => HasClient(u)
       /\ work'[t].self = Self
  BY <1>3, <1>5, <1>7, <1>8, <1>11 DEF HasClient
<1>13. \A u \in Threads \ {t} : /\ HasClient(u) => FromOf(u)' = FromOf(u) /\ ToOf(u)' = ToOf(u)
                                /\ work'[u].from = work[u].from /\ work'[u].to = work[u].to /\ work'[u].func = work[u].func
                                /\ work'[u].self = work[u].self
  <2>1. \A u \in Threads \ {t} : /\ work'[u].from = work[u].from /\ work'[u].to = work[u].to /\ work'[u].func = work[u].func
                                 /\ work'[u].self = work[u].self
    BY <1>1, <1>8
  <2> QED  BY <1>7, <2>1 DEF HasClient, FromOf, ToOf
<1>14. SocketInv'
  <2>1. ASSUME NEW u \in Workers, HasClient(u)', work'[u].at # "start"
        PROVE  work'[u].from = FromOf(u)' /\ work'[u].to = ToOf(u)'
    <3>1. u # t /\ u \in Threads
      BY <1>5, <1>8, <2>1
    <3>2. work[u].at # "start" /\ HasClient(u)
      BY <1>1, <1>8, <1>12, <2>1, <3>1
    <3>3. work[u].from = FromOf(u) /\ work[u].to = ToOf(u)
      BY <3>2 DEF SocketInv
    <3> QED  BY <1>13, <3>1, <3>2, <3>3
  <2>2. ASSUME NEW u \in Workers, HasClient(u)', work'[u].at \in BeforeRemote, work'[u].func = "process" PROVE ToOf(u)' = Null
    <3>1. u # t /\ u # it /\ u \in Threads
      BY <1>5, <1>8, <2>2 DEF BeforeRemote
    <3>2. HasClient(u) /\ ToOf(u) = Null
      BY <1>8, <1>12, <2>2, <3>1 DEF SocketInv
    <3> QED  BY <1>13, <3>1, <3>2
  <2>3. ASSUME NEW n \in DOMAIN node', node'[n].fd \in ClientFds
        PROVE  node'[n].thread_ptr \in Workers /\ node'[n].fd \in {work'[node'[n].thread_ptr].from, work'[node'[n].thread_ptr].to}
    <3>1. node[n].thread_ptr \in Workers /\ node[n].fd \in {work[node[n].thread_ptr].from, work[node[n].thread_ptr].to}
      BY <1>2, <2>3 DEF SocketInv
    <3>2. node[n].thread_ptr # t
      BY <1>2, <2>3 DEF ConnInv, EnvInv, NoDangling
    <3> QED  BY <1>2, <1>13, <2>3, <3>1, <3>2
  <2> QED  BY <2>1, <2>2, <2>3 DEF SocketInv
<1>15. FuncInv'
  <2> SUFFICES ASSUME NEW c \in DOMAIN client, NEW u \in Workers, work'[u].self = c
               PROVE  /\ u = client'[c].m_cothread => work'[u].func = "process"
                      /\ u = client'[c].m_trans_cothread1 => work'[u].func = "trans_func1"
                      /\ u = client'[c].m_trans_cothread2 => work'[u].func = "trans_func2"
    BY <1>7 DEF FuncInv
  <2>1. CASE u = t
    BY <1>2, <1>3, <1>5, <1>7, <1>8, <2>1
  <2>2. CASE u # t
    <3>1. u \in Threads /\ work[u].self = c /\ work'[u].func = work[u].func
      BY <1>13, <2>2
    <3> QED  BY <1>7, <2>2, <3>1 DEF FuncInv
  <2> QED  BY <2>1, <2>2
<1>16. ASSUME NEW c \in DOMAIN client PROVE Shape(c)'
  <2>1. AtRelay2(c)' <=> c = Self
    BY <1>1, <1>2, <1>8 DEF AtRelay2, Self
  <2>2. ~AtRelay2(c) /\ Shape(c)
    BY <1>1 DEF AtRelay2
  <2> QED  BY <1>2, <1>3, <1>7, <2>1, <2>2 DEF Shape
<1>17. DestructorInv'
  BY <1>1, <1>2, <1>8 DEF DestructorInv
<1>18. AliveInv'
  <2>1. it \in ServedBy(Self)' /\ Self' = Self
    BY <1>1, <1>2, <1>3, <1>8, <1>11 DEF Self
  <2>2. RelaysShareSafely'
    BY <1>1, <1>2, <1>3, <1>7, <2>1 DEF RelaysShareSafely
  <2>3. HasClient(t)'
    BY <1>2, <1>3, <1>7, <1>11, <1>12 DEF HasClient
  <2>4. ASSUME NEW u \in Workers, u \in valid_cothreads' PROVE work'[u].at = "ended" \/ u \in cancel_list' \/ HasClient(u)'
    <3>1. CASE u # t
      BY <1>1, <1>2, <1>8, <1>12, <2>4, <3>1 DEF AliveInv
    <3> QED  BY <2>3, <3>1
  <2> QED  BY <1>1, <1>2, <1>8, <2>2, <2>4 DEF AliveInv
<1> QED  BY <1>7, <1>9, <1>10, <1>14, <1>15, <1>16, <1>17, <1>18

\* The second relay is added, and process ends: the handover is complete.
LEMMA AddsRelay2Keeps ==
  ASSUME ServerInv, NEW t \in RelayTasks, AddsRelay2(t)
  PROVE  ServerRest'
<1> USE ServerRuns, ClientTypes DEF ServerInv, ServerRest
<1>1. /\ AtPlace("relay2") /\ it \in Workers /\ it \in Threads /\ pc = "run" /\ work[it] \in Jobs /\ work[it].at = "relay2"
      /\ work[it].func = "process" /\ conn[it].at = "outside" /\ TaskInv(it) /\ it \in valid_cothreads /\ leaving = Null
      /\ UNCHANGED <<conn, timers, m_clients>>
  BY ProcessAlone DEF AddsRelay2
<1>2. /\ t \in Workers /\ t \in Threads /\ t # it /\ t \notin valid_cothreads \cup {leaving}
      /\ valid_cothreads' = valid_cothreads \cup {t} /\ add_list' = add_list \cup {t}
      /\ UNCHANGED <<node, cancel_list, leaving, pc, it>>
  BY <1>1, AddTaskStep DEF AddsRelay2, Workers
<1>3. /\ Self \in DOMAIN client /\ Self \in Clients /\ client[Self].m_cothread = it
      /\ client[Self].m_trans_cothread1 \in valid_cothreads \ {it} /\ client[Self].m_trans_cothread2 = Null
  BY <1>1, ProcessAlone DEF SocksTypeOK
<1>4. PICK job : job = Task("trans_func2", Self)
  OBVIOUS
<1>5. /\ job \in Jobs /\ job.func = "trans_func2" /\ job.self = Self /\ job.at = "start" /\ job.from = Null /\ job.to = Null
  BY <1>3, <1>4, NoWorkFacts DEF Relays
<1>6. /\ client' = [client EXCEPT ![Self].m_trans_cothread2 = t, ![Self].m_cothread = Null]
      /\ work' = [work EXCEPT ![t] = job, ![it].at = "ended"]
  BY <1>4 DEF AddsRelay2
<1>7. /\ DOMAIN client' = DOMAIN client
      /\ \A c \in DOMAIN client : /\ client'[c].m_socket = client[c].m_socket
                                  /\ client'[c].m_cothread = IF c = Self THEN Null ELSE client[c].m_cothread
                                  /\ client'[c].m_trans_cothread1 = client[c].m_trans_cothread1
                                  /\ client'[c].m_trans_cothread2 = IF c = Self THEN t ELSE client[c].m_trans_cothread2
                                  /\ client'[c].m_remote_socket = client[c].m_remote_socket
                                  /\ client'[c] \in Members
  BY <1>3, <1>6 DEF Members
<1>8. /\ \A u \in Threads \ {it, t} : work'[u] = work[u]
      /\ work'[t] = job
      /\ work'[it].func = "process" /\ work'[it].self = work[it].self /\ work'[it].at = "ended"
      /\ work'[it].from = work[it].from /\ work'[it].to = work[it].to /\ work'[it] \in Jobs
      /\ work' \in [Threads -> Jobs]
  BY <1>1, <1>2, <1>5, <1>6 DEF SocksTypeOK, Jobs, ProcessPlaces, EndPlaces
<1>9. SocksTypeOK'
  BY <1>1, <1>7, <1>8 DEF SocksTypeOK
<1>10. \A u \in Threads : TaskInv(u)'
  <2>1. \A u \in Threads \ {it, t} : TaskInv(u)'
    BY <1>1, <1>2, <1>8, OtherTask
  <2>2. TaskInv(t)'
    BY <1>1, <1>2, <1>3, <1>4, <1>8, OtherTask DEF Relays
  <2>3. PlaceInv(it)' /\ CallInv(it)'
    BY <1>1, <1>2, <1>8 DEF PlaceInv, CallInv, ProcessPlaces, EndPlaces
  <2>4. TaskInv(it)'
    BY <1>1, <1>2, <1>8, <2>3 DEF TaskInv, MemberPlaces
  <2> QED  BY <1>2, <2>1, <2>2, <2>4
<1>11. \A c \in DOMAIN client : ServedBy(c)' = IF c = Self THEN {client[c].m_trans_cothread1, t} ELSE ServedBy(c)
  <2>1. \A c \in DOMAIN client : client'[c].m_trans_cothread1 = client[c].m_trans_cothread1
    BY <1>7
  <2>2. client[Self].m_trans_cothread1 # Null /\ t # Null
    BY <1>2, <1>3 DEF ConnInv, EnvInv, EnvTypes
  <2> QED  BY <1>7, <2>1, <2>2 DEF ServedBy
<1>12. client[Self].m_trans_cothread1 \in ServedBy(Self) /\ ServedBy(Self) \ {it} \subseteq {client[Self].m_trans_cothread1}
  BY <1>3, ClientTypes DEF ServedBy, ConnInv, EnvInv, EnvTypes
<1>13. /\ \A u \in Threads \ {t, it} : HasClient(u) => HasClient(u)'
       /\ \A u \in Threads \ {t} : HasClient(u)' => HasClient(u)
       /\ work'[t].self = Self
  BY <1>3, <1>5, <1>7, <1>8, <1>11, <1>12 DEF HasClient
<1>14. \A u \in Threads \ {t} : /\ HasClient(u) => FromOf(u)' = FromOf(u) /\ ToOf(u)' = ToOf(u)
                                /\ work'[u].from = work[u].from /\ work'[u].to = work[u].to /\ work'[u].func = work[u].func
                                /\ work'[u].self = work[u].self
  <2>1. \A u \in Threads \ {t} : /\ work'[u].from = work[u].from /\ work'[u].to = work[u].to /\ work'[u].func = work[u].func
                                 /\ work'[u].self = work[u].self
    BY <1>1, <1>8
  <2> QED  BY <1>7, <2>1 DEF HasClient, FromOf, ToOf
<1>15. SocketInv'
  <2>1. ASSUME NEW u \in Workers, HasClient(u)', work'[u].at # "start"
        PROVE  work'[u].from = FromOf(u)' /\ work'[u].to = ToOf(u)'
    <3>1. u # t /\ u \in Threads
      BY <1>5, <1>8, <2>1
    <3>2. work[u].at # "start" /\ HasClient(u)
      BY <1>1, <1>8, <1>13, <2>1, <3>1
    <3>3. work[u].from = FromOf(u) /\ work[u].to = ToOf(u)
      BY <3>2 DEF SocketInv
    <3> QED  BY <1>14, <3>1, <3>2, <3>3
  <2>2. ASSUME NEW u \in Workers, HasClient(u)', work'[u].at \in BeforeRemote, work'[u].func = "process" PROVE ToOf(u)' = Null
    <3>1. u # t /\ u # it /\ u \in Threads
      BY <1>5, <1>8, <2>2 DEF BeforeRemote
    <3>2. HasClient(u) /\ ToOf(u) = Null
      BY <1>8, <1>13, <2>2, <3>1 DEF SocketInv
    <3> QED  BY <1>14, <3>1, <3>2
  <2>3. ASSUME NEW n \in DOMAIN node', node'[n].fd \in ClientFds
        PROVE  node'[n].thread_ptr \in Workers /\ node'[n].fd \in {work'[node'[n].thread_ptr].from, work'[node'[n].thread_ptr].to}
    <3>1. node[n].thread_ptr \in Workers /\ node[n].fd \in {work[node[n].thread_ptr].from, work[node[n].thread_ptr].to}
      BY <1>2, <2>3 DEF SocketInv
    <3>2. node[n].thread_ptr # t
      BY <1>2, <2>3 DEF ConnInv, EnvInv, NoDangling
    <3> QED  BY <1>2, <1>14, <2>3, <3>1, <3>2
  <2> QED  BY <2>1, <2>2, <2>3 DEF SocketInv
<1>16. FuncInv'
  <2> SUFFICES ASSUME NEW c \in DOMAIN client, NEW u \in Workers, work'[u].self = c
               PROVE  /\ u = client'[c].m_cothread => work'[u].func = "process"
                      /\ u = client'[c].m_trans_cothread1 => work'[u].func = "trans_func1"
                      /\ u = client'[c].m_trans_cothread2 => work'[u].func = "trans_func2"
    BY <1>7 DEF FuncInv
  <2>1. CASE u = t
    BY <1>2, <1>3, <1>5, <1>7, <1>8, <2>1
  <2>2. CASE u # t
    <3>1. u \in Threads /\ work[u].self = c /\ work'[u].func = work[u].func
      BY <1>14, <2>2
    <3> QED  BY <1>7, <2>2, <3>1 DEF FuncInv
  <2> QED  BY <2>1, <2>2
<1>17. ASSUME NEW c \in DOMAIN client PROVE Shape(c)'
  <2>1. ~AtRelay2(c)'
    BY <1>1, <1>2, <1>8 DEF AtRelay2
  <2>2. CASE c = Self
    BY <1>2, <1>3, <1>7, <2>1, <2>2 DEF Shape, ConnInv, EnvInv, EnvTypes
  <2>3. CASE c # Self
    <3>1. ~AtRelay2(c) /\ Shape(c)
      BY <1>1, <2>3 DEF AtRelay2, Self
    <3> QED  BY <1>7, <2>1, <2>3, <3>1 DEF Shape
  <2> QED  BY <2>2, <2>3
<1>18. DestructorInv'
  BY <1>1, <1>2, <1>8 DEF DestructorInv
<1>19. AliveInv'
  <2>1. RelaysShareSafely'
    BY <1>1, <1>2, <1>8 DEF RelaysShareSafely
  <2>2. HasClient(t)'
    BY <1>2, <1>3, <1>7, <1>11, <1>13 DEF HasClient
  <2>3. ASSUME NEW u \in Workers, u \in valid_cothreads' PROVE work'[u].at = "ended" \/ u \in cancel_list' \/ HasClient(u)'
    <3>1. CASE u # t /\ u # it
      BY <1>1, <1>2, <1>8, <1>13, <2>3, <3>1 DEF AliveInv
    <3> QED  BY <1>8, <2>2, <3>1
  <2>4. ~HasClient(it)'
    BY <1>1, <1>2, <1>3, <1>7, <1>8, <1>11 DEF HasClient, Self
  <2> QED  BY <1>1, <1>2, <2>1, <2>3, <2>4 DEF AliveInv
<1> QED  BY <1>7, <1>9, <1>10, <1>15, <1>16, <1>17, <1>18, <1>19

\* A client comes, with process for it.
LEMMA AcceptKeeps ==
  ASSUME ServerInv, NEW c \in Clients, NEW fd \in ClientFds \cup {Null}, NEW t \in ProcessTasks, Accept(c, fd, t)
  PROVE  ServerRest'
<1> USE ServerRuns, ClientTypes DEF ServerInv, ServerRest
<1>1. /\ pc = "run" /\ it = Listener /\ it \in Threads /\ it \in valid_cothreads /\ leaving = Null
      /\ work[it].at = "accepted" /\ work[it] \in Jobs /\ conn[it].at = "outside" /\ TaskInv(it)
      /\ UNCHANGED <<conn, timers>>
  BY DEF Accept
<1>2. /\ t \in Workers /\ t \in Threads /\ t # it /\ t \notin valid_cothreads \cup {leaving}
      /\ valid_cothreads' = valid_cothreads \cup {t} /\ add_list' = add_list \cup {t}
      /\ UNCHANGED <<node, cancel_list, leaving, pc, it>>
  BY <1>1, AddTaskStep DEF Accept, Workers
<1>3. PICK job : job = Task("process", c)
  OBVIOUS
<1>4. job \in Jobs /\ job.func = "process" /\ job.self = c /\ job.at = "start" /\ job.from = Null /\ job.to = Null
  BY <1>3, NoWorkFacts
<1>5. PICK d : d = NewClient(fd, t)
  OBVIOUS
<1>6. /\ d \in Members /\ d.m_socket = fd /\ d.m_remote_socket = Null /\ d.m_cothread = t
      /\ d.m_trans_cothread1 = Null /\ d.m_trans_cothread2 = Null
  BY <1>5 DEF NewClient, Members
<1>7. /\ c \notin DOMAIN client /\ DOMAIN client' = DOMAIN client \cup {c} /\ client'[c] = d
      /\ \A e \in DOMAIN client : e # c /\ client'[e] = client[e]
      /\ m_clients' = m_clients \cup {c}
  BY <1>5 DEF Accept, FreeAddress
<1>8. /\ \A u \in Threads \ {it, t} : work'[u] = work[u]
      /\ work'[t] = job
      /\ work'[it].func = work[it].func /\ work'[it].self = work[it].self /\ work'[it].at = "start"
      /\ work'[it].from = work[it].from /\ work'[it].to = work[it].to /\ work'[it] \in Jobs
      /\ work' \in [Threads -> Jobs]
  <2>1. work' = [work EXCEPT ![t] = job, ![it].at = "start"]
    BY <1>3 DEF Accept
  <2> QED  BY <1>1, <1>2, <1>4, <2>1 DEF SocksTypeOK, Jobs, ListenerPlaces
<1>9. SocksTypeOK'
  BY <1>6, <1>7, <1>8 DEF SocksTypeOK
<1>10. \A u \in Threads : TaskInv(u)'
  <2>1. \A u \in Threads \ {it, t} : TaskInv(u)'
    BY <1>1, <1>2, <1>8, OtherTask
  <2>2. TaskInv(t)'
    BY <1>1, <1>2, <1>3, <1>8, OtherTask
  <2>3. PlaceInv(it)' /\ CallInv(it)'
    BY <1>1, <1>2, <1>8 DEF PlaceInv, CallInv, ListenerPlaces
  <2>4. TaskInv(it)'
    BY <1>1, <1>2, <1>8, <2>3 DEF TaskInv, MemberPlaces
  <2> QED  BY <1>2, <2>1, <2>2, <2>4
<1>11. ServedBy(c)' = {t} /\ \A e \in DOMAIN client : ServedBy(e)' = ServedBy(e)
  BY <1>2, <1>6, <1>7 DEF ServedBy
<1>12. \A u \in Threads \ {t} : /\ HasClient(u) <=> HasClient(u)'
                                /\ HasClient(u) => FromOf(u)' = FromOf(u) /\ ToOf(u)' = ToOf(u)
                                /\ work'[u].from = work[u].from /\ work'[u].to = work[u].to /\ work'[u].func = work[u].func
                                /\ work'[u].self = work[u].self
  <2>1. \A u \in Threads \ {t} : /\ work'[u].from = work[u].from /\ work'[u].to = work[u].to /\ work'[u].func = work[u].func
                                 /\ work'[u].self = work[u].self
    BY <1>1, <1>8
  <2>2. ASSUME NEW u \in Threads \ {t} PROVE HasClient(u) <=> HasClient(u)'
    BY <1>7, <1>11, <2>1 DEF HasClient
  <2> QED  BY <1>7, <2>1, <2>2 DEF HasClient, FromOf, ToOf
<1>13. HasClient(t)' /\ ToOf(t)' = Null
  BY <1>4, <1>6, <1>7, <1>8, <1>11 DEF HasClient, ToOf
<1>14. SocketInv'
  <2>1. ASSUME NEW u \in Workers, HasClient(u)', work'[u].at # "start"
        PROVE  work'[u].from = FromOf(u)' /\ work'[u].to = ToOf(u)'
    <3>1. u # t /\ u \in Threads /\ u # it
      BY <1>1, <1>4, <1>8, <2>1
    <3>2. work[u].at # "start" /\ HasClient(u)
      BY <1>8, <1>12, <2>1, <3>1
    <3>3. work[u].from = FromOf(u) /\ work[u].to = ToOf(u)
      BY <3>2 DEF SocketInv
    <3> QED  BY <1>12, <3>1, <3>2, <3>3
  <2>2. ASSUME NEW u \in Workers, HasClient(u)', work'[u].at \in BeforeRemote, work'[u].func = "process" PROVE ToOf(u)' = Null
    <3>1. CASE u # t
      <4>1. HasClient(u) /\ work'[u] = work[u] /\ u \in Threads
        BY <1>1, <1>8, <1>12, <2>2, <3>1
      <4>2. ToOf(u) = Null
        BY <2>2, <4>1 DEF SocketInv
      <4> QED  BY <1>12, <3>1, <4>1, <4>2
    <3> QED  BY <1>13, <3>1
  <2>3. ASSUME NEW n \in DOMAIN node', node'[n].fd \in ClientFds
        PROVE  node'[n].thread_ptr \in Workers /\ node'[n].fd \in {work'[node'[n].thread_ptr].from, work'[node'[n].thread_ptr].to}
    <3>1. node[n].thread_ptr \in Workers /\ node[n].fd \in {work[node[n].thread_ptr].from, work[node[n].thread_ptr].to}
      BY <1>2, <2>3 DEF SocketInv
    <3>2. node[n].thread_ptr # t
      BY <1>2, <2>3 DEF ConnInv, EnvInv, NoDangling
    <3> QED  BY <1>2, <1>12, <2>3, <3>1, <3>2
  <2> QED  BY <2>1, <2>2, <2>3 DEF SocketInv
<1>15. FuncInv'
  <2> SUFFICES ASSUME NEW e \in DOMAIN client \cup {c}, NEW u \in Workers, work'[u].self = e
               PROVE  /\ u = client'[e].m_cothread => work'[u].func = "process"
                      /\ u = client'[e].m_trans_cothread1 => work'[u].func = "trans_func1"
                      /\ u = client'[e].m_trans_cothread2 => work'[u].func = "trans_func2"
    BY <1>7 DEF FuncInv
  <2>1. CASE e = c
    BY <1>4, <1>6, <1>7, <1>8, <2>1
  <2>2. CASE e # c
    <3>1. e \in DOMAIN client /\ client'[e] = client[e] /\ u # t /\ u \in Threads
      BY <1>4, <1>7, <1>8, <2>2
    <3>2. work[u].self = e /\ work'[u].func = work[u].func
      BY <1>12, <3>1
    <3> QED  BY <3>1, <3>2 DEF FuncInv
  <2> QED  BY <2>1, <2>2
<1>16. ASSUME NEW e \in DOMAIN client \cup {c} PROVE Shape(e)'
  <2>1. ~AtRelay2(e)' /\ ~AtRelay2(e)
    BY <1>1, <1>2, <1>8 DEF AtRelay2
  <2>2. CASE e = c
    BY <1>2, <1>6, <1>7, <2>1, <2>2 DEF Shape
  <2>3. CASE e # c
    BY <1>7, <2>1, <2>3 DEF Shape
  <2> QED  BY <2>2, <2>3
<1>17. DestructorInv'
  BY <1>1, <1>2, <1>8 DEF DestructorInv
<1>18. AliveInv'
  <2>1. RelaysShareSafely'
    BY <1>1, <1>2 DEF RelaysShareSafely
  <2>2. ASSUME NEW u \in Workers, u \in valid_cothreads' PROVE work'[u].at = "ended" \/ u \in cancel_list' \/ HasClient(u)'
    <3>1. CASE u # t
      BY <1>1, <1>2, <1>8, <1>12, <2>2, <3>1 DEF AliveInv
    <3> QED  BY <1>13, <3>1
  <2> QED  BY <1>1, <1>2, <1>8, <2>1, <2>2 DEF AliveInv
<1> QED  BY <1>7, <1>9, <1>10, <1>14, <1>15, <1>16, <1>17, <1>18 DEF SocksTypeOK

-----------------------------------------------------------------------------
(* The destructor, and the end of a task.                                  *)

\* A task of the client is cancelled, and the destructor goes to the next member.
LEMMA CancelKeeps ==
  ASSUME ServerInv, AddressesFitInt, NEW task \in {"m_cothread", "m_trans_cothread1"}, CancelsMember(task)
  PROVE  ServerRest'
<1> USE ServerRuns, ClientTypes DEF ServerInv, ServerRest
<1>1. /\ AtPlace(task) /\ pc = "run" /\ it \in Threads /\ it \in valid_cothreads /\ leaving = Null
      /\ work[it].at = task /\ work[it] \in Jobs /\ conn[it].at = "outside" /\ TaskInv(it)
      /\ UNCHANGED <<conn, timers, client, m_clients>> /\ GoesTo(NextMember[task])
  BY DEF CancelsMember
<1>2. /\ it \in Workers /\ HasClient(it) /\ Self \in DOMAIN client
      /\ \/ work[it].func = "process" \/ work[it].func \in Relays
  BY <1>1, WorkerPlaces DEF ListenerPlaces
<1>3. PICK id : id = client[Self][task]
  OBVIOUS
<1>4. /\ UNCHANGED <<node, leaving, pc, it, valid_cothreads, add_list>>
      /\ cancel_list' = cancel_list \cup ({id} \cap valid_cothreads)
  BY <1>1, <1>3, CancelsTaskStep DEF CancelsMember
<1>5. PICK p : p = NextMember[task]
  OBVIOUS
<1>6. /\ p = IF task = "m_cothread" THEN "m_trans_cothread1" ELSE "m_trans_cothread2"
      /\ id = IF task = "m_cothread" THEN client[Self].m_cothread ELSE client[Self].m_trans_cothread1
  BY <1>3, <1>5 DEF NextMember
<1>7. /\ \A u \in Threads \ {it} : work'[u] = work[u]
      /\ work'[it].func = work[it].func /\ work'[it].self = work[it].self /\ work'[it].at = p
      /\ work'[it].from = work[it].from /\ work'[it].to = work[it].to /\ work'[it] \in Jobs
      /\ work' \in [Threads -> Jobs]
  BY <1>1, <1>5, <1>6 DEF GoesTo, SocksTypeOK, Jobs, ProcessPlaces, EndPlaces, MemberPlaces
<1>8. SocksTypeOK'
  BY <1>1, <1>7 DEF SocksTypeOK
<1>9. \A u \in Threads : TaskInv(u)'
  <2>1. \A u \in Threads \ {it} : TaskInv(u)'
    BY <1>1, <1>4, <1>7, OtherTask
  <2>2. PlaceInv(it)' /\ CallInv(it)'
    BY <1>1, <1>2, <1>4, <1>6, <1>7 DEF PlaceInv, CallInv, ProcessPlaces, RelayPlaces, EndPlaces, MemberPlaces
  <2>3. TaskInv(it)'
    BY <1>1, <1>4, <1>6, <1>7, <2>2 DEF TaskInv, MemberPlaces
  <2> QED  BY <1>4, <2>1, <2>3
<1>10. \A u \in Threads : /\ work'[u].from = work[u].from /\ work'[u].to = work[u].to /\ work'[u].func = work[u].func
                          /\ work'[u].self = work[u].self
  BY <1>7
<1>11. \A u \in Threads : (HasClient(u)' <=> HasClient(u)) /\ FromOf(u)' = FromOf(u) /\ ToOf(u)' = ToOf(u)
  BY <1>1, <1>10 DEF HasClient, ServedBy, FromOf, ToOf
<1>12. SocketInv'
  <2>1. ASSUME NEW u \in Workers, HasClient(u)', work'[u].at # "start"
        PROVE  work'[u].from = FromOf(u)' /\ work'[u].to = ToOf(u)'
    <3>1. work[u].at # "start" /\ HasClient(u) /\ u \in Threads
      BY <1>1, <1>6, <1>7, <1>11, <2>1
    <3>2. work[u].from = FromOf(u) /\ work[u].to = ToOf(u)
      BY <3>1 DEF SocketInv
    <3> QED  BY <1>10, <1>11, <3>1, <3>2
  <2>2. ASSUME NEW u \in Workers, HasClient(u)', work'[u].at \in BeforeRemote, work'[u].func = "process" PROVE ToOf(u)' = Null
    <3>1. work'[u] = work[u] /\ HasClient(u) /\ u \in Threads
      BY <1>6, <1>7, <1>11, <2>2 DEF BeforeRemote
    <3>2. ToOf(u) = Null
      BY <2>2, <3>1 DEF SocketInv
    <3> QED  BY <1>11, <3>1, <3>2
  <2>3. ASSUME NEW n \in DOMAIN node', node'[n].fd \in ClientFds
        PROVE  node'[n].thread_ptr \in Workers /\ node'[n].fd \in {work'[node'[n].thread_ptr].from, work'[node'[n].thread_ptr].to}
    BY <1>4, <1>10, <2>3 DEF SocketInv
  <2> QED  BY <2>1, <2>2, <2>3 DEF SocketInv
<1>13. FuncInv'
  BY <1>1, <1>10 DEF FuncInv
<1>14. \A c \in DOMAIN client : Shape(c)'
  BY <1>1, <1>4, <1>6, <1>7 DEF Shape, AtRelay2
<1>15. DestructorInv'
  <2>1. client[Self].m_cothread \in valid_cothreads => client[Self].m_cothread \in cancel_list'
    BY <1>1, <1>2, <1>4, <1>6 DEF DestructorInv, Gone
  <2>2. p = "m_trans_cothread2" => (client[Self].m_trans_cothread1 \in valid_cothreads => client[Self].m_trans_cothread1 \in cancel_list')
    BY <1>4, <1>6
  <2>3. Self' = Self
    BY <1>1, <1>4, <1>7 DEF Self
  <2> QED  BY <1>1, <1>4, <1>7, <2>1, <2>2, <2>3 DEF DestructorInv, Gone
<1>16. AliveInv'
  <2>1. RelaysShareSafely'
    BY <1>1, <1>2, <1>4, <1>7, <1>11 DEF RelaysShareSafely, HasClient, Self, ServedBy
  <2>2. \A u \in Workers \cap valid_cothreads' : work'[u].at = "ended" \/ u \in cancel_list' \/ HasClient(u)'
    BY <1>2, <1>4, <1>7, <1>11 DEF AliveInv
  <2> QED  BY <1>1, <1>4, <1>6, <1>7, <2>1, <2>2 DEF AliveInv
<1> QED  BY <1>1, <1>8, <1>9, <1>12, <1>13, <1>14, <1>15, <1>16

\* The last task is cancelled and the client is gone.
LEMMA DeletedKeeps ==
  ASSUME ServerInv, AddressesFitInt, Deleted
  PROVE  ServerRest'
<1> USE ServerRuns, ClientTypes DEF ServerInv, ServerRest
<1>1. /\ AtPlace("m_trans_cothread2") /\ pc = "run" /\ it \in Threads /\ it \in valid_cothreads /\ leaving = Null
      /\ work[it].at = "m_trans_cothread2" /\ work[it] \in Jobs /\ conn[it].at = "outside" /\ TaskInv(it)
      /\ UNCHANGED <<conn, timers>> /\ GoesTo("ended")
  BY DEF Deleted
<1>2. PICK c : c = Self
  OBVIOUS
<1>3. /\ it \in Workers /\ HasClient(it) /\ c \in DOMAIN client /\ work[it].self = c
      /\ \/ work[it].func = "process" \/ work[it].func \in Relays
  BY <1>1, <1>2, WorkerPlaces DEF ListenerPlaces, Self
<1>4. /\ UNCHANGED <<node, leaving, pc, it, valid_cothreads, add_list>>
      /\ cancel_list' = cancel_list \cup ({client[c].m_trans_cothread2} \cap valid_cothreads)
  BY <1>1, <1>2, CancelsTaskStep DEF Deleted
<1>5. /\ DOMAIN client' = DOMAIN client \ {c} /\ (\A d \in DOMAIN client' : client'[d] = client[d])
      /\ m_clients' = m_clients \ {c}
  BY <1>2 DEF Deleted
<1>6. /\ \A u \in Threads \ {it} : work'[u] = work[u]
      /\ work'[it].func = work[it].func /\ work'[it].self = work[it].self /\ work'[it].at = "ended"
      /\ work'[it].from = work[it].from /\ work'[it].to = work[it].to /\ work'[it] \in Jobs
      /\ work' \in [Threads -> Jobs]
  BY <1>1 DEF GoesTo, SocksTypeOK, Jobs, ProcessPlaces, EndPlaces
<1>7. SocksTypeOK'
  BY <1>5, <1>6 DEF SocksTypeOK
<1>8. \A u \in Threads : TaskInv(u)'
  <2>1. \A u \in Threads \ {it} : TaskInv(u)'
    BY <1>1, <1>4, <1>6, OtherTask
  <2>2. PlaceInv(it)' /\ CallInv(it)'
    BY <1>1, <1>3, <1>4, <1>6 DEF PlaceInv, CallInv, ProcessPlaces, RelayPlaces, EndPlaces
  <2>3. TaskInv(it)'
    BY <1>1, <1>4, <1>6, <2>2 DEF TaskInv, MemberPlaces
  <2> QED  BY <1>4, <2>1, <2>3
<1>9. \A u \in Threads : /\ work'[u].from = work[u].from /\ work'[u].to = work[u].to /\ work'[u].func = work[u].func
                         /\ work'[u].self = work[u].self
  BY <1>6
<1>10. /\ \A d \in DOMAIN client' : ServedBy(d)' = ServedBy(d)
       /\ \A u \in Threads : /\ HasClient(u)' <=> HasClient(u) /\ work[u].self # c
                             /\ HasClient(u)' => FromOf(u)' = FromOf(u) /\ ToOf(u)' = ToOf(u)
  <2>1. \A d \in DOMAIN client' : ServedBy(d)' = ServedBy(d)
    BY <1>5 DEF ServedBy
  <2>2. \A u \in Threads : HasClient(u)' <=> HasClient(u) /\ work[u].self # c
    BY <1>5, <1>9, <2>1 DEF HasClient
  <2>3. \A u \in Threads : HasClient(u)' => FromOf(u)' = FromOf(u) /\ ToOf(u)' = ToOf(u)
    BY <1>5, <1>9 DEF HasClient, FromOf, ToOf
  <2> QED  BY <2>1, <2>2, <2>3
<1>11. SocketInv'
  <2>1. ASSUME NEW u \in Workers, HasClient(u)', work'[u].at # "start"
        PROVE  work'[u].from = FromOf(u)' /\ work'[u].to = ToOf(u)'
    <3>1. work[u].at # "start" /\ HasClient(u) /\ u \in Threads
      BY <1>1, <1>6, <1>10, <2>1
    <3>2. work[u].from = FromOf(u) /\ work[u].to = ToOf(u)
      BY <3>1 DEF SocketInv
    <3> QED  BY <1>9, <1>10, <2>1, <3>1, <3>2
  <2>2. ASSUME NEW u \in Workers, HasClient(u)', work'[u].at \in BeforeRemote, work'[u].func = "process" PROVE ToOf(u)' = Null
    <3>1. work'[u] = work[u] /\ HasClient(u) /\ u \in Threads
      BY <1>6, <1>10, <2>2 DEF BeforeRemote
    <3>2. ToOf(u) = Null
      BY <2>2, <3>1 DEF SocketInv
    <3> QED  BY <1>10, <2>2, <3>1, <3>2
  <2>3. ASSUME NEW n \in DOMAIN node', node'[n].fd \in ClientFds
        PROVE  node'[n].thread_ptr \in Workers /\ node'[n].fd \in {work'[node'[n].thread_ptr].from, work'[node'[n].thread_ptr].to}
    BY <1>4, <1>9, <2>3 DEF SocketInv
  <2> QED  BY <2>1, <2>2, <2>3 DEF SocketInv
<1>12. FuncInv'
  BY <1>5, <1>9 DEF FuncInv
<1>13. \A d \in DOMAIN client' : Shape(d)'
  BY <1>1, <1>4, <1>5, <1>6 DEF Shape, AtRelay2
<1>14. DestructorInv'
  BY <1>1, <1>4, <1>6 DEF DestructorInv
<1>15. AliveInv'
  <2>1. RelaysShareSafely'
    BY <1>1, <1>4, <1>6 DEF RelaysShareSafely
  <2>2. ASSUME NEW u \in Workers, u \in valid_cothreads' PROVE work'[u].at = "ended" \/ u \in cancel_list' \/ HasClient(u)'
    <3>1. CASE u # it /\ HasClient(u) /\ work[u].self = c
      <4>1. u \in {client[c].m_cothread, client[c].m_trans_cothread1, client[c].m_trans_cothread2}
        BY <3>1 DEF HasClient, ServedBy
      <4>2. Gone(client[c].m_cothread) /\ Gone(client[c].m_trans_cothread1)
        BY <1>1, <1>2, <1>3 DEF DestructorInv
      <4> QED  BY <1>4, <2>2, <4>1, <4>2 DEF Gone
    <3>2. CASE u # it /\ ~(HasClient(u) /\ work[u].self = c)
      BY <1>4, <1>6, <1>10, <2>2, <3>2 DEF AliveInv
    <3> QED  BY <1>6, <3>1, <3>2
  <2>3. ~HasClient(it)'
    BY <1>3, <1>4, <1>5, <1>6 DEF HasClient
  <2> QED  BY <1>1, <1>4, <2>1, <2>2, <2>3 DEF AliveInv
<1> QED  BY <1>5, <1>7, <1>8, <1>11, <1>12, <1>13, <1>14, <1>15 DEF SocksTypeOK

LEMMA EndedKeeps ==
  ASSUME ServerInv, Ended
  PROVE  ServerRest'
<1> USE ServerRuns, ClientTypes DEF ServerInv, ServerRest
<1>1. /\ pc = "run" /\ it \in Threads /\ it \in valid_cothreads /\ leaving = Null /\ work[it].at = "ended"
      /\ it \in Workers /\ conn[it].at = "outside" /\ TaskInv(it)
  BY WorkerPlaces DEF Ended, ListenerPlaces
<1>2. /\ valid_cothreads' = valid_cothreads \ {it} /\ leaving' = it /\ pc' = "process"
      /\ UNCHANGED <<node, cancel_list, add_list, it>>
  BY DEF Ended, Finish, RemoveCoThread, CancelCoThread, registry
<1>3. UNCHANGED <<conn, client, m_clients, work>>
  BY DEF Ended, serverVars
<1>4. SocksTypeOK'
  BY <1>3 DEF SocksTypeOK
<1>5. \A u \in Threads : TaskInv(u)'
  <2>1. ASSUME NEW u \in Threads \ {it} PROVE TaskInv(u)'
    BY <1>1, <1>2, <1>3, OtherTask
  <2>2. PlaceInv(it)' /\ CallInv(it)'
    BY <1>1, <1>2, <1>3 DEF TaskInv, PlaceInv, CallInv
  <2>3. TaskInv(it)'
    BY <1>1, <1>2, <1>3, <2>2 DEF TaskInv, MemberPlaces
  <2> QED  BY <1>2, <2>1, <2>3
<1>6. \A u \in Threads : (HasClient(u)' <=> HasClient(u)) /\ FromOf(u)' = FromOf(u) /\ ToOf(u)' = ToOf(u)
  BY <1>3 DEF HasClient, ServedBy, FromOf, ToOf
<1>7. SocketInv'
  BY <1>2, <1>3, <1>6 DEF SocketInv
<1>8. FuncInv' /\ DestructorInv'
  BY <1>2, <1>3 DEF FuncInv, DestructorInv
<1>9. \A c \in DOMAIN client' : Shape(c)'
  BY <1>1, <1>2, <1>3 DEF Shape, AtRelay2
<1>10. AliveInv'
  BY <1>2, <1>3, <1>6 DEF AliveInv, RelaysShareSafely
<1> QED  BY <1>3, <1>4, <1>5, <1>7, <1>8, <1>9, <1>10

-----------------------------------------------------------------------------
(* The scheduler, and the rest: the listener is added before loop(), and   *)
(* the world goes on.                                                      *)

LEMMA ScheduleKeeps ==
  ASSUME ServerInv, ConnInv', ServerSchedule
  PROVE  ServerRest'
<1> USE ClientTypes DEF ServerInv, ServerRest
<1> DEFINE exists(t) == t \in valid_cothreads' \cup {leaving'}
<1>1. /\ \A t \in Threads : exists(t) => conn'[t] = conn[t] /\ work'[t] = work[t]
      /\ \A t \in Threads : ~exists(t) => conn'[t] = Outside /\ work'[t] = NoWork
      /\ UNCHANGED <<client, m_clients>>
  BY DEF ServerSchedule
<1>2. SocksTypeOK'
  BY NoWorkFacts DEF ServerSchedule, SocksTypeOK
<1>3. Loop \/ CallLoop
  BY DEF ServerSchedule
<1>4. /\ valid_cothreads' \subseteq valid_cothreads
      /\ \A t \in valid_cothreads \ valid_cothreads' : t \in cancel_list
      /\ \A t \in Threads : exists(t) => t \in valid_cothreads \cup {leaving}
      /\ cancel_list' = cancel_list \/ (cancel_list' = {} /\ valid_cothreads \cap cancel_list = {})
      /\ pc = "run" => pc' = "run" /\ UNCHANGED <<it, valid_cothreads, cancel_list>>
      /\ pc' = "run" /\ pc # "run" => it' \notin cancel_list /\ UNCHANGED <<valid_cothreads, cancel_list>>
      /\ pc' \in {"main", "check", "events"} => cancel_list' = {}
      /\ pc' = "sweep" => add_list' = {}
  BY <1>3, LoopLists DEF AliveInv, ConnInv
<1>5. pc' = "run" => it' \in Threads /\ it' \in valid_cothreads'
  BY DEF ConnInv, EnvInv, Control, NoDangling
<1>6. ASSUME NEW t \in Threads PROVE TaskInv(t)'
  <2>1. TaskInv(t)
    OBVIOUS
  <2>2. CASE exists(t)
    <3>1. PlaceInv(t)' /\ CallInv(t)'
      BY <1>1, <2>1, <2>2 DEF TaskInv, PlaceInv, CallInv, FdOf
    <3> QED  BY <1>1, <1>4, <2>1, <2>2, <3>1 DEF TaskInv
  <2>3. CASE ~exists(t)
    <3>1. conn'[t].at = "outside" /\ work'[t].at = "start" /\ work'[t].from = Null /\ work'[t].to = Null
            /\ work'[t].self = Null
      BY <1>1, <2>3, NoWorkFacts DEF Outside
    <3> QED  BY <1>1, <2>3, <3>1 DEF TaskInv, PlaceInv, CallInv, ListenerPlaces, MemberPlaces
  <2> QED  BY <2>2, <2>3
<1>7. \A t \in Threads : ~exists(t) => work'[t].self \notin DOMAIN client
  BY <1>1 DEF NoWork
<1>8. \A c \in DOMAIN client : ServedBy(c)' = ServedBy(c)
  BY <1>1 DEF ServedBy
<1>9. \A t \in Threads : /\ IF exists(t) THEN HasClient(t)' <=> HasClient(t) ELSE ~HasClient(t)'
                         /\ exists(t) => FromOf(t)' = FromOf(t) /\ ToOf(t)' = ToOf(t)
  BY <1>1, <1>7, <1>8 DEF HasClient, FromOf, ToOf
<1>10. SocketInv'
  <2>1. ASSUME NEW t \in Workers, HasClient(t)'
        PROVE  /\ work'[t].at # "start" => work'[t].from = FromOf(t)' /\ work'[t].to = ToOf(t)'
               /\ work'[t].at \in BeforeRemote /\ work'[t].func = "process" => ToOf(t)' = Null
    <3>1. exists(t) /\ t \in Threads /\ work'[t] = work[t] /\ HasClient(t)
      BY <1>1, <1>9, <2>1
    <3> QED  BY <1>9, <3>1 DEF SocketInv
  <2>2. ASSUME NEW n \in DOMAIN node', node'[n].fd \in ClientFds
        PROVE  node'[n].thread_ptr \in Workers /\ node'[n].fd \in {work'[node'[n].thread_ptr].from, work'[node'[n].thread_ptr].to}
    <3>1. n \in DOMAIN node /\ node'[n] = node[n]
      BY <1>3, LoopShrinks DEF NodesShrink, ConnInv
    <3>2. exists(node'[n].thread_ptr)
      BY DEF ConnInv, EnvInv, NoDangling
    <3> QED  BY <1>1, <2>2, <3>1, <3>2 DEF SocketInv
  <2> QED  BY <2>1, <2>2 DEF SocketInv
<1>11. FuncInv'
  <2> SUFFICES ASSUME NEW c \in DOMAIN client, NEW u \in Workers, work'[u].self = c
               PROVE  /\ u = client[c].m_cothread => work'[u].func = "process"
                      /\ u = client[c].m_trans_cothread1 => work'[u].func = "trans_func1"
                      /\ u = client[c].m_trans_cothread2 => work'[u].func = "trans_func2"
    BY <1>1 DEF FuncInv
  <2>1. exists(u) /\ work'[u] = work[u]
    BY <1>1, <1>7
  <2> QED  BY <2>1 DEF FuncInv
<1>12. pc' = "run" /\ work'[it'].at \in MemberPlaces \cup {"relay2"} => pc = "run" /\ it' = it
  <2> SUFFICES ASSUME pc' = "run", work'[it'].at \in MemberPlaces \cup {"relay2"} PROVE pc = "run" /\ it' = it
    OBVIOUS
  <2>1. work'[it'] = work[it'] /\ it' \in Threads
    BY <1>1, <1>5
  <2> QED  BY <2>1 DEF TaskInv
<1>13. pc = "run" => pc' = "run" /\ it' = it /\ work'[it] = work[it]
  BY <1>1, <1>4, <1>5
<1>14. ASSUME NEW c \in DOMAIN client PROVE Shape(c)'
  <2>1. AtRelay2(c)' <=> AtRelay2(c)
    BY <1>12, <1>13 DEF AtRelay2
  <2>2. AtRelay2(c) => UNCHANGED <<valid_cothreads, it>>
    BY <1>4 DEF AtRelay2
  <2> QED  BY <1>1, <2>1, <2>2 DEF Shape
<1>15. DestructorInv'
  <2>1. CASE pc' = "run" /\ work'[it'].at \in MemberPlaces
    <3>1. pc = "run" /\ it' = it /\ work'[it] = work[it] /\ UNCHANGED <<valid_cothreads, cancel_list, client>>
      BY <1>1, <1>4, <1>12, <1>13, <2>1
    <3> QED  BY <3>1 DEF DestructorInv, Gone, Self
  <2>2. CASE ~(pc' = "run" /\ work'[it'].at \in MemberPlaces)
    BY <2>2 DEF DestructorInv, MemberPlaces
  <2> QED  BY <2>1, <2>2
<1>16. \A t \in Workers \cap valid_cothreads' : work'[t].at = "ended" \/ t \in cancel_list' \/ HasClient(t)'
  BY <1>1, <1>4, <1>9 DEF AliveInv
<1>17. RelaysShareSafely'
  <2>1. CASE pc' = "run" /\ it' \in Workers /\ work'[it'].at # "ended"
    <3>1. PICK i \in Threads : i = it'
      BY <1>5, <2>1
    <3>2. exists(i) /\ i \in valid_cothreads /\ work'[i] = work[i] /\ i \in Workers /\ work[i].at # "ended"
      BY <1>1, <1>4, <1>5, <2>1, <3>1
    <3>3. HasClient(i)
      <4>1. CASE pc = "run"
        BY <1>13, <3>1, <3>2, <4>1 DEF AliveInv, RelaysShareSafely, HasClient, Self
      <4>2. CASE pc # "run"
        BY <1>4, <2>1, <3>1, <3>2, <4>2 DEF AliveInv
      <4> QED  BY <4>1, <4>2
    <3>4. work'[i].self \in DOMAIN client' /\ i \in {client'[work'[i].self].m_cothread,
            client'[work'[i].self].m_trans_cothread1, client'[work'[i].self].m_trans_cothread2} \ {Null}
      BY <1>1, <3>2, <3>3 DEF HasClient, ServedBy
    <3> HIDE DEF ServerInv, ServerRest
    <3> QED  BY <3>1, <3>4 DEF RelaysShareSafely, Self, ServedBy
  <2>2. CASE ~(pc' = "run" /\ it' \in Workers /\ work'[it'].at # "ended")
    BY <2>2 DEF RelaysShareSafely
  <2> QED  BY <2>1, <2>2
<1>18. ASSUME pc' = "run", work'[it'].at = "ended" PROVE ~HasClient(it)'
  <2>1. exists(it') /\ it' \in Threads /\ it' \in valid_cothreads
    BY <1>4, <1>5, <1>18
  <2>2. pc = "run" /\ it' = it /\ work[it].at = "ended"
    BY <1>1, <1>18, <2>1, ClientTypes DEF TaskInv
  <2> QED  BY <1>9, <2>1, <2>2 DEF AliveInv
<1> QED  BY <1>1, <1>2, <1>4, <1>6, <1>8, <1>10, <1>11, <1>14, <1>15, <1>16, <1>17, <1>18 DEF AliveInv

LEMMA StartsKeeps ==
  ASSUME ServerInv, ServerStarts
  PROVE  ServerRest'
<1> USE ClientTypes DEF ServerInv, ServerRest
<1>1. /\ pc = "main" /\ Listener \notin valid_cothreads \cup {leaving} /\ valid_cothreads' = valid_cothreads \cup {Listener}
      /\ UNCHANGED <<node, leaving, cancel_list, pc, it, conn, client, m_clients, work>>
  BY AddTaskStep DEF ServerStarts, serverVars
<1>2. SocksTypeOK' /\ SocketInv' /\ FuncInv' /\ DestructorInv'
  BY <1>1 DEF SocksTypeOK, SocketInv, FuncInv, DestructorInv, HasClient, ServedBy, FromOf, ToOf, Gone
<1>3. ASSUME NEW u \in Threads PROVE TaskInv(u)'
  <2>1. TaskInv(u)
    OBVIOUS
  <2>2. PlaceInv(u)' /\ CallInv(u)'
    BY <1>1, <2>1 DEF TaskInv, PlaceInv, CallInv, FdOf
  <2>3. u = Listener => work[u].at # "ended"
    BY <2>1 DEF TaskInv, PlaceInv, ListenerPlaces
  <2> QED  BY <1>1, <2>1, <2>2, <2>3 DEF TaskInv
<1>4. \A c \in DOMAIN client : Shape(c)'
  BY <1>1 DEF Shape, AtRelay2
<1>5. AliveInv'
  BY <1>1 DEF AliveInv, RelaysShareSafely, HasClient, ServedBy
<1> QED  BY <1>1, <1>2, <1>3, <1>4, <1>5

LEMMA WorldKeeps ==
  ASSUME ServerInv,
         Connects \/ UNCHANGED socksVars \/ \E fd \in ClientFds, bits \in SUBSET AllBits : Stirs(fd, bits)
  PROVE  ServerRest'
<1> USE DEF ServerInv, ServerRest
<1>1. UNCHANGED <<client, m_clients, work, conn, node, valid_cothreads, cancel_list, add_list, leaving, pc, it>>
  BY DEF Connects, Stirs, Environment, socksVars, serverVars, connVars, vars, managerVars, registry, walk, lists
<1>2. SocksTypeOK' /\ SocketInv' /\ FuncInv'
  BY <1>1 DEF SocksTypeOK, SocketInv, FuncInv, HasClient, ServedBy, FromOf, ToOf
<1>3. DestructorInv' /\ AliveInv'
  BY <1>1 DEF DestructorInv, Gone, AliveInv, RelaysShareSafely, HasClient, ServedBy, Self
<1>4. \A t \in Threads : TaskInv(t)'
  BY <1>1 DEF TaskInv, PlaceInv, CallInv, FdOf
<1>5. \A c \in DOMAIN client : Shape(c)'
  BY <1>1 DEF Shape, AtRelay2
<1> QED  BY <1>1, <1>2, <1>3, <1>4, <1>5

LEMMA SocksStepInv ==
  ASSUME ServerInv, AddressesFitInt, [SocksNext]_socksVars
  PROVE  ServerInv' /\ [Next]_vars
<1>1. ConnInv' /\ [Next]_vars
  BY SocksStepConn, EnvStepKeeps DEF ServerInv
<1>2. ASSUME ListenStep PROVE ServerRest'
  BY <1>2, ListenerKeeps, AcceptKeeps DEF ListenStep
<1>3. ASSUME WorkStep PROVE ServerRest'
  BY <1>3, OpensKeeps, CallsKeep, WayKeeps, OpensRemoteKeeps, AddsRelay1Keeps, AddsRelay2Keeps, CancelKeeps, DeletedKeeps,
     EndedKeeps DEF WorkStep
<1> QED  BY <1>1, <1>2, <1>3, StartsKeeps, ScheduleKeeps, WorldKeeps DEF SocksNext, ServerInv

LEMMA SocksInvariant == AddressesFitInt => (SocksSpec => []ServerInv)
<1> SUFFICES ASSUME AddressesFitInt PROVE SocksSpec => []ServerInv
  OBVIOUS
<1>1. ServerInv /\ [SocksNext]_socksVars => ServerInv'
  BY SocksStepInv
<1> QED  BY <1>1, SocksInitInv, PTL DEF SocksSpec

-----------------------------------------------------------------------------
\* The state of the server is well typed, and m_clients is the set of its clients.
THEOREM SocksTypesOK == AddressesFitInt => (SocksSpec => []SocksTypeOK)
<1>1. ServerInv => SocksTypeOK
  BY DEF ServerInv, ServerRest
<1> QED  BY <1>1, SocksInvariant, PTL

\* The server calls the scheduler as CoEnv assumes: what is proved of CoEnv holds
\* under the server.
THEOREM SocksUsesCoEnv == AddressesFitInt => (SocksSpec => UsesCoEnv)
<1> SUFFICES ASSUME AddressesFitInt PROVE SocksSpec => UsesCoEnv
  OBVIOUS
<1>1. SocksInit => Init
  BY DEF SocksInit, ConnInit
<1>2. ServerInv /\ [SocksNext]_socksVars => [Next]_vars
  BY SocksStepInv
<1> QED  BY <1>1, <1>2, SocksInvariant, PTL DEF SocksSpec, UsesCoEnv, Spec

\* So no task of the server is forgotten or touched after its end, a cancelled task is
\* gone after the turn, and whoever is woken is woken by an event of its own.
THEOREM SocksSchedulerSafe ==
  AddressesFitInt => (SocksSpec => [](ListsPartition /\ NoDangling) /\ CancelTakesEffect /\ WokenByItsEvent)
<1> QED
  BY SocksUsesCoEnv, ListsAlwaysPartition, NeverDangling, CancelAlwaysTakesEffect, AlwaysWokenByItsEvent, PTL
  DEF UsesCoEnv

\* A task that runs has the client that it was given, however many clients come,
\* connect, fail and are deleted by whichever relay is first (socks5_client.cpp:185,
\* 205): the destructor has cancelled every other task of the client, also when
\* addresses of tasks and clients are used again.
THEOREM RelaysAlwaysShareSafely == AddressesFitInt => (SocksSpec => []RelaysShareSafely)
<1>1. ServerInv => RelaysShareSafely
  BY DEF ServerInv, ServerRest, AliveInv
<1> QED  BY <1>1, SocksInvariant, PTL

\* Whenever the loop waits nobody is cancelled or ended, and every task of a client
\* has its client.
LEMMA WhenWaiting ==
  ASSUME ServerInv, pc = "check", NEW t \in Workers, t \in valid_cothreads
  PROVE  HasClient(t) /\ work[t].at # "ended"
<1>1. work[t].at # "ended"
  BY ClientTypes DEF ServerInv, ServerRest, TaskInv
<1> QED  BY <1>1 DEF ServerInv, ServerRest, AliveInv

\* Whenever the loop waits, the events on sockets are those of the clients that have
\* these sockets now, although the destructor closes a socket first and cancels the
\* tasks that wait for it then (socks5_client.cpp:162-174).
THEOREM EventsAlwaysFollowSockets == AddressesFitInt => (SocksSpec => []EventsFollowSockets)
<1>1. ServerInv => EventsFollowSockets
  <2> SUFFICES ASSUME ServerInv, pc = "check", NEW n \in DOMAIN node, node[n].fd \in ClientFds
               PROVE  \E c \in m_clients : /\ node[n].thread_ptr \in ServedBy(c)
                                           /\ node[n].fd \in {client[c].m_socket, client[c].m_remote_socket}
    BY DEF EventsFollowSockets
  <2> USE ClientTypes DEF ServerInv, ServerRest
  <2>1. PICK t \in Workers : t = node[n].thread_ptr /\ node[n].fd \in {work[t].from, work[t].to}
    BY DEF SocketInv
  <2>2. t \in valid_cothreads /\ t \in Threads
    BY <2>1, NullAssumption DEF ConnInv, EnvInv, NoDangling, Control, ManagerIdle
  <2>3. HasClient(t)
    BY <2>2, WhenWaiting
  <2>4. work[t].from = FromOf(t) /\ work[t].to = ToOf(t)
    BY <2>1, <2>2, <2>3 DEF SocketInv, TaskInv
  <2>5. PICK c : c = work[t].self
    OBVIOUS
  <2>6. c \in m_clients /\ t \in ServedBy(c) /\ node[n].fd \in {client[c].m_socket, client[c].m_remote_socket}
    BY <2>1, <2>3, <2>4, <2>5 DEF HasClient, FromOf, ToOf, SocksTypeOK
  <2> QED  BY <2>1, <2>6
<1> QED  BY <1>1, SocksInvariant, PTL

\* Whenever the loop waits, every handover and every deletion is complete: a client
\* names process or both its relays, and a task works for a client that names it in
\* the member of its function (socks5_client.cpp:109-112, 162-174).
THEOREM AlwaysHandedOver == AddressesFitInt => (SocksSpec => []HandedOver)
<1>1. ServerInv => HandedOver
  <2> SUFFICES ASSUME ServerInv, pc = "check" PROVE HandedOver
    BY DEF HandedOver
  <2> USE ClientTypes DEF ServerInv, ServerRest
  <2>1. m_clients = DOMAIN client
    BY DEF SocksTypeOK
  <2>2. ASSUME NEW c \in m_clients
        PROVE  /\ client[c].m_cothread = Null <=> client[c].m_trans_cothread1 # Null
               /\ client[c].m_trans_cothread1 = Null <=> client[c].m_trans_cothread2 = Null
    BY <2>1, <2>2 DEF Shape, AtRelay2
  <2>3. ASSUME NEW t \in Workers \cap valid_cothreads
        PROVE  work[t].self \in m_clients /\ client[work[t].self][MemberOf[work[t].func]] = t
    <3>1. PICK c : c = work[t].self
      OBVIOUS
    <3>2. c \in DOMAIN client /\ t \in ServedBy(c)
      BY <3>1, WhenWaiting DEF HasClient
    <3>3. /\ t = client[c].m_cothread => work[t].func = "process"
          /\ t = client[c].m_trans_cothread1 => work[t].func = "trans_func1"
          /\ t = client[c].m_trans_cothread2 => work[t].func = "trans_func2"
      BY <3>1, <3>2 DEF FuncInv
    <3> QED  BY <2>1, <3>1, <3>2, <3>3 DEF ServedBy, MemberOf
  <2> QED  BY <2>1, <2>2, <2>3 DEF HandedOver
<1> QED  BY <1>1, SocksInvariant, PTL

-----------------------------------------------------------------------------
(* ClientsKeepTasks: a task ends only when its client is deleted.          *)

KeepTasks ==
  \A c \in m_clients' : \A t \in ServedBy(c)' :
    \/ Serves(t, c)'
    \/ c \in m_clients /\ t \in ServedBy(c) /\ ~Serves(t, c)
    \/ t \in cancel_list

\* Whom a client takes on works for it, and a task that goes is cancelled or has no
\* client.
LEMMA TasksStay ==
  ASSUME ServerInv,
         \A c \in m_clients' : \A t \in ServedBy(c)' : Serves(t, c)' \/ (c \in m_clients /\ t \in ServedBy(c)),
         \A t \in Workers \cap valid_cothreads :
           (t \in valid_cothreads' /\ work'[t].self = work[t].self) \/ t \in cancel_list \/ ~HasClient(t)
  PROVE  KeepTasks
<1> SUFFICES ASSUME NEW c \in m_clients, NEW t \in ServedBy(c), Serves(t, c)
             PROVE  Serves(t, c)' \/ t \in cancel_list
  BY DEF KeepTasks
<1>1. t \in Workers /\ HasClient(t)
  BY ClientTypes DEF Serves, HasClient, ServerInv, ServerRest, SocksTypeOK
<1> QED  BY <1>1 DEF Serves

\* The running task takes on t for its client.
LEMMA RelayServes ==
  ASSUME ServerInv, NEW t \in RelayTasks, AddTask(t), NEW self, self = Self, self \in DOMAIN client,
         it \in Threads, t # it, NEW func, NEW p, work' = [work EXCEPT ![t] = Task(func, self), ![it].at = p],
         m_clients' = m_clients, DOMAIN client' = DOMAIN client,
         \A c \in DOMAIN client : c # self => client'[c] = client[c],
         ServedBy(self)' \subseteq ServedBy(self) \cup {t}
  PROVE  KeepTasks
<1>1. SocksTypeOK
  BY DEF ServerInv, ServerRest
<1>2. t \notin valid_cothreads /\ valid_cothreads' = valid_cothreads \cup {t} /\ t \in Threads
  BY SocksAssumption DEF AddTask
<1>3. work'[t].self = self /\ \A u \in Threads : u # t => work'[u].self = work[u].self
  BY <1>1, <1>2 DEF SocksTypeOK, Jobs, Task, NoWork
<1>4. Serves(t, self)'
  BY <1>2, <1>3 DEF Serves
<1>5. \A c \in DOMAIN client : c # self => ServedBy(c)' = ServedBy(c)
  BY DEF ServedBy
<1>6. \A u \in Workers \cap valid_cothreads : u \in valid_cothreads' /\ work'[u].self = work[u].self
  BY <1>2, <1>3, ClientTypes, <1>1
<1>7. \A c \in m_clients' : \A u \in ServedBy(c)' : Serves(u, c)' \/ (c \in m_clients /\ u \in ServedBy(c))
  <2> SUFFICES ASSUME NEW c \in m_clients', NEW u \in ServedBy(c)'
               PROVE  Serves(u, c)' \/ (c \in m_clients /\ u \in ServedBy(c))
    OBVIOUS
  <2>1. c \in m_clients /\ c \in DOMAIN client
    BY <1>1 DEF SocksTypeOK
  <2>2. CASE c = self
    BY <1>4, <2>1, <2>2
  <2>3. CASE c # self
    BY <1>5, <2>1, <2>3
  <2> QED  BY <2>2, <2>3
<1> QED  BY <1>6, <1>7, TasksStay

LEMMA TasksKept ==
  ASSUME ServerInv, AddressesFitInt, [SocksNext]_socksVars
  PROVE  KeepTasks
<1> USE ClientTypes DEF ServerInv, ServerRest
<1>1. ASSUME UNCHANGED <<client, m_clients, valid_cothreads>>,
             work' = work \/ \E p : GoesTo(p)
      PROVE  KeepTasks
  <2>1. \A t \in Workers : work'[t].self = work[t].self
    BY <1>1 DEF GoesTo, SocksTypeOK, Jobs
  <2>2. \A c \in DOMAIN client : ServedBy(c)' = ServedBy(c)
    BY <1>1 DEF ServedBy
  <2> QED  BY <1>1, <2>1, <2>2, TasksStay DEF SocksTypeOK
<1>2. ASSUME ServerStarts PROVE KeepTasks
  <2>1. \A c \in DOMAIN client : ServedBy(c)' = ServedBy(c)
    BY <1>2 DEF ServerStarts, serverVars, ServedBy
  <2> QED  BY <1>2, <2>1, TasksStay DEF ServerStarts, AddTask, serverVars, SocksTypeOK
<1>3. ASSUME ListenStep PROVE KeepTasks
  <2>1. ASSUME NEW n \in Nodes, ListenAgain(n) PROVE KeepTasks
    BY <1>1, <2>1 DEF ListenAgain, RegisterEvent, lists
  <2>2. ListenerBlocks \/ TakesConnection => KeepTasks
    BY <1>1 DEF ListenerBlocks, Block, TakesConnection, Environment, lists
  <2>3. ASSUME NEW c \in Clients, NEW fd \in ClientFds \cup {Null}, NEW t \in ProcessTasks, Accept(c, fd, t) PROVE KeepTasks
    <3>1. /\ t \notin valid_cothreads /\ valid_cothreads' = valid_cothreads \cup {t} /\ t \in Workers
          /\ c \notin DOMAIN client /\ m_clients' = m_clients \cup {c}
          /\ client'[c] = NewClient(fd, t) /\ \A d \in DOMAIN client : client'[d] = client[d]
          /\ work' = [work EXCEPT ![t] = Task("process", c), ![it].at = "start"]
      BY <2>3 DEF Accept, AddTask, FreeAddress, Workers
    <3>2. it \in Threads /\ it # t
      BY <2>3, <3>1, ServerRuns DEF Accept
    <3>3. work'[t].self = c /\ \A u \in Threads : u # t => work'[u].self = work[u].self
      BY <3>1, <3>2 DEF SocksTypeOK, Jobs, Task, NoWork
    <3>4. ServedBy(c)' = {t} /\ Serves(t, c)'
      <4>1. t # Null /\ client'[c].m_cothread = t /\ client'[c].m_trans_cothread1 = Null
            /\ client'[c].m_trans_cothread2 = Null
        BY <3>1 DEF NewClient
      <4> QED  BY <3>1, <3>3, <4>1 DEF ServedBy, Serves
    <3>5. \A d \in DOMAIN client : ServedBy(d)' = ServedBy(d)
      BY <3>1 DEF ServedBy
    <3>6. \A u \in Workers \cap valid_cothreads : u \in valid_cothreads' /\ work'[u].self = work[u].self
      BY <3>1, <3>3
    <3> QED  BY <3>1, <3>4, <3>5, <3>6, TasksStay DEF SocksTypeOK
  <2> QED  BY <1>3, <2>1, <2>2, <2>3 DEF ListenStep
<1>4. Opens => KeepTasks
  <2> SUFFICES ASSUME Opens PROVE KeepTasks
    OBVIOUS
  <2>1. UNCHANGED <<client, m_clients, valid_cothreads>> /\ it \in Threads
    BY ServerRuns DEF Opens, connVars, vars, lists
  <2>2. \A t \in Workers : work'[t].self = work[t].self
    BY <2>1 DEF Opens, SocksTypeOK, Jobs
  <2>3. \A c \in DOMAIN client : ServedBy(c)' = ServedBy(c)
    BY <2>1 DEF ServedBy
  <2> QED  BY <2>1, <2>2, <2>3, TasksStay DEF SocksTypeOK
<1>5. Calling \/ CallsInVain \/ ConnectsAtOnce \/ ClosesClient => KeepTasks
  BY <1>1 DEF Calling, StartCall, CallsInVain, ConnectsAtOnce, ClosesClient, serverVars, connVars, vars, lists
<1>6. ASSUME InCall \/ CallSucceeds \/ CallFails PROVE KeepTasks
  <2>1. pc = "run" /\ (CallGoesOn \/ FinishCall \/ GiveUp)
    BY <1>6 DEF InCall, CallGoesOn, CallSucceeds, CallFails, WouldBlock, MovePart, MoveAllOrFail, Retry, Wait, Resume,
                RegisterSocket, FinishCall, GiveUp, At
  <2>2. UNCHANGED <<client, m_clients, valid_cothreads>> /\ (work' = work \/ \E p : GoesTo(p))
    BY <1>6, <2>1, CallEvents DEF InCall, CallSucceeds, CallFails, serverVars
  <2> QED  BY <1>1, <2>2
<1>7. ASSUME NEW fd \in ClientFds \cup {Null}, OpensRemote(fd) PROVE KeepTasks
  <2>1. Self \in DOMAIN client /\ it \in Threads
    BY <1>7, ProcessAlone, ServerRuns DEF OpensRemote
  <2>2. UNCHANGED <<m_clients, valid_cothreads>> /\ \A t \in Workers : work'[t].self = work[t].self
    BY <1>7 DEF OpensRemote, SocksTypeOK, Jobs, connVars, vars, lists
  <2>3. \A c \in DOMAIN client : ServedBy(c)' = ServedBy(c)
    BY <1>7 DEF OpensRemote, ServedBy, SocksTypeOK, Members
  <2> QED  BY <2>2, <2>3, TasksStay DEF SocksTypeOK
<1>8. ASSUME NEW t \in RelayTasks, AddsRelay1(t) PROVE KeepTasks
  <2>1. PICK self : self = Self
    OBVIOUS
  <2>2. self \in DOMAIN client /\ it \in Threads /\ it \in valid_cothreads
    BY <1>8, <2>1, ProcessAlone, ServerRuns DEF AddsRelay1
  <2>3. /\ DOMAIN client' = DOMAIN client /\ \A c \in DOMAIN client : c # self => client'[c] = client[c]
        /\ client'[self].m_cothread \in {client[self].m_cothread, Null}
        /\ client'[self].m_trans_cothread1 \in {client[self].m_trans_cothread1, t}
        /\ client'[self].m_trans_cothread2 \in {client[self].m_trans_cothread2, t}
    BY <1>8, <2>1, <2>2 DEF AddsRelay1, SocksTypeOK, Members
  <2>4. ServedBy(self)' \subseteq ServedBy(self) \cup {t}
    BY <2>3 DEF ServedBy
  <2>5. t # it
    BY <1>8, <2>2 DEF AddsRelay1, AddTask
  <2> HIDE DEF ServerInv, ServerRest
  <2> QED  BY <1>8, <2>1, <2>2, <2>3, <2>4, <2>5, RelayServes DEF AddsRelay1
<1>9. ASSUME NEW t \in RelayTasks, AddsRelay2(t) PROVE KeepTasks
  <2>1. PICK self : self = Self
    OBVIOUS
  <2>2. self \in DOMAIN client /\ it \in Threads /\ it \in valid_cothreads
    BY <1>9, <2>1, ProcessAlone, ServerRuns DEF AddsRelay2
  <2>3. /\ DOMAIN client' = DOMAIN client /\ \A c \in DOMAIN client : c # self => client'[c] = client[c]
        /\ client'[self].m_cothread \in {client[self].m_cothread, Null}
        /\ client'[self].m_trans_cothread1 \in {client[self].m_trans_cothread1, t}
        /\ client'[self].m_trans_cothread2 \in {client[self].m_trans_cothread2, t}
    BY <1>9, <2>1, <2>2 DEF AddsRelay2, SocksTypeOK, Members
  <2>4. ServedBy(self)' \subseteq ServedBy(self) \cup {t}
    BY <2>3 DEF ServedBy
  <2>5. t # it
    BY <1>9, <2>2 DEF AddsRelay2, AddTask
  <2> HIDE DEF ServerInv, ServerRest
  <2> QED  BY <1>9, <2>1, <2>2, <2>3, <2>4, <2>5, RelayServes DEF AddsRelay2
<1>10. ASSUME NEW socket \in {"m_socket", "m_remote_socket"}, ClosesMember(socket) PROVE KeepTasks
  <2>1. HasClient(it) /\ Self \in DOMAIN client
    BY <1>10, WorkerPlaces DEF ClosesMember, ListenerPlaces
  <2>2. UNCHANGED <<client, m_clients, valid_cothreads>>
    BY <1>10 DEF ClosesMember, ClosesSocket, Close, CloseFd, Environment, vars, lists
  <2> QED  BY <1>1, <1>10, <2>2 DEF ClosesMember
<1>11. ASSUME NEW task \in {"m_cothread", "m_trans_cothread1"}, CancelsMember(task) PROVE KeepTasks
  <2>1. UNCHANGED <<client, m_clients, valid_cothreads>>
    BY <1>11, CancelsTaskStep DEF CancelsMember
  <2> QED  BY <1>1, <1>11, <2>1 DEF CancelsMember
<1>12. ASSUME Deleted PROVE KeepTasks
  <2>1. /\ UNCHANGED valid_cothreads /\ GoesTo("ended") /\ m_clients' = m_clients \ {Self}
        /\ \A c \in DOMAIN client \ {Self} : client'[c] = client[c]
    BY <1>12, CancelsTaskStep DEF Deleted
  <2>2. \A c \in m_clients' : c \in m_clients /\ ServedBy(c)' = ServedBy(c)
    <3>1. \A c \in m_clients' : c \in m_clients /\ client'[c] = client[c]
      BY <2>1 DEF SocksTypeOK
    <3> QED  BY <3>1 DEF ServedBy
  <2>3. \A t \in Workers : work'[t].self = work[t].self
    BY <2>1 DEF GoesTo, SocksTypeOK, Jobs
  <2> QED  BY <2>1, <2>2, <2>3, TasksStay
<1>13. ASSUME Ended PROVE KeepTasks
  <2>1. ~HasClient(it) /\ valid_cothreads' = valid_cothreads \ {it} /\ UNCHANGED <<client, m_clients, work>>
    BY <1>13, ServerRuns DEF Ended, Finish, RemoveCoThread, AliveInv, serverVars
  <2>2. \A c \in m_clients : ServedBy(c)' = ServedBy(c)
    BY <2>1 DEF ServedBy
  <2> QED  BY <2>1, <2>2, TasksStay
<1>14. ASSUME ServerSchedule PROVE KeepTasks
  <2>1. /\ \A t \in valid_cothreads \ valid_cothreads' : t \in cancel_list
        /\ \A t \in Threads : work'[t] = work[t] \/ t \notin valid_cothreads'
        /\ UNCHANGED <<client, m_clients>>
    BY <1>14, LoopLists DEF ServerSchedule, ConnInv, AliveInv
  <2>2. \A c \in m_clients : ServedBy(c)' = ServedBy(c)
    BY <2>1 DEF ServedBy
  <2> QED  BY <2>1, <2>2, TasksStay
<1>15. ASSUME Connects \/ UNCHANGED socksVars \/ \E fd \in ClientFds, bits \in SUBSET AllBits : Stirs(fd, bits)
       PROVE  KeepTasks
  BY <1>1, <1>15 DEF Connects, Stirs, Environment, socksVars, serverVars, connVars, vars, lists
<1>16. WorkStep => KeepTasks
  BY <1>4, <1>5, <1>6, <1>7, <1>8, <1>9, <1>10, <1>11, <1>12, <1>13 DEF WorkStep
<1> QED  BY <1>2, <1>3, <1>14, <1>15, <1>16 DEF SocksNext

\* A client keeps its tasks until it is deleted itself, unless they are cancelled:
\* however a call ends, a relay closes the client before it returns, and process
\* before, or it has handed the client over.
THEOREM ClientsAlwaysKeepTasks == AddressesFitInt => (SocksSpec => ClientsKeepTasks)
<1> SUFFICES ASSUME AddressesFitInt PROVE SocksSpec => ClientsKeepTasks
  OBVIOUS
<1>1. ServerInv /\ [SocksNext]_socksVars => [KeepTasks]_socksVars
  BY TasksKept
<1> QED  BY <1>1, SocksInvariant, PTL DEF SocksSpec, ClientsKeepTasks, KeepTasks

-----------------------------------------------------------------------------
(* NewClientsHeard.  A socket of a client is shared by its relays, so      *)
(* epoll need not watch it for what a relay waits for.  The listener and   *)
(* process, but for its connect, wait alone: their event is the only one   *)
(* on its fd, and epoll has exactly its mask.  What is left of the tasks   *)
(* that had the number of a client's socket before is gone when process    *)
(* first runs.                                                             *)

WaitedFd(t) == IF t = Listener THEN ListenFd ELSE conn[t].fd
WaitedMask(t) == IF t = Listener THEN {EPOLLIN} ELSE Mask(conn[t].op)

\* Between the registration and the switch, and after the switch.
AtYield(t) == IF t = Listener THEN work[t].at = "yield" ELSE conn[t].at = "yield"
Waiting(t) == IF t = Listener THEN work[t].at = "woken" ELSE conn[t].at = "waiting"

HasEvent(t) == \E n \in DOMAIN node : node[n].thread_ptr = t

\* Whoever waits alone on its fd.
Alone(t) == t = Listener \/ (t \in Workers /\ work[t].func = "process" /\ work[t].at # "connect")

\* The event n is the one that t waits for.
EventOf(n, t) ==
  /\ node[n].fd = WaitedFd(t) /\ node[n].events = WaitedMask(t)
  /\ AtYield(t) \/ (Waiting(t) /\ t \in block_list)
  /\ \A m \in DOMAIN node : node[m].thread_ptr = t => m = n

Watched(n) ==
  /\ \A m \in DOMAIN node : node[m].fd = node[n].fd => m = n
  /\ epoll[node[n].fd] = node[n].events

Waiters ==
  /\ \A n \in DOMAIN node : EventOf(n, node[n].thread_ptr) /\ (Alone(node[n].thread_ptr) => Watched(n))
  /\ \A t \in Threads : AtYield(t) => pc = "run" /\ it = t /\ HasEvent(t)
  /\ \A t \in block_list : Waiting(t)
  /\ LeavesLast

\* The sockets of a client.
Numbers(c) == {client[c].m_socket, client[c].m_remote_socket} \ {Null}

\* Process keeps its client until it ends: only process deletes it before.
ProcessHasClient ==
  \A t \in Workers \cap valid_cothreads : work[t].func = "process" /\ work[t].at # "ended" => HasClient(t)

\* A task that has the number of the socket of another's client is cancelled, and is
\* gone when process of that client first runs.
StrangersGo ==
  \A c \in DOMAIN client, u \in Workers :
    client[c].m_socket # Null /\ client[c].m_socket \in {work[u].from, work[u].to} /\ work[u].at # "ended" =>
      \/ HasClient(u) /\ work[u].self = c
      \/ u \in cancel_list /\ (client[c].m_cothread \in add_list \/ pc = "sweep")

SocketsDistinct ==
  /\ \A c, d \in DOMAIN client : Numbers(c) \cap Numbers(d) # {} => c = d
  /\ ProcessHasClient
  /\ StrangersGo

HeardInv == Waiters /\ SocketsDistinct

\* What t waits for, and where it is, is as before.
Same(t) == conn'[t] = conn[t] /\ (t \notin Workers \/ t \in valid_cothreads \cup {leaving} => work'[t] = work[t])

LEMMA SameWaits ==
  ASSUME NEW t, Same(t), Listener \notin Workers
  PROVE  /\ WaitedFd(t)' = WaitedFd(t) /\ WaitedMask(t)' = WaitedMask(t)
         /\ AtYield(t)' <=> AtYield(t)
         /\ Waiting(t)' <=> Waiting(t)
         /\ t \notin Workers \/ t \in valid_cothreads \cup {leaving} => (Alone(t)' <=> Alone(t))
BY DEF Same, WaitedFd, WaitedMask, AtYield, Waiting, Alone

LEMMA NodeThread ==
  ASSUME ServerInv, NEW n \in DOMAIN node
  PROVE  /\ node[n].thread_ptr \in Threads /\ node[n].fd \in Fds
         /\ node[n].thread_ptr \in valid_cothreads \cup {leaving}
         /\ Listener \notin Workers
BY SocksAssumption DEF ServerInv, ConnInv, EnvInv, ManagerInv, ManagerTypeOK, NodeInfo, NoDangling, Workers

\* The task that runs has an event between registration and switch only.
LEMMA RunnerHasNone ==
  ASSUME ServerInv, Waiters, pc = "run"
  PROVE  /\ it \in Threads /\ it \in valid_cothreads /\ it \notin block_list /\ block_list \subseteq Threads
         /\ ~AtYield(it) => \A n \in DOMAIN node : node[n].thread_ptr # it
<1>1. it \in Threads /\ it \in valid_cothreads /\ it \notin block_list /\ block_list \subseteq Threads
  BY DEF ServerInv, ConnInv, EnvInv, EnvTypes, Control, NoDangling, ListsPartition
<1>2. \A n \in DOMAIN node : node[n].thread_ptr = it => AtYield(it)
  BY <1>1 DEF Waiters, EventOf
<1> QED  BY <1>1, <1>2

\* A step of the running task that neither registers nor blocks.
LEMMA RunsHeard ==
  ASSUME ServerInv, Waiters, pc = "run", ~AtYield(it), ~AtYield(it)',
         NodesShrink, UNCHANGED <<block_list, it>>, LeavesLast',
         \A t \in Threads \ {it} : Same(t),
         \A n \in DOMAIN node' : Alone(node[n].thread_ptr) => epoll'[node[n].fd] = epoll[node[n].fd]
  PROVE  Waiters'
<1>1. \A t \in Threads \ {it} : /\ WaitedFd(t)' = WaitedFd(t) /\ WaitedMask(t)' = WaitedMask(t)
                                /\ AtYield(t)' <=> AtYield(t)
                                /\ Waiting(t)' <=> Waiting(t)
                                /\ t \in valid_cothreads \cup {leaving} => (Alone(t)' <=> Alone(t))
  BY SameWaits, SocksAssumption DEF Workers
<1>2. \A n \in DOMAIN node' : n \in DOMAIN node /\ node'[n] = node[n]
  BY DEF NodesShrink
<1>3. ASSUME NEW n \in DOMAIN node'
      PROVE  EventOf(n, node[n].thread_ptr)' /\ (Alone(node[n].thread_ptr)' => Watched(n)')
  <2>1. node[n].thread_ptr \in Threads \ {it} /\ node[n].thread_ptr \in valid_cothreads \cup {leaving}
    BY <1>2, NodeThread, RunnerHasNone
  <2>2. EventOf(n, node[n].thread_ptr) /\ (Alone(node[n].thread_ptr) => Watched(n))
    BY <1>2 DEF Waiters
  <2>3. EventOf(n, node[n].thread_ptr)'
    BY <1>1, <1>2, <2>1, <2>2 DEF EventOf
  <2>4. Alone(node[n].thread_ptr)' => Alone(node[n].thread_ptr)
    BY <1>1, <1>2, <2>1
  <2>5. Alone(node[n].thread_ptr) => Watched(n)'
    BY <1>2, <2>2 DEF Watched
  <2> QED  BY <2>3, <2>4, <2>5
<1>4. \A t \in Threads : ~AtYield(t)'
  BY <1>1 DEF Waiters
<1>5. \A t \in block_list : Waiting(t)'
  BY <1>1, RunnerHasNone DEF Waiters
<1> QED  BY <1>2, <1>3, <1>4, <1>5 DEF Waiters

\* It registers the event that it will wait for.
LEMMA RegistersHeard ==
  ASSUME ServerInv, Waiters, NoOrphanInterest, CacheForgotten, pc = "run", ~AtYield(it), AtYield(it)',
         NEW n \in Nodes, NEW fd \in Fds, NEW events, AddEvent(n, fd, events, it),
         fd = WaitedFd(it)', events = WaitedMask(it)',
         \A m \in DOMAIN node : Alone(node[m].thread_ptr) \/ Alone(it)' => node[m].fd # fd,
         UNCHANGED <<lists, pc, it>>, \A t \in Threads \ {it} : Same(t)
  PROVE  Waiters'
<1>1. \A t \in Threads \ {it} : /\ WaitedFd(t)' = WaitedFd(t) /\ WaitedMask(t)' = WaitedMask(t)
                                /\ AtYield(t)' <=> AtYield(t)
                                /\ Waiting(t)' <=> Waiting(t)
                                /\ t \in valid_cothreads \cup {leaving} => (Alone(t)' <=> Alone(t))
  BY SameWaits, SocksAssumption DEF Workers
<1>2. /\ n \notin DOMAIN node /\ DOMAIN node' = DOMAIN node \cup {n}
      /\ \A m \in DOMAIN node : node'[m] = node[m]
      /\ node'[n] = [fd |-> fd, events |-> events, thread_ptr |-> it]
      /\ leaving' = leaving
      /\ \A g \in Fds : g # fd => epoll'[g] = epoll[g]
  BY DEF AddEvent, walk, InterestAdded, EpollAdd, EpollMod, ServerInv, ConnInv, EnvInv, ManagerInv, ManagerTypeOK
<1>3. epoll \in [Fds -> SUBSET Bits] /\ (Alone(it)' => epoll' = [epoll EXCEPT ![fd] = events])
  BY FirstIsWatched DEF ServerInv, ConnInv, EnvInv, ManagerInv, ManagerTypeOK
<1>4. UNCHANGED <<block_list, cancel_list, valid_cothreads>>
  BY DEF lists
<1>5. ASSUME NEW m \in DOMAIN node
      PROVE  EventOf(m, node[m].thread_ptr)' /\ (Alone(node[m].thread_ptr)' => Watched(m)')
  <2>1. /\ node[m].thread_ptr \in Threads \ {it} /\ node[m].thread_ptr \in valid_cothreads \cup {leaving}
        /\ node[m].fd \in Fds /\ node'[m] = node[m]
    BY <1>2, NodeThread, RunnerHasNone
  <2>2. EventOf(m, node[m].thread_ptr) /\ (Alone(node[m].thread_ptr) => Watched(m))
    BY DEF Waiters
  <2>3. EventOf(m, node[m].thread_ptr)'
    BY <1>1, <1>2, <1>4, <2>1, <2>2 DEF EventOf
  <2>4. Alone(node[m].thread_ptr)' => Alone(node[m].thread_ptr)
    BY <1>1, <2>1
  <2>5. Alone(node[m].thread_ptr) => Watched(m)'
    BY <1>2, <2>1, <2>2 DEF Watched
  <2> QED  BY <2>3, <2>4, <2>5
<1>6. EventOf(n, it)'
  <2>1. \A m \in DOMAIN node : node[m].thread_ptr # it
    BY RunnerHasNone
  <2> QED  BY <1>2, <2>1 DEF EventOf
<1>7. Alone(it)' => Watched(n)'
  BY <1>2, <1>3 DEF Watched
<1>8. \A m \in DOMAIN node' : EventOf(m, node[m].thread_ptr)' /\ (Alone(node[m].thread_ptr)' => Watched(m)')
  BY <1>2, <1>5, <1>6, <1>7
<1>9. HasEvent(it)'
  BY <1>2 DEF HasEvent
<1>10. \A t \in Threads \ {it} : ~AtYield(t)'
  BY <1>1 DEF Waiters
<1>11. \A t \in block_list : Waiting(t)'
  BY <1>1, RunnerHasNone DEF Waiters
<1>12. LeavesLast'
  BY <1>2, <1>4 DEF Waiters, LeavesLast
<1> QED  BY <1>4, <1>8, <1>9, <1>10, <1>11, <1>12 DEF Waiters

\* It switches, to wait for it.
LEMMA BlocksHeard ==
  ASSUME ServerInv, Waiters, pc = "run", AtYield(it), Waiting(it)', ~AtYield(it)',
         WaitedFd(it)' = WaitedFd(it), WaitedMask(it)' = WaitedMask(it), Alone(it)' <=> Alone(it), Block,
         \A t \in Threads \ {it} : Same(t)
  PROVE  Waiters'
<1>1. \A t \in Threads \ {it} : /\ WaitedFd(t)' = WaitedFd(t) /\ WaitedMask(t)' = WaitedMask(t)
                                /\ AtYield(t)' <=> AtYield(t)
                                /\ Waiting(t)' <=> Waiting(t)
                                /\ t \in valid_cothreads \cup {leaving} => (Alone(t)' <=> Alone(t))
  BY SameWaits, SocksAssumption DEF Workers
<1>2. /\ UNCHANGED <<node, epoll, leaving, it, cancel_list, valid_cothreads>>
      /\ block_list' = block_list \cup {it} /\ pc' = "process"
  BY DEF Block, managerVars, registry, interest, walk
<1>3. ASSUME NEW n \in DOMAIN node
      PROVE  EventOf(n, node[n].thread_ptr)' /\ (Alone(node[n].thread_ptr)' => Watched(n)')
  <2>1. /\ node[n].thread_ptr \in Threads /\ node[n].thread_ptr \in valid_cothreads \cup {leaving}
        /\ EventOf(n, node[n].thread_ptr) /\ (Alone(node[n].thread_ptr) => Watched(n))
    BY NodeThread DEF Waiters
  <2>2. Watched(n) => Watched(n)'
    BY <1>2 DEF Watched
  <2>3. CASE node[n].thread_ptr = it
    BY <1>2, <2>1, <2>2, <2>3 DEF EventOf
  <2>4. CASE node[n].thread_ptr # it
    <3>1. EventOf(n, node[n].thread_ptr)'
      BY <1>1, <1>2, <2>1, <2>4 DEF EventOf
    <3>2. Alone(node[n].thread_ptr)' => Alone(node[n].thread_ptr)
      BY <1>1, <1>2, <2>1, <2>4
    <3> QED  BY <2>1, <2>2, <3>1, <3>2
  <2> QED  BY <2>3, <2>4
<1>4. \A t \in Threads : ~AtYield(t)'
  BY <1>1, <1>2 DEF Waiters
<1>5. \A t \in block_list' : Waiting(t)'
  BY <1>1, <1>2, RunnerHasNone DEF Waiters
<1>6. LeavesLast'
  BY <1>2 DEF Waiters, LeavesLast
<1> QED  BY <1>2, <1>3, <1>4, <1>5, <1>6 DEF Waiters

\* What happens outside the tasks.
LEMMA QuietHeard ==
  ASSUME Waiters, UNCHANGED <<node, epoll, block_list, leaving, pc, it, conn, work>>, LeavesLast'
  PROVE  Waiters'
<1>1. \A t : /\ WaitedFd(t)' = WaitedFd(t) /\ WaitedMask(t)' = WaitedMask(t)
             /\ AtYield(t)' <=> AtYield(t)
             /\ Waiting(t)' <=> Waiting(t)
             /\ Alone(t)' <=> Alone(t)
  BY DEF WaitedFd, WaitedMask, AtYield, Waiting, Alone
<1>2. \A n \in DOMAIN node : EventOf(n, node[n].thread_ptr)' /\ (Alone(node[n].thread_ptr)' => Watched(n)')
  BY <1>1 DEF Waiters, EventOf, Watched
<1>3. \A t : HasEvent(t)' <=> HasEvent(t)
  BY DEF HasEvent
<1> QED  BY <1>1, <1>2, <1>3 DEF Waiters

\* A step of the scheduler: a task keeps its event until the event comes, or until
\* the task leaves.
LEMMA ScheduleHeard ==
  ASSUME ServerInv, ConnInv', Waiters, ServerSchedule
  PROVE  Waiters'
<1> DEFINE exists(t) == t \in valid_cothreads' \cup {leaving'}
           EventsStay == \A n \in DOMAIN node' : /\ n \in DOMAIN node /\ node'[n] = node[n]
                                                 /\ Alone(node[n].thread_ptr) => epoll'[node[n].fd] = epoll[node[n].fd]
                                                 /\ node[n].thread_ptr \in block_list'
<1>0. ConnInv
  BY DEF ServerInv
<1>1. /\ \A t \in Threads : exists(t) => conn'[t] = conn[t] /\ work'[t] = work[t]
      /\ \A t \in Threads : ~exists(t) => conn'[t] = Outside /\ work'[t] = NoWork
  BY DEF ServerSchedule
<1>2. Loop \/ CallLoop
  BY DEF ServerSchedule
<1>3. /\ pc # "run" /\ LeavesLast'
      /\ \/ UNCHANGED <<node, epoll, block_list>> /\ leaving \in {leaving', Null}
         \/ \E n \in DOMAIN node : /\ DeleteEvent(n) /\ node[n].thread_ptr = leaving
                                   /\ UNCHANGED <<block_list, leaving>>
         \/ \E n \in DOMAIN node : /\ DeleteEvent(n) /\ block_list' = block_list \ {node[n].thread_ptr}
                                   /\ UNCHANGED leaving
         \/ /\ UNCHANGED <<node, epoll>> /\ \A n \in DOMAIN node : node[n].thread_ptr # leaving
            /\ block_list' = block_list \ {leaving} /\ leaving' = Null
  BY <1>0, <1>2, LoopKinds DEF Waiters, ConnInv
\* Where a task that exists is, and what it waits for, is as before.
<1>4. ASSUME NEW t \in Threads, exists(t)
      PROVE  /\ WaitedFd(t)' = WaitedFd(t) /\ WaitedMask(t)' = WaitedMask(t)
             /\ (AtYield(t)' <=> AtYield(t)) /\ (Waiting(t)' <=> Waiting(t)) /\ (Alone(t)' <=> Alone(t))
  BY <1>1, <1>4 DEF WaitedFd, WaitedMask, AtYield, Waiting, Alone
<1>5. \A t \in Threads : ~AtYield(t)'
  <2> TAKE t \in Threads
  <2>1. ~AtYield(t)
    BY <1>3 DEF Waiters
  <2>2. CASE exists(t)
    BY <1>4, <2>1, <2>2
  <2>3. CASE ~exists(t)
    BY <1>1, <2>3, NoWorkFacts DEF AtYield, Outside
  <2> QED  BY <2>2, <2>3
<1>6. \A n \in DOMAIN node : /\ node[n].thread_ptr \in Threads /\ node[n].fd \in Fds
                             /\ EventOf(n, node[n].thread_ptr) /\ (Alone(node[n].thread_ptr) => Watched(n))
                             /\ Waiting(node[n].thread_ptr) /\ node[n].thread_ptr \in block_list
  <2> TAKE n \in DOMAIN node
  <2>1. /\ node[n].thread_ptr \in Threads /\ node[n].fd \in Fds
        /\ EventOf(n, node[n].thread_ptr) /\ (Alone(node[n].thread_ptr) => Watched(n))
    BY NodeThread DEF Waiters
  <2>2. ~AtYield(node[n].thread_ptr)
    BY <1>3, <2>1 DEF Waiters
  <2> QED  BY <2>1, <2>2 DEF EventOf
\* The events that stay, and the tasks that go on waiting.
<1>7. ASSUME EventsStay
      PROVE  \A n \in DOMAIN node' : EventOf(n, node[n].thread_ptr)' /\ (Alone(node[n].thread_ptr)' => Watched(n)')
  <2> TAKE n \in DOMAIN node'
  <2>1. /\ n \in DOMAIN node /\ node'[n] = node[n]
        /\ Alone(node[n].thread_ptr) => epoll'[node[n].fd] = epoll[node[n].fd]
        /\ node[n].thread_ptr \in block_list'
    BY <1>7
  <2> PICK t \in Threads : t = node[n].thread_ptr
    BY <1>6, <2>1
  <2>2. exists(node'[n].thread_ptr)
    BY DEF ConnInv, EnvInv, NoDangling
  <2>3. EventOf(n, t) /\ Waiting(t) /\ (Alone(t) => Watched(n))
    BY <1>6, <2>1
  <2>4. /\ WaitedFd(t)' = WaitedFd(t) /\ WaitedMask(t)' = WaitedMask(t) /\ Waiting(t)' /\ (Alone(t)' <=> Alone(t))
    BY <1>4, <2>1, <2>2, <2>3
  <2>5. \A m \in DOMAIN node' : m \in DOMAIN node /\ node'[m] = node[m]
    BY <1>7
  <2>6. EventOf(n, t)'
    BY <2>1, <2>3, <2>4, <2>5 DEF EventOf
  <2>7. Alone(t) => Watched(n)'
    BY <2>1, <2>3, <2>5 DEF Watched
  <2> QED  BY <2>1, <2>4, <2>6, <2>7
<1>8. \A t \in block_list' : Waiting(t)'
  <2> TAKE t \in block_list'
  <2>1. exists(t) /\ t \in Threads /\ Waiting(t)
    BY <1>3 DEF ConnInv, EnvInv, EnvTypes, ListsPartition, Waiters
  <2> QED  BY <1>4, <2>1
<1>9. EventsStay
  <2>1. ASSUME NEW n \in DOMAIN node, DeleteEvent(n)
        PROVE  /\ DOMAIN node' = DOMAIN node \ {n}
               /\ \A m \in DOMAIN node' : /\ node'[m] = node[m]
                                          /\ Alone(node[m].thread_ptr) => epoll'[node[m].fd] = epoll[node[m].fd]
                                          /\ node[m].thread_ptr # node[n].thread_ptr
    <3>1. /\ DOMAIN node' = DOMAIN node \ {n}
          /\ \A m \in DOMAIN node' : node'[m] = node[m]
          /\ \A fd \in Fds : fd # node[n].fd => epoll'[fd] = epoll[fd]
      BY <1>0, <2>1, DeletedIsForgotten DEF ConnInv, EnvInv
    <3>2. \A m \in DOMAIN node : m # n => /\ Alone(node[m].thread_ptr) => node[m].fd # node[n].fd
                                          /\ node[m].thread_ptr # node[n].thread_ptr
      BY <1>6 DEF EventOf, Watched
    <3> QED  BY <1>6, <3>1, <3>2
  <2>2. CASE UNCHANGED <<node, epoll, block_list>>
    BY <1>6, <2>2
  <2>3. ASSUME NEW n \in DOMAIN node, DeleteEvent(n), block_list' \in {block_list, block_list \ {node[n].thread_ptr}}
        PROVE  EventsStay
    BY <1>6, <2>1, <2>3
  <2>4. CASE UNCHANGED <<node, epoll>> /\ block_list' = block_list \ {leaving} /\ \A n \in DOMAIN node : node[n].thread_ptr # leaving
    BY <1>6, <2>4
  <2> QED  BY <1>3, <2>2, <2>3, <2>4
<1> QED  BY <1>3, <1>5, <1>7, <1>8, <1>9 DEF Waiters

\* Process is alone with its client but for the moment when it hands over.
LEMMA ProcessIsAlone ==
  ASSUME ServerInv, NEW t \in Workers, NEW u \in Workers, HasClient(t), HasClient(u), work[t].self = work[u].self,
         work[t].func = "process"
  PROVE  t = u \/ (pc = "run" /\ it = t /\ work[it].at = "relay2")
<1> USE ClientTypes DEF ServerInv, ServerRest
<1>1. PICK c \in DOMAIN client : c = work[t].self /\ t \in ServedBy(c) /\ u \in ServedBy(c)
  BY DEF HasClient
<1>2. t = client[c].m_cothread /\ t # Null
  BY <1>1 DEF ServedBy, FuncInv
<1>3. Shape(c)
  BY <1>1
<1> QED  BY <1>1, <1>2, <1>3 DEF Shape, ServedBy, AtRelay2

\* Who is on the numbers of the running task's client: no one who waits alone.
LEMMA NobodyAlone ==
  ASSUME ServerInv, HeardInv, pc = "run", ~AtYield(it), it \in Workers, HasClient(it),
         NEW fd \in Numbers(work[it].self), NEW m \in DOMAIN node, Alone(node[m].thread_ptr)
  PROVE  node[m].fd # fd
<1> USE ClientTypes DEF ServerInv, ServerRest
<1>1. Waiters /\ SocketsDistinct /\ leaving = Null
  BY DEF HeardInv, Waiters, LeavesLast
<1>2. PICK t \in Threads : t = node[m].thread_ptr /\ t # it /\ EventOf(m, t) /\ t \in valid_cothreads
  BY <1>1, NodeThread, RunnerHasNone, NullAssumption DEF Waiters
<1>3. fd \in ClientFds
  BY DEF HasClient, Numbers, Members
<1>4. CASE t = Listener
  BY <1>2, <1>3, <1>4, SocksAssumption DEF EventOf, WaitedFd
<1>5. CASE t # Listener
  <2>1. t \in Workers /\ work[t].func = "process" /\ work[t].at # "connect"
    BY <1>2, <1>5 DEF Alone
  <2>2. node[m].fd = conn[t].fd /\ conn[t].at # "outside"
    BY <1>2, <1>5 DEF EventOf, WaitedFd, AtYield, Waiting
  <2>3. node[m].fd = work[t].from /\ work[t].at \notin {"start", "ended"}
    <3>1. conn[t].fd = FdOf(t) /\ work[t].at \in DOMAIN OpAt /\ PlaceInv(t)
      BY <2>2 DEF TaskInv, CallInv
    <3>2. work[t].at \notin {"start", "ended", "write"}
      BY <2>1, <3>1, Tables DEF PlaceInv, Relays, ListenerPlaces, EndPlaces, ProcessPlaces, MemberPlaces
    <3> QED  BY <2>1, <2>2, <3>1, <3>2 DEF FdOf
  <2>4. HasClient(t)
    BY <1>1, <1>2, <2>1, <2>3 DEF SocketsDistinct, ProcessHasClient
  <2>5. node[m].fd = client[work[t].self].m_socket
    BY <2>1, <2>3, <2>4 DEF SocketInv, FromOf
  <2>6. CASE work[t].self = work[it].self
    BY <1>2, <2>1, <2>4, <2>6, ProcessIsAlone
  <2>7. CASE work[t].self # work[it].self
    BY <1>1, <1>3, <2>4, <2>5, <2>7 DEF SocketsDistinct, Numbers, HasClient
  <2> QED  BY <2>6, <2>7
<1> QED  BY <1>4, <1>5

\* Process is about to wait on the socket of its client: nobody else does.
LEMMA ProcessWaitsAlone ==
  ASSUME ServerInv, HeardInv, pc = "run", ~AtYield(it), it \in Workers, HasClient(it), work[it].func = "process",
         work[it].at # "relay2", NEW m \in DOMAIN node, client[work[it].self].m_socket # Null
  PROVE  node[m].fd # client[work[it].self].m_socket
<1> USE ClientTypes DEF ServerInv, ServerRest
<1> SUFFICES ASSUME node[m].fd = client[work[it].self].m_socket PROVE FALSE
  OBVIOUS
<1>1. Waiters /\ SocketsDistinct /\ leaving = Null
  BY DEF HeardInv, Waiters, LeavesLast
<1>2. PICK u \in Threads : u = node[m].thread_ptr /\ u # it /\ u \in valid_cothreads
  BY <1>1, NodeThread, RunnerHasNone, NullAssumption DEF Waiters
<1>3. PICK c \in DOMAIN client : c = work[it].self /\ it \in ServedBy(c)
  BY DEF HasClient
<1>4. client[c].m_socket \in ClientFds /\ client[c].m_socket # Null
  BY <1>3 DEF Members
<1>5. u \in Workers /\ client[c].m_socket \in {work[u].from, work[u].to}
  BY <1>2, <1>3, <1>4 DEF SocketInv
<1>6. work[u].at # "ended"
  BY <1>2 DEF TaskInv
<1>7. client[c].m_cothread = it
  BY <1>3 DEF FuncInv, ServedBy
<1>8. it \notin add_list
  BY DEF ConnInv, EnvInv, NoDangling, ListsPartition
<1>9. HasClient(u) /\ work[u].self = c
  BY <1>1, <1>4, <1>5, <1>6, <1>7, <1>8 DEF SocketsDistinct, StrangersGo
<1> QED  BY <1>2, <1>3, <1>5, <1>9, ProcessIsAlone

-----------------------------------------------------------------------------
(* The steps.                                                              *)

LEMMA GoesFacts ==
  ASSUME ServerInv, it \in Threads, NEW p, GoesTo(p)
  PROVE  /\ \A t \in Threads \ {it} : work'[t] = work[t]
         /\ work'[it].func = work[it].func /\ work'[it].self = work[it].self
         /\ work'[it].from = work[it].from /\ work'[it].to = work[it].to /\ work'[it].at = p
BY DEF GoesTo, ServerInv, ServerRest, SocksTypeOK, Jobs

\* A task of a client does something between its calls, or the listener.
LEMMA RunnerQuiet ==
  ASSUME ServerInv, Waiters, NEW p, AtPlace(p), it \in Workers \/ (p # "yield" /\ work'[it].at # "yield"),
         UNCHANGED <<conn, node, block_list, leaving, it>>, Null \notin valid_cothreads',
         \A t \in Threads \ {it} : t \notin Workers \/ t \in valid_cothreads => work'[t] = work[t],
         \A n \in DOMAIN node : Alone(node[n].thread_ptr) => epoll'[node[n].fd] = epoll[node[n].fd]
  PROVE  Waiters'
<1>1. /\ pc = "run" /\ leaving = Null /\ it \in Threads /\ conn[it].at = "outside" /\ work[it].at = p
  BY ServerRuns
<1>2. Listener \notin Workers /\ Null \notin Threads
  BY ClientTypes, NullAssumption, SocksAssumption DEF Workers
<1>3. ~AtYield(it) /\ ~AtYield(it)'
  BY <1>1, <1>2 DEF AtYield
<1>4. \A t \in Threads \ {it} : Same(t)
  BY <1>1, <1>2 DEF Same
<1>5. LeavesLast'
  BY <1>1 DEF LeavesLast
<1> QED  BY <1>1, <1>3, <1>4, <1>5, RunsHeard DEF NodesShrink

\* No client comes or goes and no task gets a number.
LEMMA DistinctKept ==
  ASSUME SocketsDistinct, UNCHANGED client,
         cancel_list \subseteq cancel_list', pc' = "sweep" \/ (pc # "sweep" /\ add_list \subseteq add_list'),
         \A t \in Workers :
           \/ /\ work'[t].func = work[t].func /\ work'[t].self = work[t].self
              /\ work'[t].from = work[t].from /\ work'[t].to = work[t].to
              /\ work[t].at = "ended" => work'[t].at = "ended"
              /\ t \in valid_cothreads' => t \in valid_cothreads
           \/ work'[t] = NoWork /\ t \notin valid_cothreads'
  PROVE  SocketsDistinct'
<1>1. \A c \in DOMAIN client : ServedBy(c)' = ServedBy(c) /\ Numbers(c)' = Numbers(c)
  BY DEF ServedBy, Numbers
<1>3. ProcessHasClient'
  <2> SUFFICES ASSUME NEW t \in Workers, t \in valid_cothreads', work'[t].func = "process", work'[t].at # "ended"
               PROVE  HasClient(t)'
    BY DEF ProcessHasClient
  <2>1. t \in valid_cothreads /\ work[t].func = "process" /\ work[t].at # "ended" /\ work'[t].self = work[t].self
    OBVIOUS
  <2>2. HasClient(t)
    BY <2>1 DEF SocketsDistinct, ProcessHasClient
  <2> QED  BY <1>1, <2>1, <2>2 DEF HasClient
<1>4. StrangersGo'
  <2> SUFFICES ASSUME NEW c \in DOMAIN client, NEW u \in Workers, client[c].m_socket # Null,
                      client[c].m_socket \in {work'[u].from, work'[u].to}, work'[u].at # "ended"
               PROVE  \/ HasClient(u)' /\ work'[u].self = c
                      \/ u \in cancel_list' /\ (client[c].m_cothread \in add_list' \/ pc' = "sweep")
    BY DEF StrangersGo
  <2>1. /\ work'[u].self = work[u].self /\ client[c].m_socket \in {work[u].from, work[u].to} /\ work[u].at # "ended"
    BY NoWorkFacts
  <2>2. \/ HasClient(u) /\ work[u].self = c
        \/ u \in cancel_list /\ (client[c].m_cothread \in add_list \/ pc = "sweep")
    BY <2>1 DEF SocketsDistinct, StrangersGo
  <2>3. HasClient(u) => HasClient(u)'
    BY <1>1, <2>1 DEF HasClient
  <2> QED  BY <2>1, <2>2, <2>3
<1> QED  BY <1>1, <1>3, <1>4 DEF SocketsDistinct

\* The running task moves on.
LEMMA MoveDistinct ==
  ASSUME ServerInv, SocketsDistinct, pc = "run", it \in Threads, work[it].at # "ended", NEW p,
         GoesTo(p) \/ UNCHANGED work, UNCHANGED client, cancel_list \subseteq cancel_list', add_list \subseteq add_list',
         valid_cothreads' \subseteq valid_cothreads
  PROVE  SocketsDistinct'
<1>1. \A t \in Workers :
        /\ work'[t].func = work[t].func /\ work'[t].self = work[t].self
        /\ work'[t].from = work[t].from /\ work'[t].to = work[t].to
        /\ work[t].at = "ended" => work'[t].at = "ended"
        /\ t \in valid_cothreads' => t \in valid_cothreads
  BY GoesFacts, SocksAssumption DEF Workers
<1> QED  BY <1>1, DistinctKept

\* Numbers that are not in use.
LEMMA FreeNumbers ==
  ASSUME ServerInv, NEW fd \in Opened
  PROVE  fd \in ClientFds \cup {Null} /\ \A c \in DOMAIN client : fd \notin Numbers(c)
BY ClientTypes DEF Opened, FreeFds, Numbers

LEMMA ListenerHeard ==
  ASSUME ServerInv, HeardInv, NoOrphanInterest, CacheForgotten
  PROVE  /\ \A n \in Nodes : ListenAgain(n) => HeardInv'
         /\ ListenerBlocks \/ TakesConnection => HeardInv'
<1>1. Waiters /\ SocketsDistinct /\ Listener \notin Workers /\ ListenFd \in Fds
  BY SocksAssumption DEF HeardInv, Workers
<1>2. ASSUME it = Listener
      PROVE  /\ (AtYield(it) <=> work[it].at = "yield") /\ WaitedFd(it) = ListenFd /\ WaitedMask(it) = {EPOLLIN} /\ Alone(it)
  BY <1>2 DEF AtYield, WaitedFd, WaitedMask, Alone
<1>3. ASSUME it' = Listener
      PROVE  /\ (AtYield(it)' <=> work'[it'].at = "yield") /\ (Waiting(it)' <=> work'[it'].at = "woken")
             /\ WaitedFd(it)' = ListenFd /\ WaitedMask(it)' = {EPOLLIN} /\ Alone(it)'
  BY <1>3 DEF AtYield, Waiting, WaitedFd, WaitedMask, Alone
<1>4. ASSUME NEW n \in Nodes, ListenAgain(n) PROVE HeardInv'
  <2>1. /\ pc = "run" /\ it = Listener /\ it \in Threads /\ work[it].at = "start" /\ work'[it].at = "yield"
        /\ AddEvent(n, ListenFd, {EPOLLIN}, it) /\ UNCHANGED <<lists, pc, it, conn, client>>
        /\ \A t \in Threads \ {it} : Same(t)
    BY <1>4, ServerRuns, GoesFacts DEF ListenAgain, RegisterEvent, Same
  <2>2. \A m \in DOMAIN node : node[m].fd # ListenFd
    <3> SUFFICES ASSUME NEW m \in DOMAIN node, node[m].fd = ListenFd PROVE FALSE
      OBVIOUS
    <3>1. PICK t \in Threads : t = node[m].thread_ptr /\ EventOf(m, t) /\ t # it
      BY <1>1, <1>2, <2>1, NodeThread, RunnerHasNone DEF Waiters
    <3>2. conn[t].fd = ListenFd /\ conn[t].at # "outside"
      BY <2>1, <3>1 DEF EventOf, WaitedFd, AtYield, Waiting
    <3>3. conn[t].fd \in ClientFds
      BY <3>2 DEF ServerInv, ServerRest, TaskInv, CallInv
    <3> QED  BY <3>2, <3>3, SocksAssumption
  <2>3. Waiters'
    BY <1>1, <1>2, <1>3, <2>1, <2>2, RegistersHeard
  <2>4. UNCHANGED <<cancel_list, add_list, valid_cothreads>> /\ GoesTo("yield")
    BY <1>4, <2>1 DEF lists, ListenAgain
  <2>5. SocketsDistinct'
    BY <1>1, <2>1, <2>4, MoveDistinct
  <2> QED  BY <2>3, <2>5 DEF HeardInv
<1>5. ASSUME ListenerBlocks PROVE HeardInv'
  <2>1. /\ pc = "run" /\ it = Listener /\ it \in Threads /\ work[it].at = "yield" /\ work'[it].at = "woken"
        /\ Block /\ UNCHANGED <<conn, client, it, cancel_list, add_list, valid_cothreads>> /\ GoesTo("woken")
        /\ \A t \in Threads \ {it} : Same(t)
    BY <1>5, ServerRuns, GoesFacts DEF ListenerBlocks, Block, Same
  <2>2. Waiters'
    BY <1>1, <1>2, <1>3, <2>1, BlocksHeard
  <2>3. SocketsDistinct'
    BY <1>1, <2>1, MoveDistinct
  <2> QED  BY <2>2, <2>3 DEF HeardInv
<1>6. ASSUME TakesConnection PROVE HeardInv'
  <2>1. /\ pc = "run" /\ it = Listener /\ it \in Threads /\ AtPlace("woken") /\ work[it].at = "woken" /\ GoesTo("accepted")
        /\ UNCHANGED <<conn, client, node, epoll, block_list, leaving, it, cancel_list, add_list, valid_cothreads>>
    BY <1>6, ServerRuns DEF TakesConnection, Environment, managerVars, registry, interest, walk, lists
  <2>2. Null \notin valid_cothreads' /\ work'[it].at = "accepted" /\ \A t \in Threads \ {it} : work'[t] = work[t]
    BY <2>1, GoesFacts, NullAssumption DEF ServerInv, ConnInv, EnvInv, EnvTypes
  <2>3. Waiters'
    BY <1>1, <2>1, <2>2, RunnerQuiet
  <2>4. SocketsDistinct'
    BY <1>1, <2>1, MoveDistinct
  <2> QED  BY <2>3, <2>4 DEF HeardInv
<1> QED  BY <1>4, <1>5, <1>6

\* A client comes: whoever has the number of its socket has lost its own client.
LEMMA AcceptHeard ==
  ASSUME ServerInv, HeardInv, NEW c \in Clients, NEW fd \in ClientFds \cup {Null}, NEW t \in ProcessTasks, Accept(c, fd, t)
  PROVE  HeardInv'
<1>1. Waiters /\ SocketsDistinct
  BY DEF HeardInv
<1>2. /\ AtPlace("accepted") /\ pc = "run" /\ leaving = Null /\ it = Listener /\ it \in Threads
      /\ t \in Workers /\ t \in Threads /\ t # it /\ Listener \notin Workers
      /\ c \notin DOMAIN client /\ fd \in Opened /\ work \in [Threads -> Jobs]
      /\ UNCHANGED <<conn, timers>> /\ AddTask(t)
  BY ServerRuns, SocksAssumption DEF Accept, FreeAddress, Workers, ServerInv, ServerRest, SocksTypeOK
<1>3. /\ t \notin valid_cothreads \cup {leaving} /\ valid_cothreads' = valid_cothreads \cup {t}
      /\ add_list' = add_list \cup {t} /\ UNCHANGED <<node, epoll, block_list, cancel_list, leaving, pc, it>>
  BY <1>2, AddTaskStep DEF AddTask, managerVars, interest, lists
<1>4. /\ DOMAIN client' = DOMAIN client \cup {c} /\ client'[c] = NewClient(fd, t)
      /\ \A d \in DOMAIN client : client'[d] = client[d]
  BY <1>2 DEF Accept
<1>5. /\ work'[t] = Task("process", c) /\ work'[it].at = "start"
      /\ \A u \in Threads \ {it, t} : work'[u] = work[u]
  BY <1>2 DEF Accept, Jobs
<1>6. Waiters'
  <2>1. Null \notin valid_cothreads'
    BY <1>2, <1>3, NullAssumption DEF ServerInv, ConnInv, EnvInv, EnvTypes
  <2> QED  BY <1>1, <1>2, <1>3, <1>5, <2>1, RunnerQuiet
<1>7. \A d \in DOMAIN client : /\ Numbers(d)' = Numbers(d) /\ ServedBy(d)' = ServedBy(d) /\ fd \notin Numbers(d)
  BY <1>2, <1>4, FreeNumbers DEF Numbers, ServedBy
<1>8. Numbers(c)' \subseteq {fd} /\ ServedBy(c)' = {t}
  BY <1>2, <1>4, NullAssumption DEF Numbers, ServedBy, NewClient
<1>9. \A d, e \in DOMAIN client' : Numbers(d)' \cap Numbers(e)' # {} => d = e
  BY <1>1, <1>4, <1>7, <1>8 DEF SocketsDistinct
<1>10. \A u \in Workers \ {t} : work'[u] = work[u] /\ (HasClient(u) => HasClient(u)')
  <2> TAKE u \in Workers \ {t}
  <2>1. work'[u] = work[u]
    BY <1>2, <1>5, SocksAssumption DEF Workers
  <2> QED  BY <1>4, <1>7, <2>1 DEF HasClient
<1>11. ProcessHasClient'
  <2>1. HasClient(t)'
    BY <1>3, <1>4, <1>5, <1>8, NoWorkFacts DEF HasClient
  <2>2. ASSUME NEW u \in Workers \ {t}, u \in valid_cothreads', work'[u].func = "process", work'[u].at # "ended"
        PROVE  HasClient(u)'
    BY <1>1, <1>3, <1>10, <2>2 DEF SocketsDistinct, ProcessHasClient
  <2> QED  BY <2>1, <2>2 DEF ProcessHasClient
<1>12. ASSUME NEW d \in DOMAIN client', NEW u \in Workers, client'[d].m_socket # Null,
              client'[d].m_socket \in {work'[u].from, work'[u].to}, work'[u].at # "ended"
       PROVE  \/ HasClient(u)' /\ work'[u].self = d
              \/ u \in cancel_list' /\ (client'[d].m_cothread \in add_list' \/ pc' = "sweep")
  <2>1. u # t /\ work'[u] = work[u]
    BY <1>5, <1>10, <1>12, NoWorkFacts
  <2>2. CASE d \in DOMAIN client
    <3>1. \/ HasClient(u) /\ work[u].self = d
          \/ u \in cancel_list /\ (client[d].m_cothread \in add_list \/ pc = "sweep")
      BY <1>1, <1>4, <1>12, <2>1, <2>2 DEF SocketsDistinct, StrangersGo
    <3> QED  BY <1>3, <1>4, <1>10, <2>1, <2>2, <3>1
  <2>3. CASE d = c
    <3>1. client'[d].m_socket = fd /\ client'[d].m_cothread = t /\ fd # Null
      BY <1>4, <1>12, <2>3 DEF NewClient
    <3>2. fd \in {work[u].from, work[u].to} /\ work[u].at # "ended" /\ work[u].at # "start" /\ u \in valid_cothreads
      <4>1. fd \in {work[u].from, work[u].to} /\ work[u].at # "ended" /\ u \in Threads /\ TaskInv(u)
        BY <1>12, <2>1, <3>1, ClientTypes DEF ServerInv, ServerRest
      <4> QED  BY <1>2, <3>1, <4>1, NoWorkFacts, NullAssumption DEF TaskInv
    <3>3. ~HasClient(u)
      <4> SUFFICES ASSUME HasClient(u) PROVE FALSE
        OBVIOUS
      <4>1. fd \in {FromOf(u), ToOf(u)} /\ work[u].self \in DOMAIN client
        BY <3>2 DEF HasClient, ServerInv, ServerRest, SocketInv
      <4> QED  BY <1>7, <3>1, <4>1 DEF FromOf, ToOf, Numbers
    <3> QED  BY <1>3, <3>1, <3>2, <3>3 DEF ServerInv, ServerRest, AliveInv
  <2> QED  BY <1>4, <2>2, <2>3
<1>13. StrangersGo'
  BY <1>12 DEF StrangersGo
<1> QED  BY <1>6, <1>9, <1>11, <1>13 DEF HeardInv, SocketsDistinct

\* A task moves on, and may close a socket of its client or cancel a task.
LEMMA MovesHeard ==
  ASSUME ServerInv, HeardInv, NEW p, AtPlace(p), it \in Workers, p # "ended", NEW q, GoesTo(q),
         UNCHANGED <<conn, client, node, block_list, leaving, it, valid_cothreads>>,
         cancel_list \subseteq cancel_list', add_list \subseteq add_list',
         \A n \in DOMAIN node : Alone(node[n].thread_ptr) => epoll'[node[n].fd] = epoll[node[n].fd]
  PROVE  HeardInv'
<1>1. Waiters /\ SocketsDistinct
  BY DEF HeardInv
<1>2. /\ pc = "run" /\ it \in Threads /\ work[it].at = p /\ Null \notin valid_cothreads'
      /\ \A t \in Threads \ {it} : work'[t] = work[t]
  BY ServerRuns, GoesFacts, NullAssumption DEF ServerInv, ConnInv, EnvInv, EnvTypes
<1>3. Waiters'
  BY <1>1, <1>2, RunnerQuiet
<1>4. SocketsDistinct'
  BY <1>1, <1>2, MoveDistinct
<1> QED  BY <1>3, <1>4 DEF HeardInv

LEMMA WayHeard ==
  ASSUME ServerInv, HeardInv, AddressesFitInt
  PROVE  /\ CallsInVain \/ ConnectsAtOnce \/ ClosesClient => HeardInv'
         /\ \A socket \in {"m_socket", "m_remote_socket"} : ClosesMember(socket) => HeardInv'
         /\ \A task \in {"m_cothread", "m_trans_cothread1"} : CancelsMember(task) => HeardInv'
<1>1. ASSUME NEW p, AtPlace(p), p # "ended", it \in Workers, NEW q, GoesTo(q), UNCHANGED <<connVars, client>> PROVE HeardInv'
  <2>1. UNCHANGED <<conn, client, node, epoll, block_list, leaving, it, valid_cothreads, cancel_list, add_list>>
    BY <1>1 DEF connVars, vars, lists, managerVars, registry, interest, walk
  <2> QED  BY <1>1, <2>1, MovesHeard
<1>2. ASSUME CallsInVain PROVE HeardInv'
  <2>1. PICK p \in DOMAIN OpAt : AtPlace(p) /\ it \in Workers
    BY <1>2 DEF CallsInVain
  <2>2. p # "ended"
    BY Tables DEF EndPlaces
  <2> QED  BY <1>1, <1>2, <2>1, <2>2 DEF CallsInVain
<1>3. ASSUME ConnectsAtOnce \/ ClosesClient PROVE HeardInv'
  <2>1. PICK p \in {"connect", "close"} : AtPlace(p)
    BY <1>3 DEF ConnectsAtOnce, ClosesClient
  <2>2. it \in Workers
    BY <2>1, WorkerPlaces DEF ListenerPlaces
  <2>3. \E q : GoesTo(q)
    BY <1>3 DEF ConnectsAtOnce, ClosesClient
  <2> QED  BY <1>1, <1>3, <2>1, <2>2, <2>3 DEF ConnectsAtOnce, ClosesClient
<1>4. ASSUME NEW socket \in {"m_socket", "m_remote_socket"}, ClosesMember(socket) PROVE HeardInv'
  <2>1. /\ AtPlace(socket) /\ GoesTo(NextMember[socket]) /\ UNCHANGED <<conn, timers, client, m_clients>>
        /\ it \in Workers /\ HasClient(it) /\ work[it].self \in DOMAIN client /\ pc = "run" /\ conn[it].at = "outside"
    BY <1>4, WorkerPlaces, ServerRuns DEF ClosesMember, ListenerPlaces, Self
  <2>2. PICK fd : fd = client[work[it].self][socket]
    OBVIOUS
  <2>3. /\ fd \in ClientFds \cup {Null} /\ Null \notin ClientFds
        /\ fd # Null => fd \in Numbers(work[it].self)
    BY <2>1, <2>2, ClientTypes DEF Members, Numbers, ServerInv, ServerRest
  <2>4. IF fd = Null THEN UNCHANGED vars ELSE ClosesSocket(fd)
    BY <1>4, <2>2 DEF ClosesMember, Self
  <2>5. UNCHANGED <<node, lists, leaving, pc, it>>
    BY <2>1, <2>3, <2>4, ClosesSocketStep
  <2>6. \A g \in Fds : g # fd \/ fd = Null => epoll'[g] = epoll[g]
    BY <2>4 DEF ClosesSocket, Close, CloseFd, Environment, vars, managerVars, interest, ServerInv, ConnInv, EnvInv,
                ManagerInv, ManagerTypeOK
  <2>7. ASSUME NEW n \in DOMAIN node, Alone(node[n].thread_ptr) PROVE epoll'[node[n].fd] = epoll[node[n].fd]
    <3>1. ~AtYield(it)
      BY <2>1, ClientTypes DEF AtYield, ServerInv, ServerRest
    <3>2. fd # Null => node[n].fd # fd
      BY <2>1, <2>3, <2>7, <3>1, NobodyAlone
    <3> QED  BY <2>6, <3>2, NodeThread
  <2> QED  BY <2>1, <2>5, <2>7, MovesHeard DEF lists
<1>5. ASSUME NEW task \in {"m_cothread", "m_trans_cothread1"}, CancelsMember(task) PROVE HeardInv'
  <2>1. /\ AtPlace(task) /\ GoesTo(NextMember[task]) /\ UNCHANGED <<conn, timers, client, m_clients>> /\ it \in Workers
    BY <1>5, WorkerPlaces DEF CancelsMember, ListenerPlaces
  <2>2. PICK id : CancelsTask(id)
    BY <1>5 DEF CancelsMember
  <2>3. /\ UNCHANGED <<node, leaving, pc, it, valid_cothreads, add_list>>
        /\ cancel_list' = cancel_list \cup ({id} \cap valid_cothreads)
    BY <2>1, <2>2, CancelsTaskStep DEF ServerInv
  <2>4. UNCHANGED <<epoll, block_list>>
    BY <2>2 DEF CancelsTask, CancelTask, vars, lists, managerVars, interest
  <2> QED  BY <2>1, <2>3, <2>4, MovesHeard
<1> QED  BY <1>2, <1>3, <1>4, <1>5

\* A task opens its connections, on the sockets of its own client.
LEMMA OpensHeard ==
  ASSUME ServerInv, ServerInv', HeardInv, Opens
  PROVE  HeardInv'
<1>1. Waiters /\ SocketsDistinct
  BY DEF HeardInv
<1>2. /\ AtPlace("start") /\ it \in Workers /\ it \in Threads /\ pc = "run" /\ work[it].at = "start" /\ leaving = Null
      /\ UNCHANGED <<node, epoll, block_list, valid_cothreads, cancel_list, add_list, leaving, pc, it, conn, client>>
  BY ServerRuns DEF Opens, connVars, vars, lists, managerVars, registry, interest, walk
<1>3. /\ \A t \in Threads \ {it} : work'[t] = work[t]
      /\ work'[it].func = work[it].func /\ work'[it].self = work[it].self /\ work'[it].at \in {"greet1", "read"}
  BY <1>2 DEF Opens, ServerInv, ServerRest, SocksTypeOK, Jobs
<1>4. HasClient(it)
  BY <1>2, RunningTask
<1>5. Waiters'
  <2>1. Null \notin valid_cothreads'
    BY <1>2, NullAssumption DEF ServerInv, ConnInv, EnvInv, EnvTypes
  <2> QED  BY <1>1, <1>2, <1>3, <2>1, RunnerQuiet
<1>6. \A c \in DOMAIN client : ServedBy(c)' = ServedBy(c) /\ Numbers(c)' = Numbers(c)
  BY <1>2 DEF ServedBy, Numbers
<1>7. \A u \in Workers : (HasClient(u) => HasClient(u)') /\ work'[u].self = work[u].self /\ work'[u].func = work[u].func
  <2>1. \A u \in Workers : work'[u].self = work[u].self /\ work'[u].func = work[u].func
    BY <1>3, ClientTypes DEF ServerInv, ServerRest
  <2> QED  BY <1>2, <1>6, <2>1 DEF HasClient
<1>8. ProcessHasClient'
  BY <1>1, <1>2, <1>3, <1>4, <1>7, ClientTypes DEF SocketsDistinct, ProcessHasClient, ServerInv, ServerRest
<1>9. ASSUME NEW c \in DOMAIN client, NEW u \in Workers, client[c].m_socket # Null,
             client[c].m_socket \in {work'[u].from, work'[u].to}, work'[u].at # "ended"
      PROVE  \/ HasClient(u)' /\ work'[u].self = c
             \/ u \in cancel_list' /\ (client[c].m_cothread \in add_list' \/ pc' = "sweep")
  <2>1. CASE u # it
    <3>1. work'[u] = work[u]
      BY <1>3, <2>1, ClientTypes DEF ServerInv, ServerRest
    <3> QED  BY <1>1, <1>2, <1>7, <1>9, <3>1 DEF SocketsDistinct, StrangersGo
  <2>2. CASE u = it
    <3>1. HasClient(u)' /\ work'[u].at # "start"
      BY <1>3, <1>4, <1>7, <2>2
    <3>2. work'[u].from = FromOf(u)' /\ work'[u].to = ToOf(u)'
      BY <3>1 DEF ServerInv, ServerRest, SocketInv
    <3>3. client[c].m_socket \in {client[work[u].self].m_socket, client[work[u].self].m_remote_socket}
      BY <1>2, <1>7, <1>9, <3>2 DEF FromOf, ToOf
    <3>4. Numbers(c) \cap Numbers(work[u].self) # {} /\ work[u].self \in DOMAIN client
      BY <1>4, <1>9, <2>2, <3>3 DEF Numbers, HasClient
    <3> QED  BY <1>1, <1>7, <3>1, <3>4 DEF SocketsDistinct
  <2> QED  BY <2>1, <2>2
<1>10. StrangersGo'
  BY <1>2, <1>9 DEF StrangersGo
<1> QED  BY <1>1, <1>2, <1>5, <1>6, <1>8, <1>10 DEF HeardInv, SocketsDistinct

\* A remote socket has a number that no client has.
LEMMA OpensRemoteHeard ==
  ASSUME ServerInv, HeardInv, NEW fd \in ClientFds \cup {Null}, OpensRemote(fd)
  PROVE  HeardInv'
<1>1. Waiters /\ SocketsDistinct
  BY DEF HeardInv
<1>2. /\ AtPlace("socket") /\ it \in Workers /\ it \in Threads /\ pc = "run" /\ work[it].at = "socket" /\ leaving = Null
      /\ Self \in DOMAIN client /\ fd \in Opened
      /\ UNCHANGED <<node, epoll, block_list, valid_cothreads, cancel_list, add_list, leaving, pc, it, conn>>
  BY ProcessAlone, ServerRuns DEF OpensRemote, connVars, vars, lists, managerVars, registry, interest, walk
<1>3. PICK s : s = Self
  OBVIOUS
<1>4. /\ \A t \in Threads \ {it} : work'[t] = work[t]
      /\ work'[it].func = work[it].func /\ work'[it].self = work[it].self /\ work'[it].at = "connect"
      /\ work'[it].from = work[it].from /\ work'[it].to = fd
  BY <1>2 DEF OpensRemote, ServerInv, ServerRest, SocksTypeOK, Jobs
<1>5. /\ DOMAIN client' = DOMAIN client
      /\ \A c \in DOMAIN client : /\ client'[c].m_socket = client[c].m_socket /\ client'[c].m_cothread = client[c].m_cothread
                                  /\ client'[c].m_trans_cothread1 = client[c].m_trans_cothread1
                                  /\ client'[c].m_trans_cothread2 = client[c].m_trans_cothread2
                                  /\ client'[c].m_remote_socket = IF c = s THEN fd ELSE client[c].m_remote_socket
  BY <1>2, <1>3, ClientTypes DEF OpensRemote, Members, ServerInv, ServerRest
<1>6. Waiters'
  <2>1. Null \notin valid_cothreads'
    BY <1>2, NullAssumption DEF ServerInv, ConnInv, EnvInv, EnvTypes
  <2> QED  BY <1>1, <1>2, <1>4, <2>1, RunnerQuiet
<1>7. \A c \in DOMAIN client : /\ ServedBy(c)' = ServedBy(c) /\ fd \notin Numbers(c)
                               /\ Numbers(c)' \subseteq Numbers(c) \cup (IF c = s THEN {fd} ELSE {}) /\ Null \notin Numbers(c)'
  <2>1. \A c \in DOMAIN client : fd \notin Numbers(c)
    BY <1>2, FreeNumbers
  <2> QED  BY <1>5, <2>1 DEF ServedBy, Numbers
<1>8. \A c, d \in DOMAIN client : Numbers(c)' \cap Numbers(d)' # {} => c = d
  BY <1>1, <1>7 DEF SocketsDistinct
<1>9. \A u \in Workers : /\ HasClient(u) => HasClient(u)'
                         /\ work'[u].self = work[u].self /\ work'[u].func = work[u].func /\ work'[u].from = work[u].from
                         /\ work'[u].to \in {work[u].to, fd} /\ (work'[u].at # "ended" => work[u].at # "ended")
  <2>1. \A u \in Workers : /\ work'[u].self = work[u].self /\ work'[u].func = work[u].func /\ work'[u].from = work[u].from
                           /\ work'[u].to \in {work[u].to, fd} /\ (work'[u].at # "ended" => work[u].at # "ended")
    BY <1>2, <1>4, ClientTypes DEF ServerInv, ServerRest
  <2> QED  BY <1>5, <1>7, <2>1 DEF HasClient
<1>10. ProcessHasClient'
  BY <1>1, <1>2, <1>9 DEF SocketsDistinct, ProcessHasClient
<1>11. ASSUME NEW c \in DOMAIN client, NEW u \in Workers, client'[c].m_socket # Null,
              client'[c].m_socket \in {work'[u].from, work'[u].to}, work'[u].at # "ended"
       PROVE  \/ HasClient(u)' /\ work'[u].self = c
              \/ u \in cancel_list' /\ (client'[c].m_cothread \in add_list' \/ pc' = "sweep")
  <2>1. client'[c].m_socket # fd
    BY <1>5, <1>7, <1>11 DEF Numbers
  <2>2. client[c].m_socket # Null /\ client[c].m_socket \in {work[u].from, work[u].to} /\ work[u].at # "ended"
    BY <1>5, <1>9, <1>11, <2>1
  <2>3. \/ HasClient(u) /\ work[u].self = c
        \/ u \in cancel_list /\ (client[c].m_cothread \in add_list \/ pc = "sweep")
    BY <1>1, <2>2 DEF SocketsDistinct, StrangersGo
  <2> QED  BY <1>2, <1>5, <1>9, <2>3
<1>12. StrangersGo'
  BY <1>5, <1>11 DEF StrangersGo
<1> QED  BY <1>5, <1>6, <1>8, <1>10, <1>12 DEF HeardInv, SocketsDistinct

\* A relay is added, and has no socket yet.
LEMMA AddsHeard ==
  ASSUME ServerInv, HeardInv, NEW p \in {"relay1", "relay2"}, AtPlace(p), NEW t \in RelayTasks, AddTask(t),
         UNCHANGED <<conn, timers>>, NEW func \in Relays, NEW q \in {"relay2", "ended"},
         work' = [work EXCEPT ![t] = Task(func, Self), ![it].at = q], DOMAIN client' = DOMAIN client,
         \A c \in DOMAIN client : /\ client'[c].m_socket = client[c].m_socket
                                  /\ client'[c].m_remote_socket = client[c].m_remote_socket
                                  /\ client'[c].m_cothread = client[c].m_cothread \/ client[c].m_cothread = it
                                  /\ \A u \in ServedBy(c) : u \in ServedBy(c)' \/ (u = it /\ q = "ended")
  PROVE  HeardInv'
<1>1. Waiters /\ SocketsDistinct
  BY DEF HeardInv
<1>2. /\ it \in Workers /\ it \in Threads /\ pc = "run" /\ work[it].at = p /\ leaving = Null /\ it \notin add_list
      /\ Self \in Clients /\ work \in [Threads -> Jobs] /\ t \in Workers /\ t \in Threads /\ it \in valid_cothreads
  BY ProcessAlone, ServerRuns, ClientTypes DEF ServerInv, ServerRest, SocksTypeOK, Workers
<1>3. /\ t \notin valid_cothreads \cup {leaving} /\ t # it /\ valid_cothreads' = valid_cothreads \cup {t}
      /\ add_list' = add_list \cup {t} /\ UNCHANGED <<node, epoll, block_list, cancel_list, leaving, pc, it>>
  BY <1>2, AddTaskStep DEF AddTask, managerVars, interest
<1>4. PICK job : job = Task(func, Self)
  OBVIOUS
<1>5. job.from = Null /\ job.to = Null /\ job.func # "process"
  BY <1>2, <1>4, NoWorkFacts DEF Relays
<1>6. /\ \A u \in Threads \ {it, t} : work'[u] = work[u]
      /\ work'[t] = job
      /\ work'[it].func = work[it].func /\ work'[it].self = work[it].self /\ work'[it].at = q
      /\ work'[it].from = work[it].from /\ work'[it].to = work[it].to
  BY <1>2, <1>3, <1>4 DEF Jobs
<1>7. Waiters'
  <2>1. Null \notin valid_cothreads'
    BY <1>2, <1>3, NullAssumption DEF ServerInv, ConnInv, EnvInv, EnvTypes
  <2>2. \A u \in Threads \ {it} : u \notin Workers \/ u \in valid_cothreads => work'[u] = work[u]
    BY <1>2, <1>3, <1>6
  <2> QED  BY <1>1, <1>2, <1>3, <2>1, <2>2, RunnerQuiet
<1>8. \A c \in DOMAIN client : Numbers(c)' = Numbers(c)
  BY DEF Numbers
<1>9. \A u \in Workers \ {t} : /\ work'[u].func = work[u].func /\ work'[u].self = work[u].self
                               /\ work'[u].from = work[u].from /\ work'[u].to = work[u].to
                               /\ work'[u].at # "ended" => work[u].at # "ended"
                               /\ HasClient(u) /\ work'[u].at # "ended" => HasClient(u)'
  <2>1. \A u \in Workers \ {t} : /\ work'[u].func = work[u].func /\ work'[u].self = work[u].self
                                 /\ work'[u].from = work[u].from /\ work'[u].to = work[u].to
                                 /\ work'[u].at # "ended" => work[u].at # "ended" /\ ~(u = it /\ q = "ended")
    BY <1>2, <1>6, ClientTypes DEF ServerInv, ServerRest
  <2> QED  BY <2>1 DEF HasClient
<1>10. ProcessHasClient'
  BY <1>1, <1>3, <1>5, <1>6, <1>9 DEF SocketsDistinct, ProcessHasClient
<1>11. ASSUME NEW c \in DOMAIN client, NEW u \in Workers, client'[c].m_socket # Null,
              client'[c].m_socket \in {work'[u].from, work'[u].to}, work'[u].at # "ended"
       PROVE  \/ HasClient(u)' /\ work'[u].self = c
              \/ u \in cancel_list' /\ (client'[c].m_cothread \in add_list' \/ pc' = "sweep")
  <2>1. u # t
    BY <1>5, <1>6, <1>11
  <2>2. \/ HasClient(u) /\ work[u].self = c
        \/ u \in cancel_list /\ (client[c].m_cothread \in add_list \/ pc = "sweep")
    BY <1>1, <1>9, <1>11, <2>1 DEF SocketsDistinct, StrangersGo
  <2> QED  BY <1>2, <1>3, <1>9, <1>11, <2>1, <2>2
<1>12. StrangersGo'
  BY <1>11 DEF StrangersGo
<1> QED  BY <1>1, <1>7, <1>8, <1>10, <1>12 DEF HeardInv, SocketsDistinct

LEMMA AddsRelaysHeard ==
  ASSUME ServerInv, HeardInv, NEW t \in RelayTasks
  PROVE  AddsRelay1(t) \/ AddsRelay2(t) => HeardInv'
<1> USE ClientTypes DEF ServerInv, ServerRest
<1>1. ASSUME AddsRelay1(t) PROVE HeardInv'
  <2>1. /\ AtPlace("relay1") /\ AddTask(t) /\ UNCHANGED <<conn, timers>>
        /\ work' = [work EXCEPT ![t] = Task("trans_func1", Self), ![it].at = "relay2"]
        /\ client' = [client EXCEPT ![Self].m_trans_cothread1 = t]
    BY <1>1 DEF AddsRelay1
  <2>2. Self \in DOMAIN client /\ client[Self].m_trans_cothread1 = Null
    BY <2>1, ProcessAlone
  <2>3. /\ DOMAIN client' = DOMAIN client
        /\ \A c \in DOMAIN client : /\ client'[c].m_socket = client[c].m_socket /\ client'[c].m_cothread = client[c].m_cothread
                                    /\ client'[c].m_remote_socket = client[c].m_remote_socket
                                    /\ client'[c].m_trans_cothread2 = client[c].m_trans_cothread2
                                    /\ client[c].m_trans_cothread1 \in {client'[c].m_trans_cothread1, Null}
    BY <2>1, <2>2 DEF Members
  <2>4. \A c \in DOMAIN client : ServedBy(c) \subseteq ServedBy(c)'
    BY <2>3 DEF ServedBy
  <2> HIDE DEF ServerInv, ServerRest
  <2> QED  BY <2>1, <2>3, <2>4, AddsHeard DEF Relays
<1>2. ASSUME AddsRelay2(t) PROVE HeardInv'
  <2>1. /\ AtPlace("relay2") /\ AddTask(t) /\ UNCHANGED <<conn, timers>>
        /\ work' = [work EXCEPT ![t] = Task("trans_func2", Self), ![it].at = "ended"]
        /\ client' = [client EXCEPT ![Self].m_trans_cothread2 = t, ![Self].m_cothread = Null]
    BY <1>2 DEF AddsRelay2
  <2>2. Self \in DOMAIN client /\ client[Self].m_trans_cothread2 = Null /\ client[Self].m_cothread = it
    BY <2>1, ProcessAlone
  <2>3. /\ DOMAIN client' = DOMAIN client
        /\ \A c \in DOMAIN client : /\ client'[c].m_socket = client[c].m_socket
                                    /\ client'[c].m_cothread = client[c].m_cothread \/ client[c].m_cothread = it
                                    /\ client'[c].m_remote_socket = client[c].m_remote_socket
                                    /\ client'[c].m_trans_cothread1 = client[c].m_trans_cothread1
                                    /\ client[c].m_trans_cothread2 \in {client'[c].m_trans_cothread2, Null}
    BY <2>1, <2>2 DEF Members
  <2>4. \A c \in DOMAIN client : \A u \in ServedBy(c) : u \in ServedBy(c)' \/ u = it
    BY <2>3 DEF ServedBy
  <2> HIDE DEF ServerInv, ServerRest
  <2> QED  BY <2>1, <2>3, <2>4, AddsHeard DEF Relays
<1> QED  BY <1>1, <1>2

\* The client is gone: process of no other client had it.
LEMMA DeletedHeard ==
  ASSUME ServerInv, HeardInv, AddressesFitInt, Deleted
  PROVE  HeardInv'
<1>1. Waiters /\ SocketsDistinct
  BY DEF HeardInv
<1>2. /\ AtPlace("m_trans_cothread2") /\ it \in Workers /\ it \in Threads /\ pc = "run" /\ leaving = Null
      /\ work[it].at = "m_trans_cothread2" /\ HasClient(it) /\ GoesTo("ended") /\ UNCHANGED <<conn, timers>>
  BY WorkerPlaces, ServerRuns DEF Deleted, ListenerPlaces
<1>3. PICK id : CancelsTask(id)
  BY DEF Deleted
<1>4. /\ UNCHANGED <<node, leaving, pc, it, valid_cothreads, add_list>> /\ cancel_list \subseteq cancel_list'
  BY <1>2, <1>3, CancelsTaskStep DEF ServerInv
<1>5. UNCHANGED <<epoll, block_list>>
  BY <1>3 DEF CancelsTask, CancelTask, vars, lists, managerVars, interest
<1>6. PICK s : s = work[it].self
  OBVIOUS
<1>7. DOMAIN client' = DOMAIN client \ {s} /\ \A c \in DOMAIN client' : client'[c] = client[c]
  BY <1>6 DEF Deleted, Self
<1>8. /\ \A u \in Threads \ {it} : work'[u] = work[u]
      /\ work'[it].at = "ended"
  BY <1>2, GoesFacts
<1>9. Waiters'
  <2>1. Null \notin valid_cothreads'
    BY <1>4, NullAssumption DEF ServerInv, ConnInv, EnvInv, EnvTypes
  <2> QED  BY <1>1, <1>2, <1>4, <1>5, <1>8, <2>1, RunnerQuiet
<1>10. \A c \in DOMAIN client' : Numbers(c)' = Numbers(c) /\ ServedBy(c)' = ServedBy(c)
  BY <1>7 DEF Numbers, ServedBy
<1>11. \A u \in Workers : work'[u].at # "ended" => /\ u # it /\ work'[u] = work[u]
                                                   /\ HasClient(u) /\ work[u].self # s => HasClient(u)'
  <2>1. \A u \in Workers : work'[u].at # "ended" => u # it /\ work'[u] = work[u]
    BY <1>8, ClientTypes DEF ServerInv, ServerRest
  <2> QED  BY <1>7, <1>10, <2>1 DEF HasClient
<1>12. ASSUME NEW u \in Workers, u \in valid_cothreads', work'[u].func = "process", work'[u].at # "ended" PROVE HasClient(u)'
  <2>1. u # it /\ work[u].func = "process" /\ HasClient(u)
    BY <1>1, <1>4, <1>11, <1>12 DEF SocketsDistinct, ProcessHasClient
  <2>2. work[u].self # s
    BY <1>2, <1>6, <2>1, ProcessIsAlone
  <2> QED  BY <1>11, <1>12, <2>1, <2>2
<1>13. ASSUME NEW c \in DOMAIN client', NEW u \in Workers, client'[c].m_socket # Null,
              client'[c].m_socket \in {work'[u].from, work'[u].to}, work'[u].at # "ended"
       PROVE  \/ HasClient(u)' /\ work'[u].self = c
              \/ u \in cancel_list' /\ (client'[c].m_cothread \in add_list' \/ pc' = "sweep")
  <2>1. \/ HasClient(u) /\ work[u].self = c
        \/ u \in cancel_list /\ (client[c].m_cothread \in add_list \/ pc = "sweep")
    BY <1>1, <1>7, <1>11, <1>13 DEF SocketsDistinct, StrangersGo
  <2> QED  BY <1>4, <1>7, <1>11, <1>13, <2>1
<1>14. ProcessHasClient' /\ StrangersGo'
  BY <1>12, <1>13 DEF ProcessHasClient, StrangersGo
<1> QED  BY <1>1, <1>7, <1>9, <1>10, <1>14 DEF HeardInv, SocketsDistinct

LEMMA EndedHeard ==
  ASSUME ServerInv, HeardInv, Ended
  PROVE  HeardInv'
<1>1. Waiters /\ SocketsDistinct
  BY DEF HeardInv
<1>2. /\ pc = "run" /\ it \in Threads /\ it \in Workers /\ conn[it].at = "outside" /\ UNCHANGED <<conn, client, work>>
  BY WorkerPlaces, ServerRuns DEF Ended, ListenerPlaces, serverVars
<1>3. /\ UNCHANGED <<node, epoll, block_list, cancel_list, add_list, it>> /\ LeavesLast' /\ pc' = "process"
      /\ valid_cothreads' \subseteq valid_cothreads
  BY DEF Ended, Finish, RemoveCoThread, CancelCoThread, registry, interest, LeavesLast
<1>4. ~AtYield(it) /\ ~AtYield(it)' /\ \A t \in Threads \ {it} : Same(t)
  BY <1>2, <1>3, ClientTypes DEF AtYield, Same, ServerInv, ServerRest
<1>5. Waiters'
  BY <1>1, <1>2, <1>3, <1>4, RunsHeard DEF NodesShrink
<1>6. SocketsDistinct'
  BY <1>1, <1>2, <1>3, DistinctKept
<1> QED  BY <1>5, <1>6 DEF HeardInv

\* A call that returns cancels an event, which need not be its own; whoever waits
\* alone has the only one of its fd.
LEMMA CancelHeard ==
  ASSUME ServerInv, Waiters, pc = "run", FinishCall \/ GiveUp
  PROVE  /\ NodesShrink /\ UNCHANGED <<block_list, cancel_list, it>> /\ LeavesLast'
         /\ \A n \in DOMAIN node' : Alone(node[n].thread_ptr) => epoll'[node[n].fd] = epoll[node[n].fd]
<1>1. PICK id : Cancels(id)
  BY DEF FinishCall, GiveUp
<1>2. UNCHANGED <<block_list, cancel_list, it, leaving, valid_cothreads, pc>>
  BY <1>1 DEF Cancels, CancelEvent, vars, lists, managerVars, walk
<1>3. LeavesLast'
  BY <1>2 DEF Waiters, LeavesLast
<1>4. CASE UNCHANGED <<node, epoll>>
  BY <1>2, <1>3, <1>4 DEF NodesShrink
<1>5. CASE id \in valid_event /\ DeleteEvent(id)
  <2>1. ManagerInv /\ id \in DOMAIN node
    BY <1>5 DEF ServerInv, ConnInv, EnvInv, ManagerInv, RecordsAgree
  <2>2. /\ DOMAIN node' = DOMAIN node \ {id}
        /\ \A m \in DOMAIN node' : node'[m] = node[m]
        /\ \A fd \in Fds : fd # node[id].fd => epoll'[fd] = epoll[fd]
    BY <1>5, <2>1, DeletedIsForgotten
  <2>3. \A m \in DOMAIN node' : /\ node[m].fd \in Fds
                                /\ Alone(node[m].thread_ptr) => node[m].fd # node[id].fd
    BY <2>1, <2>2, NodeThread DEF Waiters, Watched
  <2> QED  BY <1>2, <1>3, <2>2, <2>3 DEF NodesShrink
<1> QED
  BY <1>1, <1>4, <1>5 DEF Cancels, CancelEvent, vars, managerVars, registry, interest

\* The calls of a task, with the registration of what it waits for.
LEMMA CallsHeard ==
  ASSUME ServerInv, HeardInv, NoOrphanInterest, CacheForgotten
  PROVE  Calling \/ InCall \/ CallSucceeds \/ CallFails => HeardInv'
<1>1. /\ Waiters /\ SocketsDistinct /\ ConnInv /\ conn \in [Threads -> Frames] /\ work \in [Threads -> Jobs]
      /\ Listener \notin Workers
  BY ClientTypes DEF ServerInv, ServerRest, HeardInv, ConnInv, ConnTypeOK, SocksTypeOK
<1>2. it \in Workers => (AtYield(it) <=> conn[it].at = "yield") /\ WaitedMask(it) = Mask(conn[it].op) /\ WaitedFd(it) = conn[it].fd
  BY <1>1 DEF AtYield, WaitedMask, WaitedFd
<1>3. it' \in Workers =>
        /\ AtYield(it)' <=> conn'[it'].at = "yield"
        /\ Waiting(it)' <=> conn'[it'].at = "waiting"
        /\ WaitedMask(it)' = Mask(conn'[it'].op) /\ WaitedFd(it)' = conn'[it'].fd
  BY <1>1 DEF AtYield, Waiting, WaitedMask, WaitedFd
\* A step that leaves the events and the lists alone.
<1>4. ASSUME pc = "run", it \in Workers, conn[it].at # "yield", conn'[it].at # "yield", \A t \in Threads \ {it} : Same(t),
             UNCHANGED <<node, epoll, block_list, leaving, it, valid_cothreads>>
      PROVE  Waiters'
  <2>1. LeavesLast'
    BY <1>1, <1>4, NullAssumption DEF Waiters, LeavesLast
  <2>2. ~AtYield(it) /\ ~AtYield(it)'
    BY <1>2, <1>3, <1>4
  <2> QED  BY <1>1, <1>4, <2>1, <2>2, RunsHeard DEF NodesShrink
<1>5. ASSUME it \in Threads, NEW p, GoesTo(p) \/ UNCHANGED work, \A t \in Threads \ {it} : conn'[t] = conn[t]
      PROVE  \A t \in Threads \ {it} : Same(t)
  BY <1>1, <1>5, GoesFacts DEF Same
<1>6. UNCHANGED vars => UNCHANGED <<node, epoll, block_list, leaving, it, cancel_list, add_list, valid_cothreads>>
  BY DEF vars, lists, managerVars, registry, interest, walk
<1>7. ASSUME Calling PROVE HeardInv'
  <2>1. /\ pc = "run" /\ it \in Workers /\ work[it].at \in DOMAIN OpAt /\ UNCHANGED <<work, client>>
        /\ StartCall(OpAt[work[it].at], FdOf(it))
    BY <1>7, CallStep DEF Calling, serverVars
  <2>2. it \in Threads /\ work[it].at # "ended"
    BY <2>1, RunningTask, Tables DEF EndPlaces
  <2>3. /\ UNCHANGED vars /\ conn[it].at # "yield" /\ conn'[it].at # "yield" /\ \A t \in Threads \ {it} : conn'[t] = conn[t]
    BY <1>1, <2>1, <2>2 DEF StartCall, At, Outside, FirstStep
  <2>4. Waiters'
    BY <1>4, <1>5, <1>6, <2>1, <2>2, <2>3
  <2>5. SocketsDistinct'
    BY <1>1, <1>6, <2>1, <2>2, <2>3, MoveDistinct
  <2> QED  BY <2>4, <2>5 DEF HeardInv
<1>8. ASSUME InCall \/ CallSucceeds \/ CallFails
      PROVE  /\ pc = "run" /\ it \in Threads /\ it \in Workers /\ it' = it
             /\ conn[it].fd = FdOf(it) /\ FdOf(it) \in ClientFds /\ work[it].at \in DOMAIN OpAt
             /\ \A t \in Threads \ {it} : Same(t)
             /\ SocketsDistinct'
  <2>1. pc = "run" /\ (CallGoesOn \/ FinishCall \/ GiveUp)
    BY <1>8 DEF InCall, CallGoesOn, CallSucceeds, CallFails, WouldBlock, MovePart, MoveAllOrFail, Retry, Wait, Resume,
                RegisterSocket, FinishCall, GiveUp, At
  <2>2. /\ it \in Threads /\ conn[it].at # "outside" /\ TaskInv(it) /\ it' = it
        /\ \A t \in Threads : t # it => conn'[t] = conn[t]
        /\ UNCHANGED <<valid_cothreads, cancel_list, add_list>>
    BY <1>1, <2>1, CallEvents, RunningTask
  <2>3. it \in Workers /\ work[it].at \in DOMAIN OpAt /\ conn[it].fd = FdOf(it) /\ FdOf(it) \in ClientFds
    BY <2>2 DEF TaskInv, CallInv
  <2>4. UNCHANGED client /\ \E p : GoesTo(p) \/ UNCHANGED work
    BY <1>8 DEF InCall, CallSucceeds, CallFails, serverVars
  <2>5. work[it].at # "ended"
    BY <2>3, Tables DEF EndPlaces
  <2>6. SocketsDistinct'
    BY <1>1, <2>1, <2>2, <2>4, <2>5, MoveDistinct
  <2> QED  BY <1>5, <2>1, <2>2, <2>3, <2>4, <2>6
<1>9. ASSUME InCall, WouldBlock \/ MovePart \/ MoveAllOrFail \/ Retry \/ Resume PROVE Waiters'
  <2>1. UNCHANGED <<node, epoll, block_list, leaving, it, valid_cothreads>>
    BY <1>6, <1>9 DEF WouldBlock, MovePart, MoveAllOrFail, Retry, Resume, Moved, Environment, lists, managerVars,
                      registry, interest, walk
  <2>2. conn[it].at # "yield"
    BY <1>9 DEF WouldBlock, MovePart, MoveAllOrFail, Retry, Resume, At
  <2>3. \E q \in PlaceNames \ {"yield"} : conn'[it].at = q
    <3>1. \A op : NextStep(op) \in PlaceNames \ {"yield"}
      BY DEF NextStep, PlaceNames
    <3>2. \A q : Goes(q) => conn'[it].at = q
      BY <1>1, <1>8, <1>9 DEF Goes, Frames
    <3>3. CASE WouldBlock \/ MovePart \/ MoveAllOrFail \/ Retry \/ Goes("cancel")
      BY <3>2, <3>3 DEF WouldBlock, MovePart, MoveAllOrFail, Retry, PlaceNames
    <3>4. CASE conn' = [conn EXCEPT ![it].at = NextStep(conn[it].op), ![it].event_id = Null]
      BY <1>1, <1>8, <1>9, <3>1, <3>4 DEF Frames
    <3> QED  BY <1>9, <3>3, <3>4 DEF Resume
  <2> QED  BY <1>4, <1>8, <1>9, <2>1, <2>2, <2>3
<1>10. ASSUME InCall PROVE Alone(it)' <=> Alone(it)
  BY <1>8, <1>10 DEF InCall, Alone, serverVars
<1>11. ASSUME InCall, NEW n \in Nodes, RegisterSocket(n) PROVE Waiters'
  <2>1. /\ conn[it].at = "register" /\ AddEvent(n, conn[it].fd, Mask(conn[it].op), it) /\ UNCHANGED <<lists, pc, it>>
        /\ conn'[it].at = "yield" /\ conn'[it].op = conn[it].op /\ conn'[it].fd = conn[it].fd
    BY <1>1, <1>8, <1>11 DEF RegisterSocket, RegisterEvent, At, Frames
  <2>2. PICK fd \in Fds : fd = conn[it].fd /\ fd = FdOf(it) /\ fd \in ClientFds
    BY <1>8, <1>11, SocksAssumption
  <2>3. /\ pc = "run" /\ ~AtYield(it) /\ AtYield(it)' /\ Mask(conn[it].op) = WaitedMask(it)' /\ fd = WaitedFd(it)'
        /\ \A t \in Threads \ {it} : Same(t)
    BY <1>2, <1>3, <1>8, <1>11, <2>1, <2>2
  <2>4. work[it].at \notin EndPlaces \cup ListenerPlaces \cup {"socket", "relay1", "relay2"}
    BY <1>8, <1>11, Tables
  <2>5. HasClient(it) /\ work[it].from = FromOf(it) /\ work[it].to = ToOf(it) /\ TaskInv(it)
    BY <1>8, <1>11, <2>3, <2>4, RunningTask DEF EndPlaces, ListenerPlaces, ServerInv, ServerRest, SocketInv
  <2>6. fd \in Numbers(work[it].self)
    BY <2>2, <2>5, ClientTypes DEF FdOf, FromOf, ToOf, Numbers, ServerInv, ServerRest
  <2>7. \A m \in DOMAIN node : Alone(node[m].thread_ptr) => node[m].fd # fd
    BY <1>8, <1>11, <2>3, <2>5, <2>6, NobodyAlone
  <2>8. ASSUME Alone(it), NEW m \in DOMAIN node PROVE node[m].fd # fd
    <3>1. work[it].func = "process" /\ work[it].at # "connect" /\ it \in Workers
      BY <1>1, <1>8, <1>11, <2>8 DEF Alone
    <3>2. work[it].at # "write"
      BY <2>4, <2>5, <3>1 DEF TaskInv, PlaceInv, ListenerPlaces, ProcessPlaces, Relays, EndPlaces, MemberPlaces
    <3>3. fd = client[work[it].self].m_socket /\ fd # Null
      BY <2>2, <2>5, <3>1, <3>2, ClientTypes DEF FdOf, FromOf, ServerInv, ServerRest
    <3> QED  BY <2>3, <2>4, <2>5, <3>1, <3>3, ProcessWaitsAlone
  <2>9. \A m \in DOMAIN node : Alone(node[m].thread_ptr) \/ Alone(it)' => node[m].fd # fd
    BY <1>10, <1>11, <2>7, <2>8
  <2> QED  BY <1>1, <2>1, <2>2, <2>3, <2>9, RegistersHeard
<1>12. ASSUME InCall, Wait PROVE Waiters'
  <2>1. Block /\ conn[it].at = "yield" /\ conn'[it].at = "waiting" /\ conn'[it].op = conn[it].op /\ conn'[it].fd = conn[it].fd
    BY <1>1, <1>8, <1>12 DEF Wait, At, Goes, Frames
  <2>2. /\ pc = "run" /\ AtYield(it) /\ Waiting(it)' /\ ~AtYield(it)' /\ \A t \in Threads \ {it} : Same(t)
        /\ WaitedFd(it)' = WaitedFd(it) /\ WaitedMask(it)' = WaitedMask(it)
    BY <1>2, <1>3, <1>8, <1>12, <2>1
  <2> QED  BY <1>1, <1>10, <1>12, <2>1, <2>2, BlocksHeard
<1>13. ASSUME CallSucceeds \/ CallFails PROVE Waiters'
  <2>1. FinishCall \/ GiveUp
    BY <1>13 DEF CallSucceeds, CallFails
  <2>2. conn[it].at \in {"done", "cancel"}
    BY <2>1 DEF FinishCall, GiveUp, At
  <2>3. ~AtYield(it)
    BY <1>2, <1>8, <1>13, <2>2
  <2>4. /\ NodesShrink /\ UNCHANGED <<block_list, cancel_list, it>> /\ LeavesLast'
        /\ \A n \in DOMAIN node' : Alone(node[n].thread_ptr) => epoll'[node[n].fd] = epoll[node[n].fd]
    BY <1>1, <1>8, <1>13, <2>1, CancelHeard
  <2>5. conn'[it].at # "yield"
    BY <1>1, <1>8, <1>13, <2>1, CallEvents DEF Outside
  <2>6. pc = "run" /\ ~AtYield(it)' /\ \A t \in Threads \ {it} : Same(t)
    BY <1>3, <1>8, <1>13, <2>5
  <2> QED  BY <1>1, <2>3, <2>4, <2>6, RunsHeard
<1> QED  BY <1>7, <1>8, <1>9, <1>11, <1>12, <1>13 DEF InCall, HeardInv

\* At the end of the sweep whoever was cancelled is gone.
LEMMA ScheduleDistinct ==
  ASSUME ServerInv, SocketsDistinct, ServerSchedule
  PROVE  SocketsDistinct'
<1>1. /\ \A t \in Threads : work'[t] = IF t \in valid_cothreads' \cup {leaving'} THEN work[t] ELSE NoWork
      /\ UNCHANGED client /\ Workers \subseteq Threads
  BY ClientTypes DEF ServerSchedule, ServerInv, ServerRest
<1>2. Loop \/ CallLoop
  BY DEF ServerSchedule
<1>3. /\ \A t \in Threads : t \in valid_cothreads' \cup {leaving'} => t \in valid_cothreads \cup {leaving}
      /\ valid_cothreads' \subseteq valid_cothreads
      /\ \/ cancel_list' = cancel_list
         \/ cancel_list' = {} /\ valid_cothreads \cap cancel_list = {} /\ leaving = Null
      /\ add_list' = add_list \/ pc' = "sweep"
      /\ pc = "sweep" => pc' = "sweep" \/ cancel_list' = {}
  BY <1>2, LoopLists DEF AliveInv, ServerInv, ServerRest, ConnInv
<1>4. \A t \in Workers :
        \/ /\ work'[t].func = work[t].func /\ work'[t].self = work[t].self
           /\ work'[t].from = work[t].from /\ work'[t].to = work[t].to
           /\ work[t].at = "ended" => work'[t].at = "ended"
           /\ t \in valid_cothreads' => t \in valid_cothreads
        \/ work'[t] = NoWork /\ t \notin valid_cothreads'
  BY <1>1, <1>3
<1>5. CASE cancel_list' = cancel_list /\ (pc' = "sweep" \/ (pc # "sweep" /\ add_list' = add_list))
  BY <1>1, <1>4, <1>5, DistinctKept
<1>6. CASE cancel_list' = {} /\ \A t \in Threads : t \in valid_cothreads' \cup {leaving'} => t \notin cancel_list
  <2>1. /\ \A c \in DOMAIN client : ServedBy(c)' = ServedBy(c) /\ Numbers(c)' = Numbers(c)
        /\ \A t \in Workers : work'[t] = work[t] /\ HasClient(t) => HasClient(t)'
    BY <1>1 DEF ServedBy, Numbers, HasClient
  <2>2. ProcessHasClient'
    <3> SUFFICES ASSUME NEW t \in Workers, t \in valid_cothreads', work'[t].func = "process", work'[t].at # "ended"
                 PROVE  HasClient(t)'
      BY DEF ProcessHasClient
    <3>1. work'[t] = work[t] /\ t \in valid_cothreads
      BY <1>1, <1>3
    <3> QED  BY <2>1, <3>1 DEF SocketsDistinct, ProcessHasClient
  <2>3. StrangersGo'
    <3> SUFFICES ASSUME NEW c \in DOMAIN client, NEW u \in Workers, client[c].m_socket # Null,
                        client[c].m_socket \in {work'[u].from, work'[u].to}, work'[u].at # "ended"
                 PROVE  HasClient(u)' /\ work'[u].self = c
      BY <1>1 DEF StrangersGo
    <3>1. work'[u] = work[u] /\ u \notin cancel_list
      BY <1>1, <1>6, NoWorkFacts
    <3> QED  BY <2>1, <3>1 DEF SocketsDistinct, StrangersGo
  <2> QED  BY <1>1, <2>1, <2>2, <2>3 DEF SocketsDistinct
<1> QED  BY <1>3, <1>5, <1>6, NullAssumption

-----------------------------------------------------------------------------
LEMMA WorldHeard ==
  ASSUME ServerInv, HeardInv,
         ServerStarts \/ Connects \/ UNCHANGED socksVars \/ \E fd \in ClientFds, bits \in SUBSET AllBits : Stirs(fd, bits)
  PROVE  HeardInv'
<1>1. /\ UNCHANGED <<node, epoll, block_list, cancel_list, leaving, pc, it>>
      /\ UNCHANGED <<client, conn, work>>
      /\ add_list \subseteq add_list' /\ valid_cothreads' \subseteq valid_cothreads \cup {Listener}
      /\ pc # "main" => UNCHANGED <<add_list, valid_cothreads>>
      /\ LeavesLast'
  <2> USE DEF HeardInv, Waiters, LeavesLast, managerVars, registry, interest, walk, lists, serverVars
  <2>1. CASE ServerStarts
    BY <2>1 DEF ServerStarts, AddTask
  <2>2. CASE Connects \/ \E fd \in ClientFds, bits \in SUBSET AllBits : Stirs(fd, bits)
    BY <2>2 DEF Connects, Stirs, Environment
  <2>3. CASE UNCHANGED socksVars
    BY <2>3 DEF socksVars, connVars, vars
  <2> QED  BY <2>1, <2>2, <2>3
<1>2. Waiters'
  BY <1>1, QuietHeard DEF HeardInv
<1>3. \A t \in Workers : t \in valid_cothreads' => t \in valid_cothreads
  BY <1>1, ClientTypes DEF ServerInv, ServerRest
<1>4. SocketsDistinct'
  BY <1>1, <1>3, DistinctKept DEF HeardInv
<1> QED  BY <1>2, <1>4 DEF HeardInv

LEMMA HeardStep ==
  ASSUME ServerInv, ServerInv', HeardInv, NoOrphanInterest, CacheForgotten, AddressesFitInt, [SocksNext]_socksVars
  PROVE  HeardInv'
<1>1. ListenStep => HeardInv'
  BY ListenerHeard, AcceptHeard DEF ListenStep
<1>2. WorkStep => HeardInv'
  BY OpensHeard, CallsHeard, WayHeard, OpensRemoteHeard, AddsRelaysHeard, DeletedHeard, EndedHeard DEF WorkStep
<1>3. ServerSchedule => HeardInv'
  BY ScheduleHeard, ScheduleDistinct DEF HeardInv, ServerInv
<1> QED  BY <1>1, <1>2, <1>3, WorldHeard DEF SocksNext

LEMMA HeardInitInv == SocksInit => HeardInv
<1> SUFFICES ASSUME SocksInit PROVE HeardInv
  OBVIOUS
<1> USE DEF SocksInit, ConnInit, Init, ManagerInit
<1>1. \A t \in Threads : ~AtYield(t)
  BY NoWorkFacts DEF AtYield, Outside
<1>2. Waiters
  BY <1>1 DEF Waiters, LeavesLast
<1>3. SocketsDistinct
  BY DEF SocketsDistinct, ProcessHasClient, StrangersGo
<1> QED  BY <1>2, <1>3 DEF HeardInv

LEMMA HeardInvariant == AddressesFitInt => (SocksSpec => []HeardInv)
<1> SUFFICES ASSUME AddressesFitInt PROVE SocksSpec => []HeardInv
  OBVIOUS
<1>1. ServerInv /\ ServerInv' /\ HeardInv /\ NoOrphanInterest /\ CacheForgotten /\ [SocksNext]_socksVars => HeardInv'
  BY HeardStep
<1>2. SocksSpec => [](NoOrphanInterest /\ CacheForgotten)
  BY SocksUsesCoEnv, EnvUsesManager, NoOrphanAlways, CacheForgottenAlways, PTL DEF UsesCoEnv, UsesManager
<1> QED  BY <1>1, <1>2, HeardInitInv, SocksInvariant, PTL DEF SocksSpec

\* The listener and process, but for its connect, are heard whenever they wait, for
\* every number of clients, sockets and events: whatever was on the number of the
\* socket of a new client belonged to tasks that are cancelled, and is gone before
\* process runs.  The relays of a client share its sockets and are left out.
THEOREM NewClientsAlwaysHeard == AddressesFitInt => (SocksSpec => []NewClientsHeard)
<1>1. ServerInv /\ HeardInv => NewClientsHeard
  <2> SUFFICES ASSUME ServerInv, HeardInv, pc = "check", NEW n \in DOMAIN node, NEW t, t = node[n].thread_ptr,
                      t = Listener \/ (work[t].func = "process" /\ work[t].at # "connect")
               PROVE  node[n].events \subseteq epoll[node[n].fd]
    BY DEF NewClientsHeard
  <2>1. t \in Threads /\ EventOf(n, t) /\ (Alone(t) => Watched(n))
    BY NodeThread DEF HeardInv, Waiters
  <2>2. t # Listener => t \in Workers
    <3>1. conn[t].at # "outside" \/ t = Listener
      BY <2>1 DEF EventOf, AtYield, Waiting
    <3> QED  BY <2>1, <3>1 DEF ServerInv, ServerRest, TaskInv, CallInv
  <2> QED  BY <2>1, <2>2 DEF Alone, Watched
<1> QED  BY <1>1, HeardInvariant, SocksInvariant, PTL

=============================================================================
