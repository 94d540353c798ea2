-------------------------- MODULE ConnectionProofs --------------------------
(***************************************************************************)
(* Proofs about Connection: that the calls use CoEnv as cothreads may, so  *)
(* that the theorems about the scheduler hold under them; that a call      *)
(* gives up only for its own timer or its own socket; that a call that is  *)
(* blocked keeps its event, and that none forgets one.  The last section   *)
(* is for the programs that make the calls.                                *)
(***************************************************************************)
EXTENDS Connection, CoEnvProofs

\* Which locals are set at which place of a call.
Places ==
  \A t \in Threads :
    /\ conn[t].at # "outside" => conn[t].op \in Ops /\ conn[t].fd \in SocketsOf[t]
    /\ conn[t].at = "arm" => conn[t].timer_fd \in Timers

ConnInv == EnvInv /\ ConnTypeOK /\ Places

LEMMA SocketFacts ==
  /\ Sockets \subseteq Fds \ Timers
  /\ \A t \in Threads : SocketsOf[t] \subseteq Sockets
  /\ Timers \subseteq Fds
BY SocketsAssumption, TimersAssumption DEF Sockets

LEMMA MaskFacts ==
  ASSUME NEW op
  PROVE  /\ Mask(op) \subseteq Bits
         /\ \A fd \in Sockets : Mask(op) \in Usage[fd]
BY MasksAssumption, SocketFacts DEF Mask

LEMMA ConnInitInv == ConnInit => ConnInv
<1> SUFFICES ASSUME ConnInit PROVE ConnInv
  OBVIOUS
<1>1. EnvInv
  BY EnvInitInv DEF ConnInit
<1>2. ConnTypeOK /\ Places
  BY DEF ConnInit, ConnTypeOK, Frames, PlaceNames, Places, Outside
<1> QED  BY <1>1, <1>2 DEF ConnInv

-----------------------------------------------------------------------------
(* Every step of a call is a step that CoEnv allows a cothread.            *)

\* The frame of the cothread that runs.
LEMMA RunningFrame ==
  ASSUME ConnInv, pc = "run"
  PROVE  /\ it \in Threads
         /\ conn[it].at # "outside" => conn[it].op \in Ops /\ conn[it].fd \in Sockets
         /\ conn[it].at = "arm" => conn[it].timer_fd \in Timers
         /\ conn[it].timer_event_id \in Nodes \cup {Null}
         /\ conn[it].event_id \in Nodes \cup {Null}
<1>1. it \in Threads
  BY DEF ConnInv, EnvInv, Control
<1> QED  BY <1>1, SocketFacts DEF ConnInv, Places, ConnTypeOK, Frames

LEMMA MovedIsEnvironment ==
  ASSUME ConnInv, pc = "run", conn[it].at # "outside", Moved
  PROVE  Next
<1>1. conn[it].fd \in Fds
  BY RunningFrame, SocketFacts
<1>2. PICK left \in SUBSET Mask(conn[it].op) :
        Environment(conn[it].fd, (ready[conn[it].fd] \ Mask(conn[it].op)) \cup left)
  BY DEF Moved
<1>3. (ready[conn[it].fd] \ Mask(conn[it].op)) \cup left \in SUBSET AllBits
  BY <1>1, MaskFacts DEF ConnInv, EnvInv, EnvTypes, AllBits
<1> QED  BY <1>1, <1>2, <1>3 DEF Next

LEMMA CancelsIsCancelById ==
  ASSUME ConnInv, pc = "run", ManagerIdle,
         NEW id \in {conn[it].timer_event_id, conn[it].event_id, Null}, Cancels(id)
  PROVE  [Next]_vars
<1>1. CASE id = Null
  BY <1>1 DEF Cancels
<1>2. CASE id # Null
  <2>1. it \in Threads /\ id \in Nodes
    BY <1>2, RunningFrame
  <2>2. CancelEvent(id) /\ UNCHANGED <<lists, co_thread_event, pc, it, ready>>
    BY <1>2 DEF Cancels
  <2>3. CancelById(id)
    BY <2>2, CallsAssumption DEF CancelById, Calls
  <2> QED  BY <2>1, <2>3 DEF Next, Call
<1> QED  BY <1>1, <1>2

LEMMA ConnStepIsEnvStep ==
  ASSUME ConnInv, pc = "run", ConnStep
  PROVE  [Next]_vars
<1> USE RunningFrame
<1>1. ASSUME NEW op \in Ops, NEW fd \in SocketsOf[it], StartCall(op, fd) PROVE UNCHANGED vars
  BY <1>1 DEF StartCall
<1>2. ASSUME NEW n \in Nodes, ArmTimer(n) PROVE Next
  <2>1. conn[it].timer_fd \in Fds /\ {EPOLLIN} \in Usage[conn[it].timer_fd]
    BY <1>2, SocketFacts, MasksAssumption DEF ArmTimer, At
  <2>2. RegisterEvent(n, conn[it].timer_fd, {EPOLLIN})
    BY <1>2 DEF ArmTimer
  <2> QED  BY <2>1, <2>2 DEF Next, Call
<1>3. ASSUME NEW n \in Nodes, RegisterSocket(n) PROVE Next
  <2>1. conn[it].fd \in Fds /\ Mask(conn[it].op) \in Usage[conn[it].fd]
    BY <1>3, SocketFacts, MaskFacts DEF RegisterSocket, At
  <2>2. RegisterEvent(n, conn[it].fd, Mask(conn[it].op))
    BY <1>3 DEF RegisterSocket
  <2> QED  BY <2>1, <2>2 DEF Next, Call
<1>4. WouldBlock \/ Resume => UNCHANGED vars
  BY DEF WouldBlock, Resume
<1>5. MovePart \/ MoveAllOrFail \/ Retry => [Next]_vars
  BY MovedIsEnvironment DEF MovePart, MoveAllOrFail, Retry, At
<1>6. Wait => Next
  BY DEF Wait, Next, Switch
<1>7. GiveUp => [Next]_vars
  BY CancelsIsCancelById DEF GiveUp, Narrowed, At
<1>8. FinishCall => [Next]_vars
  BY CancelsIsCancelById DEF FinishCall, At
<1>9. Between => Next
  BY DEF Between, Next, Switch, Call
<1> QED  BY <1>1, <1>2, <1>3, <1>4, <1>5, <1>6, <1>7, <1>8, <1>9 DEF ConnStep

LEMMA ConnNextIsEnvStep ==
  ASSUME ConnInv, [ConnNext]_connVars
  PROVE  [Next]_vars
<1>1. Schedule => Next
  BY DEF Schedule, Next, Call
<1>2. Arrive => Next
  BY SocketFacts DEF Arrive, Next
<1>3. ASSUME NEW fd \in Timers, Expire(fd) PROVE Next
  <2>1. fd \in Fds /\ {EPOLLIN} \in SUBSET AllBits
    BY SocketFacts, MasksAssumption DEF AllBits
  <2>2. Environment(fd, {EPOLLIN})
    BY <1>3 DEF Expire
  <2> QED  BY <2>1, <2>2 DEF Next
<1>4. UNCHANGED connVars => UNCHANGED vars
  BY DEF connVars
<1> QED  BY <1>1, <1>2, <1>3, <1>4, ConnStepIsEnvStep DEF ConnNext

-----------------------------------------------------------------------------
(* The invariant, step by step.                                            *)

\* What an update of the frame of the cothread that runs must give.
FrameOK(t, f) ==
  /\ f \in Frames
  /\ f.at # "outside" => f.op \in Ops /\ f.fd \in SocketsOf[t]
  /\ f.at = "arm" => f.timer_fd \in Timers

LEMMA FramesKept ==
  ASSUME ConnInv, it \in Threads, NEW f, FrameOK(it, f), conn' = [conn EXCEPT ![it] = f],
         timers' \subseteq Timers
  PROVE  ConnTypeOK' /\ Places'
BY DEF ConnInv, ConnTypeOK, Places, FrameOK

LEMMA GoesKeeps ==
  ASSUME ConnInv, it \in Threads, NEW place \in PlaceNames \ {"arm"}, Goes(place),
         conn[it].at # "outside", UNCHANGED timers
  PROVE  ConnTypeOK' /\ Places'
<1> DEFINE f == [conn[it] EXCEPT !.at = place]
<1>1. conn' = [conn EXCEPT ![it] = f]
  BY DEF Goes
<1>2. FrameOK(it, f)
  BY DEF ConnInv, ConnTypeOK, Places, Frames, FrameOK
<1> HIDE DEF f
<1> QED  BY <1>1, <1>2, FramesKept DEF ConnInv, ConnTypeOK

LEMMA ReturnsKeeps ==
  ASSUME ConnInv, it \in Threads, Returns, UNCHANGED timers
  PROVE  ConnTypeOK' /\ Places'
<1>1. FrameOK(it, Outside)
  BY DEF FrameOK, Outside, Frames, PlaceNames
<1> QED  BY <1>1, FramesKept DEF Returns, ConnInv, ConnTypeOK

LEMMA ConnStepTypes ==
  ASSUME ConnInv, pc = "run", ConnStep
  PROVE  ConnTypeOK' /\ Places'
<1> USE RunningFrame
<1>1. ASSUME NEW op \in Ops, NEW fd \in SocketsOf[it], StartCall(op, fd) PROVE ConnTypeOK' /\ Places'
  <2>1. PICK timer \in Timers \cup {Null}, place \in {"arm", "try", "register"} :
          /\ place = "arm" => timer \in Timers
          /\ conn' = [conn EXCEPT ![it] = [Outside EXCEPT !.at = place, !.op = op, !.fd = fd, !.timer_fd = timer]]
          /\ timers' \subseteq Timers
    <3>1. PICK timer \in (Timers \ timers) \cup {Null} :
            /\ conn' = [conn EXCEPT ![it] =
                  [Outside EXCEPT !.at = IF timer = Null \/ op = "read_some" THEN FirstStep(op) ELSE "arm",
                                  !.op = op, !.fd = fd, !.timer_fd = timer]]
            /\ timers' = timers \cup ({timer} \ {Null})
      BY <1>1 DEF StartCall
    <3>2. PICK place \in {"arm", "try", "register"} :
            /\ place = IF timer = Null \/ op = "read_some" THEN FirstStep(op) ELSE "arm"
            /\ place = "arm" => timer # Null
      BY DEF FirstStep
    <3> QED  BY <3>1, <3>2 DEF ConnInv, ConnTypeOK
  <2>2. FrameOK(it, [Outside EXCEPT !.at = place, !.op = op, !.fd = fd, !.timer_fd = timer])
    BY <2>1, SocketFacts DEF FrameOK, Outside, Frames, PlaceNames
  <2> QED  BY <2>1, <2>2, FramesKept
<1>2. ASSUME NEW n \in Nodes, ArmTimer(n) PROVE ConnTypeOK' /\ Places'
  <2> DEFINE f == [conn[it] EXCEPT !.timer_event_id = n, !.at = FirstStep(conn[it].op)]
  <2>1. conn' = [conn EXCEPT ![it] = f]
    BY <1>2 DEF ArmTimer
  <2>2. FrameOK(it, f)
    BY <1>2 DEF ArmTimer, At, ConnInv, ConnTypeOK, Places, Frames, FrameOK, FirstStep, PlaceNames
  <2> HIDE DEF f
  <2> QED  BY <1>2, <2>1, <2>2, FramesKept DEF ArmTimer, ConnInv, ConnTypeOK
<1>3. ASSUME NEW n \in Nodes, RegisterSocket(n) PROVE ConnTypeOK' /\ Places'
  <2> DEFINE f == [conn[it] EXCEPT !.event_id = n, !.at = "yield"]
  <2>1. conn' = [conn EXCEPT ![it] = f]
    BY <1>3 DEF RegisterSocket
  <2>2. FrameOK(it, f)
    BY <1>3 DEF RegisterSocket, At, ConnInv, ConnTypeOK, Places, Frames, FrameOK, PlaceNames
  <2> HIDE DEF f
  <2> QED  BY <1>3, <2>1, <2>2, FramesKept DEF RegisterSocket, ConnInv, ConnTypeOK
<1>4. WouldBlock \/ MovePart \/ MoveAllOrFail \/ Retry \/ Wait => ConnTypeOK' /\ Places'
  BY GoesKeeps DEF WouldBlock, MovePart, MoveAllOrFail, Retry, Wait, At, PlaceNames
<1>5. ASSUME Resume PROVE ConnTypeOK' /\ Places'
  <2> DEFINE f == [conn[it] EXCEPT !.at = NextStep(conn[it].op), !.event_id = Null]
  <2>1. CASE Goes("cancel")
    BY <1>5, <2>1, GoesKeeps DEF Resume, At, PlaceNames
  <2>2. CASE conn' = [conn EXCEPT ![it].at = NextStep(conn[it].op), ![it].event_id = Null]
    <3>1. conn' = [conn EXCEPT ![it] = f]
      BY <2>2
    <3>2. NextStep(conn[it].op) \in {"retry", "done", "try"}
      BY DEF NextStep
    <3>3. FrameOK(it, f)
      BY <1>5, <3>2 DEF Resume, At, ConnInv, ConnTypeOK, Places, Frames, FrameOK, PlaceNames
    <3> HIDE DEF f
    <3> QED  BY <1>5, <3>1, <3>3, FramesKept DEF Resume, ConnInv, ConnTypeOK
  <2> QED  BY <1>5, <2>1, <2>2 DEF Resume
<1>6. GiveUp \/ FinishCall => ConnTypeOK' /\ Places'
  BY ReturnsKeeps DEF GiveUp, FinishCall
<1>7. Between => ConnTypeOK' /\ Places'
  BY DEF Between, ConnInv, ConnTypeOK, Places
<1> QED  BY <1>1, <1>2, <1>3, <1>4, <1>5, <1>6, <1>7 DEF ConnStep

LEMMA ConnNextTypes ==
  ASSUME ConnInv, [ConnNext]_connVars
  PROVE  ConnTypeOK' /\ Places'
<1>1. ASSUME Schedule PROVE ConnTypeOK' /\ Places'
  <2>1. /\ UNCHANGED timers
        /\ conn' \in [Threads -> Frames]
        /\ \A t \in Threads : conn'[t] = conn[t] \/ conn'[t] = Outside
    BY <1>1 DEF Schedule, ConnInv, ConnTypeOK, Frames, PlaceNames, Outside
  <2>2. ConnTypeOK'
    BY <2>1 DEF ConnInv, ConnTypeOK
  <2>3. Places'
    BY <2>1 DEF ConnInv, Places, Outside
  <2> QED  BY <2>2, <2>3
<1>2. UNCHANGED <<conn, timers>> => ConnTypeOK' /\ Places'
  BY DEF ConnInv, ConnTypeOK, Places
<1>3. Arrive => UNCHANGED <<conn, timers>>
  BY DEF Arrive
<1>4. ASSUME NEW fd \in Timers, Expire(fd) PROVE UNCHANGED <<conn, timers>>
  BY <1>4 DEF Expire
<1>5. UNCHANGED connVars => UNCHANGED <<conn, timers>>
  BY DEF connVars
<1> QED  BY <1>1, <1>2, <1>3, <1>4, <1>5, ConnStepTypes DEF ConnNext

\* No event appears.
NodesShrink == \A n \in DOMAIN node' : n \in DOMAIN node /\ node'[n] = node[n]

LEMMA LoopShrinks ==
  ASSUME EnvInv, Loop \/ CallLoop
  PROVE  NodesShrink
<1>1. UNCHANGED node => NodesShrink
  BY DEF NodesShrink
<1>2. ASSUME NEW n \in DOMAIN node, DeleteEvent(n) PROVE NodesShrink
  BY <1>2, DeleteEventFacts DEF EnvInv, ManagerInv, NodesShrink
<1>3. ASSUME NEW n \in Nodes, DispatchEvent(n) PROVE NodesShrink
  <2>1. n \in DOMAIN node
    BY <1>3 DEF DispatchEvent, FireEvent, EnvInv, ManagerInv, ManagerTypeOK, RecordsAgree, NodesOf
  <2> QED  BY <1>2, <1>3, <2>1 DEF DispatchEvent, FireEvent
<1>4. ManagerWork => NodesShrink
  BY <1>2 DEF ManagerWork, CancelNode, EnvInv, ManagerInv, RecordsAgree
<1>5. CallLoop \/ TaskRemoved \/ EventsCancelled => UNCHANGED node
  BY DEF CallLoop, TaskRemoved, EventsCancelled, CancelDone, managerVars, registry
<1>6. LoopReturns \/ HandleEvent \/ DispatchFd \/ EventsHandled \/ Admit \/ SweepDone => UNCHANGED node
  BY DEF LoopReturns, HandleEvent, EpollWait, DispatchFd, WalkFd, WalkDone, EventsHandled, Admit, SweepDone,
         managerVars, registry
<1>7. ASSUME NEW t \in Threads, RemoveReached(t) \/ Run(t) \/ Sweep(t) PROVE UNCHANGED node
  BY <1>7 DEF RemoveReached, Run, Sweep, RemoveCoThread, CancelCoThread, managerVars, registry
<1> QED  BY <1>1, <1>3, <1>4, <1>5, <1>6, <1>7 DEF Loop

Ids(t) == {conn[t].timer_event_id, conn[t].event_id}

LEMMA ConnInvariant == ConnSpec => []ConnInv
<1>1. ConnInv /\ [ConnNext]_connVars => ConnInv'
  <2> SUFFICES ASSUME ConnInv, [ConnNext]_connVars PROVE ConnInv'
    OBVIOUS
  <2>1. EnvInv'
    BY ConnNextIsEnvStep, EnvStepInv DEF ConnInv
  <2> QED  BY <2>1, ConnNextTypes DEF ConnInv
<1> QED  BY <1>1, ConnInitInv, PTL DEF ConnSpec

-----------------------------------------------------------------------------
\* Type correctness of the frames of the calls.
THEOREM ConnTypesOK == ConnSpec => []ConnTypeOK
<1>1. ConnInv => ConnTypeOK
  BY DEF ConnInv
<1> QED  BY <1>1, ConnInvariant, PTL

\* Whatever calls they make, on whatever sockets, the connections are cothreads
\* as CoEnv assumes them.
THEOREM ConnUsesCoEnv == ConnSpec => UsesCoEnv
<1>1. ConnInit => Init
  BY DEF ConnInit
<1>2. ConnInv /\ [ConnNext]_connVars => [Next]_vars
  BY ConnNextIsEnvStep
<1> QED  BY <1>1, <1>2, ConnInvariant, PTL DEF ConnSpec, UsesCoEnv, Spec

\* Therefore what is proved of the scheduler holds under the connections: no
\* task is lost, none touched after its end, and each woken by its own event.
THEOREM ConnSchedulerSafe == ConnSpec => [](ListsPartition /\ NoDangling /\ NothingLeftBehind) /\ WokenByItsEvent
<1> QED
  BY ConnUsesCoEnv, ListsAlwaysPartition, NeverDangling, NothingLeftBehindAlways, AlwaysWokenByItsEvent, PTL
  DEF UsesCoEnv

-----------------------------------------------------------------------------
(* FailureIsReal: where the event that wakes a call comes from.            *)

EventsReal ==
  /\ \A fd \in Timers : batch[fd] \subseteq ready[fd] /\ ready[fd] \subseteq {EPOLLIN}
  /\ \A n \in DOMAIN node : node[n].fd \in SocketsOf[node[n].thread_ptr] \cup Timers
  /\ \A t \in Threads :
       \/ co_thread_event[t] = NoEvent
       \/ co_thread_event[t].fd \in SocketsOf[t]
       \/ /\ co_thread_event[t].fd \in Timers
          /\ ready[co_thread_event[t].fd] # {}
          /\ co_thread_event[t].events \subseteq {EPOLLIN}

\* Steps that bring no event.
LEMMA EventsRealKept ==
  ASSUME EventsReal, NodesShrink, UNCHANGED co_thread_event,
         \A fd \in Timers : batch'[fd] \subseteq batch[fd] \cup ready[fd] /\ ready'[fd] = ready[fd]
  PROVE  EventsReal'
BY DEF EventsReal, NodesShrink

LEMMA EnvironmentReal ==
  ASSUME ConnInv, EventsReal, NEW fd \in Fds, NEW bits, Environment(fd, bits),
         fd \in Timers => bits = {EPOLLIN}
  PROVE  EventsReal'
<1>1. /\ ready' = [ready EXCEPT ![fd] = bits]
      /\ UNCHANGED <<node, batch, co_thread_event>>
  BY DEF Environment, managerVars, registry, walk
<1>2. ready \in [Fds -> SUBSET AllBits] /\ Timers \subseteq Fds
  BY SocketFacts DEF ConnInv, EnvInv, EnvTypes
<1>3. \A f \in Timers : ready'[f] = ready[f] \/ ready'[f] = {EPOLLIN}
  BY <1>1, <1>2
<1> QED  BY <1>1, <1>3 DEF EventsReal

LEMMA RegistrationReal ==
  ASSUME EventsReal, NEW n, NEW fd \in SocketsOf[it] \cup Timers, NEW events, RegisterEvent(n, fd, events)
  PROVE  EventsReal'
<1>1. /\ \A m \in DOMAIN node' : m = n \/ (m \in DOMAIN node /\ node'[m] = node[m])
      /\ n \in DOMAIN node' /\ node'[n].fd = fd /\ node'[n].thread_ptr = it
      /\ UNCHANGED <<batch, ready, co_thread_event>>
  BY DEF RegisterEvent, AddEvent, walk
<1>2. \A m \in DOMAIN node' : node'[m].fd \in SocketsOf[node'[m].thread_ptr] \cup Timers
  BY <1>1 DEF EventsReal
<1> QED  BY <1>1, <1>2 DEF EventsReal

LEMMA DispatchReal ==
  ASSUME ConnInv, EventsReal, NEW n \in Nodes, DispatchEvent(n)
  PROVE  EventsReal'
<1> DEFINE t == node[n].thread_ptr
<1>1. n \in DOMAIN node /\ node[n].fd = current_fd /\ current_fd \in Fds /\ t \in Threads
  BY DEF DispatchEvent, FireEvent, ConnInv, EnvInv, ManagerInv, ManagerTypeOK, RecordsAgree, NodesOf, NodeInfo
<1>2. current_fd \in SocketsOf[t] \cup Timers
  BY <1>1 DEF EventsReal
<1>3. EventFor(n) # {} /\ EventFor(n) \subseteq batch[current_fd]
  BY DEF DispatchEvent, FireEvent, EventFor
<1>4. NodesShrink /\ UNCHANGED <<batch, ready>>
  BY LoopShrinks DEF Loop, DispatchEvent, FireEvent, walk, ConnInv
<1>5. current_fd \in Timers => ready[current_fd] # {} /\ EventFor(n) \subseteq {EPOLLIN}
  BY <1>3 DEF EventsReal
<1>6. PICK e : e = EventFor(n)
  OBVIOUS
<1>7. PICK f : f = current_fd
  OBVIOUS
<1>8. co_thread_event' = co_thread_event \/ co_thread_event' = [co_thread_event EXCEPT ![t] = [fd |-> f, events |-> e]]
  BY <1>6, <1>7 DEF DispatchEvent, Activate
<1>9. co_thread_event \in [Threads -> [fd : Fds \cup {Null}, events : SUBSET AllBits]]
  BY DEF ConnInv, EnvInv, EnvTypes
<1>10. \A u \in Threads :
         \/ co_thread_event'[u] = co_thread_event[u]
         \/ u = t /\ co_thread_event'[u] = [fd |-> f, events |-> e]
  BY <1>8, <1>9
<1>11. /\ \A fd \in Timers : batch'[fd] \subseteq ready'[fd] /\ ready'[fd] \subseteq {EPOLLIN}
       /\ \A m \in DOMAIN node' : node'[m].fd \in SocketsOf[node'[m].thread_ptr] \cup Timers
  BY <1>4 DEF EventsReal, NodesShrink
<1>12. \A u \in Threads :
         \/ co_thread_event'[u] = NoEvent
         \/ co_thread_event'[u].fd \in SocketsOf[u]
         \/ /\ co_thread_event'[u].fd \in Timers
            /\ ready[co_thread_event'[u].fd] # {}
            /\ co_thread_event'[u].events \subseteq {EPOLLIN}
  BY <1>2, <1>5, <1>6, <1>7, <1>10 DEF EventsReal
<1> QED  BY <1>4, <1>11, <1>12 DEF EventsReal, NoEvent

LEMMA LoopReal ==
  ASSUME ConnInv, EventsReal, Loop
  PROVE  EventsReal'
<1>1. NodesShrink
  BY LoopShrinks DEF ConnInv
<1>2. ASSUME HandleEvent PROVE EventsReal'
  <2>1. \A fd \in Timers : batch'[fd] \subseteq ready[fd]
    BY <1>2, SocketFacts DEF HandleEvent, EpollWait, Report
  <2> QED  BY <1>1, <1>2, <2>1, EventsRealKept DEF HandleEvent
<1>3. ASSUME Admit PROVE EventsReal'
  BY <1>1, <1>3 DEF Admit, EventsReal, NodesShrink, NobodyWoken, NoEvent, managerVars, walk
<1>4. ASSUME DispatchFd PROVE EventsReal'
  <2>1. \A fd \in Timers : batch'[fd] \subseteq batch[fd]
    BY <1>4, SocketFacts DEF DispatchFd, WalkFd, WalkDone, ConnInv, EnvInv, ManagerInv, ManagerTypeOK
  <2> QED  BY <1>1, <1>4, <2>1, EventsRealKept DEF DispatchFd
<1>5. UNCHANGED <<batch, ready, co_thread_event>> => EventsReal'
  BY <1>1, EventsRealKept
<1>6. LoopReturns \/ EventsHandled \/ ManagerWork \/ EventsCancelled \/ TaskRemoved \/ SweepDone
        => UNCHANGED <<batch, ready, co_thread_event>>
  BY DEF LoopReturns, EventsHandled, ManagerWork, CancelNode, EventsCancelled, TaskRemoved, CancelDone, SweepDone,
         managerVars, walk
<1>7. ASSUME NEW t \in Threads, RemoveReached(t) \/ Run(t) \/ Sweep(t)
      PROVE  UNCHANGED <<batch, ready, co_thread_event>>
  BY <1>7 DEF RemoveReached, Run, Sweep, RemoveCoThread, CancelCoThread, managerVars, walk
<1> QED  BY <1>2, <1>3, <1>4, <1>5, <1>6, <1>7, DispatchReal DEF Loop

LEMMA ConnStepReal ==
  ASSUME ConnInv, EventsReal, pc = "run", ConnStep
  PROVE  EventsReal'
<1> USE RunningFrame
<1>1. UNCHANGED vars => EventsReal'
  BY DEF vars, managerVars, registry, walk, EventsReal
<1>2. ASSUME NEW n \in Nodes, ArmTimer(n) \/ RegisterSocket(n) PROVE EventsReal'
  BY <1>2, RegistrationReal DEF ArmTimer, RegisterSocket, At, ConnInv, Places
<1>3. ASSUME Moved, conn[it].at # "outside" PROVE EventsReal'
  <2>1. conn[it].fd \in Fds \ Timers
    BY <1>3, SocketFacts
  <2> QED  BY <1>3, <2>1, EnvironmentReal DEF Moved
<1>4. MovePart \/ MoveAllOrFail \/ Retry => EventsReal'
  BY <1>1, <1>3 DEF MovePart, MoveAllOrFail, Retry, At
<1>5. ASSUME GiveUp \/ FinishCall PROVE EventsReal'
  <2>1. PICK id \in Nodes \cup {Null} : Cancels(id)
    BY <1>5 DEF GiveUp, FinishCall, Narrowed
  <2>2. CASE id = Null
    BY <1>1, <2>1, <2>2 DEF Cancels
  <2>3. CASE id # Null
    <3>1. CancelEvent(id) /\ UNCHANGED <<co_thread_event, ready>>
      BY <2>1, <2>3 DEF Cancels
    <3>2. NodesShrink /\ UNCHANGED batch
      BY <3>1, DeleteEventFacts
      DEF CancelEvent, managerVars, registry, walk, NodesShrink, ConnInv, EnvInv, ManagerInv, RecordsAgree
    <3> QED  BY <3>1, <3>2, EventsRealKept
  <2> QED  BY <2>2, <2>3
<1>6. Between \/ Wait => UNCHANGED <<node, batch, ready, co_thread_event>>
  BY DEF Between, Wait, Block, Yield, Finish, RemoveCoThread, CancelCoThread, CancelTask, managerVars, registry,
         walk
<1>7. ASSUME NEW op, NEW fd, StartCall(op, fd) PROVE UNCHANGED vars
  BY <1>7 DEF StartCall
<1>8. WouldBlock \/ Resume => UNCHANGED vars
  BY DEF WouldBlock, Resume
<1>9. UNCHANGED <<node, batch, ready, co_thread_event>> => EventsReal'
  BY DEF EventsReal
<1> QED  BY <1>1, <1>2, <1>4, <1>5, <1>6, <1>7, <1>8, <1>9 DEF ConnStep

LEMMA EventsRealInvariant == ConnSpec => []EventsReal
<1>1. ConnInit => EventsReal
  BY SocketFacts DEF ConnInit, Init, ManagerInit, NothingReady, NobodyWoken, NoEvent, EventsReal
<1>2. ConnInv /\ EventsReal /\ [ConnNext]_connVars => EventsReal'
  <2> SUFFICES ASSUME ConnInv, EventsReal, [ConnNext]_connVars PROVE EventsReal'
    OBVIOUS
  <2>1. ASSUME NEW t \in Threads, AddTask(t) PROVE UNCHANGED <<node, batch, ready, co_thread_event>>
    BY <2>1 DEF AddTask, managerVars, registry, walk
  <2>2. CallLoop => UNCHANGED <<node, batch, ready, co_thread_event>>
    BY DEF CallLoop, managerVars, registry, walk
  <2>3. UNCHANGED <<node, batch, ready, co_thread_event>> => EventsReal'
    BY DEF EventsReal
  <2>4. Schedule => EventsReal'
    BY <2>1, <2>2, <2>3, LoopReal DEF Schedule
  <2>5. Arrive => EventsReal'
    BY EnvironmentReal, SocketFacts DEF Arrive
  <2>6. ASSUME NEW fd \in Timers, Expire(fd) PROVE EventsReal'
    BY <2>6, EnvironmentReal, SocketFacts DEF Expire
  <2>7. UNCHANGED connVars => EventsReal'
    BY <2>3 DEF connVars, vars, managerVars, registry, walk
  <2> QED  BY <2>4, <2>5, <2>6, <2>7, ConnStepReal DEF ConnNext
<1> QED  BY <1>1, <1>2, ConnInvariant, PTL DEF ConnSpec

\* Where every cothread has one socket, a call gives up only because its own
\* timer has expired or its own socket is in error.  (With two sockets it may take
\* an event that an earlier call left on the other socket for an error.)
THEOREM FailuresAreReal ==
  (\A t \in Threads : \A a, b \in SocketsOf[t] : a = b) => (ConnSpec => FailureIsReal)
<1> SUFFICES ASSUME \A t \in Threads : \A a, b \in SocketsOf[t] : a = b PROVE ConnSpec => FailureIsReal
  OBVIOUS
<1> DEFINE Real(t) == \/ conn[t].timer_fd # Null /\ ready[conn[t].timer_fd] # {}
                      \/ FdError(co_thread_event[t]) /\ co_thread_event[t].fd = conn[t].fd
<1>1. ASSUME ConnInv, EventsReal, [ConnNext]_connVars, NEW t \in Threads,
             conn[t].at = "waiting", conn'[t].at = "cancel"
      PROVE  Real(t)
  <2>1. t = it /\ Resume
    <3>1. Schedule \/ Arrive \/ (\E fd \in Timers : Expire(fd)) \/ UNCHANGED connVars => conn'[t].at # "cancel"
      BY <1>1 DEF Schedule, Arrive, Expire, connVars, Outside
    <3>2. pc = "run" /\ ConnStep
      BY <1>1, <3>1 DEF ConnNext
    <3>3. it \in Threads
      BY <1>1, <3>2, RunningFrame
    <3>4. ASSUME NEW op, NEW fd, StartCall(op, fd) PROVE t # it /\ conn'[t] = conn[t]
      BY <1>1, <3>4 DEF StartCall, At, ConnTypeOK, ConnInv
    <3>5. ASSUME NEW n, ArmTimer(n) \/ RegisterSocket(n) PROVE t # it /\ conn'[t] = conn[t]
      BY <1>1, <3>5 DEF ArmTimer, RegisterSocket, At, ConnTypeOK, ConnInv
    <3>6. WouldBlock \/ MovePart \/ MoveAllOrFail \/ Retry \/ Wait \/ GiveUp \/ FinishCall \/ Between
            => conn'[t].at # "cancel"
      BY <1>1, <3>3 DEF WouldBlock, MovePart, MoveAllOrFail, Retry, Wait, GiveUp, FinishCall, Between, Goes, Returns,
                        At, Outside, ConnTypeOK, ConnInv
    <3>7. Resume
      BY <1>1, <3>2, <3>4, <3>5, <3>6 DEF ConnStep
    <3>8. t # it => conn'[t] = conn[t]
      BY <1>1, <3>3, <3>7 DEF Resume, Goes, ConnTypeOK, ConnInv
    <3> QED  BY <1>1, <3>7, <3>8
  <2>2. TimedOut(conn[t], co_thread_event[t]) \/ FdError(co_thread_event[t])
    <3>1. NextStep(conn[t].op) # "cancel"
      BY DEF NextStep
    <3> QED  BY <1>1, <2>1, <3>1 DEF Resume, ConnTypeOK, ConnInv, Frames
  <2>3. conn[t].fd \in SocketsOf[t] /\ conn[t].timer_fd \in Timers \cup {Null}
    BY <1>1 DEF ConnInv, Places, ConnTypeOK, Frames
  <2>4. SocketsOf[t] \cap Timers = {}
    BY SocketFacts
  <2>5. CASE TimedOut(conn[t], co_thread_event[t])
    BY <1>1, <2>3, <2>4, <2>5 DEF TimedOut, EventsReal, NoEvent
  <2>6. CASE FdError(co_thread_event[t])
    <3>1. co_thread_event[t].fd \in SocketsOf[t]
      BY <1>1, <2>6, BitsAssumption, MasksAssumption DEF FdError, EventsReal, NoEvent
    <3> QED  BY <2>3, <2>6, <3>1
  <2> QED  BY <2>2, <2>5, <2>6
<1> DEFINE AllReal == \A t \in Threads : conn[t].at = "waiting" /\ conn'[t].at = "cancel" => Real(t)
<1>2. ConnInv /\ EventsReal /\ [ConnNext]_connVars => [AllReal]_connVars
  BY <1>1
<1> QED  BY <1>2, ConnInvariant, EventsRealInvariant, PTL DEF ConnSpec, FailureIsReal

-----------------------------------------------------------------------------
(* The events of the calls: a call that is blocked keeps its event, except *)
(* for one that cancels it through the id of an event that is gone.        *)

\* From the registration to the switch nobody else runs.
WaitInv ==
  /\ pc = "run" => leaving = Null
  /\ leaving \notin valid_cothreads
  /\ \A t \in Threads : conn[t].at = "yield" => pc = "run" /\ it = t /\ HasItsEvent(t)

\* What WaitsForItsEvent says of a step.
KeepsWaiting ==
  \A t \in block_list' \cap valid_cothreads' : conn'[t].at = "waiting" =>
    \/ HasItsEvent(t)'
    \/ conn[t].at = "waiting" /\ ~HasItsEvent(t)
    \/ Robbed(t)

LEMMA WaitInitInv == ConnInit => WaitInv
BY NullAssumption DEF ConnInit, Init, ManagerInit, Outside, WaitInv

\* An event that stays serves the call that waits for it.
LEMMA EventStays ==
  ASSUME NEW t, HasItsEvent(t), UNCHANGED conn[t],
         conn[t].event_id \in DOMAIN node', node'[conn[t].event_id] = node[conn[t].event_id]
  PROVE  HasItsEvent(t)'
BY DEF HasItsEvent

-----------------------------------------------------------------------------
(* The steps of a call.                                                    *)

\* The nodes of other cothreads stay when a call makes a step, unless it holds the id.
OthersStay ==
  \A n \in DOMAIN node : node[n].thread_ptr # it =>
    \/ n \in DOMAIN node' /\ node'[n] = node[n]
    \/ n \notin DOMAIN node' /\ n \in Ids(it)

LEMMA StepsLeaveOthers ==
  ASSUME ConnInv, pc = "run", ConnStep
  PROVE  OthersStay
<1> USE RunningFrame
<1>1. UNCHANGED node => OthersStay
  BY DEF OthersStay
<1>2. ASSUME NEW op, NEW fd, StartCall(op, fd) PROVE UNCHANGED node
  BY <1>2 DEF StartCall, vars, managerVars, registry
<1>3. ASSUME NEW n, ArmTimer(n) \/ RegisterSocket(n) PROVE OthersStay
  BY <1>3 DEF ArmTimer, RegisterSocket, RegisterEvent, AddEvent, OthersStay
<1>4. WouldBlock \/ MovePart \/ MoveAllOrFail \/ Retry \/ Wait \/ Resume => UNCHANGED node
  BY DEF WouldBlock, MovePart, MoveAllOrFail, Retry, Wait, Resume, Moved, Environment, Block, vars,
         managerVars, registry
<1>5. Between => UNCHANGED node
  BY DEF Between, Yield, Finish, RemoveCoThread, CancelCoThread, CancelTask, managerVars, registry
<1>6. ASSUME GiveUp \/ FinishCall PROVE OthersStay
  <2>1. PICK id \in Ids(it) \cup {Null} : Cancels(id)
    BY <1>6 DEF GiveUp, FinishCall, Narrowed, Ids
  <2>2. Null \notin DOMAIN node /\ valid_event = DOMAIN node
    BY NullAssumption DEF ConnInv, EnvInv, ManagerInv, ManagerTypeOK, RecordsAgree
  <2>3. CASE UNCHANGED node
    BY <1>1, <2>3
  <2>4. CASE id \in valid_event /\ DeleteEvent(id)
    BY <2>1, <2>2, <2>4, DeleteEventFacts DEF ConnInv, EnvInv, ManagerInv, OthersStay
  <2> QED  BY <2>1, <2>3, <2>4 DEF Cancels, CancelEvent, managerVars, registry, vars
<1> QED  BY <1>1, <1>2, <1>3, <1>4, <1>5, <1>6 DEF ConnStep

\* The events that a step of a call adds are of the cothread that runs.
LEMMA StepEvents ==
  ASSUME ConnInv, pc = "run", ConnStep
  PROVE  \A n \in DOMAIN node' : (n \in DOMAIN node /\ node'[n] = node[n]) \/ node'[n].thread_ptr = it
<1> USE RunningFrame
<1>1. ASSUME NEW op, NEW fd, StartCall(op, fd) PROVE UNCHANGED node
  BY <1>1 DEF StartCall, vars, managerVars, registry
<1>2. ASSUME NEW n, ArmTimer(n) \/ RegisterSocket(n)
      PROVE  \A m \in DOMAIN node' : (m \in DOMAIN node /\ node'[m] = node[m]) \/ node'[m].thread_ptr = it
  BY <1>2 DEF ArmTimer, RegisterSocket, RegisterEvent, AddEvent
<1>3. WouldBlock \/ MovePart \/ MoveAllOrFail \/ Retry \/ Wait \/ Resume => UNCHANGED node
  BY DEF WouldBlock, MovePart, MoveAllOrFail, Retry, Wait, Resume, Moved, Environment, Block, vars,
         managerVars, registry
<1>4. Between => UNCHANGED node
  BY DEF Between, Yield, Finish, RemoveCoThread, CancelCoThread, CancelTask, managerVars, registry
<1>5. ASSUME GiveUp \/ FinishCall PROVE NodesShrink
  <2>1. PICK id : Cancels(id)
    BY <1>5 DEF GiveUp, FinishCall
  <2>2. CASE UNCHANGED node
    BY <2>2 DEF NodesShrink
  <2>3. CASE id \in valid_event /\ DeleteEvent(id)
    BY <2>3, DeleteEventFacts DEF ConnInv, EnvInv, ManagerInv, RecordsAgree, NodesShrink
  <2> QED  BY <2>1, <2>2, <2>3 DEF Cancels, CancelEvent, managerVars, registry, vars
<1> QED  BY <1>1, <1>2, <1>3, <1>4, <1>5 DEF ConnStep, NodesShrink

\* Only the frame of the cothread that runs changes.
LEMMA OtherFrames ==
  ASSUME ConnInv, pc = "run", ConnStep
  PROVE  \A t \in Threads : t # it => conn'[t] = conn[t]
<1>1. it \in Threads /\ conn \in [Threads -> Frames]
  BY RunningFrame DEF ConnInv, ConnTypeOK
<1>2. ASSUME NEW op, NEW fd, StartCall(op, fd) PROVE \A t \in Threads : t # it => conn'[t] = conn[t]
  BY <1>1, <1>2 DEF StartCall
<1> QED
  BY <1>1, <1>2 DEF ConnStep, ArmTimer, RegisterSocket, WouldBlock, MovePart, MoveAllOrFail, Retry, Wait, Resume,
                    GiveUp, FinishCall, Between, Goes, Returns

LEMMA ConnStepWaits ==
  ASSUME ConnInv, WaitInv, pc = "run", ConnStep
  PROVE  WaitInv' /\ KeepsWaiting
<1>1. /\ it \in Threads /\ it \in valid_cothreads /\ it \notin block_list
      /\ leaving = Null /\ conn \in [Threads -> Frames]
  BY RunningFrame DEF ConnInv, EnvInv, NoDangling, ListsPartition, ConnTypeOK, WaitInv
<1>2. ASSUME NEW t \in Threads, t # it, conn'[t].at = "waiting"
      PROVE  HasItsEvent(t)' \/ (conn[t].at = "waiting" /\ ~HasItsEvent(t)) \/ Robbed(t)
  <2>1. conn'[t] = conn[t]
    BY <1>2, OtherFrames
  <2>2. SUFFICES ASSUME HasItsEvent(t), ~HasItsEvent(t)' PROVE Robbed(t)
    BY <1>2, <2>1
  <2>3. conn[t].event_id \in DOMAIN node /\ node[conn[t].event_id].thread_ptr = t
    BY <2>2 DEF HasItsEvent
  <2>4. conn[t].event_id \notin DOMAIN node' /\ conn[t].event_id \in Ids(it)
    BY <1>2, <2>1, <2>2, <2>3, StepsLeaveOthers, EventStays DEF OthersStay
  <2> QED  BY <1>2, <2>3, <2>4 DEF Robbed, NodesOfThread, Ids
<1>3. \A t \in Threads : t # it => conn'[t].at # "yield"
  BY OtherFrames DEF WaitInv
<1>4. block_list \cup block_list' \subseteq Threads
  <2>1. [Next]_vars
    BY ConnStepIsEnvStep
  <2> QED  BY <2>1, EnvStepInv DEF ConnInv, EnvInv, EnvTypes
<1>5. ASSUME UNCHANGED <<pc, it, leaving, valid_cothreads, block_list>>, conn'[it].at \notin {"yield", "waiting"}
      PROVE  WaitInv' /\ KeepsWaiting
  BY <1>1, <1>2, <1>3, <1>4, <1>5 DEF WaitInv, KeepsWaiting
<1>6. ASSUME NEW n \in Nodes, RegisterSocket(n) PROVE WaitInv' /\ KeepsWaiting
  <2>1. UNCHANGED <<pc, it, leaving, valid_cothreads, block_list>>
    BY <1>6 DEF RegisterSocket, RegisterEvent, AddEvent, lists, walk
  <2>2. conn'[it] = [conn[it] EXCEPT !.event_id = n, !.at = "yield"]
    BY <1>1, <1>6 DEF RegisterSocket
  <2>3. n \in DOMAIN node' /\ node'[n] = [fd |-> conn[it].fd, events |-> Mask(conn[it].op), thread_ptr |-> it]
    BY <1>6 DEF RegisterSocket, RegisterEvent, AddEvent
  <2>4. HasItsEvent(it)'
    BY <1>1, <2>1, <2>2, <2>3 DEF HasItsEvent, Frames
  <2>5. conn'[it].at = "yield"
    BY <1>1, <2>2 DEF Frames
  <2> QED  BY <1>1, <1>2, <1>3, <1>4, <2>1, <2>4, <2>5 DEF WaitInv, KeepsWaiting
<1>7. ASSUME Wait PROVE WaitInv' /\ KeepsWaiting
  <2>1. /\ UNCHANGED <<it, leaving, valid_cothreads, node>>
        /\ block_list' = block_list \cup {it}
        /\ pc' = "process"
    BY <1>7 DEF Wait, Block, lists, managerVars, registry, walk
  <2>2. conn[it].at = "yield" /\ conn'[it] = [conn[it] EXCEPT !.at = "waiting"]
    BY <1>1, <1>7 DEF Wait, At, Goes
  <2>3. HasItsEvent(it)'
    BY <1>1, <2>1, <2>2 DEF WaitInv, HasItsEvent, Frames
  <2>4. conn'[it].at = "waiting"
    BY <1>1, <2>2 DEF Frames
  <2> QED  BY <1>1, <1>2, <1>3, <1>4, <2>1, <2>3, <2>4 DEF WaitInv, KeepsWaiting
<1>8. ASSUME Between PROVE WaitInv' /\ KeepsWaiting
  <2>1. UNCHANGED conn /\ conn[it].at = "outside"
    BY <1>8 DEF Between, At
  <2>2. CASE Yield
    BY <1>1, <1>2, <1>3, <1>4, <2>1, <2>2 DEF Yield, WaitInv, KeepsWaiting, managerVars, walk, lists
  <2>3. CASE Finish
    BY <1>1, <1>2, <1>3, <1>4, <2>1, <2>3 DEF Finish, RemoveCoThread, CancelCoThread, WaitInv, KeepsWaiting
  <2>4. ASSUME NEW t \in Threads, CancelTask(t) PROVE WaitInv' /\ KeepsWaiting
    BY <1>1, <1>2, <1>3, <1>4, <2>1, <2>4 DEF CancelTask, WaitInv, KeepsWaiting, managerVars, walk
  <2> QED  BY <1>8, <2>2, <2>3, <2>4 DEF Between
<1>9. ASSUME NEW op, NEW fd, StartCall(op, fd) PROVE WaitInv' /\ KeepsWaiting
  <2>1. UNCHANGED <<pc, it, leaving, valid_cothreads, block_list>>
    BY <1>9 DEF StartCall, vars, managerVars, walk, lists
  <2>2. conn'[it].at \notin {"yield", "waiting"}
    BY <1>1, <1>9 DEF StartCall, FirstStep, Outside
  <2> QED  BY <1>5, <2>1, <2>2
<1>10. ASSUME NEW n, ArmTimer(n) PROVE WaitInv' /\ KeepsWaiting
  <2>1. UNCHANGED <<pc, it, leaving, valid_cothreads, block_list>>
    BY <1>10 DEF ArmTimer, RegisterEvent, AddEvent, walk, lists
  <2>2. conn'[it].at \notin {"yield", "waiting"}
    BY <1>1, <1>10 DEF ArmTimer, FirstStep, Frames
  <2> QED  BY <1>5, <2>1, <2>2
<1>11. ASSUME WouldBlock \/ MovePart \/ MoveAllOrFail \/ Retry \/ Resume PROVE WaitInv' /\ KeepsWaiting
  <2>1. UNCHANGED <<pc, it, leaving, valid_cothreads, block_list>>
    BY <1>11 DEF WouldBlock, MovePart, MoveAllOrFail, Retry, Resume, Moved, Environment, vars, managerVars, walk, lists
  <2>2. conn'[it].at \notin {"yield", "waiting"}
    BY <1>1, <1>11 DEF WouldBlock, MovePart, MoveAllOrFail, Retry, Resume, Goes, NextStep, Frames
  <2> QED  BY <1>5, <2>1, <2>2
<1>12. ASSUME GiveUp \/ FinishCall PROVE WaitInv' /\ KeepsWaiting
  <2>1. UNCHANGED <<pc, it, leaving, valid_cothreads, block_list>>
    BY <1>12 DEF GiveUp, FinishCall, Cancels, CancelEvent, vars, managerVars, walk, lists
  <2>2. conn'[it].at \notin {"yield", "waiting"}
    BY <1>1, <1>12 DEF GiveUp, FinishCall, Returns, Outside
  <2> QED  BY <1>5, <2>1, <2>2
<1> QED  BY <1>6, <1>7, <1>8, <1>9, <1>10, <1>11, <1>12 DEF ConnStep

-----------------------------------------------------------------------------
(* The steps of the scheduler.                                             *)

LEMMA LoopWaits ==
  ASSUME ConnInv, WaitInv, Loop,
         \A t \in Threads : conn'[t] = conn[t] \/ (conn'[t] = Outside /\ t \notin valid_cothreads' \cup {leaving'})
  PROVE  WaitInv' /\ KeepsWaiting
<1>1. NodesShrink
  BY LoopShrinks DEF ConnInv
<1>2. block_list \subseteq Threads /\ Null \notin valid_cothreads
  BY NullAssumption DEF ConnInv, EnvInv, EnvTypes
<1>3. pc # "run"
  BY DEF WaitInv, Loop, LoopReturns, HandleEvent, DispatchEvent, DispatchFd, EventsHandled, RemoveReached, Reaches, Run,
         Sweep, ManagerWork, CancelNode, EventsCancelled, TaskRemoved, CancelDone, Admit, SweepDone
<1>4. \A t \in Threads : conn'[t].at # "yield"
  BY <1>3 DEF WaitInv, Outside
\* Nobody is blocked or alive that was not, and the owner of an event that goes is
\* woken or no longer alive.
<1> DEFINE Waits == /\ valid_cothreads' \subseteq valid_cothreads
                    /\ block_list' \subseteq block_list
                    /\ \A n \in DOMAIN node : node[n].thread_ptr \in block_list' \cap valid_cothreads' => n \in DOMAIN node'
           Leaves == /\ leaving' \in {leaving, Null} \/ leaving' \notin valid_cothreads'
                     /\ pc' = "run" => leaving' = Null
<1>5. ASSUME Waits, Leaves PROVE WaitInv' /\ KeepsWaiting
  <2>1. leaving' \notin valid_cothreads'
    BY <1>2, <1>5 DEF WaitInv
  <2>2. ASSUME NEW t \in block_list' \cap valid_cothreads', conn'[t].at = "waiting", HasItsEvent(t)
        PROVE  HasItsEvent(t)'
    <3>1. t \in Threads /\ conn'[t] = conn[t]
      BY <1>2, <1>5, <2>2 DEF WaitInv
    <3>2. conn[t].event_id \in DOMAIN node'
      BY <1>5, <2>2, <3>1 DEF HasItsEvent
    <3> QED  BY <1>1, <2>2, <3>1, <3>2, EventStays DEF NodesShrink
  <2>3. \A t \in block_list' \cap valid_cothreads' : conn'[t].at = "waiting" => conn[t].at = "waiting"
    BY <1>2, <1>5 DEF Outside
  <2>4. KeepsWaiting
    BY <2>2, <2>3 DEF KeepsWaiting
  <2> QED  BY <1>4, <1>5, <2>1, <2>4 DEF WaitInv
<1>6. CASE UNCHANGED <<node, valid_cothreads, leaving>> /\ block_list' = block_list /\ (pc' = "run" => leaving = Null)
  BY <1>5, <1>6
<1>7. LoopReturns \/ HandleEvent \/ DispatchFd \/ EventsHandled \/ Admit \/ SweepDone => WaitInv' /\ KeepsWaiting
  BY <1>6 DEF LoopReturns, HandleEvent, EpollWait, DispatchFd, WalkFd, WalkDone, EventsHandled, Admit, SweepDone,
         managerVars, registry, walk, lists
<1>8. ASSUME NEW t \in Threads, Run(t) PROVE WaitInv' /\ KeepsWaiting
  BY <1>6, <1>8 DEF Run, Reaches, ManagerIdle, managerVars, registry, walk, lists
<1>9. ASSUME NEW t \in Threads, RemoveReached(t) \/ Sweep(t) PROVE WaitInv' /\ KeepsWaiting
  <2>1. RemoveCoThread(t) /\ pc' = pc
    BY <1>9 DEF RemoveReached, Sweep
  <2>2. Waits /\ Leaves
    BY <1>3, <2>1 DEF RemoveCoThread, CancelCoThread, registry
  <2> QED  BY <1>5, <2>2
<1>10. EventsCancelled \/ TaskRemoved => WaitInv' /\ KeepsWaiting
  <2> SUFFICES ASSUME EventsCancelled \/ TaskRemoved PROVE Waits /\ Leaves
    BY <1>5
  <2> QED  BY <1>3 DEF EventsCancelled, TaskRemoved, CancelDone, lists
<1>11. ASSUME ManagerWork PROVE WaitInv' /\ KeepsWaiting
  <2>1. PICK n \in Nodes : CancelNode(n)
    BY <1>11 DEF ManagerWork
  <2>2. n \in DOMAIN node /\ node[n].thread_ptr = leaving
    BY <2>1 DEF CancelNode, ConnInv, EnvInv, ManagerInv, ManagerTypeOK, RecordsAgree, NodesOfThread
  <2>3. DOMAIN node' = DOMAIN node \ {n}
    BY <2>1, <2>2, DeleteEventFacts DEF CancelNode, ConnInv, EnvInv, ManagerInv
  <2>4. UNCHANGED <<valid_cothreads, block_list, pc, leaving>>
    BY <1>11, <2>1 DEF ManagerWork, CancelNode, lists, walk
  <2>5. Waits /\ Leaves
    BY <1>3, <2>2, <2>3, <2>4 DEF WaitInv
  <2> QED  BY <1>5, <2>5
<1>12. ASSUME NEW n \in Nodes, DispatchEvent(n) PROVE WaitInv' /\ KeepsWaiting
  <2>1. n \in DOMAIN node
    BY <1>12 DEF DispatchEvent, FireEvent, ConnInv, EnvInv, ManagerInv, ManagerTypeOK, RecordsAgree, NodesOf
  <2>2. DOMAIN node' = DOMAIN node \ {n}
    BY <1>12, <2>1, DeleteEventFacts DEF DispatchEvent, FireEvent, ConnInv, EnvInv, ManagerInv
  <2>3. /\ block_list' = block_list \ {node[n].thread_ptr}
        /\ UNCHANGED <<valid_cothreads, pc, leaving>>
    BY <1>12 DEF DispatchEvent, FireEvent, Activate, walk
  <2>4. Waits /\ Leaves
    BY <1>3, <2>2, <2>3
  <2> QED  BY <1>5, <2>4
<1> QED  BY <1>7, <1>8, <1>9, <1>10, <1>11, <1>12 DEF Loop

LEMMA StepWaits ==
  ASSUME ConnInv, WaitInv, [ConnNext]_connVars
  PROVE  WaitInv' /\ KeepsWaiting
<1>1. block_list \subseteq valid_cothreads \cup {leaving} /\ block_list \subseteq Threads
  BY DEF ConnInv, EnvInv, EnvTypes, ListsPartition
<1>2. ASSUME UNCHANGED <<node, conn, pc, it, leaving, valid_cothreads, block_list>> PROVE WaitInv' /\ KeepsWaiting
  <2>1. \A t : HasItsEvent(t)' <=> HasItsEvent(t)
    BY <1>2 DEF HasItsEvent
  <2> QED  BY <1>2, <2>1 DEF WaitInv, KeepsWaiting
<1>3. ASSUME Schedule PROVE WaitInv' /\ KeepsWaiting
  <2>1. \A t \in Threads : conn'[t] = conn[t] \/ (conn'[t] = Outside /\ t \notin valid_cothreads' \cup {leaving'})
    BY <1>3 DEF Schedule
  <2>2. Loop => WaitInv' /\ KeepsWaiting
    BY <2>1, LoopWaits
  <2>3. ASSUME CallLoop \/ (pc = "main" /\ \E t \in Threads : AddTask(t)) PROVE WaitInv' /\ KeepsWaiting
    <3>1. /\ UNCHANGED <<node, leaving, block_list, it>> /\ pc' # "run" /\ pc # "run"
          /\ \/ UNCHANGED valid_cothreads
             \/ \E t \in Threads \ (valid_cothreads \cup {leaving}) : valid_cothreads' = valid_cothreads \cup {t}
      BY <2>3 DEF CallLoop, AddTask, managerVars, registry, walk, lists
    <3>2. \A t \in block_list' \cap valid_cothreads' : t \in Threads /\ conn'[t] = conn[t]
      BY <1>1, <2>1, <3>1
    <3>3. KeepsWaiting
      <4>1. ASSUME NEW t \in block_list' \cap valid_cothreads', HasItsEvent(t) PROVE HasItsEvent(t)'
        BY <3>1, <3>2, <4>1 DEF HasItsEvent
      <4> QED  BY <3>2, <4>1 DEF KeepsWaiting
    <3>4. \A t \in Threads : conn'[t].at # "yield"
      BY <2>1, <3>1 DEF WaitInv, Outside
    <3>5. leaving' \notin valid_cothreads'
      BY <3>1 DEF WaitInv
    <3> QED  BY <3>1, <3>3, <3>4, <3>5 DEF WaitInv
  <2> QED  BY <1>3, <2>2, <2>3 DEF Schedule
<1>4. Arrive => WaitInv' /\ KeepsWaiting
  BY <1>2 DEF Arrive, Environment, managerVars, registry, walk, lists
<1>5. ASSUME NEW fd \in Timers, Expire(fd) PROVE WaitInv' /\ KeepsWaiting
  BY <1>2, <1>5 DEF Expire, Environment, managerVars, registry, walk, lists
<1>6. UNCHANGED connVars => WaitInv' /\ KeepsWaiting
  BY <1>2 DEF connVars, vars, managerVars, registry, walk, lists
<1> QED  BY <1>3, <1>4, <1>5, <1>6, ConnStepWaits DEF ConnNext

LEMMA WaitInvariant == ConnSpec => []WaitInv
<1>1. ConnInv /\ WaitInv /\ [ConnNext]_connVars => WaitInv'
  BY StepWaits
<1> QED  BY <1>1, WaitInitInv, ConnInvariant, PTL DEF ConnSpec

\* A call that is blocked keeps the event it waits for until that wakes it, however
\* many cothreads share the socket; only a call that cancels the id of an event that
\* is gone can take it away.
THEOREM AlwaysWaitsForItsEvent == ConnSpec => WaitsForItsEvent
<1>1. ConnInv /\ WaitInv /\ [ConnNext]_connVars => [KeepsWaiting]_connVars
  BY StepWaits
<1> QED  BY <1>1, ConnInvariant, WaitInvariant, PTL DEF ConnSpec, WaitsForItsEvent, KeepsWaiting

-----------------------------------------------------------------------------
(* NothingComesLoose: what there is of the events of a call at each place  *)
(* of it.                                                                  *)

TimersExist ==
  /\ \A n \in DOMAIN node : node[n].fd \in Timers => node[n].fd \in timers
  /\ \A t \in Threads : co_thread_event[t].fd \in Timers => co_thread_event[t].fd \in timers
  /\ \A t \in Threads : conn[t].timer_fd # Null => conn[t].timer_fd \in timers

\* Of the events of t only that of its timer is on the fd of its timer; it is gone
\* once it has been reported.
FrameInv(t) ==
  /\ conn[t].at = "outside" => conn[t] = Outside
  /\ conn[t].at \in {"arm", "try", "register", "retry", "done"} => conn[t].event_id = Null
  /\ conn[t].at = "arm" => conn[t].timer_event_id = Null
  /\ \A n \in NodesOfThread(t) : node[n].fd = conn[t].timer_fd => n = conn[t].timer_event_id
  /\ conn[t].timer_fd # Null /\ co_thread_event[t].fd = conn[t].timer_fd
       => conn[t].at \in {"waiting", "cancel"} /\ conn[t].timer_event_id \notin NodesOfThread(t)
  /\ conn[t].at = "cancel" => TimedOut(conn[t], co_thread_event[t]) \/ FdError(co_thread_event[t])

OneRuns == \A t \in Threads : conn[t].at \notin {"outside", "waiting"} => pc = "run" /\ it = t

ReturnInv == OneRuns /\ TimersExist /\ \A t \in Threads : FrameInv(t)

LEMMA ReturnInitInv == ConnInit => ReturnInv
BY NullAssumption, SocketFacts
DEF ConnInit, Init, ManagerInit, Outside, NobodyWoken, NoEvent, ReturnInv, OneRuns, TimersExist, FrameInv, NodesOfThread

\* The frame of a cothread that is not in a call.
LEMMA OutsideFrame ==
  ASSUME EnvInv', NEW t, conn'[t] = Outside
  PROVE  FrameInv(t)'
BY NullAssumption DEF EnvInv, ManagerInv, ManagerTypeOK, NodeInfo, Outside, FrameInv, NodesOfThread

\* Events of t go, and nothing else changes for it.
LEMMA FrameKept ==
  ASSUME NEW t, FrameInv(t), conn'[t] = conn[t], co_thread_event'[t] = co_thread_event[t],
         \A n \in NodesOfThread(t)' : n \in NodesOfThread(t) /\ node'[n] = node[n]
  PROVE  FrameInv(t)'
BY DEF FrameInv, NodesOfThread

LEMMA ShrinkKeepsFrame ==
  ASSUME NEW t, FrameInv(t), conn'[t] = conn[t], co_thread_event'[t] = co_thread_event[t], NodesShrink
  PROVE  FrameInv(t)'
<1>1. \A n \in NodesOfThread(t)' : n \in NodesOfThread(t) /\ node'[n] = node[n]
  BY DEF NodesOfThread, NodesShrink
<1> QED  BY <1>1, FrameKept

\* A step of a call: what it leaves to the others, and what is to be shown of it.
LEMMA CallKeepsReturn ==
  ASSUME ConnInv, ReturnInv, pc = "run", ConnStep,
         UNCHANGED co_thread_event, timers \subseteq timers',
         \A n \in DOMAIN node' : (n \in DOMAIN node /\ node'[n] = node[n]) \/ node'[n].thread_ptr = it,
         \A n \in DOMAIN node' : node'[n].fd \in Timers => node'[n].fd \in timers',
         UNCHANGED it, conn'[it].at \notin {"outside", "waiting"} => UNCHANGED pc,
         conn'[it].timer_fd # Null => conn'[it].timer_fd \in timers',
         FrameInv(it)'
  PROVE  ReturnInv'
<1>1. it \in Threads
  BY RunningFrame
<1>2. \A t \in Threads : t # it => conn'[t] = conn[t]
  BY OtherFrames
<1>4. ASSUME NEW t \in Threads, t # it PROVE FrameInv(t)'
  <2>1. \A n \in NodesOfThread(t)' : n \in NodesOfThread(t) /\ node'[n] = node[n]
    BY <1>4 DEF NodesOfThread
  <2> QED  BY <1>2, <1>4, <2>1, FrameKept DEF ReturnInv
<1>5. OneRuns'
  BY <1>1, <1>2 DEF ReturnInv, OneRuns
<1>6. TimersExist'
  BY <1>1, <1>2 DEF ReturnInv, TimersExist
<1> QED  BY <1>1, <1>4, <1>5, <1>6 DEF ReturnInv

LEMMA ConnStepReturn ==
  ASSUME ConnInv, ReturnInv, pc = "run", ConnStep
  PROVE  ReturnInv'
<1> it' = it
  <2>1. ASSUME NEW op, NEW fd, StartCall(op, fd) PROVE it' = it
    BY <2>1 DEF StartCall, vars
  <2>2. ASSUME NEW n, ArmTimer(n) \/ RegisterSocket(n) PROVE it' = it
    BY <2>2 DEF ArmTimer, RegisterSocket, RegisterEvent
  <2>3. Between => it' = it
    BY DEF Between, Yield, Finish, CancelTask
  <2> QED
    BY <2>1, <2>2, <2>3 DEF ConnStep, WouldBlock, MovePart, MoveAllOrFail, Retry, Wait, Resume, GiveUp, FinishCall, Moved,
                            Environment, Block, Cancels, vars
<1>1. it \in Threads /\ conn \in [Threads -> Frames] /\ FrameInv(it)
  BY RunningFrame DEF ConnInv, ConnTypeOK, ReturnInv
<1>2. EnvInv'
  BY ConnStepIsEnvStep, EnvStepInv DEF ConnInv
<1>3. Null \notin Timers /\ Null \notin DOMAIN node /\ Sockets \cap Timers = {}
  BY NullAssumption, SocketFacts DEF ConnInv, EnvInv, ManagerInv, ManagerTypeOK
<1>4. \A n \in DOMAIN node : node[n].fd \in Fds
  BY DEF ConnInv, EnvInv, ManagerInv, ManagerTypeOK, NodeInfo
\* A step that registers nothing and goes to another place.
<1>5. ASSUME NodesShrink, UNCHANGED <<co_thread_event, timers>>,
             conn'[it].at \notin {"outside", "waiting"} => UNCHANGED pc,
             conn'[it].timer_fd \in {conn[it].timer_fd, Null}, FrameInv(it)'
      PROVE  ReturnInv'
  BY <1>1, <1>5, CallKeepsReturn DEF NodesShrink, ReturnInv, TimersExist
<1>6. UNCHANGED node => NodesShrink
  BY DEF NodesShrink
<1>7. ASSUME NEW op \in Ops, NEW fd \in SocketsOf[it], StartCall(op, fd) PROVE ReturnInv'
  <2>1. PICK timer \in (Timers \ timers) \cup {Null} :
          /\ conn' = [conn EXCEPT ![it] =
                [Outside EXCEPT !.at = IF timer = Null \/ op = "read_some" THEN FirstStep(op) ELSE "arm",
                                !.op = op, !.fd = fd, !.timer_fd = timer]]
          /\ timers' = timers \cup ({timer} \ {Null})
    BY <1>7 DEF StartCall
  <2>2. UNCHANGED <<node, co_thread_event, pc, it>>
    BY <1>7 DEF StartCall, vars, managerVars, registry
  <2>3. /\ conn'[it].event_id = Null /\ conn'[it].timer_event_id = Null
        /\ conn'[it].timer_fd = timer /\ conn'[it].at \in {"try", "register", "arm"}
    BY <1>1, <2>1 DEF Outside, FirstStep
  <2>4. \A n \in DOMAIN node : node[n].fd # timer
    BY <1>3, <1>4, NullAssumption DEF ReturnInv, TimersExist
  <2>5. timer # Null => co_thread_event[it].fd # timer
    BY <1>1 DEF ReturnInv, TimersExist
  <2>6. FrameInv(it)'
    BY <1>3, <2>2, <2>3, <2>4, <2>5 DEF FrameInv, NodesOfThread
  <2> QED  BY <2>1, <2>2, <2>3, <2>6, CallKeepsReturn DEF ReturnInv, TimersExist
<1>8. ASSUME NEW n \in Nodes, NEW fd, NEW events, RegisterEvent(n, fd, events)
      PROVE  /\ DOMAIN node' = DOMAIN node \cup {n} /\ n \notin DOMAIN node
             /\ node'[n].fd = fd /\ node'[n].thread_ptr = it
             /\ \A m \in DOMAIN node : node'[m] = node[m]
             /\ UNCHANGED <<co_thread_event, pc, it>>
  BY <1>8 DEF RegisterEvent, AddEvent
<1>9. ASSUME NEW n \in Nodes, ArmTimer(n) PROVE ReturnInv'
  <2>1. /\ RegisterEvent(n, conn[it].timer_fd, {EPOLLIN})
        /\ conn[it].at = "arm" /\ UNCHANGED timers
        /\ conn'[it] = [conn[it] EXCEPT !.timer_event_id = n, !.at = FirstStep(conn[it].op)]
    BY <1>1, <1>9 DEF ArmTimer, At
  <2>2. /\ conn'[it].timer_event_id = n /\ conn'[it].event_id = conn[it].event_id
        /\ conn'[it].timer_fd = conn[it].timer_fd /\ conn'[it].at \in {"try", "register"}
    BY <1>1, <2>1 DEF FirstStep, Frames
  <2>3. conn[it].timer_fd \in Timers
    BY <1>1, <2>1 DEF ConnInv, Places
  <2>4. \A m \in NodesOfThread(it) : node[m].fd # conn[it].timer_fd
    BY <1>1, <1>3, <2>1 DEF FrameInv, NodesOfThread
  <2>5. /\ DOMAIN node' = DOMAIN node \cup {n} /\ n \notin DOMAIN node
        /\ node'[n].fd = conn[it].timer_fd /\ node'[n].thread_ptr = it
        /\ \A m \in DOMAIN node : node'[m] = node[m]
        /\ UNCHANGED <<co_thread_event, pc>>
    BY <1>8, <2>1
  <2>6. FrameInv(it)'
    <3>1. co_thread_event[it].fd # conn[it].timer_fd
      BY <1>1, <1>3, <2>1, <2>3 DEF FrameInv
    <3>2. \A m \in NodesOfThread(it)' : m = n \/ (m \in NodesOfThread(it) /\ node'[m] = node[m] /\ m # n)
      BY <2>5 DEF NodesOfThread
    <3> QED  BY <1>1, <2>1, <2>2, <2>4, <2>5, <3>1, <3>2 DEF FrameInv
  <2>7. conn[it].timer_fd \in timers
    BY <1>1, <1>3, <2>3 DEF ReturnInv, TimersExist
  <2>8. \A m \in DOMAIN node' : node'[m].fd \in Timers => node'[m].fd \in timers'
    BY <2>1, <2>5, <2>7 DEF ReturnInv, TimersExist
  <2> QED  BY <1>9, <2>1, <2>2, <2>5, <2>6, <2>7, <2>8, CallKeepsReturn DEF ConnStep
<1>10. ASSUME NEW n \in Nodes, RegisterSocket(n) PROVE ReturnInv'
  <2>1. /\ RegisterEvent(n, conn[it].fd, Mask(conn[it].op))
        /\ conn[it].at = "register" /\ UNCHANGED timers
        /\ conn'[it] = [conn[it] EXCEPT !.event_id = n, !.at = "yield"]
    BY <1>1, <1>10 DEF RegisterSocket, At
  <2>2. /\ conn'[it].timer_event_id = conn[it].timer_event_id
        /\ conn'[it].timer_fd = conn[it].timer_fd /\ conn'[it].at = "yield"
    BY <1>1, <2>1 DEF Frames
  <2>3. conn[it].fd \in Fds \ Timers /\ conn[it].timer_fd \in Timers \cup {Null}
    BY <1>1, <2>1, RunningFrame, SocketFacts DEF Frames
  <2>4. /\ DOMAIN node' = DOMAIN node \cup {n} /\ n \notin DOMAIN node
        /\ node'[n].fd = conn[it].fd /\ node'[n].thread_ptr = it
        /\ \A m \in DOMAIN node : node'[m] = node[m]
        /\ UNCHANGED <<co_thread_event, pc>>
    BY <1>1, <1>8, <2>1
  <2>5. FrameInv(it)'
    <3>1. \A m \in NodesOfThread(it)' : m = n \/ (m \in NodesOfThread(it) /\ node'[m] = node[m])
      BY <2>4 DEF NodesOfThread
    <3>2. conn[it].fd # conn[it].timer_fd
      BY <1>3, <2>3, NullAssumption
    <3> QED  BY <1>1, <2>1, <2>2, <2>4, <3>1, <3>2 DEF FrameInv
  <2>6. \A m \in DOMAIN node' : node'[m].fd \in Timers => node'[m].fd \in timers'
    BY <2>1, <2>3, <2>4 DEF ReturnInv, TimersExist
  <2>7. conn'[it].timer_fd # Null => conn'[it].timer_fd \in timers'
    BY <1>1, <2>1, <2>2 DEF ReturnInv, TimersExist
  <2> QED  BY <1>10, <2>1, <2>2, <2>4, <2>5, <2>6, <2>7, CallKeepsReturn DEF ConnStep
<1>11. ASSUME NEW place, UNCHANGED <<node, co_thread_event, timers, pc, it>>, conn'[it] = [conn[it] EXCEPT !.at = place],
              conn[it].at \in {"try", "retry"}, place \in {"register", "done"}
       PROVE  ReturnInv'
  <2>1. FrameInv(it)'
    BY <1>1, <1>11 DEF FrameInv, NodesOfThread, Frames
  <2> QED  BY <1>1, <1>5, <1>6, <1>11, <2>1 DEF Frames
<1>12. WouldBlock \/ MovePart \/ MoveAllOrFail \/ Retry => ReturnInv'
  <2>1. UNCHANGED vars \/ Moved => UNCHANGED <<node, co_thread_event, pc, it>>
    BY DEF Moved, Environment, vars, managerVars, registry
  <2> QED  BY <1>1, <1>11, <2>1 DEF WouldBlock, MovePart, MoveAllOrFail, Retry, Goes, At, vars
<1>13. ASSUME Wait PROVE ReturnInv'
  <2>1. /\ UNCHANGED <<node, co_thread_event, timers>>
        /\ conn[it].at = "yield" /\ conn'[it] = [conn[it] EXCEPT !.at = "waiting"]
    BY <1>1, <1>13 DEF Wait, Block, Goes, At, managerVars, registry
  <2>2. FrameInv(it)'
    BY <1>1, <2>1 DEF FrameInv, NodesOfThread, Frames
  <2> QED  BY <1>1, <1>5, <1>6, <2>1, <2>2 DEF Frames
<1>14. ASSUME Resume PROVE ReturnInv'
  <2>1. UNCHANGED <<node, co_thread_event, timers, pc, it>> /\ conn[it].at = "waiting"
    BY <1>14 DEF Resume, At, vars, managerVars, registry
  <2>2. CASE TimedOut(conn[it], co_thread_event[it]) \/ FdError(co_thread_event[it])
    <3>1. conn'[it] = [conn[it] EXCEPT !.at = "cancel"]
      BY <1>1, <1>14, <2>2 DEF Resume, Goes
    <3>2. /\ conn'[it].at = "cancel" /\ conn'[it].timer_event_id = conn[it].timer_event_id
          /\ conn'[it].timer_fd = conn[it].timer_fd /\ conn'[it].fd = conn[it].fd
      BY <1>1, <3>1 DEF Frames
    <3>3. FrameInv(it)'
      BY <1>1, <2>1, <2>2, <3>2 DEF FrameInv, NodesOfThread, TimedOut, FdError
    <3> QED  BY <1>5, <1>6, <2>1, <3>2, <3>3
  <2>3. CASE ~(TimedOut(conn[it], co_thread_event[it]) \/ FdError(co_thread_event[it]))
    <3>1. conn' = [conn EXCEPT ![it].at = NextStep(conn[it].op), ![it].event_id = Null]
      BY <1>14, <2>3 DEF Resume
    <3>2. /\ conn'[it].at \in {"try", "retry", "done"} /\ conn'[it].timer_event_id = conn[it].timer_event_id
          /\ conn'[it].timer_fd = conn[it].timer_fd /\ conn'[it].event_id = Null
      BY <1>1, <3>1 DEF Frames, NextStep
    <3>3. FrameInv(it)'
      BY <1>1, <2>1, <2>3, <3>2 DEF FrameInv, NodesOfThread, TimedOut
    <3> QED  BY <1>5, <1>6, <2>1, <3>2, <3>3
  <2> QED  BY <2>2, <2>3
<1>15. ASSUME GiveUp \/ FinishCall PROVE ReturnInv'
  <2>1. PICK id \in Nodes \cup {Null} : Cancels(id)
    BY <1>1, <1>15 DEF GiveUp, FinishCall, Narrowed, Frames
  <2>2. NodesShrink
    <3>1. CASE id \in valid_event /\ DeleteEvent(id)
      BY <3>1, DeleteEventFacts DEF ConnInv, EnvInv, ManagerInv, RecordsAgree, NodesShrink
    <3> QED  BY <1>6, <2>1, <3>1 DEF Cancels, CancelEvent, managerVars, registry, vars
  <2>3. conn'[it] = Outside /\ UNCHANGED <<co_thread_event, timers>>
    BY <1>1, <1>15 DEF GiveUp, FinishCall, Returns, Cancels, vars
  <2> QED  BY <1>2, <1>5, <2>2, <2>3, OutsideFrame DEF Outside
<1>16. ASSUME Between PROVE ReturnInv'
  <2>1. UNCHANGED <<conn, timers>> /\ conn[it].at = "outside"
    BY <1>16 DEF Between, At
  <2>2. UNCHANGED <<node, co_thread_event>>
    BY <1>16 DEF Between, Yield, Finish, RemoveCoThread, CancelCoThread, CancelTask, managerVars, registry
  <2>3. FrameInv(it)'
    BY <1>1, <1>6, <2>1, <2>2, ShrinkKeepsFrame
  <2> QED  BY <1>5, <1>6, <2>1, <2>2, <2>3
<1> QED  BY <1>7, <1>9, <1>10, <1>12, <1>13, <1>14, <1>15, <1>16 DEF ConnStep

LEMMA DispatchReturn ==
  ASSUME ConnInv, ReturnInv, NEW n \in Nodes, DispatchEvent(n), UNCHANGED timers,
         \A t \in Threads : conn'[t] = conn[t] \/ conn'[t] = Outside
  PROVE  ReturnInv'
<1> DEFINE u == node[n].thread_ptr
<1>1. /\ n \in DOMAIN node /\ node[n].fd = current_fd /\ u \in Threads
      /\ current_fd \in Fds
  BY DEF DispatchEvent, FireEvent, ConnInv, EnvInv, ManagerInv, ManagerTypeOK, RecordsAgree, NodesOf, NodeInfo
<1>2. /\ DOMAIN node' = DOMAIN node \ {n}
      /\ \A m \in DOMAIN node' : node'[m] = node[m]
  BY <1>1, DeleteEventFacts DEF DispatchEvent, FireEvent, ConnInv, EnvInv, ManagerInv
<1>3. EnvInv'
  <2>1. Loop
    BY DEF Loop
  <2> QED  BY <2>1, EnvStepInv DEF Next, ConnInv
<1>4. pc = "events" /\ pc' = pc
  BY DEF DispatchEvent
<1>5. \A t \in Threads : conn[t].at \in {"outside", "waiting"}
  BY <1>4 DEF ReturnInv, OneRuns
<1>6. PICK e : co_thread_event' = co_thread_event \/ co_thread_event' = [co_thread_event EXCEPT ![u] = [fd |-> current_fd, events |-> e]]
  BY DEF DispatchEvent, Activate
<1>7. co_thread_event \in [Threads -> [fd : Fds \cup {Null}, events : SUBSET AllBits]]
  BY DEF ConnInv, EnvInv, EnvTypes
<1>8. \A t \in Threads : \/ co_thread_event'[t] = co_thread_event[t]
                         \/ t = u /\ co_thread_event'[t].fd = current_fd
  BY <1>6, <1>7
<1>9. ASSUME NEW t \in Threads PROVE FrameInv(t)'
  <2>1. CASE conn'[t] = Outside
    BY <1>3, <2>1, OutsideFrame
  <2>2. CASE conn'[t] = conn[t]
    <3>1. \A m \in NodesOfThread(t)' : m \in NodesOfThread(t) /\ node'[m] = node[m] /\ m # n
      BY <1>2 DEF NodesOfThread
    <3>2. CASE co_thread_event'[t] = co_thread_event[t]
      BY <2>2, <3>1, <3>2, FrameKept DEF ReturnInv
    <3>3. CASE t = u /\ co_thread_event'[t].fd = current_fd
      <4>1. conn[t].timer_fd = current_fd => conn[t].timer_event_id = n
        BY <1>1, <3>3 DEF ReturnInv, FrameInv, NodesOfThread
      <4> QED  BY <1>1, <1>5, <2>2, <3>1, <3>3, <4>1, NullAssumption DEF ReturnInv, FrameInv, Outside
    <3> QED  BY <1>8, <3>2, <3>3
  <2> QED  BY <2>1, <2>2
<1>10. OneRuns'
  BY <1>5 DEF OneRuns, Outside
<1>11. TimersExist'
  BY <1>1, <1>2, <1>8 DEF ReturnInv, TimersExist, Outside
<1> QED  BY <1>9, <1>10, <1>11 DEF ReturnInv

LEMMA ScheduleReturn ==
  ASSUME ConnInv, WaitInv, ReturnInv, Schedule
  PROVE  ReturnInv'
<1>1. UNCHANGED timers /\ \A t \in Threads : conn'[t] = conn[t] \/ conn'[t] = Outside
  BY DEF Schedule
<1>2. pc # "run"
  BY DEF WaitInv, Schedule, CallLoop, Loop, LoopReturns, HandleEvent, DispatchEvent, DispatchFd, EventsHandled,
         RemoveReached, Reaches, Run, Sweep, ManagerWork, CancelNode, EventsCancelled, TaskRemoved, CancelDone, Admit,
         SweepDone
<1>3. EnvInv'
  <2>1. Next
    BY DEF Schedule, Next, Call
  <2> QED  BY <2>1, EnvStepInv DEF ConnInv
<1>4. NodesShrink
  <2>1. ASSUME NEW t, AddTask(t) PROVE NodesShrink
    BY <2>1 DEF AddTask, managerVars, registry, NodesShrink
  <2> QED  BY <2>1, LoopShrinks DEF Schedule, ConnInv
<1>5. \A t \in Threads : conn[t].at \in {"outside", "waiting"}
  BY <1>2 DEF ReturnInv, OneRuns
<1>6. CASE \A t \in Threads : co_thread_event'[t] = co_thread_event[t] \/ co_thread_event'[t] = NoEvent
  <2>1. ASSUME NEW t \in Threads PROVE FrameInv(t)'
    <3>1. CASE conn'[t] = Outside
      BY <1>3, <3>1, OutsideFrame
    <3>2. CASE conn'[t] = conn[t] /\ co_thread_event'[t] = co_thread_event[t]
      BY <1>4, <3>2, ShrinkKeepsFrame DEF ReturnInv
    <3>3. CASE conn'[t] = conn[t] /\ co_thread_event'[t] = NoEvent
      <4>1. \A n \in NodesOfThread(t)' : n \in NodesOfThread(t) /\ node'[n] = node[n]
        BY <1>4 DEF NodesOfThread, NodesShrink
      <4> QED  BY <1>5, <3>3, <4>1 DEF ReturnInv, FrameInv, NoEvent
    <3> QED  BY <1>1, <1>6, <3>1, <3>2, <3>3
  <2>2. OneRuns'
    BY <1>1, <1>5 DEF OneRuns, Outside
  <2>3. TimersExist'
    BY <1>1, <1>4, <1>6, SocketFacts, NullAssumption DEF ReturnInv, TimersExist, NodesShrink, Outside, NoEvent
  <2> QED  BY <2>1, <2>2, <2>3 DEF ReturnInv
<1>7. ASSUME NEW n \in Nodes, DispatchEvent(n) PROVE ReturnInv'
  BY <1>1, <1>7, DispatchReturn
<1>8. Admit => ReturnInv'
  BY <1>6 DEF Admit, NobodyWoken
<1>9. UNCHANGED co_thread_event => ReturnInv'
  BY <1>6
<1>10. ASSUME NEW t, AddTask(t) \/ RemoveReached(t) \/ Run(t) \/ Sweep(t) PROVE UNCHANGED co_thread_event
  BY <1>10 DEF AddTask, RemoveReached, Run, Sweep, RemoveCoThread
<1>11. CallLoop \/ LoopReturns \/ HandleEvent \/ DispatchFd \/ EventsHandled \/ ManagerWork \/ EventsCancelled
         \/ TaskRemoved \/ SweepDone => UNCHANGED co_thread_event
  BY DEF CallLoop, LoopReturns, HandleEvent, DispatchFd, EventsHandled, ManagerWork, EventsCancelled, TaskRemoved, SweepDone
<1> QED  BY <1>7, <1>8, <1>9, <1>10, <1>11 DEF Schedule, Loop

LEMMA ReturnInvariant == ConnSpec => []ReturnInv
<1>1. ConnInv /\ WaitInv /\ ReturnInv /\ [ConnNext]_connVars => ReturnInv'
  <2> SUFFICES ASSUME ConnInv, WaitInv, ReturnInv, [ConnNext]_connVars PROVE ReturnInv'
    OBVIOUS
  <2>1. UNCHANGED <<node, conn, timers, co_thread_event, pc, it>> => ReturnInv'
    BY DEF ReturnInv, OneRuns, TimersExist, FrameInv, NodesOfThread
  <2>2. Arrive => ReturnInv'
    BY <2>1 DEF Arrive, Environment, managerVars, registry
  <2>3. ASSUME NEW fd \in Timers, Expire(fd) PROVE ReturnInv'
    BY <2>1, <2>3 DEF Expire, Environment, managerVars, registry
  <2>4. UNCHANGED connVars => ReturnInv'
    BY <2>1 DEF connVars, vars, managerVars, registry
  <2> QED  BY <2>2, <2>3, <2>4, ScheduleReturn, ConnStepReturn DEF ConnNext
<1> QED  BY <1>1, ReturnInitInv, ConnInvariant, WaitInvariant, PTL DEF ConnSpec

\* After cancel_event(id) no event has the id.
LEMMA CancelledIsGone ==
  ASSUME ConnInv, NEW id \in Nodes \cup {Null}, Cancels(id)
  PROVE  id \notin DOMAIN node' /\ DOMAIN node' \subseteq DOMAIN node
<1>1. Null \notin DOMAIN node
  BY NullAssumption DEF ConnInv, EnvInv, ManagerInv, ManagerTypeOK
<1>2. CASE id \in valid_event /\ DeleteEvent(id)
  BY <1>2, DeleteEventFacts DEF ConnInv, EnvInv, ManagerInv, RecordsAgree
<1>3. CASE UNCHANGED node /\ (id = Null \/ id \notin valid_event)
  BY <1>1, <1>3 DEF ConnInv, EnvInv, ManagerInv, RecordsAgree
<1> QED  BY <1>2, <1>3 DEF Cancels, CancelEvent, managerVars, registry, vars

-----------------------------------------------------------------------------
(* What a call that waits has registered, and what the event that woke it  *)
(* says of that: the walk over its fd fires every event of the cothread    *)
(* that the noted bits are for.                                            *)

Noted(t, n) ==
  /\ t \notin block_list
  /\ node[n].fd = co_thread_event[t].fd
  /\ node[n].events \cap co_thread_event[t].events # {}

NotedInv(t) == conn[t].at = "waiting" =>
  /\ conn[t].event_id \in NodesOfThread(t) =>
       node[conn[t].event_id].fd = conn[t].fd /\ node[conn[t].event_id].events = Mask(conn[t].op)
  /\ \A n \in NodesOfThread(t) : Noted(t, n) =>
       pc = "events" /\ current_fd = node[n].fd /\ co_thread_event[t].events \subseteq batch[current_fd]

AllNoted == \A t \in Threads : NotedInv(t)

\* Events of t go, and nothing else changes for it.
LEMMA NotedKept ==
  ASSUME NEW t, NotedInv(t), conn'[t] = conn[t] \/ conn'[t].at # "waiting",
         \A n \in NodesOfThread(t)' : n \in NodesOfThread(t) /\ node'[n] = node[n],
         t \in block_list <=> t \in block_list',
         UNCHANGED <<current_fd, batch>>, co_thread_event'[t] = co_thread_event[t],
         pc = "events" => pc' = "events"
  PROVE  NotedInv(t)'
BY DEF NotedInv, Noted

\* Where a call starts to wait, and where nothing is noted for it.
LEMMA NothingNoted ==
  ASSUME NEW t, conn'[t].at = "waiting" => t \in block_list' \/ co_thread_event'[t] = NoEvent,
         conn'[t].at = "waiting" /\ conn'[t].event_id \in NodesOfThread(t)' =>
            node'[conn'[t].event_id].fd = conn'[t].fd /\ node'[conn'[t].event_id].events = Mask(conn'[t].op)
  PROVE  NotedInv(t)'
BY DEF NotedInv, Noted, NoEvent

LEMMA ConnStepNoted ==
  ASSUME ConnInv, WaitInv, ReturnInv, AllNoted, pc = "run", ConnStep
  PROVE  AllNoted'
<1>1. it \in Threads /\ conn \in [Threads -> Frames]
  BY RunningFrame DEF ConnInv, ConnTypeOK
<1>2. UNCHANGED <<current_fd, batch, co_thread_event>>
  <2>1. ASSUME NEW op, NEW fd, StartCall(op, fd) PROVE UNCHANGED <<current_fd, batch, co_thread_event>>
    BY <2>1 DEF StartCall, vars, managerVars, walk
  <2>2. ASSUME NEW n, ArmTimer(n) \/ RegisterSocket(n) PROVE UNCHANGED <<current_fd, batch, co_thread_event>>
    BY <2>2 DEF ArmTimer, RegisterSocket, RegisterEvent, AddEvent, walk
  <2>3. ASSUME NEW id, Cancels(id) PROVE UNCHANGED <<current_fd, batch, co_thread_event>>
    BY <2>3 DEF Cancels, CancelEvent, DeleteEvent, vars, managerVars, walk
  <2>4. Between => UNCHANGED <<current_fd, batch, co_thread_event>>
    BY DEF Between, Yield, Finish, RemoveCoThread, CancelCoThread, CancelTask, managerVars, walk
  <2>5. ASSUME GiveUp \/ FinishCall PROVE UNCHANGED <<current_fd, batch, co_thread_event>>
    BY <2>3, <2>5 DEF GiveUp, FinishCall
  <2>6. ASSUME WouldBlock \/ MovePart \/ MoveAllOrFail \/ Retry \/ Wait \/ Resume
        PROVE UNCHANGED <<current_fd, batch, co_thread_event>>
    BY <2>6 DEF WouldBlock, MovePart, MoveAllOrFail, Retry, Wait, Resume, Moved, Environment, Block, vars, managerVars, walk
  <2> QED  BY <2>1, <2>2, <2>4, <2>5, <2>6 DEF ConnStep
<1>3. block_list' = block_list \/ (Wait /\ block_list' = block_list \cup {it})
  <2>1. ASSUME NEW op, NEW fd, StartCall(op, fd) PROVE UNCHANGED block_list
    BY <2>1 DEF StartCall, vars, lists
  <2>2. ASSUME NEW n, ArmTimer(n) \/ RegisterSocket(n) PROVE UNCHANGED block_list
    BY <2>2 DEF ArmTimer, RegisterSocket, RegisterEvent, lists
  <2>3. Between => UNCHANGED block_list
    BY DEF Between, Yield, Finish, RemoveCoThread, CancelTask, lists
  <2>4. ASSUME GiveUp \/ FinishCall PROVE UNCHANGED block_list
    BY <2>4 DEF GiveUp, FinishCall, Cancels, vars, lists
  <2>5. ASSUME WouldBlock \/ MovePart \/ MoveAllOrFail \/ Retry \/ Resume PROVE UNCHANGED block_list
    BY <2>5 DEF WouldBlock, MovePart, MoveAllOrFail, Retry, Resume, Moved, Environment, vars, lists
  <2>6. Wait => block_list' = block_list \cup {it}
    BY DEF Wait, Block
  <2> QED  BY <2>1, <2>2, <2>3, <2>4, <2>5, <2>6 DEF ConnStep
<1>4. ASSUME NEW t \in Threads, t # it PROVE NotedInv(t)'
  <2>1. conn'[t] = conn[t]
    BY <1>4, OtherFrames
  <2>2. \A n \in NodesOfThread(t)' : n \in NodesOfThread(t) /\ node'[n] = node[n]
    BY <1>4, StepEvents DEF NodesOfThread
  <2> QED  BY <1>1, <1>2, <1>3, <1>4, <2>1, <2>2, NotedKept DEF AllNoted
<1>5. ASSUME NEW t \in Threads, t = it PROVE NotedInv(t)'
  <2>1. CASE Wait
    <3>1. conn[it].at = "yield" /\ conn'[it] = [conn[it] EXCEPT !.at = "waiting"] /\ UNCHANGED node
      BY <1>1, <2>1 DEF Wait, Goes, At, Block, managerVars, registry
    <3>2. HasItsEvent(t) /\ t \in block_list'
      BY <1>1, <1>5, <2>1, <3>1 DEF WaitInv, Wait, Block
    <3>3. /\ conn'[it].event_id = conn[it].event_id /\ conn'[it].fd = conn[it].fd
          /\ conn'[it].op = conn[it].op
      BY <1>1, <3>1 DEF Frames
    <3>4. node'[conn'[t].event_id].fd = conn'[t].fd /\ node'[conn'[t].event_id].events = Mask(conn'[t].op)
      BY <1>5, <3>1, <3>2, <3>3 DEF HasItsEvent
    <3> QED  BY <3>2, <3>4, NothingNoted
  <2>2. CASE ~Wait
    <3>1. conn'[it].at # "waiting"
      <4>1. ASSUME NEW op, NEW fd, StartCall(op, fd) PROVE conn'[it].at # "waiting"
        BY <1>1, <4>1 DEF StartCall, FirstStep, Outside
      <4>2. ASSUME NEW n, ArmTimer(n) \/ RegisterSocket(n) PROVE conn'[it].at # "waiting"
        BY <1>1, <4>2 DEF ArmTimer, RegisterSocket, FirstStep, Frames
      <4>3. WouldBlock \/ MovePart \/ MoveAllOrFail \/ Retry \/ Resume => conn'[it].at # "waiting"
        BY <1>1 DEF WouldBlock, MovePart, MoveAllOrFail, Retry, Resume, Goes, NextStep, Frames
      <4>4. GiveUp \/ FinishCall \/ Between => conn'[it].at # "waiting"
        BY <1>1 DEF GiveUp, FinishCall, Returns, Between, At, Outside
      <4> QED  BY <2>2, <4>1, <4>2, <4>3, <4>4 DEF ConnStep
    <3> QED  BY <1>5, <3>1 DEF NotedInv
  <2> QED  BY <2>1, <2>2
<1> QED  BY <1>4, <1>5 DEF AllNoted

LEMMA DispatchNoted ==
  ASSUME ConnInv, PhaseInv, AllNoted, NEW n \in Nodes, DispatchEvent(n),
         \A t \in Threads : conn'[t] = conn[t] \/ conn'[t] = Outside
  PROVE  AllNoted'
<1> DEFINE u == node[n].thread_ptr
           e == [fd |-> current_fd, events |-> EventFor(n)]
<1>1. /\ n \in DOMAIN node /\ current_fd \in Fds /\ u \in Threads
      /\ pc = "events" /\ pc' = "events" /\ UNCHANGED <<current_fd, batch>>
  BY DEF DispatchEvent, FireEvent, walk, ConnInv, EnvInv, ManagerInv, ManagerTypeOK, RecordsAgree, NodesOf, NodeInfo
<1>2. \A m \in DOMAIN node' : m \in DOMAIN node /\ node'[m] = node[m]
  BY <1>1, DeleteEventFacts DEF DispatchEvent, FireEvent, ConnInv, EnvInv, ManagerInv
<1>3. /\ block_list' = block_list \ {u}
      /\ co_thread_event' = IF co_thread_event[u] = NoEvent THEN [co_thread_event EXCEPT ![u] = e] ELSE co_thread_event
  BY DEF DispatchEvent, Activate
<1>4. co_thread_event \in [Threads -> [fd : Fds \cup {Null}, events : SUBSET AllBits]]
  BY DEF ConnInv, EnvInv, EnvTypes
<1>5. EventFor(n) \subseteq batch[current_fd]
  BY DEF EventFor
<1> HIDE DEF u, e
<1> SUFFICES ASSUME NEW t \in Threads PROVE NotedInv(t)'
  BY DEF AllNoted
<1>6. \A m \in NodesOfThread(t)' : m \in NodesOfThread(t) /\ node'[m] = node[m]
  BY <1>2 DEF NodesOfThread
<1>7. CASE t # u \/ co_thread_event[u] # NoEvent
  <2>1. co_thread_event'[t] = co_thread_event[t]
    BY <1>1, <1>3, <1>4, <1>7
  <2>2. t \in block_list <=> t \in block_list'
    BY <1>1, <1>3, <1>7 DEF PhaseInv
  <2> QED  BY <1>1, <1>6, <2>1, <2>2, NotedKept DEF AllNoted, Outside
<1>8. CASE t = u /\ co_thread_event[u] = NoEvent
  <2>1. co_thread_event'[t] = e
    BY <1>1, <1>3, <1>4, <1>8
  <2>2. e.fd = current_fd /\ e.events \subseteq batch'[current_fd]
    BY <1>1, <1>5 DEF e
  <2>3. conn'[t].at = "waiting" => conn'[t] = conn[t]
    BY DEF Outside
  <2> QED  BY <1>1, <1>6, <2>1, <2>2, <2>3 DEF NotedInv, Noted, AllNoted
<1> QED  BY <1>7, <1>8

LEMMA ScheduleNoted ==
  ASSUME ConnInv, WaitInv, PhaseInv, AllNoted, Schedule
  PROVE  AllNoted'
<1>1. \A t \in Threads : conn'[t] = conn[t] \/ (conn'[t] = Outside /\ t \notin valid_cothreads' \cup {leaving'})
  BY DEF Schedule
<1>2. NodesShrink
  <2>1. ASSUME NEW t, AddTask(t) PROVE NodesShrink
    BY <2>1 DEF AddTask, managerVars, registry, NodesShrink
  <2> QED  BY <2>1, LoopShrinks DEF Schedule, ConnInv
<1>3. \A t : \A n \in NodesOfThread(t)' : n \in NodesOfThread(t) /\ node'[n] = node[n]
  BY <1>2 DEF NodesOfThread, NodesShrink
\* Nobody that waits is unblocked, and the walk does not move.
<1>4. ASSUME UNCHANGED <<current_fd, batch, co_thread_event>>, pc = "events" => pc' = "events",
             \A t \in Threads : conn'[t] = conn[t] => (t \in block_list <=> t \in block_list')
      PROVE  AllNoted'
  <2> SUFFICES ASSUME NEW t \in Threads PROVE NotedInv(t)'
    BY DEF AllNoted
  <2>1. CASE conn'[t] = conn[t]
    BY <1>3, <1>4, <2>1, NotedKept DEF AllNoted
  <2>2. CASE conn'[t] = Outside
    BY <2>2 DEF NotedInv, Outside
  <2> QED  BY <1>1, <2>1, <2>2
\* The noted events say nothing of the events that are registered now.
<1>5. ASSUME \A t \in Threads : \A n \in NodesOfThread(t) : conn[t].at = "waiting" /\ conn'[t] = conn[t] => ~Noted(t, n)',
             \A t \in Threads : \A n \in NodesOfThread(t)' : n \in NodesOfThread(t)
      PROVE  AllNoted'
  <2> SUFFICES ASSUME NEW t \in Threads, conn'[t].at = "waiting" PROVE NotedInv(t)'
    BY DEF AllNoted, NotedInv
  <2>1. conn'[t] = conn[t]
    BY <1>1 DEF Outside
  <2> QED  BY <1>3, <1>5, <2>1 DEF AllNoted, NotedInv
<1>6. ASSUME NEW n \in Nodes, DispatchEvent(n) PROVE AllNoted'
  BY <1>1, <1>6, DispatchNoted
<1>7. ASSUME Admit \/ HandleEvent PROVE AllNoted'
  <2>1. co_thread_event' = NobodyWoken
    BY <1>7 DEF Admit, HandleEvent, PhaseInv
  <2> QED  BY <1>3, <1>5, <2>1 DEF Noted, NobodyWoken, NoEvent
<1>8. ASSUME DispatchFd \/ EventsHandled PROVE AllNoted'
  <2>1. pc = "events" /\ UNCHANGED <<node, block_list, co_thread_event>>
    BY <1>8 DEF DispatchFd, WalkFd, WalkDone, EventsHandled, managerVars, registry, lists
  <2>2. ASSUME NEW t \in Threads, NEW n \in NodesOfThread(t), conn[t].at = "waiting", Noted(t, n) PROVE FALSE
    <3>1. /\ current_fd = node[n].fd /\ co_thread_event[t].events \subseteq batch[current_fd]
          /\ node[n].events \cap batch[current_fd] # {}
      BY <2>2 DEF AllNoted, NotedInv, Noted
    <3>2. /\ current_fd # Null /\ n \in fd_record[current_fd] /\ current_fd \in Fds
      BY <3>1, NullAssumption DEF NodesOfThread, ConnInv, EnvInv, ManagerInv, ManagerTypeOK, RecordsAgree, NodesOf, NodeInfo
    <3>3. ~EventsHandled
      BY <3>1, <3>2 DEF EventsHandled, NothingReady
    <3>4. ~WalkDone
      BY <3>1, <3>2 DEF WalkDone, EventFor
    <3>5. \A fd \in Fds : ~WalkFd(fd)
      BY <3>2 DEF WalkFd
    <3> QED  BY <1>8, <3>3, <3>4, <3>5 DEF DispatchFd
  <2>3. \A t \in Threads : \A n \in NodesOfThread(t) : Noted(t, n)' => Noted(t, n)
    BY <2>1 DEF Noted
  <2> QED  BY <1>3, <1>5, <2>2, <2>3
<1>9. ASSUME LoopReturns \/ ManagerWork \/ EventsCancelled \/ SweepDone \/ CallLoop PROVE AllNoted'
  BY <1>4, <1>9 DEF LoopReturns, ManagerWork, CancelNode, EventsCancelled, CancelDone, SweepDone, CallLoop, managerVars, walk, lists
<1>10. ASSUME TaskRemoved PROVE AllNoted'
  <2>1. /\ block_list' = block_list \ {leaving} /\ leaving \notin valid_cothreads' /\ leaving' = Null /\ leaving \in Threads
        /\ UNCHANGED <<current_fd, batch, co_thread_event, pc>>
    BY <1>10 DEF TaskRemoved, CancelDone, walk
  <2>2. ASSUME NEW t \in Threads PROVE NotedInv(t)'
    <3>1. CASE t # leaving
      BY <1>1, <1>3, <2>1, <3>1, NotedKept DEF AllNoted, NotedInv, Outside
    <3>2. CASE t = leaving
      <4>1. conn'[t] = Outside
        BY <2>1, <3>2, NullAssumption DEF Schedule
      <4> QED  BY <4>1 DEF NotedInv, Outside
    <3> QED  BY <3>1, <3>2
  <2> QED  BY <2>2 DEF AllNoted
<1>11. ASSUME NEW t \in Threads, AddTask(t) \/ RemoveReached(t) \/ Run(t) \/ Sweep(t) PROVE AllNoted'
  BY <1>4, <1>11 DEF AddTask, RemoveReached, Reaches, Run, Sweep, RemoveCoThread, CancelCoThread, managerVars, walk, lists
<1> QED  BY <1>6, <1>7, <1>8, <1>9, <1>10, <1>11 DEF Schedule, Loop

LEMMA NotedInvariant == ConnSpec => []AllNoted
<1>1. ConnInit => AllNoted
  BY DEF ConnInit, Outside, AllNoted, NotedInv
<1>2. ConnInv /\ WaitInv /\ ReturnInv /\ PhaseInv /\ AllNoted /\ [ConnNext]_connVars => AllNoted'
  <2> SUFFICES ASSUME ConnInv, WaitInv, ReturnInv, PhaseInv, AllNoted, [ConnNext]_connVars PROVE AllNoted'
    OBVIOUS
  <2>1. UNCHANGED <<node, conn, pc, block_list, co_thread_event, current_fd, batch>> => AllNoted'
    BY DEF AllNoted, NotedInv, Noted, NodesOfThread
  <2>2. Arrive => AllNoted'
    BY <2>1 DEF Arrive, Environment, managerVars, registry, walk, lists
  <2>3. ASSUME NEW fd \in Timers, Expire(fd) PROVE AllNoted'
    BY <2>1, <2>3 DEF Expire, Environment, managerVars, registry, walk, lists
  <2>4. UNCHANGED connVars => AllNoted'
    BY <2>1 DEF connVars, vars, managerVars, registry, walk, lists
  <2> QED  BY <2>2, <2>3, <2>4, ScheduleNoted, ConnStepNoted DEF ConnNext
<1> QED
  BY <1>1, <1>2, ConnInvariant, WaitInvariant, ReturnInvariant, ConnUsesCoEnv, PhaseInvariant, PTL
  DEF ConnSpec, UsesCoEnv

-----------------------------------------------------------------------------
\* An event comes loose only when its id is dropped.
LEMMA LooseKept ==
  ASSUME NEW t, Null \notin DOMAIN node', Ids(t) \subseteq Ids(t)' \cup {Null},
         \A n \in NodesOfThread(t)' : n \in NodesOfThread(t) \cup Ids(t)'
  PROVE  Loose(t)' \subseteq Loose(t)
BY DEF Loose, Ids, NodesOfThread

\* What NothingComesLoose excuses.
Excused(t, n) ==
  \/ n = conn[t].timer_event_id /\ FdError(co_thread_event[t])
  \/ n = conn[t].event_id /\ conn[t].at = "waiting" /\ ~WokenBySocket(t)

LEMMA ResumeLoose ==
  ASSUME ConnInv, NEW t, t = it, NotedInv(t), Resume, NEW n \in Loose(t)' \ Loose(t)
  PROVE  Excused(t, n)
<1>1. /\ pc = "run" /\ it \in Threads /\ conn[it].at = "waiting" /\ UNCHANGED node
      /\ conn \in [Threads -> Frames] /\ it \notin block_list
  BY RunningFrame DEF Resume, At, vars, managerVars, registry, ConnInv, ConnTypeOK, EnvInv, NoDangling, ListsPartition
<1>2. Null \notin DOMAIN node
  BY NullAssumption DEF ConnInv, EnvInv, ManagerInv, ManagerTypeOK
<1>4. CASE TimedOut(conn[it], co_thread_event[it]) \/ FdError(co_thread_event[it])
  <2>1. conn'[it] = [conn[it] EXCEPT !.at = "cancel"]
    BY <1>1, <1>4 DEF Resume, Goes
  <2>2. conn'[it].timer_event_id = conn[it].timer_event_id /\ conn'[it].event_id = conn[it].event_id
    BY <1>1, <2>1 DEF Frames
  <2> QED  BY <1>1, <2>2 DEF Loose, NodesOfThread
<1>5. CASE ~(TimedOut(conn[it], co_thread_event[it]) \/ FdError(co_thread_event[it]))
  <2>1. conn' = [conn EXCEPT ![it].at = NextStep(conn[it].op), ![it].event_id = Null]
    BY <1>5 DEF Resume
  <2>2. conn'[it].timer_event_id = conn[it].timer_event_id
    BY <1>1, <2>1 DEF Frames
  <2>3. n = conn[it].event_id /\ n \in NodesOfThread(it)
    BY <1>1, <2>2 DEF Loose, NodesOfThread
  <2>4. node[n].fd = conn[it].fd /\ node[n].events = Mask(conn[it].op) /\ ~Noted(t, n)
    BY <1>1, <2>3 DEF NotedInv
  <2>5. ~WokenBySocket(t)
    BY <1>1, <2>4 DEF Noted, WokenBySocket
  <2> QED  BY <1>1, <2>3, <2>5 DEF Excused
<1> QED  BY <1>4, <1>5

LEMMA ReturnLoose ==
  ASSUME ConnInv, NEW t, t = it, FrameInv(t), pc = "run", AddressesFitInt, GiveUp \/ FinishCall,
         NEW n \in Loose(t)' \ Loose(t)
  PROVE  Excused(t, n)
<1>1. /\ it \in Threads /\ conn[it] \in Frames /\ conn \in [Threads -> Frames]
      /\ n \in DOMAIN node' /\ node'[n].thread_ptr = t
  BY RunningFrame DEF ConnInv, ConnTypeOK, Loose, NodesOfThread
<1>2. Null \notin DOMAIN node
  BY NullAssumption DEF ConnInv, EnvInv, ManagerInv, ManagerTypeOK
<1>3. NodesShrink
  <2>1. PICK id : Cancels(id)
    BY DEF GiveUp, FinishCall
  <2>2. CASE UNCHANGED node
    BY <2>1, <2>2 DEF NodesShrink
  <2>3. CASE id \in valid_event /\ DeleteEvent(id)
    BY <2>1, <2>3, DeleteEventFacts DEF ConnInv, EnvInv, ManagerInv, RecordsAgree, NodesShrink
  <2> QED  BY <2>1, <2>2, <2>3 DEF Cancels, CancelEvent, managerVars, registry, vars
<1>4. n \in NodesOfThread(t) /\ n \in Ids(t)
  BY <1>1, <1>3 DEF NodesShrink, NodesOfThread, Loose, Ids
<1>5. CASE FinishCall
  <2>1. conn[it].at = "done" /\ Cancels(conn[it].timer_event_id)
    BY <1>5 DEF FinishCall, At
  <2>2. conn[it].event_id = Null
    BY <2>1 DEF FrameInv
  <2>3. n # conn[it].timer_event_id
    BY <1>1, <2>1, CancelledIsGone DEF Frames
  <2> QED  BY <1>2, <1>4, <2>2, <2>3 DEF Ids, NodesOfThread
<1>6. CASE GiveUp
  <2>1. conn[it].at = "cancel" /\ Cancels(conn[it].event_id)
    BY <1>6 DEF GiveUp, Narrowed, At
  <2>2. n # conn[it].event_id
    BY <1>1, <2>1, CancelledIsGone DEF Frames
  <2>3. n = conn[it].timer_event_id
    BY <1>4, <2>2 DEF Ids
  <2>4. ~TimedOut(conn[it], co_thread_event[it])
    BY <1>4, <2>3 DEF FrameInv, TimedOut
  <2> QED  BY <2>1, <2>3, <2>4 DEF FrameInv, Excused
<1> QED  BY <1>5, <1>6

LEMMA CallLoose ==
  ASSUME ConnInv, ConnInv', ReturnInv, AllNoted, pc = "run", AddressesFitInt, ConnStep,
         NEW t \in Threads, NEW n \in Loose(t)' \ Loose(t)
  PROVE  Excused(t, n)
<1>1. it \in Threads /\ conn \in [Threads -> Frames] /\ FrameInv(it) /\ NotedInv(it)
  BY RunningFrame DEF ConnInv, ConnTypeOK, ReturnInv, AllNoted
<1>2. Null \notin DOMAIN node /\ Null \notin DOMAIN node'
  BY NullAssumption DEF ConnInv, EnvInv, ManagerInv, ManagerTypeOK
<1>3. t = it
  <2> SUFFICES ASSUME t # it PROVE FALSE
    OBVIOUS
  <2>1. conn'[t] = conn[t] /\ \A m \in NodesOfThread(t)' : m \in NodesOfThread(t)
    BY OtherFrames, StepEvents DEF NodesOfThread
  <2> QED  BY <1>2, <2>1, LooseKept DEF Ids
<1>4. ASSUME UNCHANGED node, Ids(t) \subseteq Ids(t)' \cup {Null} PROVE FALSE
  BY <1>2, <1>3, <1>4, LooseKept DEF NodesOfThread
<1>5. ASSUME NEW op, NEW fd, StartCall(op, fd) PROVE FALSE
  <2>1. conn[it] = Outside /\ UNCHANGED node
    BY <1>1, <1>3, <1>5 DEF StartCall, At, FrameInv, vars, managerVars, registry
  <2> QED  BY <1>3, <1>4, <2>1 DEF Ids, Outside
<1>6. ASSUME NEW m, ArmTimer(m) \/ RegisterSocket(m) PROVE FALSE
  <2>1. DOMAIN node' = DOMAIN node \cup {m} /\ \A k \in DOMAIN node : node'[k] = node[k]
    BY <1>6 DEF ArmTimer, RegisterSocket, RegisterEvent, AddEvent
  <2>2. Ids(t) \subseteq Ids(t)' \cup {Null} /\ m \in Ids(t)'
    <3>1. CASE ArmTimer(m)
      <4>1. conn[it].timer_event_id = Null /\ conn[it].event_id = Null
        BY <1>1, <3>1 DEF ArmTimer, At, FrameInv
      <4>2. conn'[it].timer_event_id = m
        BY <1>1, <3>1 DEF ArmTimer, Frames
      <4> QED  BY <1>3, <4>1, <4>2 DEF Ids
    <3>2. CASE RegisterSocket(m)
      <4>1. conn[it].event_id = Null
        BY <1>1, <3>2 DEF RegisterSocket, At, FrameInv
      <4>2. conn'[it].event_id = m /\ conn'[it].timer_event_id = conn[it].timer_event_id
        BY <1>1, <3>2 DEF RegisterSocket, Frames
      <4> QED  BY <1>3, <4>1, <4>2 DEF Ids
    <3> QED  BY <1>6, <3>1, <3>2
  <2>3. \A k \in NodesOfThread(t)' : k \in NodesOfThread(t) \cup Ids(t)'
    BY <2>1, <2>2 DEF NodesOfThread
  <2> QED  BY <1>2, <1>3, <2>2, <2>3, LooseKept
<1>7. ASSUME WouldBlock \/ MovePart \/ MoveAllOrFail \/ Retry \/ Wait PROVE FALSE
  <2>1. UNCHANGED node
    BY <1>7 DEF WouldBlock, MovePart, MoveAllOrFail, Retry, Wait, Moved, Environment, Block, vars, managerVars, registry
  <2>2. Ids(t)' = Ids(t)
    BY <1>1, <1>3, <1>7 DEF WouldBlock, MovePart, MoveAllOrFail, Retry, Wait, Goes, Ids, Frames
  <2> QED  BY <1>4, <2>1, <2>2
<1>8. ASSUME Between PROVE FALSE
  <2>1. UNCHANGED <<node, conn>>
    BY <1>8 DEF Between, Yield, Finish, RemoveCoThread, CancelCoThread, CancelTask, managerVars, registry
  <2> QED  BY <1>4, <2>1 DEF Ids
<1>9. ASSUME Resume PROVE Excused(t, n)
  BY <1>1, <1>3, <1>9, ResumeLoose
<1>10. ASSUME GiveUp \/ FinishCall PROVE Excused(t, n)
  BY <1>1, <1>3, <1>10, ReturnLoose
<1> QED  BY <1>3, <1>5, <1>6, <1>7, <1>8, <1>9, <1>10 DEF ConnStep

\* A call forgets an event that is still registered in two cases only: it gives up
\* because of an error of its fd, or goes on because of an event that an earlier call
\* has forgotten.  However often it has waited, whichever event was reported first
\* and whatever became of the addresses of its events, no other call leaves one
\* behind, where the address of an event fits the int that connect keeps it in.
THEOREM CallsReturnClean == AddressesFitInt => (ConnSpec => NothingComesLoose)
<1> SUFFICES ASSUME AddressesFitInt PROVE ConnSpec => NothingComesLoose
  OBVIOUS
<1> DEFINE NoneLoose == \A t \in Threads : \A n \in Loose(t)' \ Loose(t) :
             \/ n = conn[t].timer_event_id /\ FdError(co_thread_event[t])
             \/ n = conn[t].event_id /\ conn[t].at = "waiting" /\ ~WokenBySocket(t)
<1>1. ASSUME ConnInv, ConnInv', ReturnInv, AllNoted, [ConnNext]_connVars,
             NEW t \in Threads, NEW n \in Loose(t)' \ Loose(t)
      PROVE  Excused(t, n)
  <2>1. CASE pc = "run" /\ ConnStep
    BY <1>1, <2>1, CallLoose
  <2>2. CASE Schedule
    <3>1. NodesShrink
      <4>1. ASSUME NEW u, AddTask(u) PROVE NodesShrink
        BY <4>1 DEF AddTask, managerVars, registry, NodesShrink
      <4> QED  BY <1>1, <2>2, <4>1, LoopShrinks DEF Schedule, ConnInv
    <3>2. CASE t \in valid_cothreads' \cup {leaving'}
      <4>1. conn'[t] = conn[t]
        BY <2>2, <3>2 DEF Schedule
      <4> QED  BY <1>1, <3>1, <4>1 DEF Loose, NodesOfThread, NodesShrink
    <3>3. CASE t \notin valid_cothreads' \cup {leaving'}
      BY <1>1, <3>3 DEF Loose, NodesOfThread, ConnInv, EnvInv, NoDangling
    <3> QED  BY <3>2, <3>3
  <2>3. CASE UNCHANGED <<node, conn>>
    BY <1>1, <2>3 DEF Loose, NodesOfThread
  <2>4. Arrive \/ (\E fd \in Timers : Expire(fd)) \/ UNCHANGED connVars => UNCHANGED <<node, conn>>
    BY DEF Arrive, Expire, Environment, connVars, vars, managerVars, registry
  <2> QED  BY <1>1, <2>1, <2>2, <2>3, <2>4 DEF ConnNext
<1>2. ConnInv /\ ConnInv' /\ ReturnInv /\ AllNoted /\ [ConnNext]_connVars => [NoneLoose]_connVars
  BY <1>1 DEF Excused
<1> QED  BY <1>2, ConnInvariant, ReturnInvariant, NotedInvariant, PTL DEF ConnSpec, NothingComesLoose

-----------------------------------------------------------------------------
(* Programs over connection: their steps are steps of ConnNext, or steps   *)
(* of the scheduler between two calls.                                     *)

\* A step of the scheduler outside the calls of connection.
EnvStep ==
  /\ [Next]_vars
  /\ UNCHANGED <<conn, timers>>
  /\ \/ NodesShrink
     \/ \E n, fd, events : AddEvent(n, fd, events, it) /\ it \in Threads

LEMMA EnvStepKeeps ==
  ASSUME ConnInv, [ConnNext]_connVars \/ EnvStep
  PROVE  ConnInv' /\ [Next]_vars
<1>1. CASE [ConnNext]_connVars
  BY <1>1, ConnNextIsEnvStep, EnvStepInv, ConnNextTypes DEF ConnInv
<1>2. CASE EnvStep
  BY <1>2, EnvStepInv DEF EnvStep, ConnInv, ConnTypeOK, Places
<1> QED  BY <1>1, <1>2

LEMMA EnvironmentStep ==
  ASSUME NEW fd \in Fds, NEW bits \in SUBSET AllBits, Environment(fd, bits), UNCHANGED <<conn, timers>>
  PROVE  EnvStep /\ UNCHANGED <<node, lists, leaving, pc, it>>
BY DEF EnvStep, Environment, Next, NodesShrink, managerVars, registry, walk

\* What a call does until it returns, once it is past its timer.
CallGoesOn ==
  \/ WouldBlock \/ MovePart \/ MoveAllOrFail \/ Retry \/ Wait \/ Resume
  \/ \E n \in Nodes : RegisterSocket(n)

\* What a call does to the events: it may add one of its own socket.
LEMMA CallEvents ==
  ASSUME ConnInv, pc = "run", CallGoesOn \/ FinishCall \/ GiveUp
  PROVE  /\ UNCHANGED <<valid_cothreads, cancel_list, leaving, add_list, it>> /\ pc' \in {"run", "process"}
         /\ conn[it].at # "outside"
         /\ \A t \in Threads : t # it => conn'[t] = conn[t]
         /\ CallGoesOn => conn'[it].fd = conn[it].fd
         /\ FinishCall \/ GiveUp => conn'[it] = Outside
         /\ \A n \in DOMAIN node' :
              \/ n \in DOMAIN node /\ node'[n] = node[n]
              \/ node'[n].thread_ptr = it /\ node'[n].fd = conn[it].fd
<1> USE RunningFrame
<1>1. conn \in [Threads -> Frames]
  BY DEF ConnInv, ConnTypeOK
<1>2. ASSUME WouldBlock \/ MovePart \/ MoveAllOrFail \/ Retry \/ Wait \/ Resume
      PROVE  /\ UNCHANGED <<node, valid_cothreads, cancel_list, leaving, add_list, it>> /\ pc' \in {"run", "process"}
             /\ conn[it].at # "outside"
             /\ \E f \in Frames : f.fd = conn[it].fd /\ f.at # "outside" /\ conn' = [conn EXCEPT ![it] = f]
  <2>1. /\ UNCHANGED <<node, valid_cothreads, cancel_list, leaving, add_list, it>> /\ pc' \in {"run", "process"}
        /\ conn[it].at # "outside"
    BY <1>2 DEF WouldBlock, MovePart, MoveAllOrFail, Retry, Wait, Resume, Moved, Environment, Block, At, vars,
                lists, managerVars, registry, walk
  <2>2. \E p \in PlaceNames \ {"outside"}, id \in Nodes \cup {Null} :
          conn' = [conn EXCEPT ![it] = [conn[it] EXCEPT !.at = p, !.event_id = id]]
    <3>1. conn[it] = [conn[it] EXCEPT !.event_id = conn[it].event_id]
      BY <1>1 DEF Frames
    <3>2. ASSUME NEW p \in PlaceNames \ {"outside"}, Goes(p)
          PROVE  conn' = [conn EXCEPT ![it] = [conn[it] EXCEPT !.at = p, !.event_id = conn[it].event_id]]
      BY <1>1, <3>2 DEF Goes, Frames
    <3>3. ASSUME NEW p \in PlaceNames \ {"outside"}, conn' = [conn EXCEPT ![it].at = p, ![it].event_id = Null]
          PROVE  conn' = [conn EXCEPT ![it] = [conn[it] EXCEPT !.at = p, !.event_id = Null]]
      BY <1>1, <3>3 DEF Frames
    <3>4. "cancel" \in PlaceNames \ {"outside"} /\ \A op : NextStep(op) \in PlaceNames \ {"outside"}
      BY DEF NextStep, PlaceNames
    <3>5. CASE WouldBlock \/ MovePart \/ MoveAllOrFail \/ Retry \/ Wait
      <4>1. \E p \in PlaceNames \ {"outside"} : Goes(p)
        BY <3>5 DEF WouldBlock, MovePart, MoveAllOrFail, Retry, Wait, PlaceNames
      <4> QED  BY <3>2, <4>1
    <3>6. CASE Resume
      <4>1. CASE Goes("cancel")
        BY <3>2, <3>4, <4>1
      <4>2. CASE conn' = [conn EXCEPT ![it].at = NextStep(conn[it].op), ![it].event_id = Null]
        BY <3>3, <3>4, <4>2
      <4> QED  BY <3>6, <4>1, <4>2 DEF Resume
    <3> QED  BY <1>2, <3>5, <3>6
  <2> QED  BY <1>1, <2>1, <2>2 DEF Frames
<1>3. ASSUME NEW n \in Nodes, RegisterSocket(n)
      PROVE  /\ UNCHANGED <<valid_cothreads, cancel_list, leaving, add_list, it, pc>>
             /\ conn[it].at # "outside"
             /\ \A t \in Threads : t # it => conn'[t] = conn[t]
             /\ conn'[it].fd = conn[it].fd
             /\ \A m \in DOMAIN node' :
                  \/ m \in DOMAIN node /\ node'[m] = node[m]
                  \/ node'[m].thread_ptr = it /\ node'[m].fd = conn[it].fd
  BY <1>1, <1>3 DEF RegisterSocket, RegisterEvent, AddEvent, At, walk, lists, Frames
<1>4. ASSUME NEW id \in Nodes \cup {Null}, Cancels(id)
      PROVE  NodesShrink /\ UNCHANGED <<valid_cothreads, cancel_list, leaving, add_list, it, pc>>
  <2>1. UNCHANGED <<valid_cothreads, cancel_list, leaving, add_list, it, pc>>
    BY <1>4 DEF Cancels, CancelEvent, vars, lists, managerVars, walk
  <2>2. CASE UNCHANGED node
    BY <2>1, <2>2 DEF NodesShrink
  <2>3. CASE id \in valid_event /\ DeleteEvent(id)
    BY <2>1, <2>3, DeleteEventFacts DEF ConnInv, EnvInv, ManagerInv, RecordsAgree, NodesShrink
  <2> QED  BY <1>4, <2>2, <2>3 DEF Cancels, CancelEvent, vars, managerVars, registry
<1>5. ASSUME FinishCall \/ GiveUp
      PROVE  /\ NodesShrink /\ UNCHANGED <<valid_cothreads, cancel_list, leaving, add_list, it, pc>>
             /\ conn[it].at \in {"done", "cancel"} /\ conn' = [conn EXCEPT ![it] = Outside]
  BY <1>4, <1>5 DEF FinishCall, GiveUp, At, Narrowed, Returns
<1> QED  BY <1>1, <1>2, <1>3, <1>5 DEF CallGoesOn, NodesShrink

\* What a step of the scheduler does to the lists: it removes cancelled tasks only,
\* forgets cancellations when they have had their effect, and runs no cancelled task.
LEMMA LoopLists ==
  ASSUME EnvInv, pc = "sweep" => add_list = {}, Loop \/ CallLoop
  PROVE  /\ valid_cothreads' \subseteq valid_cothreads
         /\ \A t \in valid_cothreads \ valid_cothreads' : t \in cancel_list /\ leaving' = t
         /\ \A t \in Threads : t \in valid_cothreads' \cup {leaving'} => t \in valid_cothreads \cup {leaving}
         /\ cancel_list' = cancel_list
            \/ (cancel_list' = {} /\ valid_cothreads \cap cancel_list = {} /\ pc = "sweep" /\ leaving = Null)
         /\ pc = "run" => pc' = "run" /\ UNCHANGED <<it, valid_cothreads, cancel_list>>
         /\ pc' = "run" /\ pc # "run" => it' \notin cancel_list /\ UNCHANGED <<valid_cothreads, cancel_list>>
         /\ pc' \in {"main", "check", "events"} => pc \in {"main", "check", "events"} \/ cancel_list' = {}
         /\ pc' = "sweep" => add_list' = {}
         /\ add_list' = add_list \/ pc' = "sweep"
         /\ pc = "sweep" => pc' = "sweep" \/ cancel_list' = {}
<1> USE NullAssumption DEF EnvInv, EnvTypes
<1>1. ASSUME HandleEvent \/ (\E n \in Nodes : DispatchEvent(n)) \/ DispatchFd \/ EventsHandled \/ LoopReturns \/ CallLoop
      PROVE  /\ UNCHANGED <<valid_cothreads, leaving, cancel_list, add_list>>
             /\ pc \in {"main", "check", "events"} /\ pc' \in {"main", "check", "events", "process"}
  BY <1>1 DEF HandleEvent, EpollWait, DispatchEvent, FireEvent, DispatchFd, WalkFd, WalkDone, EventsHandled, LoopReturns,
              CallLoop, lists, managerVars, walk
<1>2. ASSUME ManagerWork \/ EventsCancelled \/ TaskRemoved
      PROVE  /\ UNCHANGED <<valid_cothreads, cancel_list, add_list, pc, it>>
             /\ leaving' \in {leaving, Null}
  BY <1>2 DEF ManagerWork, CancelNode, EventsCancelled, TaskRemoved, CancelDone, lists, walk
<1>3. ASSUME NEW t \in Threads, RemoveReached(t) \/ Sweep(t)
      PROVE  /\ UNCHANGED <<cancel_list, add_list, pc>> /\ pc \in {"process", "sweep"}
             /\ valid_cothreads' = valid_cothreads \ {t} /\ t \in cancel_list /\ leaving' = t
             /\ t \in valid_cothreads
  BY <1>3 DEF RemoveReached, Sweep, Reaches, RemoveCoThread, CancelCoThread, ListsPartition, ManagerIdle
<1>4. ASSUME NEW t \in Threads, Run(t)
      PROVE  /\ UNCHANGED <<valid_cothreads, leaving, cancel_list, add_list>>
             /\ pc = "process" /\ pc' = "run" /\ it' \notin cancel_list
  BY <1>4 DEF Run, Reaches, lists, managerVars, walk
<1>5. ASSUME Admit
      PROVE  /\ UNCHANGED <<valid_cothreads, leaving, cancel_list>>
             /\ pc = "process" /\ pc' = "sweep" /\ add_list' = {}
  BY <1>5 DEF Admit, managerVars, walk
<1>6. ASSUME SweepDone
      PROVE  /\ UNCHANGED <<valid_cothreads, leaving, add_list>> /\ cancel_list' = {} /\ leaving = Null
             /\ pc = "sweep" /\ pc' = "check" /\ valid_cothreads \cap cancel_list = {}
  BY <1>6 DEF SweepDone, ListsPartition, ManagerIdle, managerVars, walk
<1> HIDE DEF EnvInv, EnvTypes
<1>7. CASE HandleEvent \/ (\E n \in Nodes : DispatchEvent(n)) \/ DispatchFd \/ EventsHandled \/ LoopReturns \/ CallLoop
  BY <1>1, <1>7
<1>8. CASE ManagerWork \/ EventsCancelled \/ TaskRemoved
  BY <1>2, <1>8
<1>9. CASE \E t \in Threads : RemoveReached(t) \/ Sweep(t)
  BY <1>3, <1>9
<1>10. CASE \E t \in Threads : Run(t)
  BY <1>4, <1>10
<1>11. CASE Admit \/ SweepDone
  BY <1>5, <1>6, <1>11
<1> QED  BY <1>7, <1>8, <1>9, <1>10, <1>11 DEF Loop

\* A task leaves only as it ends or is swept.
LeavesLast ==
  /\ pc = "run" => leaving = Null
  /\ leaving \notin valid_cothreads

\* As far as events and blocked tasks are concerned, a step of the scheduler is one
\* of four: nothing happens, an event of the task that leaves is cancelled, an event
\* is reported and unblocks its task, or the task that leaves is gone.
LEMMA LoopKinds ==
  ASSUME EnvInv, LeavesLast, Loop \/ CallLoop
  PROVE  /\ pc # "run" /\ LeavesLast'
         /\ \/ UNCHANGED <<node, epoll, block_list>> /\ leaving \in {leaving', Null}
            \/ \E n \in DOMAIN node : /\ DeleteEvent(n) /\ node[n].thread_ptr = leaving
                                      /\ UNCHANGED <<block_list, leaving>>
            \/ \E n \in DOMAIN node : /\ DeleteEvent(n) /\ block_list' = block_list \ {node[n].thread_ptr}
                                      /\ UNCHANGED leaving
            \/ /\ UNCHANGED <<node, epoll>> /\ \A n \in DOMAIN node : node[n].thread_ptr # leaving
               /\ block_list' = block_list \ {leaving} /\ leaving' = Null
<1>1. pc # "run"
  BY DEF LeavesLast, CallLoop, Loop, LoopReturns, HandleEvent, DispatchEvent, DispatchFd, EventsHandled, RemoveReached,
         Reaches, Run, Sweep, ManagerWork, CancelNode, EventsCancelled, TaskRemoved, CancelDone, Admit, SweepDone
<1>2. Null \notin valid_cothreads /\ Null \notin Threads
  BY NullAssumption DEF EnvInv, EnvTypes
<1> DEFINE Quiet == UNCHANGED <<node, epoll, block_list>>
<1>3. ASSUME LoopReturns \/ HandleEvent \/ DispatchFd \/ EventsHandled \/ Admit \/ SweepDone \/ CallLoop
      PROVE  Quiet /\ leaving' = leaving /\ pc' # "run" /\ UNCHANGED valid_cothreads
  BY <1>3 DEF LoopReturns, HandleEvent, EpollWait, DispatchFd, WalkFd, WalkDone, EventsHandled, Admit, SweepDone,
              CallLoop, managerVars, registry, interest, walk, lists
<1>4. ASSUME NEW t \in Threads, Run(t)
      PROVE  Quiet /\ leaving = Null /\ leaving' = Null /\ UNCHANGED valid_cothreads
  BY <1>4 DEF Run, Reaches, ManagerIdle, managerVars, registry, interest, walk, lists
<1>5. ASSUME NEW t \in Threads, RemoveReached(t) \/ Sweep(t)
      PROVE  Quiet /\ leaving = Null /\ leaving' = t /\ t \notin valid_cothreads' /\ pc' = pc
  BY <1>5 DEF RemoveReached, Reaches, ManagerIdle, Sweep, RemoveCoThread, CancelCoThread, registry, interest
<1>6. ASSUME ManagerWork
      PROVE  /\ \E n \in DOMAIN node : /\ DeleteEvent(n) /\ node[n].thread_ptr = leaving
                                       /\ UNCHANGED <<block_list, leaving>>
             /\ UNCHANGED <<valid_cothreads, pc>>
  <2>1. PICK n \in Nodes : CancelNode(n)
    BY <1>6 DEF ManagerWork
  <2>2. n \in DOMAIN node /\ node[n].thread_ptr = leaving
    BY <2>1 DEF CancelNode, EnvInv, ManagerInv, ManagerTypeOK, RecordsAgree, NodesOfThread
  <2> QED  BY <1>6, <2>1, <2>2 DEF ManagerWork, CancelNode, lists, walk
<1>7. ASSUME NEW n \in Nodes, DispatchEvent(n)
      PROVE  /\ n \in DOMAIN node /\ DeleteEvent(n) /\ block_list' = block_list \ {node[n].thread_ptr}
             /\ UNCHANGED <<leaving, valid_cothreads, pc>>
  BY <1>7 DEF DispatchEvent, FireEvent, Activate, walk, EnvInv, ManagerInv, ManagerTypeOK, RecordsAgree, NodesOf
<1>8. ~EventsCancelled
  BY DEF EventsCancelled, LeavesLast
<1>9. ASSUME TaskRemoved
      PROVE  /\ UNCHANGED <<node, epoll>> /\ \A n \in DOMAIN node : node[n].thread_ptr # leaving
             /\ block_list' = block_list \ {leaving} /\ leaving' = Null
             /\ UNCHANGED <<valid_cothreads, pc>>
  BY <1>9 DEF TaskRemoved, CancelDone, interest, EnvInv, ManagerInv, RecordsAgree, NodesOfThread
<1>10. CASE LoopReturns \/ HandleEvent \/ DispatchFd \/ EventsHandled \/ Admit \/ SweepDone \/ CallLoop
  BY <1>1, <1>3, <1>10 DEF LeavesLast
<1>11. CASE \E t \in Threads : Run(t)
  BY <1>1, <1>2, <1>4, <1>11 DEF LeavesLast
<1>12. CASE \E t \in Threads : RemoveReached(t) \/ Sweep(t)
  BY <1>1, <1>5, <1>12 DEF LeavesLast
<1>13. CASE ManagerWork
  BY <1>1, <1>6, <1>13 DEF LeavesLast
<1>14. CASE \E n \in Nodes : DispatchEvent(n)
  BY <1>1, <1>7, <1>14 DEF LeavesLast
<1>15. CASE TaskRemoved
  BY <1>1, <1>2, <1>9, <1>15 DEF LeavesLast
<1> QED  BY <1>8, <1>10, <1>11, <1>12, <1>13, <1>14, <1>15 DEF Loop

=============================================================================
