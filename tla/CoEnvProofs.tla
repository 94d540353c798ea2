---------------------------- MODULE CoEnvProofs -----------------------------
(***************************************************************************)
(* Proofs about CoEnv: that it uses the event manager as EventManager      *)
(* assumes, and that its lists hold every live cothread exactly once and   *)
(* no event names a dead one.                                              *)
(***************************************************************************)
EXTENDS CoEnv, EventManagerProofs

\* Where loop() may be while a call of the manager is under way.
Control ==
  /\ pc \in {"main", "check"} => ManagerIdle
  /\ pc = "events" => leaving = Null
  /\ pc # "events" => batch = NothingReady /\ current_fd = Null
  /\ pc = "run" => it \in Threads
  /\ add_list \subseteq valid_cothreads

EnvTypes ==
  /\ rd_list \subseteq Threads
  /\ block_list \subseteq Threads
  /\ cancel_list \subseteq Threads
  /\ add_list \subseteq Threads
  /\ valid_cothreads \subseteq Threads
  /\ co_thread_event \in [Threads -> [fd : Fds \cup {Null}, events : SUBSET AllBits]]
  /\ pc \in {"main", "check", "events", "process", "run", "sweep"}
  /\ it \in Threads \cup {0}
  /\ ready \in [Fds -> SUBSET AllBits]

EnvInv == ManagerInv /\ EnvTypes /\ Control /\ ListsPartition /\ NoDangling

LEMMA EnvInitInv == Init => EnvInv
<1> SUFFICES ASSUME Init PROVE EnvInv
  OBVIOUS
<1>1. ManagerInv
  BY ManagerInitInv DEF Init
<1>2. EnvTypes
  BY DEF Init, EnvTypes, NobodyWoken, NoEvent, NothingReady
<1>3. Control
  BY DEF Init, Control, ManagerInit, ManagerIdle
<1>4. ListsPartition
  BY DEF Init, ListsPartition, ManagerInit
<1>5. NoDangling
  BY DEF Init, NoDangling, ManagerInit
<1> QED  BY <1>1, <1>2, <1>3, <1>4, <1>5 DEF EnvInv

-----------------------------------------------------------------------------
(* Every step of the scheduler is a step of the manager, or leaves it      *)
(* alone.                                                                  *)

LEMMA ReportType ==
  ASSUME EnvInv
  PROVE  Report \in [Fds -> SUBSET AllBits]
BY DEF EnvInv, EnvTypes, Report

LEMMA CallUsesManager ==
  ASSUME EnvInv, Call
  PROVE  [ManagerNext]_managerVars
<1>1. ASSUME NEW t \in Threads, AddTask(t) \/ CancelTask(t) PROVE UNCHANGED managerVars
  BY <1>1 DEF AddTask, CancelTask
<1>2. ASSUME NEW n \in Nodes, NEW fd \in Fds, NEW events \in Usage[fd], RegisterEvent(n, fd, events)
      PROVE  Request
  BY <1>2 DEF RegisterEvent, Calls, EnvInv, Control, Request
<1>3. ASSUME NEW n \in Nodes, CancelById(n) PROVE Request
  BY <1>3 DEF CancelById, Calls, Request
<1>4. ASSUME CancelAllEvent PROVE Request
  BY <1>4 DEF CancelAllEvent, Calls, EnvInv, Control, Request
<1>5. ASSUME NEW fd \in Fds, Close(fd) PROVE Request
  BY <1>5 DEF Close, Calls, Request
<1> QED  BY <1>1, <1>2, <1>3, <1>4, <1>5 DEF Call, ManagerNext

LEMMA LoopUsesManager ==
  ASSUME EnvInv, Loop \/ Switch \/ CallLoop
  PROVE  [ManagerNext]_managerVars
<1>1. ASSUME NEW t \in Threads, ManagerIdle, RemoveCoThread(t) PROVE Request
  BY <1>1 DEF RemoveCoThread, Request
<1>2. ASSUME Finish PROVE Request
  BY <1>1, <1>2 DEF Finish, EnvInv, Control
<1>3. ASSUME HandleEvent PROVE Request
  BY <1>3, ReportType DEF HandleEvent, EnvInv, Control, Request
<1>4. ASSUME NEW t \in Threads, RemoveReached(t) \/ Sweep(t) PROVE Request
  BY <1>1, <1>4 DEF RemoveReached, Reaches, Sweep
<1>5. ASSUME NEW n \in Nodes, DispatchEvent(n) PROVE Progress
  BY <1>5 DEF DispatchEvent, Progress
<1>6. DispatchFd \/ ManagerWork \/ EventsCancelled \/ TaskRemoved => Progress
  BY DEF DispatchFd, ManagerWork, EventsCancelled, TaskRemoved, Progress
<1>7. LoopReturns \/ EventsHandled \/ Admit \/ SweepDone \/ Yield \/ Block \/ CallLoop
        => UNCHANGED managerVars
  BY DEF LoopReturns, EventsHandled, Admit, SweepDone, Yield, Block, CallLoop
<1>8. ASSUME NEW t \in Threads, Run(t) PROVE UNCHANGED managerVars
  BY <1>8 DEF Run
<1> QED
  BY <1>2, <1>3, <1>4, <1>5, <1>6, <1>7, <1>8 DEF Loop, Switch, ManagerNext

LEMMA StepUsesManager ==
  ASSUME EnvInv, [Next]_vars
  PROVE  [ManagerNext]_managerVars
<1>1. ASSUME NEW fd, NEW bits, Environment(fd, bits) PROVE UNCHANGED managerVars
  BY <1>1 DEF Environment
<1>2. UNCHANGED vars => UNCHANGED managerVars
  BY DEF vars
<1> QED  BY <1>1, <1>2, CallUsesManager, LoopUsesManager DEF Next

-----------------------------------------------------------------------------
(* The invariant of the scheduler itself, action by action.                *)

LoopInv == EnvTypes /\ Control /\ ListsPartition /\ NoDangling

\* Between the calls of the manager, the events are those of live cothreads.
LEMMA LiveOwners ==
  ASSUME EnvInv, leaving = Null
  PROVE  \A n \in DOMAIN node : node[n].thread_ptr \in valid_cothreads
BY NullAssumption DEF EnvInv, NoDangling, ManagerInv, ManagerTypeOK, NodeInfo

\* Calls and turns of the loop that do not involve the manager.
LEMMA QuietInv ==
  ASSUME EnvInv, UNCHANGED managerVars
  PROVE  /\ \A t \in Threads : AddTask(t) \/ CancelTask(t) => LoopInv'
         /\ Yield \/ Block \/ CallLoop \/ LoopReturns => LoopInv'
         /\ EventsHandled \/ Admit \/ SweepDone => LoopInv'
         /\ \A t \in Threads : Run(t) => LoopInv'
         /\ \A fd \in Fds, bits \in SUBSET AllBits : Environment(fd, bits) => LoopInv'
         /\ UNCHANGED vars => LoopInv'
<1>1. UNCHANGED <<node, batch, current_fd, leaving>>
  BY DEF managerVars, registry, walk
<1>2. ASSUME NEW t \in Threads, AddTask(t) PROVE LoopInv'
  <2>1. leaving = Null
    BY <1>2 DEF AddTask, Calls, ManagerIdle, EnvInv, Control
  <2>2. t \notin valid_cothreads
    BY <1>2 DEF AddTask
  <2>3. EnvTypes'
    BY <1>2 DEF AddTask, EnvInv, EnvTypes
  <2>4. Control'
    BY <1>1, <1>2 DEF AddTask, EnvInv, Control, ManagerIdle, NothingReady
  <2>5. ListsPartition'
    BY <1>1, <1>2, <2>1, <2>2 DEF AddTask, EnvInv, ListsPartition
  <2>6. NoDangling'
    BY <1>1, <1>2 DEF AddTask, EnvInv, NoDangling
  <2> QED  BY <2>3, <2>4, <2>5, <2>6 DEF LoopInv
<1>3. ASSUME NEW t \in Threads, CancelTask(t) PROVE LoopInv'
  BY <1>1, <1>3
  DEF CancelTask, EnvInv, LoopInv, EnvTypes, Control, ListsPartition, NoDangling, ManagerIdle, NothingReady
<1>4. ASSUME Yield \/ CallLoop \/ LoopReturns PROVE LoopInv'
  <2>1. /\ UNCHANGED <<lists, co_thread_event, it, ready>>
        /\ \/ pc = "run" /\ pc' = "process"
           \/ pc = "main" /\ pc' = "check"
           \/ pc = "check" /\ pc' = "main"
    BY <1>4 DEF Yield, CallLoop, LoopReturns, Calls
  <2>2. EnvTypes' /\ Control'
    BY <1>1, <2>1 DEF lists, EnvInv, EnvTypes, Control, ManagerIdle, NothingReady
  <2>3. ListsPartition' /\ NoDangling'
    BY <1>1, <2>1 DEF lists, EnvInv, ListsPartition, NoDangling
  <2> QED  BY <2>2, <2>3 DEF LoopInv
<1>5. ASSUME Block PROVE LoopInv'
  <2>1. it \in valid_cothreads /\ it \in rd_list /\ it \in Threads
    BY <1>5 DEF Block, Calls, EnvInv, NoDangling, Control
  <2>2. EnvTypes'
    BY <1>5, <2>1 DEF Block, EnvInv, EnvTypes
  <2>3. Control'
    BY <1>1, <1>5 DEF Block, Calls, EnvInv, Control
  <2>4. ListsPartition'
    BY <1>1, <1>5, <2>1 DEF Block, EnvInv, ListsPartition
  <2>5. NoDangling'
    BY <1>1, <1>5 DEF Block, EnvInv, NoDangling
  <2> QED  BY <2>2, <2>3, <2>4, <2>5 DEF LoopInv
<1>6. ASSUME EventsHandled \/ SweepDone PROVE LoopInv'
  <2>1. /\ UNCHANGED <<rd_list, block_list, add_list, valid_cothreads, co_thread_event, ready>>
        /\ \/ /\ batch = NothingReady /\ pc' = "process" /\ it' = 0 /\ cancel_list' = cancel_list
           \/ /\ pc = "sweep" /\ ManagerIdle /\ pc' = "check" /\ it' = it /\ cancel_list' = {}
    BY <1>6 DEF EventsHandled, SweepDone, lists
  <2>2. batch = NothingReady => current_fd = Null
    BY DEF EnvInv, ManagerInv, CallsExclusive, ManagerTypeOK, NothingReady
  <2>3. EnvTypes'
    BY <2>1 DEF EnvInv, EnvTypes
  <2>4. Control'
    BY <1>1, <2>1, <2>2 DEF EnvInv, Control, ManagerIdle, NothingReady
  <2>5. ListsPartition' /\ NoDangling'
    BY <1>1, <2>1 DEF EnvInv, ListsPartition, NoDangling
  <2> QED  BY <2>3, <2>4, <2>5 DEF LoopInv
<1>7. ASSUME Admit PROVE LoopInv'
  <2>1. EnvTypes'
    BY <1>7 DEF Admit, EnvInv, EnvTypes, NobodyWoken, NoEvent
  <2>2. Control'
    BY <1>1, <1>7 DEF Admit, EnvInv, Control
  <2>3. ListsPartition'
    BY <1>1, <1>7 DEF Admit, EnvInv, ListsPartition
  <2>4. NoDangling'
    BY <1>1, <1>7 DEF Admit, EnvInv, NoDangling
  <2> QED  BY <2>1, <2>2, <2>3, <2>4 DEF LoopInv
<1>8. ASSUME NEW t \in Threads, Run(t) PROVE LoopInv'
  <2>1. /\ pc = "process" /\ pc' = "run" /\ it' = t /\ t \in rd_list /\ leaving = Null
        /\ UNCHANGED <<lists, co_thread_event, ready>>
    BY <1>8 DEF Run, Reaches, ManagerIdle
  <2>2. t \in valid_cothreads
    BY <2>1 DEF EnvInv, ListsPartition
  <2>3. EnvTypes' /\ Control'
    BY <1>1, <2>1 DEF lists, EnvInv, EnvTypes, Control, NothingReady
  <2>4. ListsPartition' /\ NoDangling'
    BY <1>1, <2>1, <2>2 DEF lists, EnvInv, ListsPartition, NoDangling
  <2> QED  BY <2>3, <2>4 DEF LoopInv
<1>9. ASSUME NEW fd \in Fds, NEW bits \in SUBSET AllBits, Environment(fd, bits) PROVE LoopInv'
  <2>1. /\ UNCHANGED <<lists, co_thread_event, pc, it>>
        /\ ready' = [ready EXCEPT ![fd] = bits]
    BY <1>9 DEF Environment
  <2>2. EnvTypes' /\ Control'
    BY <1>1, <2>1 DEF lists, EnvInv, EnvTypes, Control, ManagerIdle, NothingReady
  <2>3. ListsPartition' /\ NoDangling'
    BY <1>1, <2>1 DEF lists, EnvInv, ListsPartition, NoDangling
  <2> QED  BY <2>2, <2>3 DEF LoopInv
<1>10. ASSUME UNCHANGED vars PROVE LoopInv'
  <2>1. UNCHANGED <<rd_list, block_list, cancel_list, add_list, valid_cothreads, co_thread_event,
                    pc, it, ready>>
    BY <1>10 DEF vars, lists
  <2>2. EnvTypes' /\ Control'
    BY <1>1, <2>1 DEF EnvInv, EnvTypes, Control, ManagerIdle, NothingReady
  <2>3. ListsPartition' /\ NoDangling'
    BY <1>1, <2>1 DEF EnvInv, ListsPartition, NoDangling
  <2> QED  BY <2>2, <2>3 DEF LoopInv
<1> QED  BY <1>2, <1>3, <1>4, <1>5, <1>6, <1>7, <1>8, <1>9, <1>10

\* Calls on the manager by the cothread that runs.
LEMMA RunningCallInv ==
  ASSUME EnvInv
  PROVE  /\ \A n \in Nodes, fd \in Fds : \A events \in Usage[fd] : RegisterEvent(n, fd, events) => LoopInv'
         /\ \A n \in Nodes : CancelById(n) => LoopInv'
         /\ CancelAllEvent => LoopInv'
         /\ \A fd \in Fds : Close(fd) => LoopInv'
<1>1. ASSUME NEW n \in Nodes, NEW fd \in Fds, NEW events \in Usage[fd], RegisterEvent(n, fd, events)
      PROVE  LoopInv'
  <2>1. /\ it \in valid_cothreads /\ it \in Threads /\ leaving = Null
        /\ UNCHANGED <<batch, current_fd, leaving>>
    BY <1>1 DEF RegisterEvent, Calls, AddEvent, walk, ManagerIdle, EnvInv, NoDangling, Control
  <2>2. /\ DOMAIN node' = DOMAIN node \cup {n}
        /\ \A m \in DOMAIN node' : node'[m].thread_ptr = it \/ (m \in DOMAIN node /\ node'[m] = node[m])
    BY <1>1 DEF RegisterEvent, AddEvent
  <2>3. EnvTypes' /\ Control'
    BY <1>1, <2>1 DEF RegisterEvent, Calls, lists, EnvInv, EnvTypes, Control, ManagerIdle, NothingReady
  <2>4. ListsPartition'
    BY <1>1, <2>1 DEF RegisterEvent, lists, EnvInv, ListsPartition
  <2>5. NoDangling'
    BY <1>1, <2>1, <2>2 DEF RegisterEvent, lists, EnvInv, NoDangling
  <2> QED  BY <2>3, <2>4, <2>5 DEF LoopInv
<1>2. ASSUME NEW n \in Nodes, CancelById(n) PROVE LoopInv'
  <2>1. UNCHANGED <<batch, current_fd, leaving>>
    BY <1>2 DEF CancelById, CancelEvent, managerVars, walk
  <2>2. \A m \in DOMAIN node' : m \in DOMAIN node /\ node'[m] = node[m]
    <3>1. CASE UNCHANGED node
      BY <3>1
    <3>2. CASE n \in valid_event /\ DeleteEvent(n)
      BY <3>2, DeleteEventFacts DEF EnvInv, ManagerInv, RecordsAgree
    <3> QED  BY <1>2, <3>1, <3>2 DEF CancelById, CancelEvent, managerVars, registry
  <2>3. EnvTypes' /\ Control'
    BY <1>2, <2>1 DEF CancelById, Calls, lists, EnvInv, EnvTypes, Control, ManagerIdle, NothingReady
  <2>4. ListsPartition' /\ NoDangling'
    BY <1>2, <2>1, <2>2 DEF CancelById, lists, EnvInv, ListsPartition, NoDangling
  <2> QED  BY <2>3, <2>4 DEF LoopInv
<1>3. ASSUME CancelAllEvent PROVE LoopInv'
  <2>1. /\ UNCHANGED <<node, batch, current_fd>> /\ leaving = Null /\ leaving' = it
        /\ it \in valid_cothreads /\ pc = "run"
    BY <1>3 DEF CancelAllEvent, CancelCoThread, registry, Calls, ManagerIdle
  <2>2. EnvTypes' /\ Control'
    BY <1>3, <2>1 DEF CancelAllEvent, lists, EnvInv, EnvTypes, Control, NothingReady
  <2>3. ListsPartition' /\ NoDangling'
    BY <1>3, <2>1, LiveOwners DEF CancelAllEvent, lists, EnvInv, ListsPartition, NoDangling
  <2> QED  BY <2>2, <2>3 DEF LoopInv
<1>4. ASSUME NEW fd \in Fds, Close(fd) PROVE LoopInv'
  <2>1. UNCHANGED <<node, batch, current_fd, leaving>>
    BY <1>4 DEF Close, CloseFd, registry, walk
  <2>2. EnvTypes' /\ Control'
    BY <1>4, <2>1 DEF Close, lists, EnvInv, EnvTypes, Control, ManagerIdle, NothingReady
  <2>3. ListsPartition' /\ NoDangling'
    BY <1>4, <2>1 DEF Close, lists, EnvInv, ListsPartition, NoDangling
  <2> QED  BY <2>2, <2>3 DEF LoopInv
<1> QED  BY <1>1, <1>2, <1>3, <1>4

\* remove_co_thread, until the object is deleted.
LEMMA RemovalInv ==
  ASSUME EnvInv
  PROVE  /\ \A t \in Threads : RemoveReached(t) \/ Sweep(t) => LoopInv'
         /\ Finish => LoopInv'
<1>1. ASSUME NEW t \in Threads, t \in rd_list \cup block_list, ManagerIdle, RemoveCoThread(t),
             it' \in Threads \cup {0}, pc' \in {"process", "sweep"}
      PROVE  LoopInv'
  <2>1. /\ UNCHANGED <<node, batch, current_fd>> /\ leaving = Null /\ leaving' = t
        /\ UNCHANGED <<rd_list, block_list, cancel_list, add_list, co_thread_event, ready>>
        /\ valid_cothreads' = valid_cothreads \ {t}
        /\ t \notin add_list /\ t \in valid_cothreads
    BY <1>1 DEF RemoveCoThread, CancelCoThread, registry, ManagerIdle, EnvInv, ListsPartition
  <2>2. EnvTypes'
    BY <1>1, <2>1 DEF EnvInv, EnvTypes
  <2>3. Control'
    BY <1>1, <2>1 DEF EnvInv, Control, ManagerIdle, ManagerInv, CallsExclusive, ManagerTypeOK, NothingReady
  <2>4. ListsPartition'
    BY <2>1, NullAssumption DEF EnvInv, ListsPartition
  <2>5. NoDangling'
    BY <1>1, <2>1, LiveOwners DEF NoDangling
  <2> QED  BY <2>2, <2>3, <2>4, <2>5 DEF LoopInv
<1>2. ASSUME NEW t \in Threads, RemoveReached(t) PROVE LoopInv'
  BY <1>1, <1>2 DEF RemoveReached, Reaches
<1>3. ASSUME NEW t \in Threads, Sweep(t) PROVE LoopInv'
  BY <1>1, <1>3 DEF Sweep, EnvInv, EnvTypes
<1>4. ASSUME Finish PROVE LoopInv'
  BY <1>1, <1>4 DEF Finish, EnvInv, Control, NoDangling
<1> QED  BY <1>2, <1>3, <1>4

\* The turns of cancel_co_thread, and its two returns.
LEMMA LeavingInv ==
  ASSUME EnvInv
  PROVE  ManagerWork \/ EventsCancelled \/ TaskRemoved => LoopInv'
<1>1. ASSUME ManagerWork PROVE LoopInv'
  <2>1. /\ UNCHANGED <<batch, current_fd, leaving>>
        /\ UNCHANGED <<lists, co_thread_event, pc, it, ready>>
    BY <1>1 DEF ManagerWork, CancelNode, walk
  <2>2. \A m \in DOMAIN node' : m \in DOMAIN node /\ node'[m] = node[m]
    BY <1>1, DeleteEventFacts DEF ManagerWork, CancelNode, EnvInv, ManagerInv, RecordsAgree
  <2>3. EnvTypes' /\ Control'
    BY <2>1 DEF lists, EnvInv, EnvTypes, Control, ManagerIdle, NothingReady
  <2>4. ListsPartition' /\ NoDangling'
    BY <2>1, <2>2 DEF lists, EnvInv, ListsPartition, NoDangling
  <2> QED  BY <2>3, <2>4 DEF LoopInv
<1>2. ASSUME CancelDone
      PROVE  /\ leaving \in Threads /\ leaving' = Null /\ UNCHANGED <<node, batch, current_fd>>
             /\ pc \notin {"main", "check", "events"}
             /\ \A n \in DOMAIN node : node[n].thread_ptr # leaving
  <2>1. leaving \in Threads /\ leaving' = Null /\ UNCHANGED <<node, batch, current_fd>>
    BY <1>2 DEF CancelDone, EnvInv, ManagerInv, ManagerTypeOK
  <2>2. NodesOfThread(leaving) = {}
    BY <1>2, <2>1 DEF CancelDone, EnvInv, ManagerInv, RecordsAgree
  <2>3. leaving # Null
    BY <1>2 DEF CancelDone
  <2> QED  BY <2>1, <2>2, <2>3 DEF NodesOfThread, EnvInv, Control, ManagerIdle
<1>3. ASSUME EventsCancelled PROVE LoopInv'
  <2>1. leaving \in valid_cothreads /\ UNCHANGED <<lists, co_thread_event, pc, it, ready>>
    BY <1>3 DEF EventsCancelled
  <2>2. EnvTypes' /\ Control'
    BY <1>2, <1>3, <2>1 DEF EventsCancelled, lists, EnvInv, EnvTypes, Control, NothingReady
  <2>3. ListsPartition' /\ NoDangling'
    BY <1>2, <1>3, <2>1 DEF EventsCancelled, lists, EnvInv, ListsPartition, NoDangling
  <2> QED  BY <2>2, <2>3 DEF LoopInv
<1>4. ASSUME TaskRemoved PROVE LoopInv'
  <2>1. /\ leaving \notin valid_cothreads
        /\ rd_list' = rd_list \ {leaving}
        /\ block_list' = block_list \ {leaving}
        /\ UNCHANGED <<cancel_list, add_list, valid_cothreads, co_thread_event, pc, it, ready>>
    BY <1>4 DEF TaskRemoved
  <2>2. EnvTypes'
    BY <1>2, <1>4, <2>1 DEF TaskRemoved, EnvInv, EnvTypes
  <2>3. Control'
    BY <1>2, <1>4, <2>1 DEF TaskRemoved, EnvInv, Control, NothingReady
  <2>4. ListsPartition'
    BY <1>2, <1>4, <2>1 DEF TaskRemoved, EnvInv, ListsPartition, Control
  <2>5. NoDangling'
    BY <1>2, <1>4, <2>1 DEF TaskRemoved, EnvInv, NoDangling
  <2> QED  BY <2>2, <2>3, <2>4, <2>5 DEF LoopInv
<1> QED  BY <1>1, <1>3, <1>4

\* The dispatch of the events.
LEMMA DispatchInv ==
  ASSUME EnvInv
  PROVE  /\ HandleEvent \/ DispatchFd => LoopInv'
         /\ \A n \in Nodes : DispatchEvent(n) => LoopInv'
<1>1. ASSUME HandleEvent PROVE LoopInv'
  BY <1>1
  DEF HandleEvent, EpollWait, registry, lists, EnvInv, LoopInv, EnvTypes, Control, ManagerIdle,
      ListsPartition, NoDangling
<1>2. ASSUME DispatchFd PROVE LoopInv'
  <2>1. UNCHANGED <<node, leaving>> /\ UNCHANGED <<lists, co_thread_event, pc, it, ready>>
    BY <1>2 DEF DispatchFd, WalkFd, WalkDone, registry
  <2> QED
    BY <1>2, <2>1 DEF DispatchFd, lists, EnvInv, LoopInv, EnvTypes, Control, ListsPartition, NoDangling
<1>3. ASSUME NEW n \in Nodes, DispatchEvent(n) PROVE LoopInv'
  <2> DEFINE t == node[n].thread_ptr
  <2>1. n \in DOMAIN node /\ t \in Threads
    BY <1>3 DEF DispatchEvent, FireEvent, EnvInv, ManagerInv, ManagerTypeOK, RecordsAgree, NodesOf, NodeInfo
  <2>2. \A m \in DOMAIN node' : m \in DOMAIN node /\ node'[m] = node[m]
    BY <1>3, <2>1, DeleteEventFacts DEF DispatchEvent, FireEvent, EnvInv, ManagerInv
  <2>3. UNCHANGED <<batch, current_fd, leaving>>
    BY <1>3 DEF DispatchEvent, FireEvent, walk
  <2>4. EventFor(n) \in SUBSET AllBits /\ current_fd \in Fds
    BY <1>3 DEF DispatchEvent, FireEvent, EventFor, EnvInv, ManagerInv, ManagerTypeOK
  <2> HIDE DEF t
  <2>5. /\ pc = "events"
        /\ block_list' = block_list \ {t}
        /\ rd_list' = rd_list \cup (block_list \cap {t})
        /\ UNCHANGED <<cancel_list, add_list, valid_cothreads, pc, it, ready>>
    BY <1>3 DEF DispatchEvent, Activate, t
  <2>6. co_thread_event' \in [Threads -> [fd : Fds \cup {Null}, events : SUBSET AllBits]]
    BY <1>3, <2>1, <2>4 DEF DispatchEvent, Activate, EnvInv, EnvTypes, t
  <2>7. EnvTypes'
    BY <2>5, <2>6 DEF EnvInv, EnvTypes
  <2>8. Control'
    BY <2>3, <2>5 DEF EnvInv, Control
  <2>9. ListsPartition' /\ NoDangling'
    BY <2>2, <2>3, <2>5 DEF EnvInv, ListsPartition, NoDangling
  <2> QED  BY <2>7, <2>8, <2>9 DEF LoopInv
<1> QED  BY <1>1, <1>2, <1>3

LEMMA EnvStepInv == EnvInv /\ [Next]_vars => EnvInv'
<1> SUFFICES ASSUME EnvInv, [Next]_vars PROVE EnvInv'
  OBVIOUS
<1>1. ManagerInv'
  BY StepUsesManager, ManagerStepInv DEF EnvInv
<1>2. LoopInv'
  <2>1. ASSUME NEW t \in Threads, AddTask(t) \/ CancelTask(t) \/ Run(t) PROVE LoopInv'
    BY <2>1, QuietInv DEF AddTask, CancelTask, Run
  <2>2. CASE Yield \/ Block \/ CallLoop \/ LoopReturns \/ EventsHandled \/ Admit \/ SweepDone
    BY <2>2, QuietInv DEF Yield, Block, CallLoop, LoopReturns, EventsHandled, Admit, SweepDone
  <2>3. ASSUME NEW fd \in Fds, NEW bits \in SUBSET AllBits, Environment(fd, bits) PROVE LoopInv'
    BY <2>3, QuietInv DEF Environment
  <2>4. CASE UNCHANGED vars
    BY <2>4, QuietInv DEF vars
  <2>5. CASE Call
    BY <2>1, <2>5, RunningCallInv DEF Call
  <2>6. CASE Switch
    BY <2>2, <2>6, RemovalInv DEF Switch
  <2>7. CASE Loop
    BY <2>1, <2>2, <2>7, RemovalInv, LeavingInv, DispatchInv DEF Loop
  <2> QED  BY <2>2, <2>3, <2>4, <2>5, <2>6, <2>7 DEF Next
<1> QED  BY <1>1, <1>2 DEF EnvInv, LoopInv

-----------------------------------------------------------------------------
\* The inductive invariant of the scheduler and the manager together.
THEOREM EnvInvariant == Spec => []EnvInv
<1> QED  BY EnvInitInv, EnvStepInv, PTL DEF Spec

\* Type correctness, whatever calls the cothreads make and however the allocator
\* reuses addresses.
THEOREM EnvTypesOK == Spec => []TypeOK
<1>1. EnvInv => TypeOK
  BY DEF EnvInv, EnvTypes, ManagerInv, TypeOK
<1> QED  BY <1>1, EnvInvariant, PTL

\* Every cothread that has not been removed is in exactly one list.
THEOREM ListsAlwaysPartition == Spec => []ListsPartition
<1>1. EnvInv => ListsPartition
  BY DEF EnvInv
<1> QED  BY <1>1, EnvInvariant, PTL

\* No registered event names a deleted cothread, and none runs.
THEOREM NeverDangling == Spec => []NoDangling
<1>1. EnvInv => NoDangling
  BY DEF EnvInv
<1> QED  BY <1>1, EnvInvariant, PTL

\* The scheduler implements the protocol of the manager, so that what is proved
\* of the manager (RecordsAgree, NoOrphanInterest, NeverBlind) holds under it.
THEOREM EnvUsesManager == Spec => UsesManager
<1>1. Init => ManagerInit
  BY DEF Init
<1>2. EnvInv /\ [Next]_vars => [ManagerNext]_managerVars
  BY StepUsesManager
<1> QED  BY <1>1, <1>2, EnvInvariant, PTL DEF Spec, UsesManager, ManagerSpec

\* In every behaviour of the scheduler, a cothread's fd is watched for something
\* that it or another cothread waits for, unless a registered fd is closed.
THEOREM EnvNeverBlind == Spec => []NeverBlind
<1> QED  BY EnvUsesManager, NeverBlindAlways, PTL DEF UsesManager

-----------------------------------------------------------------------------
(* The turn of the loop: what holds in each of its phases.                 *)

PhaseInv ==
  /\ pc = "main" => DOMAIN node = {}
  /\ pc = "sweep" => add_list = {}
  /\ pc \in {"main", "check", "sweep"} => co_thread_event = NobodyWoken
  /\ pc = "events" => \A t \in block_list : co_thread_event[t] = NoEvent
  /\ pc = "run" /\ leaving # Null => leaving = it

\* A step that does not change the phase, blocks nobody and names no new event.
LEMMA PhaseKept ==
  ASSUME PhaseInv, pc' = pc, it' = it, add_list' \subseteq add_list, block_list' \subseteq block_list,
         co_thread_event' = co_thread_event, DOMAIN node' \subseteq DOMAIN node,
         leaving' \in {leaving, Null}
  PROVE  PhaseInv'
BY DEF PhaseInv, NobodyWoken, NoEvent

LEMMA PhaseCall ==
  ASSUME EnvInv, PhaseInv, Call
  PROVE  PhaseInv'
<1>1. ASSUME NEW t \in Threads, AddTask(t) PROVE PhaseInv'
  <2>1. UNCHANGED <<node, leaving, co_thread_event, pc, it, block_list>> /\ pc \in {"main", "run"}
    BY <1>1 DEF AddTask, Calls, managerVars, registry, walk
  <2> QED  BY <2>1 DEF PhaseInv, NobodyWoken, NoEvent
<1>2. ASSUME NEW t \in Threads, CancelTask(t) PROVE PhaseInv'
  BY <1>2, PhaseKept DEF CancelTask, managerVars, registry, walk
<1>3. ASSUME NEW n \in Nodes, NEW fd \in Fds, NEW events \in Usage[fd], RegisterEvent(n, fd, events)
      PROVE  PhaseInv'
  <2>1. pc = "run" /\ UNCHANGED <<leaving, co_thread_event, pc, it, add_list, block_list>>
    BY <1>3 DEF RegisterEvent, Calls, AddEvent, walk, lists
  <2> QED  BY <2>1 DEF PhaseInv
<1>4. ASSUME NEW n \in Nodes, CancelById(n) PROVE PhaseInv'
  <2>1. pc = "run" /\ UNCHANGED <<leaving, co_thread_event, pc, it, add_list, block_list>>
    BY <1>4 DEF CancelById, Calls, CancelEvent, managerVars, walk, lists
  <2> QED  BY <2>1 DEF PhaseInv
<1>5. ASSUME CancelAllEvent PROVE PhaseInv'
  <2>1. /\ pc = "run" /\ UNCHANGED <<co_thread_event, pc, it, add_list, block_list>>
        /\ leaving' = it
    BY <1>5 DEF CancelAllEvent, Calls, CancelCoThread, lists
  <2> QED  BY <2>1 DEF PhaseInv
<1>6. ASSUME NEW fd \in Fds, Close(fd) PROVE PhaseInv'
  BY <1>6, PhaseKept DEF Close, CloseFd, registry, walk, lists
<1> QED  BY <1>1, <1>2, <1>3, <1>4, <1>5, <1>6 DEF Call

LEMMA PhaseLoop ==
  ASSUME EnvInv, PhaseInv, Loop \/ Switch \/ CallLoop
  PROVE  PhaseInv'
<1> USE DEF NobodyWoken, NoEvent
<1>1. ASSUME Yield \/ Block \/ Finish PROVE PhaseInv'
  BY <1>1 DEF Yield, Block, Finish, PhaseInv
<1>2. ASSUME CallLoop PROVE PhaseInv'
  BY <1>2 DEF CallLoop, PhaseInv
<1>3. ASSUME LoopReturns PROVE PhaseInv'
  <2>1. leaving = Null /\ valid_cothreads = {}
    BY <1>3 DEF LoopReturns, EnvInv, Control, ManagerIdle, ListsPartition
  <2>2. DOMAIN node = {}
    BY <2>1, LiveOwners
  <2>3. /\ pc = "check" /\ pc' = "main"
        /\ UNCHANGED <<node, co_thread_event>>
    BY <1>3 DEF LoopReturns, managerVars, registry
  <2> QED  BY <2>2, <2>3 DEF PhaseInv
<1>4. ASSUME HandleEvent PROVE PhaseInv'
  <2>1. pc = "check" /\ pc' = "events" /\ UNCHANGED <<co_thread_event, block_list>>
    BY <1>4 DEF HandleEvent, lists
  <2> QED  BY <2>1 DEF PhaseInv, EnvInv, EnvTypes
<1>5. ASSUME NEW n \in Nodes, DispatchEvent(n) PROVE PhaseInv'
  <2> DEFINE t == node[n].thread_ptr
             e == [fd |-> current_fd, events |-> EventFor(n)]
  <2>1. /\ pc = "events" /\ pc' = "events"
        /\ block_list' = block_list \ {t}
        /\ co_thread_event' = IF co_thread_event[t] = NoEvent
                                THEN [co_thread_event EXCEPT ![t] = e] ELSE co_thread_event
    BY <1>5 DEF DispatchEvent, Activate
  <2> HIDE DEF t, e
  <2>2. \A u \in block_list' : co_thread_event'[u] = NoEvent
    BY <2>1 DEF PhaseInv, EnvInv, EnvTypes
  <2> QED  BY <2>1, <2>2 DEF PhaseInv
<1>6. ASSUME DispatchFd PROVE PhaseInv'
  BY <1>6, PhaseKept DEF DispatchFd, WalkFd, WalkDone, registry, lists
<1>7. ASSUME EventsHandled PROVE PhaseInv'
  BY <1>7 DEF EventsHandled, PhaseInv
<1>8. ASSUME NEW t \in Threads, RemoveReached(t) PROVE PhaseInv'
  BY <1>8 DEF RemoveReached, Reaches, PhaseInv
<1>9. ASSUME NEW t \in Threads, Run(t) PROVE PhaseInv'
  <2>1. pc' = "run" /\ leaving' = Null
    BY <1>9 DEF Run, Reaches, ManagerIdle, managerVars, walk
  <2> QED  BY <2>1 DEF PhaseInv
<1>10. ASSUME NEW t \in Threads, Sweep(t) PROVE PhaseInv'
  BY <1>10 DEF Sweep, RemoveCoThread, PhaseInv
<1>11. ASSUME ManagerWork PROVE PhaseInv'
  <2>1. DOMAIN node' \subseteq DOMAIN node /\ leaving' = leaving
    BY <1>11, DeleteEventFacts
    DEF ManagerWork, CancelNode, walk, EnvInv, ManagerInv, RecordsAgree
  <2> QED  BY <1>11, <2>1, PhaseKept DEF ManagerWork, lists
<1>12. ASSUME EventsCancelled \/ TaskRemoved PROVE PhaseInv'
  <2>1. /\ pc' = pc /\ it' = it /\ add_list' = add_list /\ block_list' \subseteq block_list
        /\ co_thread_event' = co_thread_event /\ leaving' = Null /\ node' = node
    BY <1>12 DEF EventsCancelled, TaskRemoved, CancelDone, lists
  <2> QED  BY <2>1, PhaseKept
<1>13. ASSUME Admit PROVE PhaseInv'
  BY <1>13 DEF Admit, PhaseInv
<1>14. ASSUME SweepDone PROVE PhaseInv'
  BY <1>14 DEF SweepDone, PhaseInv
<1> QED
  BY <1>1, <1>2, <1>3, <1>4, <1>5, <1>6, <1>7, <1>8, <1>9, <1>10, <1>11, <1>12, <1>13, <1>14
  DEF Loop, Switch

LEMMA PhaseInvariant == Spec => []PhaseInv
<1>1. Init => PhaseInv
  BY DEF Init, PhaseInv, ManagerInit
<1>2. EnvInv /\ PhaseInv /\ [Next]_vars => PhaseInv'
  <2> SUFFICES ASSUME EnvInv, PhaseInv, [Next]_vars PROVE PhaseInv'
    OBVIOUS
  <2>1. ASSUME NEW fd, NEW bits, Environment(fd, bits) PROVE PhaseInv'
    BY <2>1, PhaseKept DEF Environment, managerVars, registry, walk, lists
  <2>2. CASE UNCHANGED vars
    BY <2>2, PhaseKept DEF vars, managerVars, registry, walk, lists
  <2> QED  BY <2>1, <2>2, PhaseCall, PhaseLoop DEF Next
<1> QED  BY <1>1, <1>2, EnvInvariant, PTL DEF Spec

\* When loop() has returned, no event is registered and epoll watches nothing,
\* whatever the cothreads registered and however they ended.
THEOREM NothingLeftBehindAlways == Spec => []NothingLeftBehind
<1>1. ASSUME EnvInv, PhaseInv, NoOrphanInterest PROVE NothingLeftBehind
  <2> SUFFICES ASSUME pc = "main" PROVE DOMAIN node = {} /\ epoll = NothingReady
    BY DEF NothingLeftBehind
  <2>1. DOMAIN node = {}
    BY <1>1 DEF PhaseInv
  <2>2. \A fd \in Fds : fd_record[fd] = {}
    BY <1>1, <2>1 DEF EnvInv, ManagerInv, RecordsAgree, NodesOf
  <2>3. epoll = NothingReady
    BY <1>1, <2>2 DEF NoOrphanInterest, EnvInv, ManagerInv, ManagerTypeOK, NothingReady
  <2> QED  BY <2>1, <2>3
<1> QED
  BY <1>1, EnvInvariant, PhaseInvariant, EnvUsesManager, NoOrphanAlways, PTL DEF UsesManager

\* A task that was cancelled is gone when the turn of the loop that saw the
\* cancellation ends, in whatever list it was.
THEOREM CancelAlwaysTakesEffect == Spec => CancelTakesEffect
<1>1. ASSUME EnvInv, PhaseInv, [Next]_vars
      PROVE  [pc' # pc /\ pc = "sweep" => cancel_list \cap valid_cothreads' = {}]_vars
  <2> SUFFICES ASSUME pc' # pc, pc = "sweep", Next
               PROVE  cancel_list \cap valid_cothreads' = {}
    BY <1>1
  <2>1. SweepDone
    <3>1. ~Call /\ ~Switch /\ ~CallLoop
      BY DEF Call, AddTask, CancelTask, RegisterEvent, CancelById, CancelAllEvent, Close, Calls,
             Switch, Yield, Block, Finish, CallLoop
    <3>2. \A fd, bits : ~Environment(fd, bits)
      BY DEF Environment, Calls
    <3>3. Loop
      BY <3>1, <3>2 DEF Next
    <3> QED
      BY <3>3 DEF Loop, LoopReturns, HandleEvent, DispatchEvent, DispatchFd, EventsHandled, RemoveReached,
                  Run, Reaches, Sweep, ManagerWork, EventsCancelled, TaskRemoved, Admit
  <2>2. valid_cothreads \subseteq rd_list \cup block_list
    BY <1>1 DEF EnvInv, ListsPartition, PhaseInv
  <2> QED  BY <2>1, <2>2 DEF SweepDone
<1> QED  BY <1>1, EnvInvariant, PhaseInvariant, PTL DEF Spec, CancelTakesEffect

\* The notes on the events of a turn are only added to, until all of them are
\* cleared.
LEMMA NotesKept ==
  ASSUME Next, NEW t \in Threads, co_thread_event[t] # NoEvent, pc' # "sweep"
  PROVE  co_thread_event'[t] = co_thread_event[t]
<1>1. CASE UNCHANGED co_thread_event
  BY <1>1
<1>2. ASSUME NEW n \in Nodes, DispatchEvent(n) PROVE co_thread_event'[t] = co_thread_event[t]
  <2> DEFINE u == node[n].thread_ptr
             e == [fd |-> current_fd, events |-> EventFor(n)]
  <2>1. co_thread_event' = IF co_thread_event[u] = NoEvent
                             THEN [co_thread_event EXCEPT ![u] = e] ELSE co_thread_event
    BY <1>2 DEF DispatchEvent, Activate
  <2> HIDE DEF u, e
  <2>2. u # t => co_thread_event'[t] = co_thread_event[t]
    BY <2>1
  <2>3. u = t => co_thread_event'[t] = co_thread_event[t]
    BY <2>1
  <2> QED  BY <2>2, <2>3
<1>3. ~Admit
  BY DEF Admit
<1>4. Call => UNCHANGED co_thread_event
  BY DEF Call, AddTask, CancelTask, RegisterEvent, CancelById, CancelAllEvent, Close
<1>5. Switch \/ CallLoop => UNCHANGED co_thread_event
  BY DEF Switch, Yield, Block, Finish, RemoveCoThread, CallLoop
<1>6. ASSUME Loop, \A n \in Nodes : ~DispatchEvent(n) PROVE UNCHANGED co_thread_event
  BY <1>3, <1>6 DEF Loop, LoopReturns, HandleEvent, DispatchFd, EventsHandled, RemoveReached, Run, Reaches,
                    Sweep, RemoveCoThread, ManagerWork, EventsCancelled, TaskRemoved, SweepDone
<1>7. ASSUME NEW fd, NEW bits, Environment(fd, bits) PROVE UNCHANGED co_thread_event
  BY <1>7 DEF Environment
<1> QED  BY <1>1, <1>2, <1>4, <1>5, <1>6, <1>7 DEF Next

\* A blocked cothread becomes ready only by an event that it registered, and
\* run() hands it that very event.
THEOREM AlwaysWokenByItsEvent == Spec => WokenByItsEvent
<1> DEFINE Woken ==
      /\ \A t \in block_list \cap rd_list' :
           \E n \in DOMAIN node \ DOMAIN node' :
             /\ node[n].thread_ptr = t
             /\ co_thread_event'[t] = [fd |-> node[n].fd, events |-> EventFor(n)]
      /\ \A t \in Threads :
           co_thread_event[t] # NoEvent /\ pc' # "sweep" => co_thread_event'[t] = co_thread_event[t]
<1>1. ASSUME EnvInv, PhaseInv, Next PROVE Woken
  <2> SUFFICES ASSUME NEW u \in block_list, u \in rd_list'
               PROVE  \E n \in DOMAIN node \ DOMAIN node' :
                        /\ node[n].thread_ptr = u
                        /\ co_thread_event'[u] = [fd |-> node[n].fd, events |-> EventFor(n)]
    BY <1>1, NotesKept
  <2>1. u \in Threads /\ u \notin rd_list /\ u \notin add_list
    BY <1>1 DEF EnvInv, EnvTypes, ListsPartition
  <2>2. PICK n \in Nodes : DispatchEvent(n)
    <3>1. ~Call
      BY <2>1 DEF Call, AddTask, CancelTask, RegisterEvent, CancelById, CancelAllEvent, Close, lists
    <3>2. ~Switch /\ ~CallLoop
      BY <2>1 DEF Switch, Yield, Block, Finish, RemoveCoThread, CallLoop, lists
    <3>3. \A fd, bits : ~Environment(fd, bits)
      BY <2>1 DEF Environment, lists
    <3>4. Loop
      BY <1>1, <3>1, <3>2, <3>3 DEF Next
    <3>5. \A t \in Threads : ~RemoveReached(t) /\ ~Run(t) /\ ~Sweep(t)
      BY <2>1 DEF RemoveReached, RemoveCoThread, Run, Sweep, lists
    <3>6. ~(LoopReturns \/ HandleEvent \/ DispatchFd \/ EventsHandled \/ ManagerWork \/ EventsCancelled
              \/ TaskRemoved \/ Admit \/ SweepDone)
      BY <2>1 DEF LoopReturns, HandleEvent, DispatchFd, EventsHandled, ManagerWork, EventsCancelled,
                  TaskRemoved, Admit, SweepDone, lists
    <3> QED  BY <3>4, <3>5, <3>6 DEF Loop
  <2>3. /\ pc = "events" /\ n \in fd_record[current_fd] /\ current_fd # Null /\ DeleteEvent(n)
        /\ Activate(node[n].thread_ptr, current_fd, EventFor(n))
    BY <2>2 DEF DispatchEvent, FireEvent
  <2>4. n \in DOMAIN node /\ node[n].fd = current_fd
    BY <1>1, <2>3 DEF EnvInv, ManagerInv, ManagerTypeOK, RecordsAgree, NodesOf
  <2>5. n \notin DOMAIN node'
    BY <1>1, <2>3, <2>4, DeleteEventFacts DEF EnvInv, ManagerInv
  <2>6. node[n].thread_ptr = u
    BY <2>1, <2>3 DEF Activate
  <2>7. co_thread_event[u] = NoEvent
    BY <1>1, <2>3 DEF PhaseInv
  <2>8. co_thread_event'[u] = [fd |-> current_fd, events |-> EventFor(n)]
    BY <1>1, <2>1, <2>3, <2>6, <2>7 DEF Activate, EnvInv, EnvTypes
  <2> QED  BY <2>4, <2>5, <2>6, <2>8
<1>2. EnvInv /\ PhaseInv /\ [Next]_vars => [Woken]_vars
  BY <1>1
<1> QED  BY <1>2, EnvInvariant, PhaseInvariant, PTL DEF Spec, WokenByItsEvent

=============================================================================
