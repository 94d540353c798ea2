-------------------------- MODULE CoEnvLifeProofs ---------------------------
(***************************************************************************)
(* Proof that co_env keeps the promise of TaskLife, for any number of      *)
(* tasks, events and fds.                                                  *)
(***************************************************************************)
EXTENDS CoEnvLife, CoEnvProofs

\* A cothread that was not admitted yet has registered nothing, and the one whose
\* events are being cancelled at its own request runs.
LifeInv ==
  /\ \A n \in DOMAIN node : node[n].thread_ptr \notin add_list
  /\ leaving \in valid_cothreads => pc = "run"

\* What TaskLife sees of the state.
Status == [t \in Threads |-> StatusOf(t)]
Running == IF pc = "run" THEN it ELSE Null
Owner == [n \in LiveNodes |-> node[n].thread_ptr]

LEMMA LifeInitOK == Init => Life!LifeInit
BY DEF Init, ManagerInit, Life!LifeInit, StatusOf, LiveNodes

-----------------------------------------------------------------------------
(* What a step of co_env does to what TaskLife sees.                       *)

LEMMA StatusByList ==
  ASSUME EnvInv, NEW t \in Threads
  PROVE  /\ t \notin valid_cothreads => Status[t] = "absent"
         /\ t \in add_list => Status[t] = "added"
         /\ t \in valid_cothreads /\ t \in rd_list => Status[t] = "ready"
         /\ t \in valid_cothreads /\ t \in block_list => Status[t] = "blocked"
         /\ t \in valid_cothreads => t \in add_list \cup rd_list \cup block_list
BY DEF Status, StatusOf, EnvInv, ListsPartition, Control

LEMMA SameStatus ==
  ASSUME valid_cothreads' = valid_cothreads,
         \A t \in valid_cothreads : (t \in add_list' <=> t \in add_list) /\ (t \in rd_list' <=> t \in rd_list)
  PROVE  Status' = Status
<1>1. \A t : StatusOf(t)' = StatusOf(t)
  BY DEF StatusOf
<1> QED  BY <1>1 DEF Status

\* Events of live cothreads go, those of S.
LEMMA LessOwner ==
  ASSUME NEW S, LiveNodes' = LiveNodes \ S,
         \A n \in LiveNodes' : node'[n].thread_ptr = node[n].thread_ptr
  PROVE  Owner' = [n \in LiveNodes \ S |-> Owner[n]]
BY DEF Owner

LEMMA SameOwner ==
  ASSUME LiveNodes' = LiveNodes, \A n \in LiveNodes : node'[n].thread_ptr = node[n].thread_ptr
  PROVE  Owner' = Owner
BY DEF Owner

LEMMA NothingSeen ==
  ASSUME UNCHANGED <<Status, Running, cancel_list, Owner>>
  PROVE  UNCHANGED Life!lifeVars
BY DEF Status, Running, Owner, Life!lifeVars

\* The event n of a live cothread is deleted.
LEMMA EventGone ==
  ASSUME EnvInv, NEW n \in DOMAIN node, DeleteEvent(n), UNCHANGED valid_cothreads
  PROVE  /\ LiveNodes' = LiveNodes \ {n}
         /\ Owner' = [m \in LiveNodes \ {n} |-> Owner[m]]
         /\ n \in LiveNodes => Owner[n] = node[n].thread_ptr
<1>1. DOMAIN node' = DOMAIN node \ {n} /\ \A m \in DOMAIN node' : node'[m] = node[m]
  BY DeleteEventFacts DEF EnvInv, ManagerInv
<1>2. LiveNodes' = LiveNodes \ {n}
  BY <1>1 DEF LiveNodes
<1>3. \A m \in LiveNodes' : node'[m].thread_ptr = node[m].thread_ptr
  BY <1>1 DEF LiveNodes
<1>4. n \in LiveNodes => Owner[n] = node[n].thread_ptr
  BY DEF Owner
<1> QED  BY <1>2, <1>3, <1>4, LessOwner

\* An event is deleted: while a task runs, or one of a cothread that is removed.
LEMMA WithdrawSeen ==
  ASSUME EnvInv, NEW n \in DOMAIN node, n \in Nodes, DeleteEvent(n),
         UNCHANGED <<valid_cothreads, add_list, rd_list, cancel_list, pc, it>>,
         n \in LiveNodes => pc = "run"
  PROVE  Life!LifeNext \/ UNCHANGED Life!lifeVars
<1>1. Status' = Status /\ Running' = Running
  BY SameStatus DEF Running
<1>2. CASE n \notin LiveNodes
  <2>1. Owner' = Owner
    BY <1>2, EventGone DEF Owner
  <2> QED  BY <1>1, <2>1, NothingSeen
<1>3. CASE n \in LiveNodes
  <2>1. Running # Null
    BY <1>3, NullAssumption DEF Running, EnvInv, Control
  <2>2. Life!Withdraw(n)
    BY <1>1, <1>3, <2>1, EventGone DEF Life!Withdraw, Life!OwnerWithout, Status, Running, Owner
  <2> QED  BY <2>2 DEF Life!LifeNext
<1> QED  BY <1>2, <1>3

\* remove_co_thread(t) of the cothread that runs, or of a cancelled one.
LEMMA EndSeen ==
  ASSUME EnvInv, leaving = Null, NEW t \in Threads, RemoveCoThread(t),
         t \in rd_list \cup block_list, pc' # "run",
         (pc = "run" /\ t = it) \/ (pc # "run" /\ t \in cancel_list)
  PROVE  Life!LifeNext
<1>1. t \in valid_cothreads
  BY DEF EnvInv, ListsPartition
<1>2. /\ valid_cothreads' = valid_cothreads \ {t}
      /\ UNCHANGED <<rd_list, add_list, cancel_list, node>>
  BY DEF RemoveCoThread, CancelCoThread, registry
<1>3. Status' = [Status EXCEPT ![t] = "absent"]
  <2>1. \A u \in Threads : StatusOf(u)' = IF u = t THEN "absent" ELSE StatusOf(u)
    BY <1>2 DEF StatusOf
  <2> QED  BY <2>1 DEF Status
<1>4. Running' = Null /\ (Running = t \/ (Running = Null /\ t \in cancel_list))
  BY DEF Running
<1>5. Owner' = [n \in LiveNodes \ {m \in LiveNodes : Owner[m] = t} |-> Owner[n]]
  BY <1>2, LessOwner DEF LiveNodes, Owner
<1>6. Status[t] \in {"ready", "blocked"}
  BY <1>1, StatusByList DEF EnvInv, ListsPartition
<1>7. Life!End(t)
  BY <1>2, <1>3, <1>4, <1>5, <1>6
  DEF Life!End, Life!OwnerWithout, Life!OwnedBy, Status, Running, Owner
<1> QED  BY <1>7 DEF Life!LifeNext

-----------------------------------------------------------------------------
LEMMA CallSeen ==
  ASSUME EnvInv, LifeInv, Call
  PROVE  Life!LifeNext \/ UNCHANGED Life!lifeVars
<1>1. ASSUME NEW t \in Threads, AddTask(t) PROVE Life!LifeNext
  <2>1. /\ t \notin valid_cothreads /\ t # leaving
        /\ add_list' = add_list \cup {t} /\ valid_cothreads' = valid_cothreads \cup {t}
        /\ UNCHANGED <<node, rd_list, cancel_list, pc, it>>
    BY <1>1 DEF AddTask, managerVars, registry
  <2>2. Status' = [Status EXCEPT ![t] = "added"]
    <3>1. \A u \in Threads : StatusOf(u)' = IF u = t THEN "added" ELSE StatusOf(u)
      BY <2>1 DEF StatusOf
    <3> QED  BY <3>1 DEF Status
  <2>3. Running' = Running
    BY <2>1 DEF Running
  <2>4. LiveNodes' = LiveNodes
    BY <2>1 DEF LiveNodes, EnvInv, NoDangling
  <2>5. Owner' = Owner
    BY <2>1, <2>4, SameOwner
  <2>6. Status[t] = "absent"
    BY <2>1, StatusByList
  <2>7. Life!Add(t)
    BY <2>1, <2>2, <2>3, <2>5, <2>6 DEF Life!Add, Status, Running, Owner
  <2> QED  BY <2>7 DEF Life!LifeNext
<1>2. ASSUME NEW t \in Threads, CancelTask(t) PROVE Life!LifeNext
  <2>1. /\ t \in valid_cothreads /\ cancel_list' = cancel_list \cup {t}
        /\ UNCHANGED <<node, rd_list, add_list, valid_cothreads, pc, it>>
    BY <1>2 DEF CancelTask, managerVars, registry
  <2>2. Status' = Status /\ Owner' = Owner /\ Running' = Running
    BY <2>1, SameStatus, SameOwner DEF Running, LiveNodes
  <2>3. Status[t] # "absent"
    BY <2>1, StatusByList
  <2>4. Life!Doom(t)
    BY <2>1, <2>2, <2>3 DEF Life!Doom, Status, Running, Owner
  <2> QED  BY <2>4 DEF Life!LifeNext
<1>3. ASSUME NEW n \in Nodes, NEW fd \in Fds, NEW events \in Usage[fd], RegisterEvent(n, fd, events)
      PROVE  Life!LifeNext
  <2>1. it \in Threads /\ it \in valid_cothreads /\ pc = "run"
    BY <1>3 DEF RegisterEvent, Calls, EnvInv, Control, NoDangling
  <2>2. /\ n \notin DOMAIN node /\ DOMAIN node' = DOMAIN node \cup {n}
        /\ node'[n].thread_ptr = it /\ \A m \in DOMAIN node : m # n => node'[m] = node[m]
        /\ UNCHANGED <<rd_list, add_list, valid_cothreads, cancel_list, pc, it>>
    BY <1>3 DEF RegisterEvent, AddEvent, lists
  <2>3. Status' = Status /\ Running' = Running /\ Running = it
    BY <2>1, <2>2, SameStatus DEF Running
  <2>4. LiveNodes' = LiveNodes \cup {n} /\ n \notin LiveNodes
    BY <2>1, <2>2 DEF LiveNodes
  <2>5. Owner' = [m \in LiveNodes \cup {n} |-> IF m = n THEN it ELSE Owner[m]]
    BY <2>2, <2>4 DEF Owner, LiveNodes
  <2>6. Life!Register(it, n)
    BY <2>2, <2>3, <2>4, <2>5 DEF Life!Register, Status, Running, Owner
  <2> QED  BY <2>1, <2>6 DEF Life!LifeNext
<1>4. ASSUME NEW n \in Nodes, CancelById(n) PROVE Life!LifeNext \/ UNCHANGED Life!lifeVars
  <2>1. pc = "run" /\ UNCHANGED <<rd_list, add_list, valid_cothreads, cancel_list, pc, it>>
    BY <1>4 DEF CancelById, Calls, lists
  <2>2. CASE n \in valid_event /\ DeleteEvent(n)
    BY <2>1, <2>2, WithdrawSeen DEF EnvInv, ManagerInv, RecordsAgree
  <2>3. CASE UNCHANGED node
    BY <2>1, <2>3, SameStatus, SameOwner, NothingSeen DEF Running, LiveNodes
  <2> QED  BY <1>4, <2>2, <2>3 DEF CancelById, CancelEvent, managerVars, registry
<1>5. ASSUME CancelAllEvent \/ (\E fd \in Fds : Close(fd)) PROVE UNCHANGED Life!lifeVars
  <2>1. UNCHANGED <<node, rd_list, add_list, valid_cothreads, cancel_list, pc, it>>
    BY <1>5 DEF CancelAllEvent, CancelCoThread, Close, CloseFd, registry, lists
  <2> QED  BY <2>1, SameStatus, SameOwner, NothingSeen DEF Running, LiveNodes
<1> QED  BY <1>1, <1>2, <1>3, <1>4, <1>5 DEF Call

LEMMA SwitchSeen ==
  ASSUME EnvInv, Switch
  PROVE  Life!LifeNext \/ UNCHANGED Life!lifeVars
<1>1. ASSUME Yield PROVE Life!LifeNext
  <2>1. /\ it \in Threads /\ pc = "run" /\ pc' # "run"
        /\ UNCHANGED <<node, rd_list, add_list, valid_cothreads, cancel_list>>
    BY <1>1 DEF Yield, Calls, managerVars, registry, lists, EnvInv, Control
  <2>2. Status' = Status /\ Owner' = Owner /\ Running # Null /\ Running' = Null
    BY <2>1, SameStatus, SameOwner, NullAssumption DEF Running, LiveNodes
  <2>3. Life!Stop
    BY <2>1, <2>2 DEF Life!Stop, Status, Running, Owner
  <2> QED  BY <2>3 DEF Life!LifeNext
<1>2. ASSUME Block PROVE Life!LifeNext
  <2>1. /\ it \in Threads /\ it \in valid_cothreads /\ it \in rd_list /\ it \notin add_list
        /\ pc = "run" /\ pc' # "run"
    BY <1>2 DEF Block, Calls, EnvInv, Control, NoDangling, ListsPartition
  <2>2. rd_list' = rd_list \ {it} /\ UNCHANGED <<node, add_list, valid_cothreads, cancel_list>>
    BY <1>2 DEF Block, managerVars, registry
  <2>3. Status' = [Status EXCEPT ![it] = "blocked"]
    <3>1. \A u \in Threads : StatusOf(u)' = IF u = it THEN "blocked" ELSE StatusOf(u)
      BY <2>1, <2>2 DEF StatusOf
    <3> QED  BY <3>1 DEF Status
  <2>4. Owner' = Owner /\ Running = it /\ Running' = Null
    BY <2>1, <2>2, SameOwner DEF Running, LiveNodes
  <2>5. Life!BlockTask(it)
    BY <2>2, <2>3, <2>4 DEF Life!BlockTask, Status, Running, Owner
  <2> QED  BY <2>1, <2>5 DEF Life!LifeNext
<1>3. ASSUME Finish PROVE Life!LifeNext
  BY <1>3, EndSeen DEF Finish, ManagerIdle, EnvInv, Control, NoDangling
<1> QED  BY <1>1, <1>2, <1>3 DEF Switch

LEMMA LoopSeen ==
  ASSUME EnvInv, PhaseInv, LifeInv, Loop
  PROVE  Life!LifeNext \/ UNCHANGED Life!lifeVars
<1>1. ASSUME UNCHANGED <<node, rd_list, add_list, valid_cothreads, cancel_list>>, pc # "run" \/ it' = it,
             pc' = "run" <=> pc = "run"
      PROVE  UNCHANGED Life!lifeVars
  BY <1>1, SameStatus, SameOwner, NothingSeen DEF Running, LiveNodes
<1>2. ASSUME LoopReturns \/ HandleEvent \/ DispatchFd \/ EventsHandled \/ EventsCancelled
      PROVE  UNCHANGED Life!lifeVars
  BY <1>1, <1>2 DEF LoopReturns, HandleEvent, DispatchFd, EventsHandled, EventsCancelled, EpollWait, WalkFd,
                    WalkDone, CancelDone, managerVars, registry, lists
<1>3. ASSUME NEW t \in Threads, Run(t) PROVE Life!LifeNext
  <2>1. /\ pc # "run" /\ pc' = "run" /\ it' = t /\ t \in rd_list /\ t \notin cancel_list /\ leaving = Null
        /\ UNCHANGED <<node, rd_list, add_list, valid_cothreads, cancel_list>>
    BY <1>3 DEF Run, Reaches, ManagerIdle, managerVars, registry, lists
  <2>2. Status' = Status /\ Owner' = Owner /\ Running = Null /\ Running' = t
    BY <2>1, SameStatus, SameOwner DEF Running, LiveNodes
  <2>3. Status[t] = "ready"
    BY <2>1, StatusByList, NullAssumption DEF EnvInv, ListsPartition
  <2>4. Life!Start(t)
    BY <2>1, <2>2, <2>3 DEF Life!Start, Status, Running, Owner
  <2> QED  BY <2>4 DEF Life!LifeNext
<1>4. ASSUME NEW n \in Nodes, DispatchEvent(n) PROVE Life!LifeNext
  <2> DEFINE t == node[n].thread_ptr
  <2>1. /\ n \in DOMAIN node /\ DeleteEvent(n) /\ pc = "events" /\ pc' = pc
        /\ block_list' = block_list \ {t} /\ rd_list' = rd_list \cup (block_list \cap {t})
        /\ UNCHANGED <<cancel_list, add_list, valid_cothreads>>
    BY <1>4 DEF DispatchEvent, FireEvent, Activate, EnvInv, ManagerInv, ManagerTypeOK, RecordsAgree, NodesOf
  <2>2. t \in valid_cothreads /\ t \in Threads /\ t \notin add_list /\ t \in rd_list \cup block_list
    BY <1>4, <2>1, LiveOwners DEF DispatchEvent, FireEvent, LifeInv, EnvInv, EnvTypes, Control, ListsPartition, ManagerInv, ManagerTypeOK
  <2>3. n \in LiveNodes /\ Owner[n] = t /\ Owner' = [m \in LiveNodes \ {n} |-> Owner[m]]
    BY <2>1, <2>2, EventGone DEF LiveNodes
  <2> HIDE DEF t
  <2>4. Status' = [Status EXCEPT ![t] = "ready"]
    <3>1. \A u \in Threads : StatusOf(u)' = IF u = t THEN "ready" ELSE StatusOf(u)
      BY <2>1, <2>2 DEF StatusOf, EnvInv, ListsPartition
    <3> QED  BY <3>1 DEF Status
  <2>5. Status[t] \in {"ready", "blocked"} /\ Running = Null /\ Running' = Null
    BY <2>1, <2>2, StatusByList DEF Running
  <2>6. Life!Consume(n)
    BY <2>1, <2>3, <2>4, <2>5 DEF Life!Consume, Life!OwnerWithout, Status, Running, Owner
  <2> QED  BY <2>6 DEF Life!LifeNext
<1>5. ASSUME NEW t \in Threads, RemoveReached(t) \/ Sweep(t) PROVE Life!LifeNext
  BY <1>5, EndSeen DEF RemoveReached, Reaches, Sweep, ManagerIdle
<1>6. ASSUME ManagerWork PROVE Life!LifeNext \/ UNCHANGED Life!lifeVars
  <2>1. PICK n \in Nodes : CancelNode(n)
    BY <1>6 DEF ManagerWork
  <2>2. /\ n \in DOMAIN node /\ DeleteEvent(n) /\ node[n].thread_ptr = leaving
        /\ UNCHANGED <<rd_list, add_list, valid_cothreads, cancel_list, pc, it>>
    BY <1>6, <2>1 DEF ManagerWork, CancelNode, lists, EnvInv, ManagerInv, ManagerTypeOK, RecordsAgree, NodesOfThread
  <2> QED  BY <2>2, WithdrawSeen DEF LifeInv, LiveNodes
<1>7. ASSUME TaskRemoved PROVE UNCHANGED Life!lifeVars
  <2>1. /\ leaving \notin valid_cothreads /\ rd_list' = rd_list \ {leaving}
        /\ UNCHANGED <<node, add_list, valid_cothreads, cancel_list, pc, it>>
    BY <1>7 DEF TaskRemoved, CancelDone
  <2> QED  BY <2>1, SameStatus, SameOwner, NothingSeen DEF Running, LiveNodes
<1>8. ASSUME Admit PROVE Life!LifeNext
  <2>1. /\ rd_list' = rd_list \cup add_list /\ add_list' = {} /\ pc # "run" /\ pc' # "run"
        /\ UNCHANGED <<node, valid_cothreads, cancel_list>>
    BY <1>8 DEF Admit, managerVars, registry
  <2>2. Status' = [t \in Threads |-> IF Status[t] = "added" THEN "ready" ELSE Status[t]]
    <3>1. \A t \in Threads : StatusOf(t)' = IF StatusOf(t) = "added" THEN "ready" ELSE StatusOf(t)
      BY <2>1 DEF StatusOf, EnvInv, ListsPartition
    <3> QED  BY <3>1 DEF Status
  <2>3. Owner' = Owner /\ Running = Null /\ Running' = Null
    BY <2>1, SameOwner DEF Running, LiveNodes
  <2>4. Life!AdmitAll
    BY <2>1, <2>2, <2>3 DEF Life!AdmitAll, Status, Running, Owner
  <2> QED  BY <2>4 DEF Life!LifeNext
<1>9. ASSUME SweepDone PROVE Life!LifeNext
  <2>1. /\ pc = "sweep" /\ pc' # "run" /\ (block_list \cup rd_list) \cap cancel_list = {} /\ cancel_list' = {}
        /\ UNCHANGED <<node, rd_list, add_list, valid_cothreads>>
    BY <1>9 DEF SweepDone, managerVars, registry
  <2>2. \A t \in cancel_list : t \in Threads /\ Status[t] = "absent"
    BY <2>1, StatusByList DEF PhaseInv, EnvInv, EnvTypes, ListsPartition
  <2>3. Status' = Status /\ Owner' = Owner /\ Running = Null /\ Running' = Null
    BY <2>1, SameStatus, SameOwner DEF Running, LiveNodes
  <2>4. Life!Settle
    BY <2>1, <2>2, <2>3 DEF Life!Settle, Status, Running, Owner
  <2> QED  BY <2>4 DEF Life!LifeNext
<1> QED
  BY <1>2, <1>3, <1>4, <1>5, <1>6, <1>7, <1>8, <1>9 DEF Loop

LEMMA StepIsLifeStep ==
  ASSUME EnvInv, PhaseInv, LifeInv, [Next]_vars
  PROVE  [Life!LifeNext]_(Life!lifeVars)
<1>1. ASSUME CallLoop \/ (\E fd, bits : Environment(fd, bits)) \/ UNCHANGED vars
      PROVE  UNCHANGED Life!lifeVars
  <2>1. /\ UNCHANGED <<node, rd_list, add_list, valid_cothreads, cancel_list, it>>
        /\ pc' = "run" <=> pc = "run"
    BY <1>1 DEF CallLoop, Environment, vars, managerVars, registry, lists
  <2> QED  BY <2>1, SameStatus, SameOwner, NothingSeen DEF Running, LiveNodes
<1> QED  BY <1>1, CallSeen, SwitchSeen, LoopSeen DEF Next

-----------------------------------------------------------------------------
(* LifeInv is an invariant.                                                *)

\* A step that registers no event and adds no task.
LEMMA LifeKept ==
  ASSUME LifeInv, add_list' \subseteq add_list,
         \A n \in DOMAIN node' : n \in DOMAIN node /\ node'[n] = node[n],
         leaving' \in valid_cothreads' => pc' = "run"
  PROVE  LifeInv'
BY DEF LifeInv

LEMMA LifeCallInv ==
  ASSUME EnvInv, LifeInv, Call
  PROVE  LifeInv'
<1>1. ASSUME NEW t \in Threads, AddTask(t) PROVE LifeInv'
  <2>1. /\ t \notin valid_cothreads /\ t # leaving
        /\ add_list' = add_list \cup {t} /\ valid_cothreads' = valid_cothreads \cup {t}
        /\ UNCHANGED <<node, pc, leaving>>
    BY <1>1 DEF AddTask, managerVars, registry, walk
  <2>2. \A n \in DOMAIN node : node[n].thread_ptr # t
    BY <2>1 DEF EnvInv, NoDangling
  <2> QED  BY <2>1, <2>2 DEF LifeInv
<1>2. ASSUME NEW n \in Nodes, NEW fd \in Fds, NEW events \in Usage[fd], RegisterEvent(n, fd, events)
      PROVE  LifeInv'
  <2>1. it \notin add_list
    BY <1>2 DEF RegisterEvent, Calls, EnvInv, NoDangling, ListsPartition
  <2>2. /\ \A m \in DOMAIN node' : node'[m].thread_ptr = it \/ (m \in DOMAIN node /\ node'[m] = node[m])
        /\ UNCHANGED <<pc, add_list, valid_cothreads, leaving>>
    BY <1>2 DEF RegisterEvent, AddEvent, lists, walk
  <2> QED  BY <2>1, <2>2 DEF LifeInv
<1>3. ASSUME NEW n \in Nodes, CancelById(n) PROVE LifeInv'
  <2>1. UNCHANGED <<pc, add_list, valid_cothreads, leaving>>
    BY <1>3 DEF CancelById, CancelEvent, lists, managerVars, walk
  <2>2. CASE n \in valid_event /\ DeleteEvent(n)
    BY <2>1, <2>2, DeleteEventFacts, LifeKept DEF EnvInv, ManagerInv, RecordsAgree, LifeInv
  <2>3. CASE UNCHANGED node
    BY <2>1, <2>3 DEF LifeInv
  <2> QED  BY <1>3, <2>2, <2>3 DEF CancelById, CancelEvent, managerVars, registry
<1>4. ASSUME CancelAllEvent PROVE LifeInv'
  BY <1>4 DEF CancelAllEvent, Calls, CancelCoThread, registry, lists, EnvInv, NoDangling, LifeInv
<1>5. ASSUME NEW t \in Threads, CancelTask(t) PROVE LifeInv'
  BY <1>5 DEF CancelTask, managerVars, registry, walk, LifeInv
<1>6. ASSUME NEW fd \in Fds, Close(fd) PROVE LifeInv'
  BY <1>6 DEF Close, CloseFd, registry, walk, lists, LifeInv
<1> QED  BY <1>1, <1>2, <1>3, <1>4, <1>5, <1>6 DEF Call

LEMMA LifeLoopInv ==
  ASSUME EnvInv, LifeInv, Loop \/ Switch \/ CallLoop
  PROVE  LifeInv'
<1>1. ASSUME NEW t \in Threads, RemoveCoThread(t) PROVE LifeInv'
  BY <1>1, LifeKept DEF RemoveCoThread, CancelCoThread, registry
<1>2. ASSUME CallLoop \/ LoopReturns \/ HandleEvent \/ DispatchFd \/ EventsHandled \/ SweepDone
      PROVE  LifeInv'
  BY <1>2 DEF CallLoop, LoopReturns, HandleEvent, DispatchFd, EventsHandled, SweepDone, EpollWait,
              WalkFd, WalkDone, managerVars, registry, walk, lists, ManagerIdle, EnvInv, EnvTypes, Control, LifeInv
<1>3. ASSUME Yield \/ Block PROVE LifeInv'
  <2>1. leaving' = Null /\ UNCHANGED <<node, add_list, valid_cothreads>>
    BY <1>3 DEF Yield, Block, Calls, ManagerIdle, managerVars, registry, walk, lists
  <2> QED  BY <2>1, NullAssumption, LifeKept DEF EnvInv, EnvTypes
<1>4. ASSUME NEW n \in Nodes, DispatchEvent(n) PROVE LifeInv'
  <2>1. /\ n \in DOMAIN node /\ DeleteEvent(n)
        /\ UNCHANGED <<pc, add_list, valid_cothreads, leaving>>
    BY <1>4 DEF DispatchEvent, FireEvent, Activate, walk, EnvInv, ManagerInv, ManagerTypeOK, RecordsAgree, NodesOf
  <2> QED  BY <2>1, DeleteEventFacts, LifeKept DEF EnvInv, ManagerInv, LifeInv
<1>5. ASSUME NEW t \in Threads, Run(t) PROVE LifeInv'
  BY <1>5, NullAssumption DEF Run, Reaches, ManagerIdle, managerVars, registry, walk, lists, EnvInv, EnvTypes, LifeInv
<1>6. ASSUME ManagerWork PROVE LifeInv'
  <2>1. PICK n \in Nodes : CancelNode(n)
    BY <1>6 DEF ManagerWork
  <2>2. /\ n \in DOMAIN node /\ DeleteEvent(n)
        /\ UNCHANGED <<pc, add_list, valid_cothreads, leaving>>
    BY <1>6, <2>1 DEF ManagerWork, CancelNode, walk, lists, EnvInv, ManagerInv, RecordsAgree
  <2> QED  BY <2>2, DeleteEventFacts, LifeKept DEF EnvInv, ManagerInv, LifeInv
<1>7. ASSUME EventsCancelled \/ TaskRemoved PROVE LifeInv'
  <2>1. leaving' = Null /\ UNCHANGED <<node, add_list, valid_cothreads>>
    BY <1>7 DEF EventsCancelled, TaskRemoved, CancelDone, lists
  <2> QED  BY <2>1, NullAssumption, LifeKept DEF EnvInv, EnvTypes
<1>8. ASSUME Admit PROVE LifeInv'
  <2>1. leaving' = Null /\ add_list' = {} /\ UNCHANGED <<node, valid_cothreads>>
    BY <1>8 DEF Admit, ManagerIdle, managerVars, registry, walk
  <2> QED  BY <2>1, NullAssumption, LifeKept DEF EnvInv, EnvTypes
<1>9. CASE Switch
  <2>1. Finish => LifeInv'
    BY <1>1 DEF Finish, EnvInv, Control
  <2> QED  BY <1>2, <1>3, <1>9, <2>1 DEF Switch
<1>10. ASSUME NEW t \in Threads, RemoveReached(t) \/ Sweep(t) PROVE LifeInv'
  BY <1>1, <1>10 DEF RemoveReached, Sweep
<1>11. CASE Loop
  BY <1>2, <1>4, <1>5, <1>6, <1>7, <1>8, <1>10, <1>11 DEF Loop
<1> QED  BY <1>2, <1>9, <1>11

LEMMA LifeInvariant == Spec => []LifeInv
<1>1. Init => LifeInv
  BY NullAssumption DEF Init, ManagerInit, LifeInv
<1>2. EnvInv /\ LifeInv /\ [Next]_vars => LifeInv'
  <2> SUFFICES ASSUME EnvInv, LifeInv, [Next]_vars PROVE LifeInv'
    OBVIOUS
  <2>1. ASSUME NEW fd, NEW bits, Environment(fd, bits) PROVE LifeInv'
    BY <2>1 DEF Environment, managerVars, registry, walk, lists, LifeInv
  <2>2. CASE UNCHANGED vars
    BY <2>2 DEF vars, managerVars, registry, walk, lists, LifeInv
  <2> QED  BY <2>1, <2>2, LifeCallInv, LifeLoopInv DEF Next
<1> QED  BY <1>1, <1>2, EnvInvariant, PTL DEF Spec

\* Whatever the cothreads call, however many tasks, events and fds there are and
\* however their addresses are reused: no task is lost or woken without cause, none
\* runs once it is cancelled, no event of a blocked task is consumed silently, and a
\* task ends by itself or because its id was cancelled.
THEOREM CoEnvImplementsTaskLife == Spec => ImplementsTaskLife
<1>1. EnvInv /\ PhaseInv /\ LifeInv /\ [Next]_vars => [Life!LifeNext]_(Life!lifeVars)
  BY StepIsLifeStep
<1> QED
  BY <1>1, LifeInitOK, EnvInvariant, PhaseInvariant, LifeInvariant, PTL
  DEF Spec, ImplementsTaskLife, Life!LifeSpec

=============================================================================
