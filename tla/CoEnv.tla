------------------------------- MODULE CoEnv -------------------------------
(***************************************************************************)
(* co_env (src/co_env.cpp): the scheduler.  loop() repeats: wait for       *)
(* events, run every ready cothread once, admit the new ones, sweep the    *)
(* cancelled ones.  Everything runs on one thread, so a step here is a     *)
(* piece of code that calls nobody else; cothreads are arbitrary programs  *)
(* over the API, one call or one switch per step.  yield_event and         *)
(* yield_for are a registration followed by a blocking yield.              *)
(*                                                                         *)
(* A co_thread is known by its address, which is also its task id.  The    *)
(* std::set rd_list is walked in address order, so addresses are numbers.  *)
(***************************************************************************)
EXTENDS EventManager, Naturals

CONSTANT Api  (* the calls the cothreads of this instance make *)

ASSUME AddressAssumption == Threads \subseteq Nat \ {0}
ASSUME ApiAssumption ==
  Api \subseteq {"add_task", "cancel_task", "register_event", "cancel_event",
                 "cancel_all_event", "yield", "block", "close", "io"}

VARIABLES
  rd_list,          (* ready cothreads                                      *)
  block_list,       (* blocked cothreads                                    *)
  cancel_list,      (* task ids cancelled since the last sweep              *)
  add_list,         (* cothreads not yet admitted to rd_list                *)
  valid_cothreads,  (* cothreads that have not been removed                 *)
  co_thread_event,  (* co_thread_fd and co_thread_event: the first event of *)
                    (* this turn of the loop, for every cothread it named   *)
  pc,               (* where loop() is; "main" when it is not running       *)
  it,               (* process_rd_list: the last cothread reached, 0 before *)
  ready             (* the readiness of the fds, in the kernel              *)

lists == <<rd_list, block_list, cancel_list, add_list, valid_cothreads>>
vars == <<managerVars, lists, co_thread_event, pc, it, ready>>

NoEvent == [fd |-> Null, events |-> {}]
NobodyWoken == [t \in Threads |-> NoEvent]

Init ==
  /\ ManagerInit
  /\ rd_list = {}
  /\ block_list = {}
  /\ cancel_list = {}
  /\ add_list = {}
  /\ valid_cothreads = {}
  /\ co_thread_event = NobodyWoken
  /\ pc = "main"
  /\ it = 0
  /\ ready = NothingReady

-----------------------------------------------------------------------------
(* The API, called by the cothread that runs (it) or, outside loop(), by   *)
(* the program that owns the co_env.                                       *)

Calls(call) == pc = "run" /\ ManagerIdle /\ call \in Api

\* add_task: `new' returns an address that no co_thread object occupies; a stale
\* id in cancel_list may name it.
AddTask(t) ==
  /\ pc = "main" \/ Calls("add_task")
  /\ t \notin valid_cothreads \cup {leaving}
  /\ add_list' = add_list \cup {t}
  /\ valid_cothreads' = valid_cothreads \cup {t}
  /\ UNCHANGED <<managerVars, rd_list, block_list, cancel_list, co_thread_event, pc, it, ready>>

\* cancel_task: an id that is not valid is ignored.
CancelTask(t) ==
  /\ (pc = "main" /\ "cancel_task" \in Api) \/ Calls("cancel_task")
  /\ t \in valid_cothreads
  /\ cancel_list' = cancel_list \cup {t}
  /\ UNCHANGED <<managerVars, rd_list, block_list, add_list, valid_cothreads,
                 co_thread_event, pc, it, ready>>

\* register_event, which returns n as the event id.
RegisterEvent(n, fd, events) ==
  /\ Calls("register_event")
  /\ AddEvent(n, fd, events, it)
  /\ UNCHANGED <<lists, co_thread_event, pc, it, ready>>

\* cancel_event(event_id).  The id may be that of an event that is gone, and its
\* address may have been given to the event of another cothread.
CancelById(id) ==
  /\ Calls("cancel_event")
  /\ CancelEvent(id)
  /\ UNCHANGED <<lists, co_thread_event, pc, it, ready>>

\* cancel_all_event, co_env::cancel_event(co_thread*).
CancelAllEvent ==
  /\ Calls("cancel_all_event")
  /\ it \in valid_cothreads
  /\ CancelCoThread(it)
  /\ UNCHANGED <<lists, co_thread_event, pc, it, ready>>

\* The cothread closes an fd.
Close(fd) ==
  /\ Calls("close")
  /\ CloseFd(fd)
  /\ ready' = [ready EXCEPT ![fd] = {}]
  /\ UNCHANGED <<lists, co_thread_event, pc, it>>

-----------------------------------------------------------------------------
(* remove_co_thread: the task id becomes invalid, its events are cancelled *)
(* one by one (ManagerWork), then the object is deleted and the list it    *)
(* was in drops it (TaskRemoved).                                          *)

RemoveCoThread(t) ==
  /\ valid_cothreads' = valid_cothreads \ {t}
  /\ CancelCoThread(t)
  /\ UNCHANGED <<rd_list, block_list, cancel_list, add_list, co_thread_event, ready>>

\* A turn of the loop over the events of a cothread.
ManagerWork ==
  /\ \E n \in Nodes : CancelNode(n)
  /\ UNCHANGED <<lists, co_thread_event, pc, it, ready>>

\* cancel_all_event returns to its caller.
EventsCancelled ==
  /\ leaving \in valid_cothreads
  /\ CancelDone
  /\ UNCHANGED <<lists, co_thread_event, pc, it, ready>>

TaskRemoved ==
  /\ leaving \in Threads \ valid_cothreads
  /\ CancelDone
  /\ rd_list' = rd_list \ {leaving}
  /\ block_list' = block_list \ {leaving}
  /\ UNCHANGED <<cancel_list, add_list, valid_cothreads, co_thread_event, pc, it, ready>>

-----------------------------------------------------------------------------
(* The switch back from a cothread, and what process_rd_list does with the *)
(* value run() returned: 0 normal, 2 blocked, 1 finished.                  *)

Yield ==
  /\ Calls("yield")
  /\ pc' = "process"
  /\ UNCHANGED <<managerVars, lists, co_thread_event, it, ready>>

\* Mutation: process_rd_list leaves a blocked cothread in rd_list (++it).
BlockStaysReady ==
  /\ Calls("block")
  /\ block_list' = block_list \cup {it}
  /\ pc' = "process"
  /\ UNCHANGED <<managerVars, rd_list, cancel_list, add_list, valid_cothreads, co_thread_event, it, ready>>

Block ==
  /\ Calls("block")
  /\ block_list' = block_list \cup {it}
  /\ rd_list' = rd_list \ {it}
  /\ pc' = "process"
  /\ UNCHANGED <<managerVars, cancel_list, add_list, valid_cothreads, co_thread_event, it, ready>>

Finish ==
  /\ pc = "run"
  /\ ManagerIdle
  /\ RemoveCoThread(it)
  /\ pc' = "process"
  /\ UNCHANGED it

-----------------------------------------------------------------------------
(* loop()                                                                  *)

CallLoop ==
  /\ pc = "main"
  /\ pc' = "check"
  /\ UNCHANGED <<managerVars, lists, co_thread_event, it, ready>>

\* Mutation: loop() ends although cothreads are blocked.
LoopReturnsEarly ==
  /\ pc = "check"
  /\ rd_list \cup add_list = {}
  /\ pc' = "main"
  /\ UNCHANGED <<managerVars, lists, co_thread_event, it, ready>>

LoopReturns ==
  /\ pc = "check"
  /\ rd_list \cup block_list \cup add_list = {}
  /\ pc' = "main"
  /\ UNCHANGED <<managerVars, lists, co_thread_event, it, ready>>

\* The world outside makes an fd ready or not ready; epoll_wait looks at that,
\* and so do the reads and writes of a cothread, which change it themselves.
Environment(fd, bits) ==
  /\ pc = "check" \/ Calls("io")
  /\ ready' = [ready EXCEPT ![fd] = bits]
  /\ UNCHANGED <<managerVars, lists, co_thread_event, pc, it>>

Report == [fd \in Fds |-> IF epoll[fd] = {} THEN {} ELSE ready[fd] \cap (epoll[fd] \cup ErrBits)]

\* epoll_wait; with no runnable cothread the timeout is -1 and it blocks.
HandleEvent ==
  /\ pc = "check"
  /\ rd_list \cup block_list \cup add_list # {}
  /\ rd_list \cup add_list = {} => Report # NothingReady
  /\ EpollWait(Report)
  /\ pc' = "events"
  /\ UNCHANGED <<lists, co_thread_event, it, ready>>

\* Mutation: event and fd are swapped when they are stored.
ActivateSwapped(t, fd, events) ==
  /\ block_list' = block_list \ {t}
  /\ rd_list' = rd_list \cup (block_list \cap {t})
  /\ co_thread_event' = [co_thread_event EXCEPT ![t] = [fd |-> events, events |-> fd]]

\* Mutation: the maps are assigned, not emplaced: the last event of the turn stays.
ActivateOverwrites(t, fd, events) ==
  /\ block_list' = block_list \ {t}
  /\ rd_list' = rd_list \cup (block_list \cap {t})
  /\ co_thread_event' = [co_thread_event EXCEPT ![t] = [fd |-> fd, events |-> events]]

\* The callback of loop(): handle_activated_cothread, then the two emplace()
\* calls, which keep the entry that is there.
Activate(t, fd, events) ==
  /\ block_list' = block_list \ {t}
  /\ rd_list' = rd_list \cup (block_list \cap {t})
  /\ co_thread_event' = IF co_thread_event[t] = NoEvent
                          THEN [co_thread_event EXCEPT ![t] = [fd |-> fd, events |-> events]]
                          ELSE co_thread_event

DispatchEvent(n) ==
  /\ pc = "events"
  /\ FireEvent(n)
  /\ Activate(node[n].thread_ptr, current_fd, EventFor(n))
  /\ UNCHANGED <<cancel_list, add_list, valid_cothreads, pc, it, ready>>

DispatchFd ==
  /\ pc = "events"
  /\ (\E fd \in Fds : WalkFd(fd)) \/ WalkDone
  /\ UNCHANGED <<lists, co_thread_event, pc, it, ready>>

\* Mutation: handle_event returns before it has walked over every reported fd.
EventsHandledEarly ==
  /\ pc = "events"
  /\ batch' = NothingReady
  /\ current_fd' = Null
  /\ pc' = "process"
  /\ it' = 0
  /\ UNCHANGED <<registry, interest, leaving, lists, co_thread_event, ready>>

EventsHandled ==
  /\ pc = "events"
  /\ batch = NothingReady
  /\ pc' = "process"
  /\ it' = 0
  /\ UNCHANGED <<managerVars, lists, co_thread_event, ready>>

\* `it' moves on to t.
Reaches(t) ==
  /\ pc = "process"
  /\ ManagerIdle
  /\ t \in rd_list
  /\ t > it
  /\ \A u \in rd_list : u > it => t <= u
  /\ it' = t

RemoveReached(t) ==
  /\ Reaches(t)
  /\ t \in cancel_list
  /\ RemoveCoThread(t)
  /\ UNCHANGED pc

\* (*it)->run(event_and_fd)
Run(t) ==
  /\ Reaches(t)
  /\ t \notin cancel_list
  /\ pc' = "run"
  /\ UNCHANGED <<managerVars, lists, co_thread_event, ready>>

\* Mutation: add_list is cleared but not appended.
AdmitNobody ==
  /\ pc = "process"
  /\ ManagerIdle
  /\ \A t \in rd_list : t <= it
  /\ co_thread_event' = NobodyWoken
  /\ add_list' = {}
  /\ pc' = "sweep"
  /\ it' = 0
  /\ UNCHANGED <<managerVars, rd_list, block_list, cancel_list, valid_cothreads, ready>>

\* The maps are cleared and add_list is appended.
Admit ==
  /\ pc = "process"
  /\ ManagerIdle
  /\ \A t \in rd_list : t <= it
  /\ co_thread_event' = NobodyWoken
  /\ rd_list' = rd_list \cup add_list
  /\ add_list' = {}
  /\ pc' = "sweep"
  /\ it' = 0
  /\ UNCHANGED <<managerVars, block_list, cancel_list, valid_cothreads, ready>>

\* Mutation: the predicate of erase_if does not look at cancel_list.
SweepAnyone(t) ==
  /\ pc = "sweep"
  /\ ManagerIdle
  /\ t \in block_list \cup rd_list
  /\ RemoveCoThread(t)
  /\ UNCHANGED <<pc, it>>

\* remove_canceled_task: block_list first, then rd_list.
Sweep(t) ==
  /\ pc = "sweep"
  /\ ManagerIdle
  /\ t \in cancel_list
  /\ \/ t \in block_list
     \/ t \in rd_list /\ block_list \cap cancel_list = {}
  /\ RemoveCoThread(t)
  /\ UNCHANGED <<pc, it>>

\* Mutation: block_list is not swept.
SweepDoneReadyOnly ==
  /\ pc = "sweep"
  /\ ManagerIdle
  /\ rd_list \cap cancel_list = {}
  /\ cancel_list' = {}
  /\ pc' = "check"
  /\ UNCHANGED <<managerVars, rd_list, block_list, add_list, valid_cothreads,
                 co_thread_event, it, ready>>

SweepDone ==
  /\ pc = "sweep"
  /\ ManagerIdle
  /\ (block_list \cup rd_list) \cap cancel_list = {}
  /\ cancel_list' = {}
  /\ pc' = "check"
  /\ UNCHANGED <<managerVars, rd_list, block_list, add_list, valid_cothreads,
                 co_thread_event, it, ready>>

-----------------------------------------------------------------------------
\* A cothread, or the owner of the co_env, calls the API.
Call ==
  \/ \E t \in Threads : AddTask(t) \/ CancelTask(t)
  \/ \E n \in Nodes, fd \in Fds : \E events \in Usage[fd] : RegisterEvent(n, fd, events)
  \/ \E n \in Nodes : CancelById(n)
  \/ CancelAllEvent
  \/ \E fd \in Fds : Close(fd)

Switch == Yield \/ Block \/ Finish

Loop ==
  \/ LoopReturns
  \/ HandleEvent
  \/ \E n \in Nodes : DispatchEvent(n)
  \/ DispatchFd
  \/ EventsHandled
  \/ \E t \in Threads : RemoveReached(t) \/ Run(t) \/ Sweep(t)
  \/ ManagerWork
  \/ EventsCancelled
  \/ TaskRemoved
  \/ Admit
  \/ SweepDone

Next ==
  \/ CallLoop
  \/ Call
  \/ Switch
  \/ Loop
  \/ \E fd \in Fds, bits \in SUBSET AllBits : Environment(fd, bits)

Spec == Init /\ [][Next]_vars

\* loop() is called while there are tasks and keeps going; a cothread that runs
\* switches back sooner or later (the cooperation the library asks of it).  The
\* calls a cothread makes and the readiness of the fds are under no obligation.
Fairness ==
  /\ WF_vars(Loop)
  /\ WF_vars(Switch)
  /\ WF_vars(CallLoop /\ valid_cothreads # {})

FairSpec == Spec /\ Fairness

\* In addition epoll_wait does not keep missing an event that comes and goes.
EagerSpec == FairSpec /\ SF_vars(HandleEvent)

-----------------------------------------------------------------------------
TypeOK ==
  /\ ManagerTypeOK
  /\ rd_list \subseteq Threads
  /\ block_list \subseteq Threads
  /\ cancel_list \subseteq Threads
  /\ add_list \subseteq Threads
  /\ valid_cothreads \subseteq Threads
  /\ co_thread_event \in [Threads -> [fd : Fds \cup {Null}, events : SUBSET AllBits]]
  /\ pc \in {"main", "check", "events", "process", "run", "sweep"}
  /\ it \in Threads \cup {0}
  /\ ready \in [Fds -> SUBSET AllBits]

\* Every cothread that has not been removed is in exactly one of rd_list,
\* block_list and add_list, so loop() ends only when none is left and no task
\* is forgotten; the one that is being removed stays in its list until then.
ListsPartition ==
  /\ rd_list \cap block_list = {}
  /\ (rd_list \cup block_list) \cap add_list = {}
  /\ rd_list \cup block_list \cup add_list = valid_cothreads \cup ({leaving} \ {Null})

\* A deleted co_thread is never touched again: no event names it (the callback
\* of handle_event would write through it) and the one that runs is alive.
NoDangling ==
  /\ \A n \in DOMAIN node : node[n].thread_ptr \in valid_cothreads \cup {leaving}
  /\ pc = "run" => it \in valid_cothreads \cap rd_list

\* When loop() is not running no event is registered and epoll watches nothing.
NothingLeftBehind == pc = "main" => DOMAIN node = {} /\ epoll = NothingReady

\* The scheduler uses the event manager as EventManager assumes: no call is made
\* while another is under way, from a callback of handle_event least of all, and
\* only the manager touches what is the manager's.
UsesManager == ManagerSpec

\* A task that was cancelled, in whatever list it was, is gone when the turn of
\* the loop that saw the cancellation ends (cancel_list is then forgotten,
\* co_env.cpp:138, so a task that it named and that is left would live on).
CancelTakesEffect == [][pc' # pc /\ pc = "sweep" => cancel_list \cap valid_cothreads' = {}]_vars

\* A cothread leaves block_list for rd_list only because of an event that it
\* registered, and it is that event that run() hands to it (co_thread.h:26, "the
\* event and fd which awaked the cothread"): nothing that happens between the two
\* changes what is noted, and the notes are cleared only when every ready cothread
\* has had its turn.
WokenByItsEvent ==
  [][/\ \A t \in block_list \cap rd_list' :
          \E n \in DOMAIN node \ DOMAIN node' :
            /\ node[n].thread_ptr = t
            /\ co_thread_event'[t] = [fd |-> node[n].fd, events |-> EventFor(n)]
     /\ \A t \in Threads :
          co_thread_event[t] # NoEvent /\ pc' # "sweep" => co_thread_event'[t] = co_thread_event[t]]_vars

\* What a cothread cancels is its own: cancel_event(id) is documented as "cacel
\* event by event_id return by register_event" (co_env.h:52).
CancelsItsOwn ==
  [][pc = "run" => \A n \in DOMAIN node \ DOMAIN node' : node[n].thread_ptr = it]_vars

\* t is blocked, and the bit of fd that it registered for is ready.
Wakeable(t, fd, bit) ==
  /\ t \in block_list
  /\ bit \in ready[fd]
  /\ \E n \in NodesOfThread(t) : node[n].fd = fd /\ bit \in node[n].events

\* "when event triggered, the co_thread will move from block_list ot rd_list"
\* (co_env.h:43): an event that stays ready does not leave its cothread blocked.
NoLostWakeup == \A t \in Threads, fd \in Fds, bit \in Bits : []<>~Wakeable(t, fd, bit)

\* Every ready cothread runs again, and every task that is added runs at least
\* once, unless it is cancelled first.
ReadyRuns == \A t \in Threads : t \in rd_list \cup add_list ~> (pc = "run" /\ it = t) \/ t \notin valid_cothreads

\* A cancelled task is removed.
CancelledRemoved == \A t \in Threads : t \in cancel_list ~> t \notin valid_cothreads

=============================================================================
