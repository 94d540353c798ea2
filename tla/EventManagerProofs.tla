------------------------- MODULE EventManagerProofs -------------------------
(***************************************************************************)
(* Proofs about EventManager: the type invariant, the agreement of the     *)
(* four views of the registrations, and what epoll watches.                *)
(***************************************************************************)
EXTENDS EventManager, TLAPS

\* A mask that some cothread registers is a non-empty set of bits.
LEMMA UsageMask ==
  ASSUME NEW fd \in Fds, NEW events \in Usage[fd]
  PROVE  events \in Masks
BY UsageAssumption DEF Masks

\* What epoll_ctl makes of the interest is a mask for each fd.
LEMMA InterestType ==
  ASSUME event_cache \in [Fds -> SUBSET Bits], epoll \in [Fds -> SUBSET Bits],
         NEW fd \in Fds, NEW events \in SUBSET Bits
  PROVE  /\ InterestAdded(fd, events) \in [Fds -> SUBSET Bits]
         /\ InterestLeft(fd, events) \in [Fds -> SUBSET Bits]
BY DEF InterestAdded, InterestLeft, EpollAdd, EpollMod, EpollDel

\* Only the interest of the fd concerned changes.
LEMMA InterestLocal ==
  ASSUME event_cache \in [Fds -> SUBSET Bits], epoll \in [Fds -> SUBSET Bits],
         NEW fd \in Fds, NEW events \in SUBSET Bits, NEW g \in Fds, g # fd
  PROVE  /\ InterestAdded(fd, events)[g] = epoll[g]
         /\ InterestLeft(fd, events)[g] = epoll[g]
BY DEF InterestAdded, InterestLeft, EpollAdd, EpollMod, EpollDel

\* The bits that a set of nodes waits for.
LEMMA EventsInType ==
  ASSUME node \in [DOMAIN node -> NodeInfo], NEW S \in SUBSET DOMAIN node
  PROVE  EventsIn(S) \in SUBSET Bits
<1> SUFFICES ASSUME NEW n \in S PROVE node[n].events \in SUBSET Bits
  BY DEF EventsIn
<1> QED  BY DEF NodeInfo, Masks

-----------------------------------------------------------------------------
(* Type correctness and RecordsAgree.  Deleting the nodes of a cancelled   *)
(* cothread keeps the records in agreement only because nothing else       *)
(* happens meanwhile, so CallsExclusive is part of the invariant.          *)

ManagerInv == ManagerTypeOK /\ RecordsAgree /\ CallsExclusive

LEMMA ManagerInitInv == ManagerInit => ManagerInv
<1> SUFFICES ASSUME ManagerInit PROVE ManagerInv
  OBVIOUS
<1>1. ManagerTypeOK
  BY DEF ManagerInit, ManagerTypeOK, NothingReady
<1>2. RecordsAgree
  BY DEF ManagerInit, RecordsAgree, NodesOf, NodesOfThread
<1>3. CallsExclusive
  BY DEF ManagerInit, CallsExclusive
<1> QED  BY <1>1, <1>2, <1>3 DEF ManagerInv

LEMMA AddEventInv ==
  ASSUME ManagerInv, leaving = Null, NEW n \in Nodes, NEW fd \in Fds, NEW t \in Threads,
         NEW events \in Masks, AddEvent(n, fd, events, t)
  PROVE  ManagerInv'
<1> USE DEF ManagerInv
<1>1. /\ DOMAIN node' = DOMAIN node \cup {n}
      /\ node'[n] = [fd |-> fd, events |-> events, thread_ptr |-> t]
      /\ \A m \in DOMAIN node : node'[m] = node[m]
      /\ node' \in [DOMAIN node' -> NodeInfo]
  BY DEF AddEvent, ManagerTypeOK, NodeInfo
<1>2. ManagerTypeOK'
  <2>1. epoll' \in [Fds -> SUBSET Bits]
    BY InterestType DEF AddEvent, ManagerTypeOK, Masks
  <2> QED  BY <1>1, <2>1 DEF AddEvent, ManagerTypeOK, walk
<1>3. RecordsAgree'
  <2>1. n \notin DOMAIN node /\ leaving' = Null
    BY DEF AddEvent, walk
  <2>2. valid_event' = DOMAIN node'
    BY <1>1 DEF AddEvent, RecordsAgree
  <2>3. ASSUME NEW g \in Fds PROVE fd_record'[g] = NodesOf(g)'
    <3>1. NodesOf(g)' = IF g = fd THEN NodesOf(g) \cup {n} ELSE NodesOf(g)
      BY <1>1, <2>1 DEF NodesOf
    <3>2. fd_record'[g] = IF g = fd THEN fd_record[g] \cup {n} ELSE fd_record[g]
      BY DEF AddEvent, ManagerTypeOK
    <3> QED  BY <3>1, <3>2 DEF RecordsAgree
  <2>4. ASSUME NEW u \in Threads
        PROVE  /\ co_thread_record'[u] \cap DOMAIN node' = NodesOfThread(u)'
               /\ co_thread_record'[u] \subseteq DOMAIN node'
    <3>1. NodesOfThread(u)' = IF u = t THEN NodesOfThread(u) \cup {n} ELSE NodesOfThread(u)
      BY <1>1, <2>1 DEF NodesOfThread
    <3>2. co_thread_record'[u] = IF u = t THEN co_thread_record[u] \cup {n} ELSE co_thread_record[u]
      BY DEF AddEvent, ManagerTypeOK
    <3>3. u # leaving
      BY NullAssumption
    <3> QED  BY <1>1, <2>1, <3>1, <3>2, <3>3 DEF RecordsAgree
  <2> QED  BY <2>2, <2>3, <2>4 DEF RecordsAgree
<1>4. CallsExclusive'
  BY DEF CallsExclusive, AddEvent, walk, NothingReady
<1> QED  BY <1>2, <1>3, <1>4

\* What delete_event does to the heap, the ids and the records of the fds.
LEMMA DeleteEventFacts ==
  ASSUME ManagerTypeOK, RecordsAgree, NEW n \in DOMAIN node, DeleteEvent(n)
  PROVE  /\ node[n] \in NodeInfo
         /\ DOMAIN node' = DOMAIN node \ {n}
         /\ \A m \in DOMAIN node' : node'[m] = node[m]
         /\ node' \in [DOMAIN node' -> NodeInfo]
         /\ valid_event' = DOMAIN node'
         /\ fd_record' \in [Fds -> SUBSET Nodes]
         /\ \A fd \in Fds : fd_record'[fd] = fd_record[fd] \ {n}
         /\ \A fd \in Fds : fd_record'[fd] = NodesOf(fd)'
         /\ event_cache' \in [Fds -> SUBSET Bits]
         /\ epoll' \in [Fds -> SUBSET Bits]
<1> DEFINE fd == node[n].fd
           left == EventsIn(fd_record[fd] \ {n})
<1>1. node[n] \in NodeInfo /\ fd \in Fds
  BY DEF ManagerTypeOK, NodeInfo
<1>2. /\ DOMAIN node' = DOMAIN node \ {n}
      /\ \A m \in DOMAIN node' : node'[m] = node[m]
  BY DEF DeleteEvent, Restrict
<1>3. node' \in [DOMAIN node' -> NodeInfo]
  BY <1>2 DEF DeleteEvent, Restrict, ManagerTypeOK
<1>4. valid_event' = DOMAIN node'
  BY <1>2 DEF DeleteEvent, RecordsAgree
<1>5. fd_record' = [fd_record EXCEPT ![fd] = @ \ {n}]
  BY DEF DeleteEvent
<1>6. /\ fd_record' \in [Fds -> SUBSET Nodes]
      /\ \A g \in Fds : fd_record'[g] = NodesOf(g)'
      /\ \A g \in Fds : fd_record'[g] = fd_record[g] \ {n}
  <2>1. ASSUME NEW g \in Fds PROVE NodesOf(g)' = NodesOf(g) \ {n}
    BY <1>2 DEF NodesOf
  <2>2. ASSUME NEW g \in Fds, g # fd PROVE n \notin NodesOf(g)
    BY <2>2 DEF NodesOf
  <2> HIDE DEF fd
  <2>3. ASSUME NEW g \in Fds PROVE fd_record'[g] = fd_record[g] \ {n}
    <3>1. fd_record'[g] = IF g = fd THEN fd_record[g] \ {n} ELSE fd_record[g]
      BY <1>5 DEF ManagerTypeOK
    <3> QED  BY <3>1, <2>2 DEF RecordsAgree
  <2>4. fd_record' \in [Fds -> SUBSET Nodes]
    BY <1>1, <1>5 DEF ManagerTypeOK
  <2> QED  BY <2>1, <2>3, <2>4 DEF RecordsAgree
<1>7. left \in SUBSET Bits
  <2>1. fd_record[fd] \ {n} \in SUBSET DOMAIN node
    BY <1>1 DEF RecordsAgree, NodesOf
  <2> QED  BY <2>1, EventsInType DEF ManagerTypeOK
<1>8. event_cache' \in [Fds -> SUBSET Bits] /\ epoll' \in [Fds -> SUBSET Bits]
  <2>1. event_cache' = [event_cache EXCEPT ![fd] = left] /\ epoll' = InterestLeft(fd, left)
    BY DEF DeleteEvent
  <2> HIDE DEF left, fd
  <2> QED  BY <1>1, <1>7, <2>1, InterestType DEF ManagerTypeOK
<1> QED  BY <1>1, <1>2, <1>3, <1>4, <1>6, <1>8

\* delete_event and the erasure from the record of the cothread.
LEMMA DeleteAndForgetInv ==
  ASSUME ManagerInv, NEW n \in DOMAIN node, DeleteEvent(n), ForgetInThread(n), UNCHANGED walk
  PROVE  ManagerInv'
<1> USE DEF ManagerInv
<1> DEFINE t == node[n].thread_ptr
<1>1. t \in Threads /\ co_thread_record' = [co_thread_record EXCEPT ![t] = @ \ {n}]
  BY DeleteEventFacts DEF ForgetInThread, NodeInfo
<1>2. ManagerTypeOK'
  BY <1>1, DeleteEventFacts DEF ManagerTypeOK, walk
<1>3. ASSUME NEW u \in Threads
      PROVE  /\ co_thread_record'[u] \cap DOMAIN node' = NodesOfThread(u)'
             /\ u # leaving' => co_thread_record'[u] \subseteq DOMAIN node'
  <2>1. NodesOfThread(u)' = NodesOfThread(u) \ {n}
    BY DeleteEventFacts DEF NodesOfThread
  <2>2. u # t => n \notin NodesOfThread(u)
    BY DEF NodesOfThread
  <2>3. co_thread_record'[u] = IF u = t THEN co_thread_record[u] \ {n} ELSE co_thread_record[u]
    BY <1>1 DEF ManagerTypeOK
  <2>4. DOMAIN node' = DOMAIN node \ {n} /\ leaving' = leaving
    BY DeleteEventFacts DEF walk
  <2> HIDE DEF t
  <2> QED  BY <2>1, <2>2, <2>3, <2>4 DEF RecordsAgree
<1>4. RecordsAgree'
  BY <1>3, DeleteEventFacts DEF RecordsAgree
<1>5. CallsExclusive'
  BY DEF CallsExclusive, walk, NothingReady
<1> QED  BY <1>2, <1>4, <1>5

LEMMA CancelNodeInv ==
  ASSUME ManagerInv, NEW n \in Nodes, CancelNode(n)
  PROVE  ManagerInv'
<1> USE DEF ManagerInv
<1>1. /\ n \in DOMAIN node /\ DeleteEvent(n) /\ leaving \in Threads
      /\ n \in NodesOfThread(leaving)
      /\ UNCHANGED <<co_thread_record, walk>>
  BY DEF CancelNode, RecordsAgree, ManagerTypeOK
<1>2. ManagerTypeOK'
  BY <1>1, DeleteEventFacts DEF ManagerTypeOK, walk
<1>3. ASSUME NEW u \in Threads
      PROVE  /\ co_thread_record'[u] \cap DOMAIN node' = NodesOfThread(u)'
             /\ u # leaving' => co_thread_record'[u] \subseteq DOMAIN node'
  <2>1. NodesOfThread(u)' = NodesOfThread(u) \ {n}
    BY <1>1, DeleteEventFacts DEF NodesOfThread
  <2>2. u # leaving => n \notin NodesOfThread(u)
    BY <1>1 DEF NodesOfThread
  <2>3. DOMAIN node' = DOMAIN node \ {n}
    BY <1>1, DeleteEventFacts
  <2> QED  BY <1>1, <2>1, <2>2, <2>3 DEF RecordsAgree, walk
<1>4. RecordsAgree'
  BY <1>1, <1>3, DeleteEventFacts DEF RecordsAgree
<1>5. CallsExclusive'
  BY <1>1 DEF CallsExclusive, walk, NothingReady
<1> QED  BY <1>2, <1>4, <1>5

\* The steps that leave the heap alone.
LEMMA WalkInv ==
  ASSUME ManagerInv
  PROVE  /\ \A t \in Threads : ManagerIdle /\ CancelCoThread(t) => ManagerInv'
         /\ \A report \in [Fds -> SUBSET AllBits] : ManagerIdle /\ EpollWait(report) => ManagerInv'
         /\ \A fd \in Fds : WalkFd(fd) => ManagerInv'
         /\ CancelDone => ManagerInv'
         /\ WalkDone => ManagerInv'
<1> USE DEF ManagerInv
<1> DEFINE HeapStays == UNCHANGED <<node, valid_event, fd_record, event_cache, epoll>>
<1>1. HeapStays => /\ \A fd \in Fds : NodesOf(fd)' = NodesOf(fd)
                   /\ \A t \in Threads : NodesOfThread(t)' = NodesOfThread(t)
  BY DEF NodesOf, NodesOfThread
<1> USE DEF registry, interest
<1>2. ASSUME NEW t \in Threads, ManagerIdle, CancelCoThread(t) PROVE ManagerInv'
  <2>1. ManagerTypeOK'
    BY <1>2 DEF CancelCoThread, ManagerTypeOK
  <2>2. RecordsAgree'
    BY <1>1, <1>2, NullAssumption DEF CancelCoThread, RecordsAgree, ManagerIdle
  <2>3. CallsExclusive'
    <3>1. current_fd = Null
      BY <1>2 DEF ManagerIdle, CallsExclusive, NothingReady, ManagerTypeOK
    <3> QED  BY <1>2, <3>1 DEF CancelCoThread, CallsExclusive, ManagerIdle, NothingReady
  <2> QED  BY <2>1, <2>2, <2>3
<1>3. ASSUME NEW report \in [Fds -> SUBSET AllBits], ManagerIdle, EpollWait(report)
      PROVE  ManagerInv'
  <2>1. ManagerTypeOK'
    BY <1>3 DEF EpollWait, ManagerTypeOK
  <2>2. RecordsAgree'
    BY <1>1, <1>3 DEF EpollWait, RecordsAgree
  <2>3. CallsExclusive'
    <3>1. current_fd = Null
      BY <1>3 DEF ManagerIdle, CallsExclusive, NothingReady, ManagerTypeOK
    <3> QED  BY <1>3, <3>1 DEF EpollWait, CallsExclusive, ManagerIdle
  <2> QED  BY <2>1, <2>2, <2>3
<1>4. ASSUME NEW fd \in Fds, WalkFd(fd) PROVE ManagerInv'
  <2>1. ManagerTypeOK'
    BY <1>4 DEF WalkFd, ManagerTypeOK
  <2>2. RecordsAgree'
    BY <1>1, <1>4 DEF WalkFd, RecordsAgree
  <2>3. CallsExclusive'
    BY <1>4 DEF WalkFd, CallsExclusive, NothingReady
  <2> QED  BY <2>1, <2>2, <2>3
<1>5. ASSUME CancelDone PROVE ManagerInv'
  <2>1. leaving \in Threads /\ co_thread_record' = [co_thread_record EXCEPT ![leaving] = {}]
    BY <1>5 DEF CancelDone, ManagerTypeOK
  <2>2. ManagerTypeOK'
    BY <1>5, <2>1 DEF CancelDone, ManagerTypeOK
  <2>3. ASSUME NEW u \in Threads
        PROVE  /\ co_thread_record'[u] \cap DOMAIN node = NodesOfThread(u)
               /\ co_thread_record'[u] \subseteq DOMAIN node
    BY <1>5, <2>1 DEF CancelDone, RecordsAgree, ManagerTypeOK
  <2>4. RecordsAgree'
    BY <1>1, <1>5, <2>3 DEF CancelDone, RecordsAgree
  <2>5. CallsExclusive'
    BY <1>5 DEF CancelDone, CallsExclusive
  <2> QED  BY <2>2, <2>4, <2>5
<1>6. ASSUME WalkDone PROVE ManagerInv'
  <2>1. ManagerTypeOK'
    BY <1>6 DEF WalkDone, ManagerTypeOK
  <2>2. RecordsAgree'
    BY <1>1, <1>6 DEF WalkDone, RecordsAgree
  <2>3. CallsExclusive'
    BY <1>6 DEF WalkDone, CallsExclusive
  <2> QED  BY <2>1, <2>2, <2>3
<1> QED  BY <1>2, <1>3, <1>4, <1>5, <1>6

LEMMA CloseFdInv ==
  ASSUME ManagerInv, NEW fd \in Fds, CloseFd(fd)
  PROVE  ManagerInv'
<1> USE DEF ManagerInv
<1>1. UNCHANGED <<node, valid_event, fd_record, co_thread_record, event_cache, batch, current_fd, leaving>>
  BY DEF CloseFd, registry, walk
<1>2. ManagerTypeOK'
  BY <1>1 DEF CloseFd, ManagerTypeOK
<1>3. RecordsAgree'
  BY <1>1 DEF RecordsAgree, NodesOf, NodesOfThread
<1>4. CallsExclusive'
  BY <1>1 DEF CallsExclusive, NothingReady
<1> QED  BY <1>2, <1>3, <1>4

LEMMA FireEventInv ==
  ASSUME ManagerInv, NEW n \in Nodes, FireEvent(n)
  PROVE  ManagerInv'
<1>1. n \in DOMAIN node
  BY DEF FireEvent, ManagerInv, ManagerTypeOK, RecordsAgree, NodesOf
<1> QED  BY <1>1, DeleteAndForgetInv DEF FireEvent

LEMMA CancelEventInv ==
  ASSUME ManagerInv, NEW id \in Nodes, CancelEvent(id)
  PROVE  ManagerInv' \/ UNCHANGED managerVars
BY DeleteAndForgetInv DEF CancelEvent, ManagerInv, RecordsAgree

LEMMA ManagerStutterInv ==
  ASSUME ManagerInv, UNCHANGED managerVars
  PROVE  ManagerInv'
<1>1. UNCHANGED <<node, valid_event, fd_record, co_thread_record, event_cache, epoll, batch, current_fd, leaving>>
  BY DEF managerVars, registry, interest, walk
<1> QED
  BY <1>1 DEF ManagerInv, ManagerTypeOK, RecordsAgree, CallsExclusive, NodesOf, NodesOfThread, NothingReady

LEMMA ManagerStepInv == ManagerInv /\ [ManagerNext]_managerVars => ManagerInv'
<1> SUFFICES ASSUME ManagerInv, [ManagerNext]_managerVars PROVE ManagerInv'
  OBVIOUS
<1>1. ASSUME NEW n \in Nodes, NEW fd \in Fds, NEW t \in Threads, NEW events \in Usage[fd],
             ManagerIdle, AddEvent(n, fd, events, t)
      PROVE  ManagerInv'
  BY <1>1, AddEventInv, UsageMask DEF ManagerIdle
<1>2. ASSUME NEW id \in Nodes, CancelEvent(id) PROVE ManagerInv'
  BY <1>2, CancelEventInv, ManagerStutterInv
<1>3. CASE Request
  BY <1>1, <1>2, <1>3, WalkInv, CloseFdInv DEF Request
<1>4. CASE Progress
  BY <1>4, CancelNodeInv, FireEventInv, WalkInv DEF Progress
<1> QED  BY <1>3, <1>4, ManagerStutterInv DEF ManagerNext

\* The inductive invariant holds in every behaviour of the manager.
THEOREM ManagerInvariant == ManagerSpec => []ManagerInv
<1> QED  BY ManagerInitInv, ManagerStepInv, PTL DEF ManagerSpec

\* The registry is well typed, whatever masks are used and whether or not fds
\* are closed under the manager.
THEOREM ManagerTypes == ManagerSpec => []ManagerTypeOK
<1>1. ManagerInv => ManagerTypeOK
  BY DEF ManagerInv
<1> QED  BY <1>1, ManagerInvariant, PTL

\* The ids that delete_event accepts are exactly the allocated nodes, and the
\* records of the fds and of the cothreads agree with them at every step.
THEOREM RecordsAlwaysAgree == ManagerSpec => []RecordsAgree
<1>1. ManagerInv => RecordsAgree
  BY DEF ManagerInv
<1> QED  BY <1>1, ManagerInvariant, PTL

-----------------------------------------------------------------------------
(* What epoll watches.                                                     *)

\* The masks of the registered nodes are not empty.
LEMMA MaskOfNode ==
  ASSUME ManagerInv, NEW fd \in Fds, NEW n \in fd_record[fd]
  PROVE  /\ n \in DOMAIN node /\ node[n].fd = fd
         /\ node[n].events \in SUBSET Bits /\ node[n].events # {}
         /\ node[n].events \subseteq EventsIn(fd_record[fd])
<1>1. n \in DOMAIN node /\ node[n].fd = fd /\ node[n] \in NodeInfo
  BY DEF ManagerInv, ManagerTypeOK, RecordsAgree, NodesOf
<1>2. node[n].events \subseteq EventsIn(fd_record[fd])
  BY DEF EventsIn
<1> QED  BY <1>1, <1>2 DEF NodeInfo, Masks

\* A node that stays keeps its mask.
LEMMA EventsInStays ==
  ASSUME NEW S, \A m \in S : node'[m] = node[m]
  PROVE  EventsIn(S)' = EventsIn(S)
BY DEF EventsIn

\* What add_event does to one fd, and to the others.
LEMMA AddEventFacts ==
  ASSUME ManagerInv, NEW n \in Nodes, NEW fd \in Fds, NEW t \in Threads,
         NEW events \in Masks, AddEvent(n, fd, events, t)
  PROVE  /\ fd_record'[fd] = fd_record[fd] \cup {n}
         /\ n \notin fd_record[fd]
         /\ node'[n].events = events
         /\ \A m \in DOMAIN node : node'[m] = node[m]
         /\ EventsIn(fd_record[fd])' = EventsIn(fd_record[fd]) \cup events
         /\ event_cache' = event_cache
         /\ epoll' = InterestAdded(fd, events)
         /\ \A g \in Fds \ {fd} : /\ fd_record'[g] = fd_record[g]
                                  /\ EventsIn(fd_record[g])' = EventsIn(fd_record[g])
                                  /\ epoll'[g] = epoll[g]
<1> USE DEF ManagerInv
<1>1. /\ n \notin DOMAIN node
      /\ node'[n].events = events
      /\ \A m \in DOMAIN node : node'[m] = node[m]
      /\ event_cache' = event_cache
      /\ epoll' = InterestAdded(fd, events)
  BY DEF AddEvent
<1>2. /\ fd_record'[fd] = fd_record[fd] \cup {n}
      /\ \A g \in Fds \ {fd} : fd_record'[g] = fd_record[g]
  BY DEF AddEvent, ManagerTypeOK
<1>3. \A g \in Fds : fd_record[g] \subseteq DOMAIN node
  BY DEF RecordsAgree, NodesOf
<1>4. EventsIn(fd_record[fd])' = EventsIn(fd_record[fd]) \cup events
  <2>1. EventsIn(fd_record[fd])' = UNION {node'[m].events : m \in fd_record[fd] \cup {n}}
    BY <1>2 DEF EventsIn
  <2>2. \A m \in fd_record[fd] : node'[m].events = node[m].events
    BY <1>1, <1>3
  <2> QED  BY <1>1, <2>1, <2>2 DEF EventsIn
<1>5. \A g \in Fds \ {fd} : epoll'[g] = epoll[g]
  BY <1>1, InterestLocal DEF ManagerTypeOK, Masks
<1>6. ASSUME NEW g \in Fds \ {fd}
      PROVE  EventsIn(fd_record[g])' = EventsIn(fd_record[g])
  BY <1>1, <1>2, <1>3 DEF EventsIn
<1> QED  BY <1>1, <1>2, <1>3, <1>4, <1>5, <1>6

\* What delete_event does to one fd, and to the others.
LEMMA DeleteInterestFacts ==
  ASSUME ManagerInv, NEW n \in DOMAIN node, DeleteEvent(n), NEW fd, fd = node[n].fd
  PROVE  /\ fd \in Fds /\ n \in fd_record[fd]
         /\ EventsIn(fd_record[fd])' \in SUBSET Bits
         /\ event_cache'[fd] = EventsIn(fd_record[fd])'
         /\ epoll' = InterestLeft(fd, EventsIn(fd_record[fd])')
         /\ \A g \in Fds \ {fd} : /\ fd_record'[g] = fd_record[g]
                                  /\ EventsIn(fd_record[g])' = EventsIn(fd_record[g])
                                  /\ event_cache'[g] = event_cache[g]
                                  /\ epoll'[g] = epoll[g]
<1> USE DEF ManagerInv
<1> DEFINE left == EventsIn(fd_record[fd] \ {n})
<1>1. fd \in Fds /\ n \in fd_record[fd]
  BY DEF ManagerTypeOK, NodeInfo, RecordsAgree, NodesOf
<1>2. \A g \in Fds : fd_record'[g] = fd_record[g] \ {n} /\ fd_record'[g] \subseteq DOMAIN node'
  BY DeleteEventFacts DEF NodesOf
<1>3. \A m \in DOMAIN node' : node'[m] = node[m]
  BY DeleteEventFacts
<1>4. ASSUME NEW g \in Fds PROVE EventsIn(fd_record[g])' = EventsIn(fd_record[g] \ {n})
  BY <1>2, <1>3 DEF EventsIn
<1>5. \A g \in Fds \ {fd} : fd_record'[g] = fd_record[g] /\ fd_record[g] \ {n} = fd_record[g]
  BY <1>2 DEF RecordsAgree, NodesOf
<1>6. left \in SUBSET Bits
  <2>1. fd_record[fd] \ {n} \in SUBSET DOMAIN node
    BY <1>1 DEF RecordsAgree, NodesOf
  <2> QED  BY <2>1, EventsInType DEF ManagerTypeOK
<1>7. event_cache' = [event_cache EXCEPT ![fd] = left] /\ epoll' = InterestLeft(fd, left)
  BY DEF DeleteEvent
<1>8. EventsIn(fd_record[fd])' = left
  BY <1>1, <1>4
<1> HIDE DEF left
<1>9. event_cache'[fd] = left /\ \A g \in Fds \ {fd} : event_cache'[g] = event_cache[g]
  BY <1>1, <1>7 DEF ManagerTypeOK
<1>10. \A g \in Fds \ {fd} : epoll'[g] = epoll[g]
  BY <1>1, <1>6, <1>7, InterestLocal DEF ManagerTypeOK
<1>11. ASSUME NEW g \in Fds \ {fd} PROVE EventsIn(fd_record[g])' = EventsIn(fd_record[g])
  BY <1>4, <1>5
<1> QED  BY <1>1, <1>5, <1>6, <1>7, <1>8, <1>9, <1>10, <1>11

\* As far as the interest is concerned, a step of the manager is one of four.
LEMMA StepKinds ==
  ASSUME ManagerInv, [ManagerNext]_managerVars
  PROVE  \/ \E n \in Nodes, fd \in Fds, t \in Threads, events \in Masks :
              events \in Usage[fd] /\ AddEvent(n, fd, events, t)
         \/ \E n \in DOMAIN node : DeleteEvent(n)
         \/ \E fd \in Fds : CloseFd(fd)
         \/ UNCHANGED <<node, fd_record, event_cache, epoll>>
<1> DEFINE Kinds ==
      \/ \E n \in Nodes, fd \in Fds, t \in Threads, events \in Masks :
           events \in Usage[fd] /\ AddEvent(n, fd, events, t)
      \/ \E n \in DOMAIN node : DeleteEvent(n)
      \/ \E fd \in Fds : CloseFd(fd)
      \/ UNCHANGED <<node, fd_record, event_cache, epoll>>
<1> USE DEF registry, interest, walk, managerVars
<1>1. ASSUME NEW n \in Nodes, NEW fd \in Fds, NEW t \in Threads, NEW events \in Usage[fd],
             AddEvent(n, fd, events, t)
      PROVE  Kinds
  BY <1>1, UsageMask
<1>2. ASSUME NEW id \in Nodes, CancelEvent(id) PROVE Kinds
  BY <1>2 DEF CancelEvent, ManagerInv, RecordsAgree
<1>3. ASSUME NEW n \in Nodes, CancelNode(n) \/ FireEvent(n) PROVE Kinds
  <2>1. n \in DOMAIN node
    BY <1>3 DEF CancelNode, FireEvent, ManagerInv, ManagerTypeOK, RecordsAgree, NodesOf
  <2> QED  BY <1>3, <2>1 DEF CancelNode, FireEvent
<1>4. ASSUME NEW t, CancelCoThread(t) PROVE Kinds
  BY <1>4 DEF CancelCoThread
<1>5. ASSUME NEW report, EpollWait(report) PROVE Kinds
  BY <1>5 DEF EpollWait
<1>6. ASSUME NEW fd, WalkFd(fd) PROVE Kinds
  BY <1>6 DEF WalkFd
<1>7. CancelDone \/ WalkDone => Kinds
  BY DEF CancelDone, WalkDone
<1>8. CASE Request
  BY <1>1, <1>2, <1>4, <1>5, <1>8 DEF Request
<1>9. CASE Progress
  BY <1>3, <1>6, <1>7, <1>9 DEF Progress
<1>10. CASE UNCHANGED managerVars
  BY <1>10
<1> QED  BY <1>8, <1>9, <1>10 DEF ManagerNext

LEMMA NoOrphanStep ==
  ASSUME ManagerInv, NoOrphanInterest, [ManagerNext]_managerVars
  PROVE  NoOrphanInterest'
<1>1. ASSUME NEW n \in Nodes, NEW fd \in Fds, NEW t \in Threads, NEW events \in Masks,
             AddEvent(n, fd, events, t)
      PROVE  NoOrphanInterest'
  BY <1>1, AddEventFacts DEF NoOrphanInterest
<1>2. ASSUME NEW n \in DOMAIN node, DeleteEvent(n) PROVE NoOrphanInterest'
  <2> DEFINE fd == node[n].fd
  <2>1. PICK f : f = fd
    OBVIOUS
  <2>2. fd_record'[f] = {} => epoll'[f] = {}
    <3> SUFFICES ASSUME fd_record'[f] = {} PROVE epoll'[f] = {}
      OBVIOUS
    <3>1. EventsIn(fd_record[f])' = {}
      BY DEF EventsIn
    <3>2. epoll' = InterestLeft(f, {}) /\ f \in Fds
      BY <1>2, <2>1, <3>1, DeleteInterestFacts
    <3> QED  BY <3>2 DEF InterestLeft, EpollDel, ManagerInv, ManagerTypeOK
  <2>3. \A g \in Fds \ {f} : fd_record'[g] = fd_record[g] /\ epoll'[g] = epoll[g]
    BY <1>2, <2>1, DeleteInterestFacts
  <2> QED  BY <2>2, <2>3 DEF NoOrphanInterest
<1>3. ASSUME NEW fd \in Fds, CloseFd(fd) PROVE NoOrphanInterest'
  BY <1>3 DEF NoOrphanInterest, CloseFd, registry, ManagerInv, ManagerTypeOK
<1>4. UNCHANGED <<node, fd_record, event_cache, epoll>> => NoOrphanInterest'
  BY DEF NoOrphanInterest
<1> QED  BY <1>1, <1>2, <1>3, <1>4, StepKinds

\* epoll never watches an fd on which no event is registered: a cancelled or
\* consumed registration leaves nothing that would make epoll_wait spin.
THEOREM NoOrphanAlways == ManagerSpec => []NoOrphanInterest
<1>1. ManagerInit => NoOrphanInterest
  BY DEF ManagerInit, NoOrphanInterest
<1>2. ManagerInv /\ NoOrphanInterest /\ [ManagerNext]_managerVars => NoOrphanInterest'
  BY NoOrphanStep
<1> QED  BY <1>1, <1>2, ManagerInvariant, PTL DEF ManagerSpec

\* Nor does event_cache remember an fd without events.
CacheForgotten == \A fd \in Fds : fd_record[fd] = {} => event_cache[fd] = {}

LEMMA CacheForgottenStep ==
  ASSUME ManagerInv, CacheForgotten, [ManagerNext]_managerVars
  PROVE  CacheForgotten'
<1>1. ASSUME NEW n \in Nodes, NEW fd \in Fds, NEW t \in Threads, NEW events \in Masks,
             AddEvent(n, fd, events, t)
      PROVE  CacheForgotten'
  <2>1. \A g \in Fds : fd_record[g] \subseteq fd_record'[g]
    BY <1>1 DEF AddEvent, ManagerInv, ManagerTypeOK
  <2> QED  BY <1>1, <2>1 DEF CacheForgotten, AddEvent
<1>2. ASSUME NEW n \in DOMAIN node, DeleteEvent(n) PROVE CacheForgotten'
  <2>1. PICK f : f = node[n].fd
    OBVIOUS
  <2>2. ASSUME fd_record'[f] = {} PROVE event_cache'[f] = {}
    <3>1. EventsIn(fd_record[f])' = {}
      BY <2>2 DEF EventsIn
    <3> QED  BY <1>2, <2>1, <3>1, DeleteInterestFacts
  <2>3. \A g \in Fds \ {f} : fd_record'[g] = fd_record[g] /\ event_cache'[g] = event_cache[g]
    BY <1>2, <2>1, DeleteInterestFacts
  <2> QED  BY <2>2, <2>3 DEF CacheForgotten
<1>3. ASSUME NEW fd \in Fds, CloseFd(fd) PROVE CacheForgotten'
  BY <1>3 DEF CacheForgotten, CloseFd, registry
<1>4. UNCHANGED <<node, fd_record, event_cache, epoll>> => CacheForgotten'
  BY DEF CacheForgotten
<1> QED  BY <1>1, <1>2, <1>3, <1>4, StepKinds

LEMMA CacheForgottenAlways == ManagerSpec => []CacheForgotten
<1>1. ManagerInit => CacheForgotten
  BY DEF ManagerInit, CacheForgotten
<1>2. ManagerInv /\ CacheForgotten /\ [ManagerNext]_managerVars => CacheForgotten'
  BY CacheForgottenStep
<1> QED  BY <1>1, <1>2, ManagerInvariant, PTL DEF ManagerSpec

\* The first event of an fd is watched for as it asks, whatever became of the fd
\* before.
LEMMA FirstIsWatched ==
  ASSUME ManagerInv, NoOrphanInterest, CacheForgotten, NEW n, NEW fd \in Fds, NEW events, NEW t,
         AddEvent(n, fd, events, t), \A m \in DOMAIN node : node[m].fd # fd
  PROVE  epoll' = [epoll EXCEPT ![fd] = events]
<1>1. fd_record[fd] = {}
  BY DEF ManagerInv, RecordsAgree, NodesOf
<1>2. epoll[fd] = {} /\ event_cache[fd] = {}
  BY <1>1 DEF NoOrphanInterest, CacheForgotten
<1> QED  BY <1>2 DEF AddEvent, InterestAdded, EpollAdd

\* The interest in an fd changes with the events of that fd only.
LEMMA DeletedIsForgotten ==
  ASSUME ManagerInv, NEW n \in DOMAIN node, DeleteEvent(n)
  PROVE  /\ DOMAIN node' = DOMAIN node \ {n}
         /\ \A m \in DOMAIN node' : node'[m] = node[m]
         /\ \A fd \in Fds : fd # node[n].fd => epoll'[fd] = epoll[fd]
<1>1. PICK f : f = node[n].fd
  OBVIOUS
<1>2. \A g \in Fds \ {f} : epoll'[g] = epoll[g]
  BY <1>1, DeleteInterestFacts
<1> QED  BY <1>1, <1>2, DeleteEventFacts DEF ManagerInv

-----------------------------------------------------------------------------
(* NeverBlind and CacheSound, of the fds not closed under the manager.     *)
(* While event_cache says nothing of an fd, no registration was ever       *)
(* removed from it, and epoll still has the mask of the first one: later   *)
(* EPOLL_CTL_ADDs failed.                                                  *)

FirstMask ==
  \A fd \in Kept : event_cache[fd] = {} /\ fd_record[fd] # {} =>
                     \E n \in fd_record[fd] : epoll[fd] = node[n].events

InterestInv == CacheSound /\ FirstMask /\ NoOrphanInterest

LEMMA InterestInvNotBlind ==
  ASSUME ManagerInv, InterestInv
  PROVE  NeverBlind
<1> USE DEF Kept
<1> SUFFICES ASSUME NEW fd \in Kept, fd_record[fd] # {}
             PROVE  epoll[fd] \cap EventsIn(fd_record[fd]) # {}
  BY DEF NeverBlind
<1>1. CASE event_cache[fd] = {}
  <2>1. PICK n \in fd_record[fd] : epoll[fd] = node[n].events
    BY <1>1 DEF InterestInv, FirstMask
  <2> QED  BY <2>1, MaskOfNode
<1>2. CASE event_cache[fd] # {}
  BY <1>2 DEF InterestInv, CacheSound
<1> QED  BY <1>1, <1>2

LEMMA InterestInvAdd ==
  ASSUME ManagerInv, InterestInv, NEW n \in Nodes, NEW fd \in Fds, NEW t \in Threads,
         NEW events \in Masks, AddEvent(n, fd, events, t)
  PROVE  CacheSound' /\ FirstMask'
<1> USE DEF Kept
<1>1. ASSUME fd \in Kept
      PROVE  event_cache[fd] \subseteq EventsIn(fd_record[fd])' /\ event_cache[fd] \subseteq epoll'[fd]
  <2>1. event_cache[fd] \subseteq epoll[fd] /\ event_cache[fd] \subseteq EventsIn(fd_record[fd])
    BY <1>1 DEF InterestInv, CacheSound
  <2>2. event_cache[fd] \subseteq InterestAdded(fd, events)[fd]
    BY <2>1 DEF InterestAdded, EpollAdd, EpollMod, ManagerInv, ManagerTypeOK
  <2> QED  BY <2>1, <2>2, AddEventFacts
<1>2. CacheSound'
  BY <1>1, AddEventFacts DEF CacheSound, InterestInv
<1>3. ASSUME fd \in Kept, event_cache[fd] = {}
      PROVE  \E m \in fd_record'[fd] : epoll'[fd] = node'[m].events
  <2>1. epoll'[fd] = IF epoll[fd] = {} THEN events ELSE epoll[fd]
    <3>1. epoll' = EpollAdd(fd, events)
      BY <1>3, AddEventFacts DEF InterestAdded
    <3> QED  BY <3>1 DEF EpollAdd, ManagerInv, ManagerTypeOK
  <2>2. CASE epoll[fd] = {}
    BY <2>1, <2>2, AddEventFacts
  <2>3. CASE epoll[fd] # {}
    <3>1. PICK m \in fd_record[fd] : epoll[fd] = node[m].events
      BY <1>3, <2>3 DEF InterestInv, FirstMask, NoOrphanInterest
    <3>2. m \in DOMAIN node
      BY MaskOfNode
    <3> QED  BY <2>1, <2>3, <3>1, <3>2, AddEventFacts
  <2> QED  BY <2>2, <2>3
<1>4. ASSUME NEW g \in Kept \ {fd}, event_cache[g] = {}, fd_record[g] # {}
      PROVE  \E m \in fd_record'[g] : epoll'[g] = node'[m].events
  <2>1. PICK m \in fd_record[g] : epoll[g] = node[m].events
    BY <1>4 DEF InterestInv, FirstMask
  <2>2. m \in DOMAIN node
    BY MaskOfNode
  <2> QED  BY <2>1, <2>2, AddEventFacts
<1>5. FirstMask'
  BY <1>3, <1>4, AddEventFacts DEF FirstMask
<1> QED  BY <1>2, <1>5

LEMMA InterestInvDelete ==
  ASSUME ManagerInv, InterestInv, NEW n \in DOMAIN node, DeleteEvent(n)
  PROVE  CacheSound' /\ FirstMask'
<1> USE DEF Kept
<1>1. PICK f \in Fds : f = node[n].fd
  BY DEF ManagerInv, ManagerTypeOK, NodeInfo
<1>2. /\ n \in fd_record[f]
      /\ event_cache'[f] = EventsIn(fd_record[f])'
      /\ epoll' = InterestLeft(f, EventsIn(fd_record[f])')
      /\ \A g \in Fds \ {f} : /\ fd_record'[g] = fd_record[g]
                              /\ EventsIn(fd_record[g])' = EventsIn(fd_record[g])
                              /\ event_cache'[g] = event_cache[g]
                              /\ epoll'[g] = epoll[g]
  BY <1>1, DeleteInterestFacts
<1>3. ASSUME f \in Kept PROVE event_cache'[f] \subseteq epoll'[f]
  <2>1. epoll[f] # {} /\ event_cache[f] \subseteq epoll[f]
    BY <1>2, <1>3, InterestInvNotBlind DEF NeverBlind, InterestInv, CacheSound
  <2> QED  BY <1>2, <2>1 DEF InterestLeft, EpollDel, EpollMod, ManagerInv, ManagerTypeOK
<1>4. CacheSound'
  BY <1>2, <1>3 DEF CacheSound, InterestInv
<1>5. event_cache'[f] = {} => fd_record'[f] = {}
  <2> SUFFICES ASSUME NEW m \in fd_record'[f] PROVE EventsIn(fd_record[f])' # {}
    BY <1>2
  <2>1. ManagerTypeOK /\ RecordsAgree
    BY DEF ManagerInv
  <2>2. m \in fd_record[f] /\ node'[m] = node[m]
    <3>1. fd_record'[f] = fd_record[f] \ {n} /\ fd_record'[f] = NodesOf(f)'
      BY <2>1, DeleteEventFacts
    <3>2. m \in DOMAIN node'
      BY <3>1 DEF NodesOf
    <3> QED  BY <2>1, <3>1, <3>2, DeleteEventFacts
  <2>3. node'[m].events # {}
    BY <2>2, MaskOfNode
  <2> QED  BY <2>3 DEF EventsIn
<1>6. ASSUME NEW g \in Kept \ {f}, event_cache[g] = {}, fd_record[g] # {}
      PROVE  \E m \in fd_record'[g] : epoll'[g] = node'[m].events
  <2>1. PICK m \in fd_record[g] : epoll[g] = node[m].events
    BY <1>6 DEF InterestInv, FirstMask
  <2>2. m \in DOMAIN node /\ m # n
    BY <1>1, MaskOfNode
  <2>3. ManagerTypeOK /\ RecordsAgree
    BY DEF ManagerInv
  <2>4. node'[m] = node[m]
    BY <2>2, <2>3, DeleteEventFacts
  <2> QED  BY <1>2, <2>1, <2>4
<1>7. FirstMask'
  BY <1>2, <1>5, <1>6 DEF FirstMask
<1> QED  BY <1>4, <1>7

LEMMA InterestStep ==
  ASSUME ManagerInv, InterestInv, [ManagerNext]_managerVars
  PROVE  InterestInv'
<1>1. NoOrphanInterest'
  BY NoOrphanStep DEF InterestInv
<1>2. ASSUME UNCHANGED <<node, fd_record, event_cache, epoll>>
      PROVE  CacheSound' /\ FirstMask'
  BY <1>2 DEF InterestInv, CacheSound, FirstMask, EventsIn
<1>3. ASSUME NEW fd \in Fds, CloseFd(fd) PROVE CacheSound' /\ FirstMask'
  <2>1. /\ UNCHANGED <<node, fd_record, event_cache>>
        /\ \A g \in Kept : epoll'[g] = epoll[g]
    BY <1>3 DEF CloseFd, Kept, registry, ManagerInv, ManagerTypeOK
  <2> QED  BY <2>1 DEF InterestInv, CacheSound, FirstMask, EventsIn
<1> QED
  BY <1>1, <1>2, <1>3, InterestInvAdd, InterestInvDelete, StepKinds DEF InterestInv

LEMMA InterestInvariant == ManagerSpec => []InterestInv
<1>1. ManagerInit => InterestInv
  BY DEF Kept, ManagerInit, InterestInv, CacheSound, FirstMask, NoOrphanInterest
<1>2. ManagerInv /\ InterestInv /\ [ManagerNext]_managerVars => InterestInv'
  BY InterestStep
<1> QED  BY <1>1, <1>2, ManagerInvariant, PTL DEF ManagerSpec

\* epoll watches every fd that has registered events for at least one of them,
\* however masks are mixed and whichever epoll_ctl calls fail with EEXIST, unless
\* that fd is closed while it has events.
THEOREM NeverBlindAlways == ManagerSpec => []NeverBlind
<1>1. ManagerInv /\ InterestInv => NeverBlind
  BY InterestInvNotBlind
<1> QED  BY <1>1, ManagerInvariant, InterestInvariant, PTL

\* What event_cache says epoll watches is watched, and is still wanted, unless the
\* fd is closed while it has events.
THEOREM CacheSoundAlways == ManagerSpec => []CacheSound
<1>1. InterestInv => CacheSound
  BY DEF InterestInv
<1> QED  BY <1>1, InterestInvariant, PTL

-----------------------------------------------------------------------------
(* InterestExact, of those of these fds that are used with one mask.       *)

MasksInUse == \A n \in DOMAIN node : node[n].events \in Usage[node[n].fd]

LEMMA MasksInUseStep ==
  ASSUME ManagerInv, MasksInUse, [ManagerNext]_managerVars
  PROVE  MasksInUse'
<1>1. ASSUME NEW n \in Nodes, NEW fd \in Fds, NEW t \in Threads, NEW events \in Masks,
             events \in Usage[fd], AddEvent(n, fd, events, t)
      PROVE  MasksInUse'
  <2>1. node'[n] = [fd |-> fd, events |-> events, thread_ptr |-> t]
    BY <1>1 DEF AddEvent
  <2>2. /\ DOMAIN node' = DOMAIN node \cup {n}
        /\ \A m \in DOMAIN node : node'[m] = node[m]
    BY <1>1 DEF AddEvent
  <2> QED  BY <1>1, <2>1, <2>2 DEF MasksInUse
<1>2. ASSUME NEW n \in DOMAIN node, DeleteEvent(n) PROVE MasksInUse'
  <2>1. /\ DOMAIN node' = DOMAIN node \ {n}
        /\ \A m \in DOMAIN node' : node'[m] = node[m]
    BY <1>2, DeleteEventFacts DEF ManagerInv
  <2> QED  BY <2>1 DEF MasksInUse
<1>3. ASSUME UNCHANGED node PROVE MasksInUse'
  BY <1>3 DEF MasksInUse
<1>4. ASSUME NEW fd \in Fds, CloseFd(fd) PROVE UNCHANGED node
  BY <1>4 DEF CloseFd, registry
<1> QED  BY <1>1, <1>2, <1>3, <1>4, StepKinds

\* With one mask, all the nodes of an fd wait for what any of them waits for.
LEMMA OneMaskForAll ==
  ASSUME ManagerInv, MasksInUse, NEW fd \in Fds, SingleMask(fd), NEW mask \in Usage[fd],
         NEW S \in SUBSET fd_record[fd], S # {}
  PROVE  EventsIn(S) = mask
<1>1. \A n \in S : node[n].events = mask
  <2> TAKE n \in S
  <2>1. n \in DOMAIN node /\ node[n].fd = fd
    BY MaskOfNode
  <2> QED  BY <2>1 DEF MasksInUse, SingleMask
<1> QED  BY <1>1 DEF EventsIn

LEMMA ExactAdd ==
  ASSUME ManagerInv, InterestInv, MasksInUse, InterestExact,
         NEW n \in Nodes, NEW fd \in Fds, NEW t \in Threads, NEW events \in Masks,
         events \in Usage[fd], AddEvent(n, fd, events, t)
  PROVE  InterestExact'
<1> USE DEF Kept
<1> SUFFICES ASSUME fd \in Kept, SingleMask(fd) PROVE epoll'[fd] = EventsIn(fd_record[fd])'
  BY AddEventFacts DEF InterestExact
<1>1. epoll[fd] = EventsIn(fd_record[fd]) /\ event_cache[fd] \subseteq epoll[fd]
  BY DEF InterestExact, InterestInv, CacheSound
<1>2. epoll[fd] \in {{}, events}
  <2>1. fd_record[fd] = {} => EventsIn(fd_record[fd]) = {}
    BY DEF EventsIn
  <2> QED  BY <1>1, <2>1, OneMaskForAll
<1>3. InterestAdded(fd, events)[fd] = epoll[fd] \cup events
  BY <1>1, <1>2 DEF InterestAdded, EpollAdd, EpollMod, ManagerInv, ManagerTypeOK
<1>4. EventsIn(fd_record[fd])' = EventsIn(fd_record[fd]) \cup events /\ epoll' = InterestAdded(fd, events)
  BY AddEventFacts
<1> QED  BY <1>1, <1>3, <1>4

LEMMA ExactDelete ==
  ASSUME ManagerInv, InterestInv, MasksInUse, InterestExact,
         NEW n \in DOMAIN node, DeleteEvent(n)
  PROVE  InterestExact'
<1> USE DEF Kept
<1>1. PICK f \in Fds : f = node[n].fd
  BY DEF ManagerInv, ManagerTypeOK, NodeInfo
<1> DEFINE left == EventsIn(fd_record[f] \ {n})
<1>2. /\ n \in fd_record[f]
      /\ epoll' = InterestLeft(f, EventsIn(fd_record[f])')
      /\ \A g \in Fds \ {f} : /\ EventsIn(fd_record[g])' = EventsIn(fd_record[g])
                              /\ epoll'[g] = epoll[g]
  BY <1>1, DeleteInterestFacts
<1>3. EventsIn(fd_record[f])' = left
  <2>1. fd_record'[f] = fd_record[f] \ {n} /\ fd_record'[f] = NodesOf(f)'
    BY DeleteEventFacts DEF ManagerInv
  <2>2. \A m \in fd_record'[f] : node'[m] = node[m]
    BY <2>1, DeleteEventFacts DEF ManagerInv, NodesOf
  <2> QED  BY <2>1, <2>2 DEF EventsIn
<1>4. ASSUME f \in Kept, SingleMask(f)
      PROVE  left \in {{}, node[n].events} /\ epoll[f] = node[n].events
  <2>1. node[n].events \in Usage[f]
    BY <1>1 DEF MasksInUse
  <2>2. EventsIn({}) = {}
    BY DEF EventsIn
  <2>3. \A S \in SUBSET fd_record[f] : S # {} => EventsIn(S) = node[n].events
    BY <1>4, <2>1, OneMaskForAll
  <2> QED  BY <1>2, <1>4, <2>2, <2>3 DEF InterestExact
<1> HIDE DEF left
<1>5. ASSUME f \in Kept, SingleMask(f) PROVE epoll'[f] = left
  <2>1. node[n].events # {}
    BY <1>2, MaskOfNode
  <2> QED
    BY <1>2, <1>3, <1>4, <1>5, <2>1 DEF InterestLeft, EpollDel, EpollMod, ManagerInv, ManagerTypeOK
<1> QED  BY <1>2, <1>3, <1>5 DEF InterestExact

LEMMA ExactStep ==
  ASSUME ManagerInv, InterestInv, MasksInUse, InterestExact, [ManagerNext]_managerVars
  PROVE  InterestExact'
<1>1. ASSUME UNCHANGED <<node, fd_record, event_cache, epoll>> PROVE InterestExact'
  BY <1>1 DEF InterestExact, EventsIn
<1>2. ASSUME NEW fd \in Fds, CloseFd(fd) PROVE InterestExact'
  <2>1. UNCHANGED <<node, fd_record>> /\ \A g \in Kept : epoll'[g] = epoll[g]
    BY <1>2 DEF CloseFd, Kept, registry, ManagerInv, ManagerTypeOK
  <2> QED  BY <2>1 DEF InterestExact, EventsIn
<1> QED  BY <1>1, <1>2, ExactAdd, ExactDelete, StepKinds

\* epoll watches exactly the registered events of an fd that is used with one mask
\* and never closed while it has events, whatever happens on the other fds:
\* neither a lost nor a spurious wake-up can come from its interest.
THEOREM InterestExactAlways == ManagerSpec => []InterestExact
<1>1. ManagerInit => MasksInUse /\ InterestExact
  BY DEF Kept, ManagerInit, MasksInUse, InterestExact, EventsIn
<1>2. ManagerInv /\ InterestInv /\ MasksInUse /\ InterestExact /\ [ManagerNext]_managerVars
        => MasksInUse' /\ InterestExact'
  BY MasksInUseStep, ExactStep
<1> QED  BY <1>1, <1>2, ManagerInvariant, InterestInvariant, PTL DEF ManagerSpec

=============================================================================
