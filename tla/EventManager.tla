---------------------------- MODULE EventManager ----------------------------
(***************************************************************************)
(* co_event_manager (src/co_event_manager.cpp): the registry of one-shot   *)
(* events of the cothreads, and the epoll interest it programs for them.   *)
(*                                                                         *)
(* An event_info_node is known to its user by its address (the event id).  *)
(* The heap of nodes is a partial function: its domain is the set of       *)
(* allocated nodes, which is also the content of the doubly linked list    *)
(* `head' (module NodeRing has the list itself).  A map entry that is      *)
(* missing and one that is the empty set or the empty mask are the same    *)
(* value here.  An event mask is a set of bits.                            *)
(*                                                                         *)
(* handle_event and cancel_co_thread loop over nodes; each turn of the     *)
(* loop is a step, in any order, because the std::set they walk is ordered *)
(* by address and the allocator may have placed the nodes in any order.    *)
(***************************************************************************)
EXTENDS Functions

CONSTANTS
  Threads,         (* the addresses of co_thread objects                   *)
  Nodes,           (* the addresses of event_info_node objects             *)
  Fds,             (* the file descriptors                                 *)
  Bits,            (* the event bits a user may ask for: EPOLLIN, EPOLLOUT *)
  ErrBits,         (* EPOLLERR and EPOLLHUP, reported without being asked  *)
  Usage,           (* the masks the cothreads register, for each fd        *)
  Closable,        (* the fds that are closed while they have events       *)
  Null

ASSUME NullAssumption == Null \notin Threads \cup Nodes \cup Fds
ASSUME BitsAssumption == Bits \cap ErrBits = {}
ASSUME UsageAssumption == Usage \in [Fds -> SUBSET ((SUBSET Bits) \ {{}})]
ASSUME CloseAssumption == Closable \subseteq Fds

VARIABLES
  node,             (* the allocated nodes: [fd, events, thread_ptr]       *)
  valid_event,      (* the ids delete_event accepts                        *)
  fd_record,        (* the nodes of an fd                                  *)
  co_thread_record, (* the nodes of a cothread                             *)
  event_cache,      (* the mask the manager believes epoll has for an fd   *)
  epoll,            (* the mask epoll has for an fd                        *)
  batch,            (* handle_event: the events[] not yet processed        *)
  current_fd,       (* handle_event: the fd whose nodes are being walked   *)
  leaving           (* cancel_co_thread: the thread whose nodes are walked *)

registry == <<node, valid_event, fd_record, co_thread_record>>
interest == <<event_cache, epoll>>
walk == <<batch, current_fd, leaving>>
managerVars == <<registry, interest, walk>>

Masks == (SUBSET Bits) \ {{}}
AllBits == Bits \cup ErrBits
NodeInfo == [fd : Fds, events : Masks, thread_ptr : Threads]
NothingReady == [fd \in Fds |-> {}]

\* No call into the manager is in progress.
ManagerIdle == batch = NothingReady /\ leaving = Null

NodesOf(fd) == {n \in DOMAIN node : node[n].fd = fd}
NodesOfThread(t) == {n \in DOMAIN node : node[n].thread_ptr = t}
EventsIn(S) == UNION {node[n].events : n \in S}

-----------------------------------------------------------------------------
(* epoll_ctl, as the kernel answers it; the manager ignores the result.    *)

\* EPOLL_CTL_ADD fails with EEXIST on an fd that is being watched.
EpollAdd(fd, mask) == IF epoll[fd] = {} THEN [epoll EXCEPT ![fd] = mask] ELSE epoll

\* EPOLL_CTL_MOD fails with ENOENT on an fd that is not.
EpollMod(fd, mask) == IF epoll[fd] = {} THEN epoll ELSE [epoll EXCEPT ![fd] = mask]

EpollDel(fd) == [epoll EXCEPT ![fd] = {}]

-----------------------------------------------------------------------------
ManagerInit ==
  /\ node = [n \in {} |-> Null]
  /\ valid_event = {}
  /\ fd_record = [fd \in Fds |-> {}]
  /\ co_thread_record = [t \in Threads |-> {}]
  /\ event_cache = [fd \in Fds |-> {}]
  /\ epoll = [fd \in Fds |-> {}]
  /\ batch = NothingReady
  /\ current_fd = Null
  /\ leaving = Null

\* Mutations of add_event: it asks for the error bits as well; it modifies an
\* interest that is not there.
InterestAddedWithErrors(fd, events) ==
  IF event_cache[fd] = {} THEN EpollAdd(fd, events \cup ErrBits)
  ELSE IF events \subseteq event_cache[fd] THEN epoll
  ELSE EpollMod(fd, event_cache[fd] \cup events)

InterestAddedByMod(fd, events) ==
  IF events \subseteq event_cache[fd] THEN epoll
  ELSE EpollMod(fd, event_cache[fd] \cup events)

\* add_event: which epoll_ctl the new events need.  event_cache is read and
\* never written here.
InterestAdded(fd, events) ==
  IF event_cache[fd] = {} THEN EpollAdd(fd, events)
  ELSE IF events \subseteq event_cache[fd] THEN epoll
  ELSE EpollMod(fd, event_cache[fd] \cup events)

\* add_event(fd, events, t), where `new' put the node at address n.
AddEvent(n, fd, events, t) ==
  /\ n \notin DOMAIN node
  /\ node' = [m \in DOMAIN node \cup {n} |->
                IF m = n THEN [fd |-> fd, events |-> events, thread_ptr |-> t] ELSE node[m]]
  /\ valid_event' = valid_event \cup {n}
  /\ fd_record' = [fd_record EXCEPT ![fd] = @ \cup {n}]
  /\ co_thread_record' = [co_thread_record EXCEPT ![t] = @ \cup {n}]
  /\ epoll' = InterestAdded(fd, events)
  /\ UNCHANGED <<event_cache, walk>>

\* Mutations of delete_event: it removes the interest with the last event but does
\* not reduce it before; it adds where it should modify; it takes a cache without
\* an entry for one that says 0.
InterestLeftNotReduced(fd, events) ==
  IF events = {} THEN EpollDel(fd) ELSE epoll

InterestLeftByAdd(fd, events) ==
  IF events = {} THEN EpollDel(fd)
  ELSE IF event_cache[fd] = events THEN epoll
  ELSE EpollAdd(fd, events)

InterestLeftTrustsCache(fd, events) ==
  IF event_cache[fd] = events THEN epoll
  ELSE IF events = {} THEN EpollDel(fd)
  ELSE EpollMod(fd, events)

\* The tail of delete_event: epoll is told of the events that remain on the fd,
\* unless the cache says that it has them.
InterestLeft(fd, events) ==
  IF events = {} THEN EpollDel(fd)
  ELSE IF event_cache[fd] = events THEN epoll
  ELSE EpollMod(fd, events)

\* delete_event, but for co_thread_record, which its callers treat differently.
DeleteEvent(n) ==
  LET fd == node[n].fd
      left == EventsIn(fd_record[fd] \ {n})
  IN  /\ valid_event' = valid_event \ {n}
      /\ fd_record' = [fd_record EXCEPT ![fd] = @ \ {n}]
      /\ event_cache' = [event_cache EXCEPT ![fd] = left]
      /\ epoll' = InterestLeft(fd, left)
      /\ node' = Restrict(node, DOMAIN node \ {n})

\* Mutation: modify_co_thread_record is false for every caller.
ForgetNowhere(n) == n \in Nodes /\ UNCHANGED co_thread_record

ForgetInThread(n) ==
  co_thread_record' = [co_thread_record EXCEPT ![node[n].thread_ptr] = @ \ {n}]

\* cancel_event(id): an id that is not valid is ignored.
CancelEvent(id) ==
  \/ /\ id \in valid_event
     /\ DeleteEvent(id)
     /\ ForgetInThread(id)
     /\ UNCHANGED walk
  \/ /\ id \notin valid_event
     /\ UNCHANGED managerVars

-----------------------------------------------------------------------------
(* cancel_co_thread(t): every node of t is deleted, then the record of t.  *)

CancelCoThread(t) ==
  /\ leaving' = t
  /\ UNCHANGED <<registry, interest, batch, current_fd>>

CancelNode(n) ==
  /\ leaving # Null
  /\ n \in co_thread_record[leaving] \cap valid_event
  /\ DeleteEvent(n)
  /\ UNCHANGED <<co_thread_record, walk>>

\* Mutation: the loop over its nodes is left early.
CancelDoneEarly ==
  /\ leaving # Null
  /\ co_thread_record' = [co_thread_record EXCEPT ![leaving] = {}]
  /\ leaving' = Null
  /\ UNCHANGED <<node, valid_event, fd_record, interest, batch, current_fd>>

CancelDone ==
  /\ leaving # Null
  /\ co_thread_record[leaving] \cap valid_event = {}
  /\ co_thread_record' = [co_thread_record EXCEPT ![leaving] = {}]
  /\ leaving' = Null
  /\ UNCHANGED <<node, valid_event, fd_record, interest, batch, current_fd>>

-----------------------------------------------------------------------------
(* handle_event: epoll_wait, then every reported fd, then every node of it *)
(* that the report matches.                                                *)

\* What epoll_wait may report: watched fds only, bits that were asked for or
\* error bits.  A ready fd may be left for the next call (events[] has 200).
PossibleReport(report) ==
  \A fd \in Fds : /\ report[fd] \subseteq epoll[fd] \cup ErrBits
                  /\ epoll[fd] = {} => report[fd] = {}

EpollWait(report) ==
  /\ PossibleReport(report)
  /\ batch' = report
  /\ UNCHANGED <<registry, interest, current_fd, leaving>>

WalkFd(fd) ==
  /\ current_fd = Null
  /\ batch[fd] # {}
  /\ current_fd' = fd
  /\ UNCHANGED <<registry, interest, batch, leaving>>

\* The `ev' of a node of the current fd; the node is left alone if it is empty.
EventFor(n) == batch[current_fd] \cap (ErrBits \cup node[n].events)

\* func(thread, fd, ev), delete_event and the erasure from fd_record.
FireEvent(n) ==
  /\ current_fd # Null
  /\ n \in fd_record[current_fd]
  /\ EventFor(n) # {}
  /\ DeleteEvent(n)
  /\ ForgetInThread(n)
  /\ UNCHANGED walk

WalkDone ==
  /\ current_fd # Null
  /\ \A n \in fd_record[current_fd] : EventFor(n) = {}
  /\ batch' = [batch EXCEPT ![current_fd] = {}]
  /\ current_fd' = Null
  /\ UNCHANGED <<registry, interest, leaving>>

-----------------------------------------------------------------------------
\* A user closes an fd: the kernel forgets it, the manager is not told.  The
\* number may be in use for another file when it is next registered.
CloseFd(fd) ==
  /\ fd \in Closable
  /\ epoll[fd] # {}
  /\ epoll' = [epoll EXCEPT ![fd] = {}]
  /\ UNCHANGED <<registry, event_cache, walk>>

\* What a cothread may ask of the manager while it runs.
Request ==
  /\ ManagerIdle
  /\ \/ \E n \in Nodes, fd \in Fds, t \in Threads :
          \E events \in Usage[fd] : AddEvent(n, fd, events, t)
     \/ \E id \in Nodes : CancelEvent(id)
     \/ \E t \in Threads : CancelCoThread(t)
     \/ \E fd \in Fds : CloseFd(fd)
     \/ \E report \in [Fds -> SUBSET AllBits] : EpollWait(report)

\* What the manager does until the call returns.
Progress ==
  \/ \E n \in Nodes : CancelNode(n)
  \/ CancelDone
  \/ \E fd \in Fds : WalkFd(fd)
  \/ \E n \in Nodes : FireEvent(n)
  \/ WalkDone

ManagerNext == Request \/ Progress

ManagerSpec == ManagerInit /\ [][ManagerNext]_managerVars

-----------------------------------------------------------------------------
ManagerTypeOK ==
  /\ DOMAIN node \subseteq Nodes
  /\ node \in [DOMAIN node -> NodeInfo]
  /\ valid_event \subseteq Nodes
  /\ fd_record \in [Fds -> SUBSET Nodes]
  /\ co_thread_record \in [Threads -> SUBSET Nodes]
  /\ event_cache \in [Fds -> SUBSET Bits]
  /\ epoll \in [Fds -> SUBSET Bits]
  /\ batch \in [Fds -> SUBSET AllBits]
  /\ current_fd \in Fds \cup {Null}
  /\ leaving \in Threads \cup {Null}

\* The four views of the registrations agree: the ids that delete_event accepts
\* are exactly the allocated nodes (it dereferences the id once it has accepted
\* it, co_event_manager.cpp:88-92), and the record of an fd or of a cothread has
\* its nodes and no other.  Only the record of a cothread that is being
\* cancelled may hold nodes that are gone, until cancel_co_thread erases it.
RecordsAgree ==
  /\ valid_event = DOMAIN node
  /\ \A fd \in Fds : fd_record[fd] = NodesOf(fd)
  /\ \A t \in Threads : co_thread_record[t] \cap DOMAIN node = NodesOfThread(t)
  /\ \A t \in Threads : t # leaving => co_thread_record[t] \subseteq DOMAIN node

\* The calls are not reentered: a walk over the reported events is over before
\* the next call, and no cancellation is under way during it.
CallsExclusive ==
  /\ current_fd # Null => batch[current_fd] # {} /\ leaving = Null
  /\ leaving # Null => batch = NothingReady

\* The fds whose interest only the manager changes.
Kept == Fds \ Closable

\* However masks are mixed on an fd, epoll never loses sight of it: an fd with
\* registered events is watched for a bit that one of them waits for, so that
\* the readiness of that bit wakes a cothread (add_event ignores a failed
\* epoll_ctl, co_event_manager.cpp:65-81).  Fds closed under the manager are the
\* exception.
NeverBlind ==
  \A fd \in Kept : fd_record[fd] # {} => epoll[fd] \cap EventsIn(fd_record[fd]) # {}

\* event_cache errs on one side only: what it says epoll watches, epoll watches,
\* and some registered event waits for it.  add_event skips epoll_ctl on the
\* strength of the first half (co_event_manager.cpp:69), delete_event on that of
\* the second (115).  Again, unless the fd is closed while it has events.
CacheSound ==
  \A fd \in Kept : event_cache[fd] \subseteq epoll[fd] \cap EventsIn(fd_record[fd])

\* "event_cache: fd:events cache keep sync with epoll internal status"
\* (co_event_manager.h:17): an entry is what epoll watches.  delete_event leaves
\* epoll alone when the entry is what remains (co_event_manager.cpp:115).
CacheInSync == \A fd \in Kept : event_cache[fd] # {} => epoll[fd] = event_cache[fd]

\* An fd without registered events is not watched: epoll_wait would otherwise
\* return at once, for ever, with an event that concerns nobody.
NoOrphanInterest == \A fd \in Fds : fd_record[fd] = {} => epoll[fd] = {}

\* The cothreads always wait for the same mask on fd.
SingleMask(fd) == \A m1, m2 \in Usage[fd] : m1 = m2

\* epoll watches an fd for exactly the events registered on it, if masks are not
\* mixed on it and it is not closed under the manager, whatever happens to the
\* other fds.
InterestExact == \A fd \in Kept : SingleMask(fd) => epoll[fd] = EventsIn(fd_record[fd])

=============================================================================
