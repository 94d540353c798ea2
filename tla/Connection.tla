----------------------------- MODULE Connection -----------------------------
(***************************************************************************)
(* connection (src/connection.cpp): read_n_bytes, read_some, write_some    *)
(* and connect, with their timeouts, as the programs that the cothreads of *)
(* CoEnv run.  Each cothread makes one call after another; a call is a     *)
(* sequence of steps on one socket, and between two yields nobody else     *)
(* runs.  How many bytes are left is abstracted to "all" or "some".        *)
(*                                                                         *)
(* Null stands for -1: no timer, no event id.                              *)
(***************************************************************************)
EXTENDS CoEnv

CONSTANTS
  EPOLLIN, EPOLLOUT,
  Ops,             (* the calls made in this instance                       *)
  SocketsOf,       (* the sockets each cothread has a connection for        *)
  Timers,          (* the fds that are left for timerfd_create: no timer is *)
                   (* ever closed, so this bounds the calls with a timeout  *)
  AddressesFitInt  (* does the address of a node survive a cast to int?     *)

ASSUME OpsAssumption == Ops \subseteq {"read_n_bytes", "read_some", "write_some", "connect"}
ASSUME SocketsAssumption == SocketsOf \in [Threads -> SUBSET (Fds \ Timers)]
ASSUME TimersAssumption == Timers \subseteq Fds
ASSUME AddressesAssumption == AddressesFitInt \in BOOLEAN
ASSUME CallsAssumption == {"register_event", "cancel_event", "yield", "block", "io"} \subseteq Api
ASSUME MasksAssumption ==
  /\ EPOLLIN \in Bits /\ EPOLLOUT \in Bits
  /\ \A fd \in Fds : {EPOLLIN} \in Usage[fd]
  /\ \A fd \in Fds \ Timers : {EPOLLOUT} \in Usage[fd]

VARIABLES
  conn,   (* the call that each cothread is in: its locals and its place   *)
  timers  (* the timer fds that exist                                      *)

connVars == <<vars, conn, timers>>

\* Outside any call.
Outside == [at |-> "outside", op |-> Null, fd |-> Null, timer_fd |-> Null,
            timer_event_id |-> Null, event_id |-> Null]

Sockets == UNION {SocketsOf[t] : t \in Threads}

ConnInit ==
  /\ Init
  /\ conn = [t \in Threads |-> Outside]
  /\ timers = {}

-----------------------------------------------------------------------------
(* The cothread that runs is at a place of its call.                       *)

At(place) == pc = "run" /\ ManagerIdle /\ conn[it].at = place

Goes(place) == conn' = [conn EXCEPT ![it].at = place]

Mask(op) == IF op \in {"read_n_bytes", "read_some"} THEN {EPOLLIN} ELSE {EPOLLOUT}

\* The first thing a call does once its timer is set: connect has tried already.
FirstStep(op) == IF op = "connect" THEN "register" ELSE "try"

\* Mutation: no call registers an event for its timer.
StartCallUnarmed(op, fd) ==
  /\ At("outside")
  /\ \E timer \in (Timers \ timers) \cup {Null} :
       /\ conn' = [conn EXCEPT ![it] = [Outside EXCEPT !.at = FirstStep(op), !.op = op, !.fd = fd,
                                                      !.timer_fd = timer]]
       /\ timers' = timers \cup ({timer} \ {Null})
  /\ UNCHANGED vars

\* A call begins, with a timer or without.  read_some creates its timer but
\* registers no event for it; connect gets here when ::connect has answered
\* EINPROGRESS.
StartCall(op, fd) ==
  /\ At("outside")
  /\ \E timer \in (Timers \ timers) \cup {Null} :
       LET first == IF timer = Null \/ op = "read_some" THEN FirstStep(op) ELSE "arm"
       IN  /\ conn' = [conn EXCEPT ![it] = [Outside EXCEPT !.at = first, !.op = op, !.fd = fd,
                                                          !.timer_fd = timer]]
           /\ timers' = timers \cup ({timer} \ {Null})
  /\ UNCHANGED vars

\* Mutation: the fd of the timer is kept as the id of its event.
ArmTimerKeepsFd(n) ==
  /\ At("arm")
  /\ RegisterEvent(n, conn[it].timer_fd, {EPOLLIN})
  /\ conn' = [conn EXCEPT ![it].timer_event_id = conn[it].timer_fd, ![it].at = FirstStep(conn[it].op)]
  /\ UNCHANGED timers

\* Mutation: the timer is registered for EPOLLOUT.
ArmTimerForOutput(n) ==
  /\ At("arm")
  /\ RegisterEvent(n, conn[it].timer_fd, {EPOLLOUT})
  /\ conn' = [conn EXCEPT ![it].timer_event_id = n, ![it].at = FirstStep(conn[it].op)]
  /\ UNCHANGED timers

\* timer_event_id = m_thread.register_event(timer_fd, EPOLLIN)
ArmTimer(n) ==
  /\ At("arm")
  /\ RegisterEvent(n, conn[it].timer_fd, {EPOLLIN})
  /\ conn' = [conn EXCEPT ![it].timer_event_id = n, ![it].at = FirstStep(conn[it].op)]
  /\ UNCHANGED timers

\* read() or write() finds nothing to do (EAGAIN).
WouldBlock ==
  /\ At("try")
  /\ ready[conn[it].fd] \cap (Mask(conn[it].op) \cup ErrBits) = {}
  /\ Goes("register")
  /\ UNCHANGED <<vars, timers>>

\* What the fd is ready for after a read or a write that moved bytes, some of
\* which may have arrived since epoll_wait looked.
Moved ==
  LET c == conn[it]
  IN  \E left \in SUBSET Mask(c.op) : Environment(c.fd, (ready[c.fd] \ Mask(c.op)) \cup left)

\* Mutation: after a part the call waits for the event it has waited for before.
MovePartAndWait ==
  /\ At("try")
  /\ conn[it].op \in {"read_n_bytes", "write_some"}
  /\ Moved
  /\ Goes("yield")
  /\ UNCHANGED timers

\* It moves some of the bytes and the call wants more.
MovePart ==
  /\ At("try")
  /\ conn[it].op \in {"read_n_bytes", "write_some"}
  /\ Moved
  /\ Goes("register")
  /\ UNCHANGED timers

\* It moves all, or what there is (read_some), or fails, or finds the end.
MoveAllOrFail ==
  /\ At("try")
  /\ Moved \/ UNCHANGED vars
  /\ Goes("done")
  /\ UNCHANGED timers

RegisterSocket(n) ==
  /\ At("register")
  /\ RegisterEvent(n, conn[it].fd, Mask(conn[it].op))
  /\ conn' = [conn EXCEPT ![it].event_id = n, ![it].at = "yield"]
  /\ UNCHANGED timers

\* m_thread.yield(true)
Wait ==
  /\ At("yield")
  /\ Block
  /\ Goes("waiting")
  /\ UNCHANGED timers

\* Mutation: any event that is not the socket's is taken for the timer's.
OtherFdIsTimeout(c, woken_by) == woken_by.fd # c.fd

TimedOut(c, woken_by) == c.timer_fd # Null /\ woken_by.fd = c.timer_fd

FdError(woken_by) == woken_by.events \cap ErrBits # {}

\* Where a call goes on when its event has come.
NextStep(op) == CASE op = "read_some" -> "retry" [] op = "connect" -> "done" [] OTHER -> "try"

\* yield returns with the event that woke the cothread; its own event id is not
\* used again unless it is cancelled now.
Resume ==
  /\ At("waiting")
  /\ IF TimedOut(conn[it], co_thread_event[it]) \/ FdError(co_thread_event[it])
       THEN Goes("cancel")
       ELSE conn' = [conn EXCEPT ![it].at = NextStep(conn[it].op), ![it].event_id = Null]
  /\ UNCHANGED <<vars, timers>>

\* The second read() of read_some is the last, whatever it returns.
Retry ==
  /\ At("retry")
  /\ Moved \/ UNCHANGED vars
  /\ Goes("done")
  /\ UNCHANGED timers

\* m_thread.cancel_event(id); no registered event has the id -1.  The event may
\* be gone and its address that of another one, which is then cancelled instead.
Cancels(id) ==
  IF id = Null THEN UNCHANGED vars
  ELSE /\ CancelEvent(id)
       /\ UNCHANGED <<lists, co_thread_event, pc, it, ready>>

Returns == conn' = [conn EXCEPT ![it] = Outside]

\* connect keeps the id of its event in an int.
Narrowed(c) == IF c.op = "connect" /\ ~AddressesFitInt THEN Null ELSE c.event_id

\* Out of time or fd error: the event is cancelled and the call returns; the
\* event of the timer is left as it is.
GiveUp ==
  /\ At("cancel")
  /\ Cancels(Narrowed(conn[it]))
  /\ Returns
  /\ UNCHANGED timers

\* Mutation: the timer is not cancelled when the call succeeds.
FinishWithTimer ==
  /\ At("done")
  /\ Returns
  /\ UNCHANGED <<vars, timers>>

\* The other returns cancel the event of the timer.
FinishCall ==
  /\ At("done")
  /\ Cancels(conn[it].timer_event_id)
  /\ Returns
  /\ UNCHANGED timers

\* Between two calls a cothread may yield, end, or cancel a task.
Between ==
  /\ At("outside")
  /\ Yield \/ Finish \/ \E t \in Threads : CancelTask(t)
  /\ UNCHANGED <<conn, timers>>

-----------------------------------------------------------------------------
ConnStep ==
  \/ \E op \in Ops, fd \in SocketsOf[it] : StartCall(op, fd)
  \/ \E n \in Nodes : ArmTimer(n) \/ RegisterSocket(n)
  \/ WouldBlock \/ MovePart \/ MoveAllOrFail \/ Retry
  \/ Wait \/ Resume
  \/ GiveUp \/ FinishCall
  \/ Between

\* The scheduler moves; the stack of a cothread goes with it.
Schedule ==
  /\ Loop \/ CallLoop \/ (pc = "main" /\ \E t \in Threads : AddTask(t))
  /\ conn' = [t \in Threads |-> IF t \in valid_cothreads' \cup {leaving'} THEN conn[t] ELSE Outside]
  /\ UNCHANGED timers

\* Something happens to a socket.
Arrive ==
  /\ pc = "check"
  /\ \E fd \in Sockets, bits \in SUBSET AllBits : Environment(fd, bits)
  /\ UNCHANGED <<conn, timers>>

\* A timer expires, and stays so: nobody reads it.
Expire(fd) ==
  /\ pc = "check"
  /\ fd \in timers
  /\ Environment(fd, {EPOLLIN})
  /\ UNCHANGED <<conn, timers>>

ConnNext == (pc = "run" /\ ConnStep) \/ Schedule \/ Arrive \/ \E fd \in Timers : Expire(fd)

ConnSpec == ConnInit /\ [][ConnNext]_connVars

\* As in CoEnv loop() keeps going and cothreads go on; and a timer expires.
ConnFairSpec ==
  /\ ConnSpec
  /\ WF_connVars(Schedule)
  /\ WF_connVars(pc = "run" /\ ConnStep)
  /\ \A fd \in Timers : SF_connVars(Expire(fd))

-----------------------------------------------------------------------------
PlaceNames == {"outside", "arm", "try", "register", "yield", "waiting", "retry", "cancel", "done"}
Frames == [at : PlaceNames, op : Ops \cup {Null}, fd : Sockets \cup {Null}, timer_fd : Timers \cup {Null},
           timer_event_id : Nodes \cup {Null}, event_id : Nodes \cup {Null}]

ConnTypeOK == conn \in [Threads -> Frames] /\ timers \subseteq Timers

\* What the connections do is what CoEnv allows cothreads to do.
UsesCoEnv == Spec

\* The call that t is in has its event registered: its own, of its own socket, for
\* what it waits for.
HasItsEvent(t) ==
  /\ conn[t].event_id \in DOMAIN node
  /\ node[conn[t].event_id] = [fd |-> conn[t].fd, events |-> Mask(conn[t].op), thread_ptr |-> t]

\* In this step another call cancels an event of t, with an id of an event that was
\* gone.
Robbed(t) ==
  /\ pc = "run" /\ it # t
  /\ \E n \in NodesOfThread(t) \ DOMAIN node' : n \in {conn[it].timer_event_id, conn[it].event_id}

\* A call that is blocked waits for an event that is its own, of its own socket, and
\* still registered: events are one-shot, so each turn of the loops of read_n_bytes
\* and write_some needs a new one (connection.cpp:52, 77, 155, 179), and the event
\* stays until it wakes the call.  The only way to lose it is that another call
\* cancels it by the id of an event that is gone (connection.cpp:59, 118), whose
\* address `new' has given to this one.
WaitsForItsEvent ==
  [][\A t \in block_list' \cap valid_cothreads' : conn'[t].at = "waiting" =>
       \/ HasItsEvent(t)'
       \/ conn[t].at = "waiting" /\ ~HasItsEvent(t)
       \/ Robbed(t)]_connVars

\* The events of t that no call of t can cancel any more: t has forgotten their ids.
Loose(t) == NodesOfThread(t) \ {conn[t].timer_event_id, conn[t].event_id}

\* t goes on because its socket is ready for what it asked for.
WokenBySocket(t) ==
  /\ co_thread_event[t].fd = conn[t].fd
  /\ co_thread_event[t].events \cap Mask(conn[t].op) # {}

\* No call forgets an event that is still registered, which would wake its cothread
\* in a later call; so one that returns leaves neither its socket's nor its timer's
\* behind.  The code makes two exceptions.  A call that gives up because of an error
\* of the fd leaves its timer's event (connection.cpp:57-60).  And such an event,
\* when it fires in a later call, makes that call go on as if its socket were ready,
\* which forgets the socket's event (connection.cpp:55-62, 112-130, 158-164).
NothingComesLoose ==
  [][\A t \in Threads : \A n \in Loose(t)' \ Loose(t) :
       \/ n = conn[t].timer_event_id /\ FdError(co_thread_event[t])
       \/ n = conn[t].event_id /\ conn[t].at = "waiting" /\ ~WokenBySocket(t)]_connVars

\* A call gives up for the reason the comment states, "out of time or fd error"
\* (connection.cpp:58): its own timer has expired, or its own socket is in error.
\* The code does not compare the fd of the event with the socket, so this needs
\* that the cothread has one socket.
FailureIsReal ==
  [][\A t \in Threads : conn[t].at = "waiting" /\ conn'[t].at = "cancel" =>
       \/ conn[t].timer_fd # Null /\ ready[conn[t].timer_fd] # {}
       \/ FdError(co_thread_event[t]) /\ co_thread_event[t].fd = conn[t].fd]_connVars

\* A call with a timeout returns, or its cothread is removed ("connection.cpp
\* 中的api加上timeout参数", readme.md:9: the calls have a timeout).
TimeoutTakesEffect ==
  \A t \in Threads : conn[t].timer_fd # Null ~> conn[t].at = "outside"

=============================================================================
