# Verification of co_cpp

co_cpp is a small C++ coroutine library for Linux x86-64: cooperative
"cothreads" on one thread, a scheduler (`co_env`) built around `epoll`, a
registry of one-shot events (`co_event_manager`), and a `connection` class with
blocking-style socket calls and timeouts. This directory holds TLA+ models of
the library, TLC configurations that check them on small instances, and proofs
that TLAPS checks for every instance. Paths and line numbers below are those of
the repository.

## 1. Inventory

| component | source | state | operations |
|---|---|---|---|
| event manager | `src/co_event_manager.{h,cpp}` | list of `event_info_node` (`head`), `fd_record`, `co_thread_record`, `valid_event`, `event_cache`, and the interest the kernel holds for `epoll_fd` | `add_event`, `cancel_event`, `cancel_co_thread`, `handle_event` (`delete_event`, `add_node`, `del_node` inside) |
| scheduler | `src/co_env.{h,cpp}` | `rd_list`, `block_list`, `add_list`, `cancel_list`, `valid_cothreads`, `co_thread_fd`/`co_thread_event` | `add_task`, `cancel_task`, `register_event`, `cancel_event` (two of them), `loop` (`process_rd_list`, `remove_canceled_task`, `remove_co_thread`) |
| cothread | `src/co_thread.{h,cpp,S}` | saved registers, stack, status | `run`, `yield`, `yield_event`, `yield_events`, `yield_for`, `suicide`, `finish`, and forwarders to the scheduler |
| connection | `src/connection.{h,cpp}` | the socket, timer fds and event ids on the stack, the saved SIGPIPE handler | `read_n_bytes`, `read_some`, `write_some`, `connect`, constructor, destructor |
| echo server | `examples/echo_server` | the set `m_conns` of clients, each with its socket and one task; SIGPIPE's handler | `listen_func`, `check_inavtive_func`, `work`, `close_client`, constructor and destructor of a client |
| SOCKS5 server | `examples/socks5_server` | clients, handshake state, two relay tasks each | handshake, connect, relay, `close_client` |
| basic example, `utils/log`, tests, docs | `examples/basic`, `examples/utils`, `test`, `docs` | none | demonstrations, formatting, manual tests, generated pages |

How they interact. Everything runs on one thread. `loop()` calls
`handle_event` with a callback; the callback moves a blocked cothread to
`rd_list` and notes the event in `co_thread_fd`/`co_thread_event`. `run()`
switches to a cothread and returns what it switched back with (0 not blocked, 1
finished, 2 blocked). A running cothread calls back into `co_env` (add, cancel,
register), and `co_env` into the manager. Task ids and event ids are addresses
of heap objects. The kernel is the other party: `epoll_ctl` results are
ignored, `epoll_wait` reports, `close` drops interest silently.

What is hard here is therefore not parallelism but order: who registered,
consumed, cancelled, blocked, finished, closed or was added first within a turn
of the loop; ids that outlive what they name; a cache of the kernel's state;
and the promise that a blocked cothread is woken. `PROJECT.json` lists the
hazards at their lines with the properties that cover them.

What makes each component correct:

- event manager: the four views of the registrations agree at every step, also
  in the middle of a walk or a cancellation; the kernel watches what is
  registered, at least so much that nobody is forgotten; nothing is watched for
  nobody; every node is on the one list.
- scheduler: every live cothread is in one list; no deleted cothread is touched;
  a cancelled task is removed; a ready one runs; a blocked one is woken by its
  own event and told of that event; ids name what they were returned for.
- connection: the call returns when the data is there, or when the time is over,
  and leaves no event or timer behind.
- cothread: each side of a switch goes on where it left, with its stack and its
  registers; `run` returns what happened; a cothread gets the event it was run with.
- examples: no task uses a deleted client; clients, tasks and sockets correspond;
  the listener goes on accepting. In the SOCKS5 server two relay tasks share a
  client and its two sockets.

## 2. Modules

| module | what it is |
|---|---|
| `EventManager` | `co_event_manager`, with the epoll interest as the kernel keeps it |
| `NodeRing` | `add_node`/`del_node`: the circular doubly linked list |
| `EventList` | `EventManager` with the `NodeRing` that owns its nodes |
| `CoEnv` | `co_env`, EXTENDS `EventManager`: each of its actions that calls the manager conjoins the manager's action |
| `TaskLife` | abstract: what the scheduler promises to the owner of a task |
| `CoEnvLife` | the refinement mapping from `CoEnv` to `TaskLife` |
| `Connection` | the calls of `connection`, EXTENDS `CoEnv`: the programs its cothreads run |
| `EchoServer` | the echo server, EXTENDS `Connection`: listener, checker, the tasks of the clients |
| `Socks5` | the SOCKS5 server, EXTENDS `Connection`: listener, the task `process` of a client, its two relays, the destructor |
| `CoSwitch` | `co_thread.S`: stacks and registers at the switches, below the scheduler's view |
| `MCEventManager`, `MCCoEnv`, `MCCoEnvLife`, `MCConnection`, `MCEchoServer`, `MCSocks5`, `MCCoSwitch` | values of the constants for TLC, symmetry |
| `EventManagerProofs`, `EventListProofs`, `CoEnvProofs`, `CoEnvLifeProofs`, `ConnectionProofs`, `CoSwitchProofs`, `EchoServerProofs`, `Socks5Proofs` | theorems and their proofs |

An operator marked "Mutation" stands before the definition that it is a faulty
variant of; no specification uses it. `PROJECT.json` pairs it with the property
that it breaks.

### EventManager

A node is known by its address. The heap is the partial function `node`, whose
domain is the set of allocated nodes. A map entry that is missing and one that
is empty are one value (`delete_event` re-creates an empty `fd_record[fd]` at
line 108 after erasing it; the model does not tell the two apart). Masks are
sets of bits; `EPOLLERR` and `EPOLLHUP` are `ErrBits`, reported unasked.

`epoll` is what the kernel has: `EPOLL_CTL_ADD` on a watched fd changes nothing
(EEXIST), `EPOLL_CTL_MOD` on an unwatched one changes nothing (ENOENT), as the
code ignores both. `CloseFd` is `close()` of a registered fd, which the manager
does not hear of; the constant `Closable` says which fds cothreads do that to,
and the properties of the interest are about the others (`Kept`).

`handle_event` and `cancel_co_thread` are loops; a turn of the loop is a step
(`FireEvent`, `CancelNode`), nodes in any order, because the sets are ordered by
heap address. The callback of `handle_event` is conjoined by `CoEnv`
(`DispatchEvent`). `Request` are the calls, allowed when the manager is idle;
`Progress` is what it does until the call returns.

The constant `Usage` gives the masks that are used with each fd. It is any
function; `InterestExact` is about the fds for which it has one mask
(`SingleMask`).

`EventList` puts the two together: a step of the manager that makes a node links it,
one that frees a node unlinks it (`Linked`), and no other touches the list.

### CoEnv

`pc` is where `loop()` is: `check` (the while test and `epoll_wait`), `events`
(the callbacks), `process` (`process_rd_list`), `run` (inside a cothread),
`sweep` (`remove_canceled_task`), `main` (not in `loop()`). Cothreads are
arbitrary programs: in `run` any call of the constant `Api` may be made, and any
switch. `yield_event` and `yield_for` are a registration followed by a blocking
yield. `rd_list` is walked in address order, so addresses are numbers; a
cothread that is inserted before `it` is not reached in this turn, as in the
code.

`remove_co_thread` takes several steps (`RemoveCoThread`, `ManagerWork`,
`TaskRemoved`): the id becomes invalid first, then its events go one by one, then
the object and its list entry. `cancel_all_event` is the same walk without the
end (`EventsCancelled`).

Task ids and event ids are addresses, and the allocator may hand one out again while
a stale id still names it: `AddTask` takes any address without a live task, also
one that is in `cancel_list`, and `RegisterEvent` any address without a node. So
`Sweep` removes whoever has the address by then, and `CancelById`, which is
`cancel_event(id)`, removes whatever event has it: `connection.cpp` cancels ids of
events that were consumed long ago (59, 90, 118). No run and no theorem excludes this.

`Environment` is the readiness of the fds. The world changes it, which matters
when `epoll_wait` looks (`check`), and so does a cothread that reads or writes
(the call `io`).

### TaskLife

Six verbs: a task is added, admitted, runs, blocks, is woken by an event of its own,
ends because it ran to its end or because a cancellation of its id was pending. A
blocked task whose id nobody cancelled does not end; an event of a blocked task is
consumed only by waking it. What the abstraction keeps of the stale ids is what an
owner has to reckon with: a cancellation stays pending until no task has the id and
strikes a task that gets the id meanwhile (`doomed`, `End`), and a task that runs may
withdraw the event of another by its id (`Withdraw`).
`CoEnvLife` reads a task's status off the list it is in, and takes a task that is
being removed for ended, with its events.

### Connection

`conn` has, for each cothread, the locals of the call it is in and its place in
it; `timers` are the timer fds that exist. The four calls share their shape, and
so their actions:

| action | code (read_n_bytes, unless named) |
|---|---|
| `StartCall` | entry, `create_timer_fd`; `read_some` gets no further with its timer (100-102) |
| `ArmTimer` | `register_event(timer_fd, EPOLLIN)`, 37 |
| `WouldBlock`, `MovePart`, `MoveAllOrFail` | the outcomes of `read`/`write`: EAGAIN, some bytes, everything or an error or EOF |
| `RegisterSocket`, `Wait` | `register_event(m_fd, ...)`, `yield(true)`: 52-53, 77-78 |
| `Resume` | the test of what woke the cothread, 54-57: `TimedOut`, `FdError` |
| `Retry` | the second `read` of `read_some`, 121 |
| `GiveUp` | 59-60: the socket's event is cancelled, the timer's is not |
| `FinishCall` | the other returns: the timer's event is cancelled |
| `Between` | what a cothread does between two calls: yield, end, cancel a task |

How many bytes are left is abstracted away: a loop may go round any number of
times. Whether `read` would block follows from `ready`, so a call cannot see
EAGAIN on a socket that has data. No timer fd is ever closed, so `Timers` bounds
the calls with a timeout; when they are used up, calls go on without. `connect`
keeps its event id in an int (207): `AddressesFitInt` says whether addresses
survive that. What `connect` returns (`getsockopt` with an uninitialised length,
218) is not modelled. The constructor and the destructor, which do nothing but
save and restore the handler of SIGPIPE, are in `EchoServer`, where several
connections live at once.

### EchoServer

`examples/echo_server/echo_server.cpp` as a program over the library. An action
of the server is a place in one of its three functions, conjoined with the action
of `CoEnv` or `Connection` that the code calls there.

| action | code |
|---|---|
| `ServerStarts` | the constructor of `echo_server`: two `add_task` |
| `ListenAgain`, `ServerBlocks` | `yield_event(m_listen_socket, EPOLLIN)` |
| `TakesConnection`, `Accept` | `accept`; `new echo_client`, which adds its task; `m_conns.emplace` |
| `CheckerSets`, `CheckerWaits` | `yield_for`: a new timer, its event |
| `Expels`, `Expelled`, `Checked` | the loop of `check_inavtive_func`: `delete`, `erase`; its end |
| `Reads`, `Writes`, `InCall`, `CallSucceeds`, `CallFails` | `work`: the connection is made before the first `read_some` (`Connect`) |
| `ClosesItself`, `Closed`, `Ended` | `close_client`; the function returns and destroys its connection |

A client is known by its address, which `new` may give out again, as `accept` does
with the number of a closed socket. Its destructor is two steps: `CancelsTask`,
which leaves the task in the scheduler until the sweep, then `ClosesSocket` and
`Deletes`. `m_task_id` is an int, hence `AddressesFitInt` again. `m_conns` is
walked in any order; no other task runs in the middle of the walk. `sigpipe` is the
process's handler, `saved` what each connection found when it was made; a task that
is removed does not unwind its stack, so its connection restores nothing.
`accept` is taken to succeed; `~echo_server` is not reached, as the listener does
not end.

### Socks5

`examples/socks5_server` likewise. The dialogue of `process` and the relays are
tables: `OpAt` says which call of `connection` is made at each place, `OnSuccess`
and `OnFailure` where the function goes on; the messages themselves are choices.
Where the code does not look at a result, success and failure lead to the same
place. `Accept`, `OpensRemote`, `AddsRelay1` and `AddsRelay2` write the fields of
the client in the order of the code; the destructor goes member by member
(`ClosesMember`, `CancelsMember`, `Deleted`), sockets before tasks
(socks5_client.cpp:162-174). `socket` and `accept` may answer -1, whether
numbers are left or not; the calls on -1 then fail (`CallsInVain`).

Two bounds of the instance are in the guards: `process` and the relays have pools
of addresses of their own (`ProcessTasks`, `RelayTasks`), and a remote side
accepts a connection when there are addresses for two relays (`RoomForRelays`). Two
choices keep the state space small: what happens on a socket that nobody waits for
shows in the outcome of the next call (`Stirs`), and bytes that arrive during a
call show when `epoll_wait` looks (`InCall`). The handler of SIGPIPE is left to
`EchoServer`.

### CoSwitch

The level below `CoEnv`: `co_thread.S` and the constructor of `co_thread`, which
prepares the stack that the first `run` switches to. A stack is an array of words;
a word says what was put there (return address, saved register, `this`, a flag,
junk), so that a wrong pop is seen as a word of the wrong kind. The low end of a
cothread's stack is `m_addr`, its save area. `cpu` has the instruction pointer as
of the last `ret`, `rsp`, one value for all callee-saved registers, and `rax`.
One action is one routine, from the call to the `ret` on the other side: `SwitchTo`
and `RunFinished` (`run`), `Yield`, `YieldEvent` (`yield_event` and `yield_for`, which
are the same code around another function), `YieldEvents`, `Suicide`, `Finish`.
The C++ function that a routine calls in its middle overwrites up to `ImplWords`
words below `rsp` (`Below`); what was popped is junk (`Popped`). `Enter` and `Leave`
are calls of a side's own functions, at most `MaxFrames` deep. `run` may nest, and
any side may resume any cothread that is not under way.

`left` and `caller` are history: where a side left, with which registers and what
it is to be told, for the properties to compare with. `pushed` marks a cothread
that left through `yield_events`, whose context is saved wrongly (section 5): the
properties are about the others, and `YieldEventsReturns` about those.

Nothing in the code bounds the depth of a stack. `Fits` states the obligation of
the program: its deepest function, with a switch in it, stays clear of the save
area. With a stack that is one word smaller than `Fits` asks (`StackSize = 11` in
`switch.cfg`) TLC finds `SavedIntact` and `ResumesWhereItLeft` violated.

## 3. Runs

| run | instance | shows |
|---|---|---|
| `em` | 2 cothreads, 3 nodes, IN/OUT/HUP, 3 fds: one with every mask, one with a single mask, one closed while registered | `RecordsAgree`, `NeverBlind`, `CacheSound`, `InterestExact`, `NoOrphanInterest`; the list of the nodes stays one ring (`WellLinked`) |
| `env_tasks` | 3 tasks, 2 nodes, 1 fd, addresses reused, fair | lists, dangling, cancellation, what is left behind; nothing starves, cancelled tasks go, no lost wake-up |
| `env_life` | 2 tasks, 3 nodes, 1 fd, IN/OUT/HUP, close, all calls | protocol of the manager, the waking event, `CoEnv` implements `TaskLife` |
| `conn_calls` | 2 cothreads that share a socket which may hang up, all four calls, 1 timer | calls keep to `CoEnv`, wait for an event of their own until a stale id takes it, give up for a reason, forget no registered event |
| `conn_connect` | 2 cothreads, `connect` with its id cut to an int, fair | a timeout takes effect |
| `echo` | echo server: 2 clients, 2 socket numbers, 2 tasks before and after the server's in the order of the addresses | no deleted client is used; tasks, clients, sockets and events correspond; a client loses its task and a task its event only to a stale id; epoll watches for all that is registered |
| `socks5` | SOCKS5 server: 2 clients, 3 socket numbers, one `process` and two relays at a time, handshakes cut short while a client relays | the same of the relays and of the handover to them; new clients are heard |
| `switch` | 2 cothreads, one of them with a nested frame, stacks of 12 words, all routines | each side goes on where it left, status and event are delivered |
| `bug_*` | the smallest instance that shows it | section 5 |

Why the bounds are enough. All state is finite without any bound on counters;
the sizes of the sets are the only bounds. Three nodes give an fd a first
registration, one that fails with EEXIST and one that goes through the cache, on
any of three fds, which is every path of `add_event` and `delete_event`; and the list a
first, a middle, a last and an only node for `del_node` to take out. Three
tasks give `process_rd_list` one before, one at and one after `it`. The
theorems of section 4 remove the bounds for the safety properties. In `conn_calls` and
`conn_connect` a timer is used up by the call that creates it, so that a call with a
timeout meets calls without (`ConnUsesCoEnv` and `FailuresAreReal` cover any number);
there are nodes for as many events as can be registered at once, so that no call
waits for an address. In `echo` and `socks5` two clients are what it takes for one
to leave while another comes, on the same socket number and in the same turn, and
for the addresses of objects to be used again; in `echo` the tasks of the clients lie on
both sides of the server's in the order of the addresses, so that a ready one may run
before or after the listener and the checker do. In `socks5` the constraint `OneGreets` holds back the second
handshake after its first message while another client relays; without it the run has
5.2 million states instead of 1.0 and passes, too, but takes five
minutes with four workers. What it leaves out, a process that connects while relays run,
is met with the relays of the client before, which are still to be swept. In `switch` two cothreads
give every nesting of runs: each is run by the program and by the other, and may be
suspended under one caller and resumed under another.

Deadlock is checked except in `switch`, `bug_yield_events` and `socks5`: a processor
that has jumped to something that is not code (after `yield_events`) stops; the SOCKS5
server stops when the one address for `process` is held by a client that waits
unheard (section 5) and there is no other to disturb it.

Symmetry is used in safety runs only, on nodes, clients and fds of the same use, and in
`switch` on places, values and events (not on task addresses in `CoEnv`, which are
ordered, and on which `process_rd_list` depends).

Fairness (`Fairness` in `CoEnv`). `loop()` is called while there are tasks and
keeps going (weak fairness of `Loop`: it is straight-line code); a running
cothread switches back sooner or later, which a cooperative library demands of
its users; nothing is assumed of the calls a cothread makes or of the fds.
`bug_lost_wakeup` assumes in addition that `epoll_wait` does not for ever miss an
event that comes and goes (`EagerSpec`), so that the counterexample is not an
accident of timing: the event is ready all the time and the loop is not allowed
to sleep through it, but nobody watches it.

`ConnFairSpec` says the same of the connections: the scheduler goes on and so does
a running cothread; what it does between two calls ends or not as it likes, as
`Yield` is among it. In addition every timer that exists expires (strong
fairness, as it may do so only where the model lets the world move). Nothing is
assumed of the sockets: they may stay silent for ever, which is what a timeout is
for. `bug_timeout_lost` is checked under the same fairness.

Every property of a passing run has a mutant in `PROJECT.json`: a plausible bug
in the code, next to the definition it mutates, that makes the run fail.

## 4. Proofs

TLAPS proves, for every value of the constants that satisfies the named
assumptions (masks are non-empty sets of ordinary bits, addresses are not
`Null`, error bits are not ordinary bits):

- `ManagerInvariant`: `ManagerInv`, that is types, `RecordsAgree` and
  `CallsExclusive`. The last is the strengthening: while `cancel_co_thread`
  deletes nodes the record of its cothread names nodes that are gone; this is
  harmless only because no registration can revive an address meanwhile, i.e.
  because no other call is under way. From it `ManagerTypes`,
  `RecordsAlwaysAgree`.
- `NoOrphanAlways`: no assumption on use. Every step is one of four kinds as far
  as the interest is concerned (`StepKinds`).
- `NeverBlindAlways`, `CacheSoundAlways`: of the fds that are not closed while
  they have events, whatever happens to the others. The
  inductive invariant `InterestInv` adds `FirstMask`: while the cache has no
  entry for an fd, epoll still has the mask of one of the registered nodes (the
  first), because every later `EPOLL_CTL_ADD` failed. So an fd may be half blind
  (section 5) but never blind.
- `InterestExactAlways`: of those of these fds that are used with one mask. This is the condition
  under which the library's users are safe from lost wake-ups: `connection`
  fulfils it as long as a socket is not read and written by different cothreads
  at once.
- `RingTypes`, `AlwaysWellLinked` (`EventListProofs`), whatever nodes the manager makes and
  frees: the invariant says that a non-empty set of nodes closed under `next` is
  everything. Adding and deleting a node carry such a set of the new ring back to one of
  the old.
- `EnvInvariant`: `EnvInv` adds to `ManagerInv` where `pc` may be while a call of
  the manager is under way (`Control`). From it types, `ListsPartition`,
  `NoDangling`, and `EnvUsesManager`: every step of the scheduler is a step of
  `ManagerSpec` or leaves the manager alone. That theorem carries the manager's
  theorems over to the scheduler (`EnvNeverBlind`,
  `NothingLeftBehindAlways`).
- `PhaseInvariant` says what each phase of the turn may rely on (the event maps
  are empty outside, `add_list` is empty in the sweep, ...). From it
  `CancelAlwaysTakesEffect` and `AlwaysWokenByItsEvent`: the event noted for a cothread in
  the turn is its own, and no later event replaces it before `run()` hands it over.
- `CoEnvImplementsTaskLife`: the refinement that `env_life` checks. `LifeInv` adds that
  a cothread which is not admitted yet has no events and that one which cancels its own
  events is ready. Every lemma `...Seen` takes a group of steps to steps of `TaskLife` or
  to none.
- `ConnInvariant`: `ConnInv` adds to `EnvInv` which locals are set at which place
  of a call. From it `ConnUsesCoEnv`, every step of a call is one that `CoEnv` allows;
  this carries the theorems about the scheduler over to the connections
  (`ConnSchedulerSafe`).
- `FailuresAreReal`, if every cothread has one socket. The invariant `EventsReal`
  follows an event from the kernel to the call: a timer that is reported has
  expired and stays so, a node is for a socket or a timer of its cothread, and
  what the scheduler notes for a cothread comes from one of the two.
- `AlwaysWaitsForItsEvent`: nobody else runs between the registration of a call and its
  switch, and after that the event goes only by being reported to its cothread or by
  a call that cancels it through an id of its own whose event was gone (`Robbed`).
- `CallsReturnClean`, if ids of events are not cut to an int: `NothingComesLoose` is about
  all events of a cothread, those of earlier calls included. A node that is named by
  neither id of its cothread's frame is loose; a step makes none loose, except in the
  two cases that the property names.
- `SwitchTypes`, `SwitchSavedIntact`, `SwitchResumes`, `SwitchTellsEach`
  (`CoSwitchProofs`), from `Fits`, for any number of cothreads and any
  depth of functions. The inductive invariant `SwitchInv` is `Types`, `Heights`
  (every stack pointer is an even number of words below the entry), `Frames` (what
  the functions pushed is on the stack), `Chain`, `CallersIntact`, `SuspendedIntact` and
  `Tops`. `Chain` is the heart of it: the cothreads that are under way form a
  chain from the program to the one that runs, and no side is the caller of two. So the
  stack that a step writes on belongs to the running side, and the frames that the
  others left lie on other stacks or above its `rsp`. The lemmas are of two kinds:
  what each write leaves alone (`AgreeOff`), and what each way of switching gives
  the new side and keeps for the rest (`SwitchGives`, `SwitchKeeps`, `RestoreGives`,
  `BackKeeps`). TLC checks `SwitchInv` on the instance of `switch`, too.

- `EchoTypesOK`, `SelfAlwaysAlive`, `SocketsAlwaysApart`, `TasksAlwaysHaveClients`
  (`EchoServerProofs`), if the id of a task survives the int of `m_task_id`; for any
  number of clients. `ServerInv`
  adds to `ConnInv` where each task may be and what it has there (`TaskInv`), that a task
  and its events are on its client's socket (`SocketInv`), and `AliveInv`: a task
  without its client has ended or is in `cancel_list`. That list is empty when the loop
  waits, and no step of the scheduler runs a task that is in it (`LoopLists`). That a
  task may get an address that is still in `cancel_list` does not matter to these: it
  never runs. On the way every step of the server is seen
  to be one that `CoEnv` allows (`EchoUsesCoEnv`), which carries the theorems about the
  scheduler over to the server (`EchoSchedulerSafe`).
- `ClientsAlwaysKeepTasks` is the converse, as far as the code guarantees it: a client has
  its task until it is deleted, or the sweep removes what is at an address in
  `cancel_list`.
- `EveryoneAlwaysHeard`, and `NobodyEverForgotten` from the same invariant. `HeardInv` is
  `Waiters` (every event that is registered is the one its task waits for, alone on its fd,
  and epoll has exactly its mask unless its task is cancelled)
  and `SocketsDistinct` (a task that still has the number of another's client is
  cancelled, and is gone when the task of that client first runs). The second is needed
  because the destructor closes the socket before the sweep removes the events: `accept`
  may return the number while they exist, but the new task, which is in `add_list`, reads
  only after the sweep. From the manager the proof takes that an fd without events is not watched
  (`NoOrphanInterest`) and has no entry in `event_cache` (`CacheForgotten`), so that
  the next registration is an `EPOLL_CTL_ADD` that succeeds.
- The SOCKS5 server (`Socks5Proofs`), if the ids of tasks survive the int of the client's
  fields (socks5_client.h:18-19), for any number of clients: `SocksTypesOK`,
  `SocksUsesCoEnv`, `SocksSchedulerSafe`, `RelaysAlwaysShareSafely`,
  `EventsAlwaysFollowSockets`, `AlwaysHandedOver` and `ClientsAlwaysKeepTasks`. `ServerInv` has the parts of the echo server's, and three that the
  sharing needs. `FuncInv`: each of the three fields for tasks names a task that
  runs the function of this field. `Shape`: a client has `process`, or both relays, or,
  between the two `add_task` of the handover, `process` and the first relay.
  `DestructorInv`: at each member, the tasks of the members before it are cancelled or have
  ended. From the three follows that whoever runs has a client that is not deleted: the task
  that deletes it cancels the only other one, and nothing of the
  client but the deleting task itself is left to run (`AliveInv`).
- `NewClientsAlwaysHeard`: its `HeardInv` is that
  of the echo server restricted to the tasks that wait alone on their fd: the
  listener, and `process` before it connects. That is all that is true: the two
  relays share each socket with different masks, and `connect` can meet a stale cache
  (section 5). `StrangersGo` says, as above, that the relays of a client that has
  gone are removed before `process` of the next client with its socket's number first runs.
  The number of a remote socket has no such rest: `process` connects in the turn in which
  it gets it, when the events of its former owner may still be there.

TLC checks the `HeardInv` of both servers on the instances of `echo` and `socks5`, too. The
assumptions on constants are named where these are declared; `ServesAssumption` of `Socks5` says that the four calls are among `Ops` and that each
task may be given any socket of a client.

Every safety property of a passing run is stated by one of these theorems. Three
hypotheses remain. `AddressesFitInt`, of the servers and of `CallsReturnClean`, is true
of a build whose heap lies below 2^31; the code does not see to it, and
section 5 says what happens without. `Fits` is what
a program owes to its stacks. One socket per cothread (`FailuresAreReal`) is how
the echo server uses connections; the SOCKS5 server's tasks use two each (section 5).

Only model-checked: what needs fairness (`env_tasks`: nothing starves, cancelled tasks go,
no lost wake-up; `conn_connect`: a timeout takes effect), as TLAPS proves neither
properties under fairness nor `ENABLED`.

## 5. Where the code does not do what it says

- `bug_lost_wakeup`: a second registration on an fd with another mask is not
  watched (EEXIST at co_event_manager.cpp:80); its cothread sleeps for ever. The
  cause is that `add_event` never writes `event_cache`, which is therefore not "in
  sync with epoll" (co_event_manager.h:17) after any first registration.
- `bug_yield_events`: `yield_events` saves the context with `rcx` still pushed
  (co_thread.S:227), so `m_addr` holds a stack pointer one word too low and an argument
  for the return address. The resumed cothread returns through the word that `push
  %rdi` left there, the address of its object.
- `bug_sigpipe`: the connection of the first client of the echo server found
  `SIG_DFL` and restores it when it leaves (connection.cpp:226); the second, still
  there, writes with the default action, although connection.h:12 says it is ignored.
- `bug_timeout_lost`: timer and socket are ready in the same turn. Only the first event is
  told (co_env.cpp:88), the timer's is consumed with it, and `read_n_bytes` goes on without
  a timeout, for as long as bytes come in too slowly.

The modules state more that the code does not keep. Each of the following is violated when
it is added to the run, or when the run gets the other constant:

- `em` with `CacheInSync`: the same missing write as in `bug_lost_wakeup`, seen at line 73.
  `EPOLL_CTL_MOD` extends the interest, the cache keeps the old one. When the added event
  goes first, the cache equals what is left and nothing is reduced (115): epoll reports
  what nobody waits for.
- `socks5` with `RelaysHeard`: what `bug_lost_wakeup` means for the SOCKS5 server, where
  each socket is read by one relay and written by the other.
- `socks5` with `ConnectIsHeard`: `connect` waits for ever (socks5_client.cpp:100). The
  destructor closes a socket that has events, `socket()` returns its number in the same
  turn, and `add_event` finds the entry of the closed socket in `event_cache`, which goes
  only with the sweep: it calls no `epoll_ctl` (co_event_manager.cpp:65). New clients are
  not exposed to this, as they wait for input first (`NewClientsHeard`).
- `conn_calls` with `CancelsItsOwn`: a call that gives up cancels an id whose event was
  consumed (59, 118), which is by then the event of another cothread. `Robbed` names this
  step in `WaitsForItsEvent` and `NobodyForgotten`: in the echo server the listener may
  register in the turn in which a client hangs up, and lose its event to the client, after
  which the server accepts nobody.
- `echo` with `EveryClientServed`: a new task at the address of one that was cancelled and
  has ended in the same turn is removed before it runs (co_env.cpp:138); its client stays.
- `echo` and `conn_calls` with `AddressesFitInt = FALSE`: ids are cut to an int, of a task by
  the servers (echo_server.h:32, socks5_client.h:18-19), of an event by `connect` (207).
  The task of a deleted client goes on (`SelfIsAlive`), and an event outlives its call
  (`NothingComesLoose`, with `connect` among `Ops`).
- `bug_timeout_lost` with `Ops = {"read_some"}`: `read_some` never registers its timer
  (connection.cpp:100), so `TimeoutTakesEffect` fails without any race.

Other disagreements seen while modelling:

- An error of the fd leaves the timer's event registered (57-60). When it fires in a later
  call it is no longer that call's timer, so the call goes on as if its socket were
  ready (55-62, 112-130) and forgets the socket's event, which is still registered when
  the call returns. `NothingComesLoose` states both exceptions; without either of
  them `conn_calls` violates it.
- What woke the cothread is not compared with `m_fd` (57), so an error of another socket,
  whose event `connect` could not cancel (207), makes the call fail: `conn_calls` with
  one cothread, `SocketsOf <- TwoSockets`, `s2` among the `Fds` and
  `AddressesFitInt = FALSE` violates `FailureIsReal`.

## 6. Plan

Every component with state is modelled, and every safety property of a passing run is
proved. What is left:

- the non-temporal part of the liveness arguments: that the steps which fairness asks
  for decrease the number of tasks of a turn that are still to run.

## 7. Not modelled

- `examples/utils/log`, formatting of addresses and messages: no property is about
  them. `examples/basic` and `test` were read for how the API is used; they keep no
  state of their own.
- `docs` is generated: pages and the JavaScript libraries of the page generator
  (jQuery, underscore, the search), which are no part of this program. By line count
  they are the larger part of the repository.
- Memory exhaustion, signals other than SIGPIPE, files that epoll refuses
  (`EPERM`), the answer of `getsockopt`, a `timerfd_create` that fails (no timer fd
  is ever closed, so it will one day), and the limit of 200 events per `epoll_wait`
  other than as the freedom to report less than is ready.
