------------------------------ MODULE CoSwitch ------------------------------
(***************************************************************************)
(* The switch between cothreads (src/co_thread.S, src/co_thread.cpp): the  *)
(* stacks and the registers below the scheduler's view of a cothread.      *)
(*                                                                         *)
(* A side is the owner of a stack: the program (Main) or a cothread.  run  *)
(* saves its caller in m_local_state of the cothread and loads the         *)
(* cothread from the low end of the cothread's own stack (m_addr); the     *)
(* yields do the reverse.  Each routine is one action, its pushes and pops *)
(* included.  Between the switches a side calls and leaves functions, each *)
(* of which saves the callee-saved registers that it changes.              *)
(*                                                                         *)
(* A word of a stack is a record with the kind of what was put there.  The *)
(* registers rbp, rbx and r12 to r15 are saved and restored alike and are  *)
(* one value here (callee).                                                *)
(***************************************************************************)
EXTENDS Integers

CONSTANTS
  Threads,    (* the co_thread objects                                      *)
  Main,       (* the program's own stack                                    *)
  Sites,      (* the places in the program that a switch returns to         *)
  Values,     (* the values of the callee-saved registers                   *)
  Events,     (* what run() is given: event_and_fd                          *)
  StackSize,  (* the words of a stack, up to the last one that is used      *)
  MaxFrames,  (* how deep the functions of each side nest                   *)
  ImplWords,  (* the stack that a _impl function of co_thread.cpp takes     *)
  Routines,   (* the switches that the cothreads of this instance use       *)
  Null

ASSUME SidesAssumption == Main \notin Threads /\ Null \notin Threads \cup {Main}
ASSUME RoutinesAssumption ==
  Routines \subseteq {"yield", "yield_event", "yield_for", "yield_events", "suicide", "finish"}
ASSUME SizesAssumption ==
  /\ StackSize \in Nat /\ StackSize >= 8
  /\ ImplWords \in Nat
  /\ MaxFrames \in [Threads \cup {Main} -> Nat]

VARIABLES
  cpu,       (* rip: where the last ret went; rsp; callee; rax              *)
  mem,       (* the words of every stack                                    *)
  local,     (* m_local_state of every cothread                             *)
  finished,  (* the cothreads whose flag is set                             *)
  alive,     (* the cothreads that are constructed                          *)
  caller,    (* history: the side that runs a cothread, Null if none does   *)
  left       (* history: how a side left, what it expects to find again and *)
             (* what it tells the other side                                *)

switchVars == <<cpu, mem, local, finished, alive, caller, left>>

Sides == Threads \cup {Main}

\* The save area at the low end of m_addr; CALLEE stands for [2] and [5] to [9].
RIP == 0
RSP == 1
RDI == 2
RSI == 3
CALLEE == 4
AreaSize == 5

Code(site) == [kind |-> "code", val |-> site]
Addr(a) == [kind |-> "addr", val |-> a]
This(t) == [kind |-> "this", val |-> t]
Reg(v) == [kind |-> "reg", val |-> v]
Flag(b) == [kind |-> "flag", val |-> b]
Word(kind) == [kind |-> kind, val |-> Null]
Func == Word("func")
FinishCode == Word("finish")
Junk == Word("junk")

\* ret_addr_idx, and rsp at the entry of the cothread's function.
RetAddrIdx == StackSize - 3
Entry == RetAddrIdx + 1

Up(a, n) == [a EXCEPT !.idx = @ + n]
Down(a, n) == [a EXCEPT !.idx = @ - n]
At(m, a) == m[a.ctx][a.idx]
Poke(m, a, word) == [m EXCEPT ![a.ctx][a.idx] = word]

EmptyStack == [i \in 0..StackSize - 1 |-> Junk]

\* What has been popped, and the words below, may be overwritten at any time.
Popped(m, a) ==
  [m EXCEPT ![a.ctx] = [i \in DOMAIN @ |-> IF i \in (a.idx - 1 - ImplWords)..a.idx THEN Junk ELSE @[i]]]

Running == cpu.rsp.ctx

\* m_local_state while nobody runs the cothread: run() overwrites all of it.
NoContext == [rsp |-> [ctx |-> Main, idx |-> Entry], callee |-> Null, rdi |-> Null, rsi |-> Null]

\* The entry in `left' of a side that runs.
Here == [rip |-> Junk, rsp |-> [ctx |-> Main, idx |-> Entry], callee |-> Null, tells |-> Null, pushed |-> FALSE]

SwitchInit ==
  /\ \E v \in Values : cpu = [rip |-> Code(Null), rsp |-> [ctx |-> Main, idx |-> Entry], callee |-> v, rax |-> Null]
  /\ mem = [c \in Sides |-> EmptyStack]
  /\ local = [t \in Threads |-> NoContext]
  /\ finished = {}
  /\ alive = {}
  /\ caller = [t \in Threads |-> Null]
  /\ left = [c \in Sides |-> Here]

-----------------------------------------------------------------------------
(* Construction, destruction, and the functions a side calls.              *)

\* The constructor.  The callee-saved registers are whatever malloc returned.
New(t) ==
  /\ t \notin alive
  /\ \E v \in Values :
       /\ mem' = [mem EXCEPT ![t] =
            [EmptyStack EXCEPT ![RIP] = Func, ![RSP] = Addr([ctx |-> t, idx |-> RetAddrIdx]),
                               ![RDI] = This(t), ![RSI] = Word("param"), ![CALLEE] = Reg(v),
                               ![RetAddrIdx] = Func, ![RetAddrIdx + 1] = FinishCode,
                               ![RetAddrIdx + 2] = This(t)]]
       /\ left' = [left EXCEPT ![t] = [rip |-> Func, rsp |-> [ctx |-> t, idx |-> Entry],
                                       callee |-> v, tells |-> 0, pushed |-> FALSE]]
  /\ alive' = alive \cup {t}
  /\ UNCHANGED <<cpu, local, finished, caller>>

\* The destructor, of a cothread that is not under way.
Delete(t) ==
  /\ t \in alive
  /\ caller[t] = Null
  /\ alive' = alive \ {t}
  /\ finished' = finished \ {t}
  /\ mem' = [mem EXCEPT ![t] = EmptyStack]
  /\ left' = [left EXCEPT ![t] = Here]
  /\ UNCHANGED <<cpu, local, caller>>

\* A function is called, from a place that is none of Sites: it saves the
\* callee-saved registers and uses them.
Enter(v) ==
  /\ cpu.rsp.idx > Entry - 2 * MaxFrames[Running]
  /\ mem' = Poke(Poke(mem, Down(cpu.rsp, 1), Code(Null)), Down(cpu.rsp, 2), Reg(cpu.callee))
  /\ cpu' = [cpu EXCEPT !.rsp = Down(@, 2), !.callee = v]
  /\ UNCHANGED <<local, finished, alive, caller, left>>

Leave ==
  /\ cpu.rsp.idx < Entry
  /\ cpu' = [cpu EXCEPT !.rsp = Up(@, 2), !.callee = At(mem, cpu.rsp).val, !.rip = At(mem, Up(cpu.rsp, 1))]
  /\ mem' = Popped(mem, Up(cpu.rsp, 1))
  /\ UNCHANGED <<local, finished, alive, caller, left>>

-----------------------------------------------------------------------------
(* The parts of the routines.  Each is entered with its return address     *)
(* just pushed.                                                            *)

\* call: the return address is at rsp.
Called(site) == Poke(mem, Down(cpu.rsp, 1), Code(site))

\* push %rdi; call _impl; pop %rdi: what lies below rsp afterwards.
Below(m, a, t) ==
  [m EXCEPT ![a.ctx] =
     [i \in DOMAIN @ |-> IF i = a.idx - 1 THEN This(t)
                         ELSE IF i \in (a.idx - 1 - ImplWords)..(a.idx - 2) THEN Junk ELSE @[i]]]

\* Mutation: rsp is saved after the push.
SaveCothreadPushed(m, a, t, rsi) ==
  [m EXCEPT ![t] = [@ EXCEPT ![RIP] = At(m, a), ![RSP] = Addr(Down(a, 1)), ![RDI] = This(t),
                             ![RSI] = rsi, ![CALLEE] = Reg(cpu.callee)]]

\* save_cothread_context
SaveCothread(m, a, t, rsi) ==
  [m EXCEPT ![t] = [@ EXCEPT ![RIP] = At(m, a), ![RSP] = Addr(a), ![RDI] = This(t),
                             ![RSI] = rsi, ![CALLEE] = Reg(cpu.callee)]]

\* ret, with the registers as loaded.
Ret(m, a, v, rax) == [rip |-> At(m, a), rsp |-> Up(a, 1), callee |-> v, rax |-> rax]

\* restore_user_context of cothread t, and ret to the side that ran it.
RestoreUser(m, t, rax) ==
  /\ mem' = Popped(m, local[t].rsp)
  /\ cpu' = Ret(m, local[t].rsp, local[t].callee, rax)
  /\ caller' = [caller EXCEPT ![t] = Null]
  /\ local' = [local EXCEPT ![t] = NoContext]
  /\ UNCHANGED alive

\* The side that runs leaves to another one, which is to be told `tells'; pushed
\* says that it left through yield_events.
LeavesPushed(to, site, tells, pushed) ==
  left' = [left EXCEPT ![to] = Here,
                       ![Running] = [rip |-> Code(site), rsp |-> cpu.rsp, callee |-> cpu.callee,
                                     tells |-> tells, pushed |-> pushed]]

Leaves(to, site, tells) == LeavesPushed(to, site, tells, FALSE)

-----------------------------------------------------------------------------
(* run(event) of cothread t, called by any side; a cothread that is under  *)
(* way is not run again.                                                   *)

Runs(t, event, site) ==
  /\ t \in alive
  /\ caller[t] = Null
  /\ local' = [local EXCEPT ![t] = [rsp |-> Down(cpu.rsp, 1), callee |-> cpu.callee, rdi |-> t, rsi |-> event]]

\* The caller's stack once run_impl has been called.
RunCalled(t, site) == Below(Called(site), Down(cpu.rsp, 1), t)

\* run_impl says that it has finished: run returns 1 at once.
RunFinished(t, event, site) ==
  /\ t \in finished
  /\ Runs(t, event, site)
  /\ cpu' = Ret(RunCalled(t, site), Down(cpu.rsp, 1), cpu.callee, 1)
  /\ mem' = Popped(RunCalled(t, site), Down(cpu.rsp, 1))
  /\ UNCHANGED <<finished, alive, caller, left>>

\* Mutation: rax is loaded from m_addr[4], not from m_local_state[4].
SwitchToStaleRsi(t, event, site) ==
  /\ t \notin finished
  /\ Runs(t, event, site)
  /\ LET m == RunCalled(t, site)
         area == m[t]
     IN  /\ cpu' = Ret(m, area[RSP].val, area[CALLEE].val, area[RSI].val)
         /\ mem' = Popped(m, area[RSP].val)
  /\ caller' = [caller EXCEPT ![t] = Running]
  /\ Leaves(t, site, event)
  /\ UNCHANGED <<finished, alive>>

\* switch: the cothread's context is restored, and rax is the event.
SwitchTo(t, event, site) ==
  /\ t \notin finished
  /\ Runs(t, event, site)
  /\ LET m == RunCalled(t, site)
         area == m[t]
     IN  /\ cpu' = Ret(m, area[RSP].val, area[CALLEE].val, local'[area[RDI].val].rsi)
         /\ mem' = Popped(m, area[RSP].val)
  /\ caller' = [caller EXCEPT ![t] = Running]
  /\ Leaves(t, site, event)
  /\ UNCHANGED <<finished, alive>>

-----------------------------------------------------------------------------
(* The ways back.  A cothread calls them on itself.                        *)

\* The context is saved, then the _impl function runs on the cothread's stack.
Suspended(t, site, rsi) ==
  LET a == Down(cpu.rsp, 1)
  IN  Below(SaveCothread(Called(site), a, t, rsi), a, t)

\* yield(blocked): run returns 2 or 0, by the saved parameter.
Yield(t, site, blocked) ==
  /\ "yield" \in Routines
  /\ Running = t
  /\ LET m == Suspended(t, site, Flag(blocked))
     IN  RestoreUser(m, t, IF m[local[t].rdi][RSI].val # 0 THEN 2 ELSE 0)
  /\ Leaves(caller[t], site, IF blocked # 0 THEN 2 ELSE 0)
  /\ UNCHANGED finished

\* yield_event(fd, event) and yield_for(ms): the same code around another _impl
\* function, which registers an event.
YieldEvent(t, site) ==
  /\ Routines \cap {"yield_event", "yield_for"} # {}
  /\ Running = t
  /\ RestoreUser(Suspended(t, site, Word("param")), t, 2)
  /\ Leaves(caller[t], site, 2)
  /\ UNCHANGED finished

\* yield_events(fds, events, n) pushes rcx before it saves the context and pops
\* it again before push %rdi.
YieldEvents(t, site) ==
  /\ "yield_events" \in Routines
  /\ Running = t
  /\ LET a == Down(cpu.rsp, 1)
         pushed == Poke(Called(site), Down(a, 1), Word("param"))
     IN  RestoreUser(Below(SaveCothread(pushed, Down(a, 1), t, Word("param")), a, t), t, 2)
  /\ LeavesPushed(caller[t], site, 2, TRUE)
  /\ UNCHANGED finished

\* suicide()
Suicide(t, site) ==
  /\ "suicide" \in Routines
  /\ Running = t
  /\ finished' = finished \cup {t}
  /\ RestoreUser(Called(site), t, 1)
  /\ left' = [left EXCEPT ![caller[t]] = Here]

\* Mutation: finish takes the word it was returned to for `this'.
FinishOffByOne(t) ==
  /\ "finish" \in Routines
  /\ Running = t
  /\ cpu.rsp.idx = Entry
  /\ finished' = finished \cup {At(mem, cpu.rsp).val}
  /\ RestoreUser(mem, t, 1)
  /\ left' = [left EXCEPT ![caller[t]] = Here]

\* The function of the cothread returns, to finish(), which finds `this' on the
\* stack.
Finish(t) ==
  /\ "finish" \in Routines
  /\ Running = t
  /\ cpu.rsp.idx = Entry
  /\ At(mem, cpu.rsp) = FinishCode
  /\ LET this == At(mem, Up(cpu.rsp, 1)).val
     IN  finished' = finished \cup {this} /\ RestoreUser(mem, this, 1)
  /\ left' = [left EXCEPT ![caller[t]] = Here]

-----------------------------------------------------------------------------
\* The processor is at an address that holds code; elsewhere it faults and the
\* process ends.
Executing == cpu.rip.kind \in {"code", "func"}

SwitchStep ==
  \/ \E t \in Threads : New(t) \/ Delete(t) \/ Finish(t)
  \/ \E v \in Values : Enter(v)
  \/ Leave
  \/ \E t \in Threads, site \in Sites :
       \/ \E event \in Events : RunFinished(t, event, site) \/ SwitchTo(t, event, site)
       \/ \E blocked \in {0, 1} : Yield(t, site, blocked)
       \/ YieldEvent(t, site)
       \/ YieldEvents(t, site)
       \/ Suicide(t, site)

SwitchNext == Executing /\ SwitchStep

SwitchSpec == SwitchInit /\ [][SwitchNext]_switchVars

\* The deepest function of a side, with a switch in it, stays clear of the save
\* area.  Nothing in the code sees to it: it is for the program to obey.
Fits == \A c \in Sides : AreaSize + 2 * MaxFrames[c] + 2 + ImplWords <= Entry

-----------------------------------------------------------------------------
Places == [ctx : Sides, idx : 0..StackSize - 1]

Words ==
  [kind : {"code"}, val : Sites \cup {Null}] \cup [kind : {"addr"}, val : Places]
    \cup [kind : {"this"}, val : Threads] \cup [kind : {"reg"}, val : Values] \cup [kind : {"flag"}, val : {0, 1}]
    \cup [kind : {"func", "finish", "param", "junk"}, val : {Null}]

SwitchTypeOK ==
  /\ cpu.rsp \in Places
  /\ mem \in [Sides -> [0..StackSize - 1 -> Words]]
  /\ \A t \in Threads : local[t].rsp \in Places
  /\ finished \subseteq Threads
  /\ alive \subseteq Threads
  /\ caller \in [Threads -> Sides \cup {Null}]
  /\ \A c \in Sides : left[c].rsp \in Places

\* A cothread that can be run, and did not leave through yield_events.
Resumable(t) == t \in alive \ finished /\ caller[t] = Null /\ ~left[t].pushed

\* What a suspended cothread will be restored from is what it left: its save area
\* has not been reached by the stack that grows towards it (co_thread.cpp:14), and
\* the word it returns through has not been overwritten by what ran on that stack
\* after the save (co_thread.S:80-82).
SavedIntact ==
  \A t \in Threads : Resumable(t) =>
    LET a == mem[t][RSP].val
    IN  /\ Up(a, 1) = left[t].rsp
        /\ At(mem, a) = left[t].rip
        /\ mem[t][CALLEE] = Reg(left[t].callee)
        /\ mem[t][RDI] = This(t)

\* A side gets control from another one.
Resumed(c) ==
  \/ \E t \in Threads : c = t /\ caller[t] = Null /\ caller'[t] # Null
  \/ \E t \in Threads : c = caller[t] /\ c # Null /\ caller'[t] = Null

\* It goes on where it left, on its own stack at the height it left it, with the
\* callee-saved registers it had.
GoesOn(c) ==
  /\ cpu'.rip = left[c].rip
  /\ cpu'.rsp = left[c].rsp
  /\ cpu'.callee = left[c].callee

\* A side that gets control back goes on where it left, however the switches of
\* several cothreads, run by the program or by each other, are interleaved: "when
\* it calls yeild, control flow will redirect into run function" (co_thread.h:7),
\* and back.  A cothread that left through yield_events is the exception.
ResumesWhereItLeft ==
  [][\A c \in Sides : Resumed(c) /\ ~left[c].pushed => GoesOn(c)]_switchVars

\* The same of a cothread that left through yield_events, whose context the code
\* saves and restores under the same headings (co_thread.S:229, 252).
YieldEventsReturns ==
  [][\A c \in Sides : Resumed(c) /\ left[c].pushed => GoesOn(c)]_switchVars

\* run returns 1 if the cothread has finished, else what its last switch stands
\* for, 0 or 2 (co_thread.h:28-30), also when the cothread was run by another
\* cothread and others ran in between.
RunTellsStatus ==
  [][\A t \in Threads : caller[t] # Null /\ caller'[t] = Null =>
       cpu'.rax = IF t \in finished' THEN 1 ELSE left'[t].tells]_switchVars

\* A cothread that is resumed gets the event that this run was given, not one of
\* an earlier run (co_thread.h:25-26).
DeliversEvent ==
  [][\A t \in Threads : caller[t] = Null /\ caller'[t] # Null =>
       cpu'.rax = left'[caller'[t]].tells]_switchVars

\* Every switch tells the side that it gives control to what it is to be told, however
\* the runs are nested: run its status, a cothread its event.
EachIsTold == RunTellsStatus /\ DeliversEvent

=============================================================================
