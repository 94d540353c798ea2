------------------------------ MODULE MCCoEnv -------------------------------
(* Values for the constants of CoEnv in the runs of TLC.                   *)
EXTENDS CoEnv, TLC

CONSTANTS EPOLLIN, EPOLLOUT, EPOLLHUP

MCBits == {EPOLLIN, EPOLLOUT}
MCErrBits == {EPOLLHUP}
NoErrBits == {}

\* All cothreads wait for the same event of an fd; some for input, some for output.
SingleUsage == [fd \in Fds |-> {{EPOLLIN}}]
MixedUsage == [fd \in Fds |-> {{EPOLLIN}, {EPOLLOUT}}]

\* Groups of API calls.
SwitchOnly == {"yield", "block"}
TaskCalls == SwitchOnly \cup {"add_task", "cancel_task", "register_event"}
EventCalls == SwitchOnly \cup {"register_event", "cancel_event", "cancel_all_event", "close"}
AllCalls == TaskCalls \cup EventCalls

Symmetry == Permutations(Nodes) \cup Permutations(Fds)

=============================================================================
