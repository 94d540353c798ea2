---------------------------- MODULE MCConnection ----------------------------
(* Values for the constants of Connection in the runs of TLC.              *)
EXTENDS Connection, TLC

CONSTANTS EPOLLHUP, s1, s2

MCBits == {EPOLLIN, EPOLLOUT}
MCErrBits == {EPOLLHUP}
NoErrBits == {}
MCUsage == [fd \in Fds |-> IF fd \in Timers THEN {{EPOLLIN}} ELSE {{EPOLLIN}, {EPOLLOUT}}]

ConnApi == {"register_event", "cancel_event", "cancel_task", "yield", "block", "io"}

\* Cothreads with a socket each, with one between them, one with two sockets.
OwnSocket == [t \in Threads |-> IF t = 1 THEN {s1} ELSE {s2}]
OneSocket == [t \in Threads |-> {s1}]
TwoSockets == [t \in Threads |-> {s1, s2}]

Symmetry == Permutations(Nodes) \cup Permutations(Timers)

=============================================================================
