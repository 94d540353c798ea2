---------------------------- MODULE MCEchoServer ----------------------------
(* Values for the constants of EchoServer in the runs of TLC.              *)
EXTENDS EchoServer, TLC

CONSTANT EPOLLHUP

MCBits == {EPOLLIN, EPOLLOUT}
MCErrBits == {EPOLLHUP}
MCUsage == [fd \in Fds |-> {{EPOLLIN}, {EPOLLOUT}}]
EchoApi == {"add_task", "register_event", "cancel_event", "cancel_task", "yield", "block", "close", "io"}
AnySocket == [t \in Threads |-> ClientFds]

Symmetry == Permutations(Nodes) \cup Permutations(Clients) \cup Permutations(ClientFds)

=============================================================================
