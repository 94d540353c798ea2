------------------------------ MODULE MCSocks5 ------------------------------
(* Values for the constants of Socks5 in the runs of TLC.                  *)
EXTENDS Socks5, TLC

CONSTANT EPOLLHUP

MCBits == {EPOLLIN, EPOLLOUT}
MCErrBits == {EPOLLHUP}
MCUsage == [fd \in Fds |-> {{EPOLLIN}, {EPOLLOUT}}]
SocksApi == {"add_task", "register_event", "cancel_event", "cancel_task", "yield", "block", "close", "io"}
AnySocket == [t \in Threads |-> ClientFds]

\* A bound: while a client relays, the handshake of another goes no further than its
\* first message.
OneGreets ==
  \A t \in ProcessTasks, c \in DOMAIN client :
    work[t].self \notin {Null, c} /\ client[c].m_trans_cothread1 # Null =>
      work[t].at \notin DOMAIN OpAt \ {"greet1"}

Symmetry == Permutations(Nodes) \cup Permutations(Clients) \cup Permutations(ClientFds)

=============================================================================
