--------------------------- MODULE MCEventManager ---------------------------
(* Values for the constants of EventManager in the runs of TLC.            *)
EXTENDS EventList, TLC

CONSTANTS EPOLLIN, EPOLLOUT, EPOLLHUP

CONSTANTS mixed, single, closed

MCBits == {EPOLLIN, EPOLLOUT}
MCErrBits == {EPOLLHUP}

\* Every mask, except on the fd `single'.
MCUsage == [fd \in Fds |-> IF fd = single THEN {{EPOLLIN}} ELSE (SUBSET MCBits) \ {{}}]

Symmetry == Permutations(Threads) \cup Permutations(Nodes)

=============================================================================
