----------------------------- MODULE EventList ------------------------------
(***************************************************************************)
(* co_event_manager with the list that owns its nodes: add_event makes a   *)
(* node and links it (co_event_manager.cpp:58-60), delete_event unlinks    *)
(* and frees it when all the rest is done (129).                           *)
(***************************************************************************)
EXTENDS EventManager

VARIABLES head, next, prev  (* as in NodeRing *)

List == INSTANCE NodeRing

listVars == <<managerVars, head, next, prev>>

ListInit == ManagerInit /\ List!RingInit

\* What a step of the manager does to the list: a new node is linked, one that goes is
\* unlinked.
Linked ==
  \/ \E n \in DOMAIN node' \ DOMAIN node : List!AddNode(n)
  \/ \E n \in DOMAIN node \ DOMAIN node' : List!DelNode(n)
  \/ DOMAIN node' = DOMAIN node /\ UNCHANGED <<head, next, prev>>

ListNext == ManagerNext /\ Linked

ListSpec == ListInit /\ [][ListNext]_listVars

\* The list of the nodes is one well-linked ring whenever a node comes or goes, also in
\* the middle of a walk over the events or over the nodes of a cothread, which take the
\* nodes out of it in any order (co_event_manager.cpp:129, 159, 174).
WellLinked == List!WellLinked

=============================================================================
