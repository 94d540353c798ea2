------------------------------ MODULE NodeRing ------------------------------
(***************************************************************************)
(* add_node and del_node (src/co_event_manager.cpp): the circular doubly   *)
(* linked list, `head', of all the event_info_node objects.  It is what    *)
(* owns the nodes; module EventManager knows it as the domain of `node'.   *)
(***************************************************************************)
CONSTANTS Nodes, Null

VARIABLES
  head,  (* the newest node that is left, or Null                          *)
  next,  (* next and prev of the allocated nodes                           *)
  prev

ringVars == <<head, next, prev>>

Allocated == DOMAIN next

RingInit ==
  /\ head = Null
  /\ next = [n \in {} |-> Null]
  /\ prev = [n \in {} |-> Null]

\* head->prev, the oldest node.
tail == prev[head]

\* Mutation: head->prev->next is forgotten.
AddNodeNoForward(n) ==
  /\ n \in Nodes \ Allocated
  /\ head' = n
  /\ next' = [m \in Allocated \cup {n} |-> IF m = n THEN (IF head = Null THEN n ELSE head) ELSE next[m]]
  /\ prev' = [m \in Allocated \cup {n} |-> IF m = n THEN (IF head = Null THEN n ELSE tail)
                                           ELSE IF m = head THEN n ELSE prev[m]]

\* add_node(node) after `new' put the node at address n.  The four assignments
\* of the first branch, in the order of the code: node->next, node->prev,
\* head->prev->next, head->prev.
AddNode(n) ==
  /\ n \in Nodes \ Allocated
  /\ head' = n
  /\ \/ /\ head # Null
        /\ next' = [m \in Allocated \cup {n} |-> CASE m = n -> head [] m = tail -> n [] OTHER -> next[m]]
        /\ prev' = [m \in Allocated \cup {n} |-> CASE m = n -> tail [] m = head -> n [] OTHER -> prev[m]]
     \/ /\ head = Null
        /\ next' = [m \in Allocated \cup {n} |-> IF m = n THEN n ELSE next[m]]
        /\ prev' = [m \in Allocated \cup {n} |-> IF m = n THEN n ELSE prev[m]]

\* del_node(node), and `delete'.
DelNode(n) ==
  /\ n \in Allocated
  /\ \/ /\ prev[n] # n
        /\ head' = IF n = head THEN next[n] ELSE head
        /\ next' = [m \in Allocated \ {n} |-> IF m = prev[n] THEN next[n] ELSE next[m]]
        /\ prev' = [m \in Allocated \ {n} |-> IF m = next[n] THEN prev[n] ELSE prev[m]]
     \/ /\ prev[n] = n
        /\ head' = Null
        /\ next' = [m \in Allocated \ {n} |-> next[m]]
        /\ prev' = [m \in Allocated \ {n} |-> prev[m]]

RingNext == \E n \in Nodes : AddNode(n) \/ DelNode(n)

RingSpec == RingInit /\ [][RingNext]_ringVars

-----------------------------------------------------------------------------
RingTypeOK ==
  /\ Allocated \subseteq Nodes
  /\ next \in [Allocated -> Allocated]
  /\ prev \in [Allocated -> Allocated]
  /\ head \in Allocated \cup {Null}

\* The two directions of the list mirror each other, and the list is empty only
\* when no node is allocated: no link leads to a freed node, and del_node, which
\* trusts both links of the node it unlinks (co_event_manager.cpp:44-50), never
\* writes through a dangling one.
Mirrored ==
  /\ \A n \in Allocated : prev[next[n]] = n /\ next[prev[n]] = n
  /\ head = Null <=> Allocated = {}

\* There is one ring, not several: whoever follows `next' from any node, and
\* from head in particular, comes by every allocated node.  So none is leaked.
OneRing ==
  \A S \in SUBSET Allocated : S # {} /\ (\A n \in S : next[n] \in S) => S = Allocated

\* The list is one well-linked ring, whatever is added and deleted, in any order.
WellLinked == Mirrored /\ OneRing

=============================================================================
