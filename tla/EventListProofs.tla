-------------------------- MODULE EventListProofs ---------------------------
(***************************************************************************)
(* Proofs about EventList: whatever nodes the manager makes and frees, the *)
(* links mirror each other, and every node is on the one ring.             *)
(***************************************************************************)
EXTENDS EventList, TLAPS

RingInv == List!RingTypeOK /\ List!Mirrored /\ List!OneRing /\ DOMAIN prev = List!Allocated

LEMMA RingInitInv == List!RingInit => RingInv
BY DEF List!RingInit, RingInv, List!RingTypeOK, List!Mirrored, List!OneRing, List!Allocated

LEMMA AddFirst ==
  ASSUME RingInv, NEW n \in Nodes, List!AddNode(n), head = Null
  PROVE  RingInv'
<1>1. List!Allocated = {} /\ next' = [m \in {n} |-> n] /\ prev' = [m \in {n} |-> n] /\ head' = n
  BY DEF RingInv, List!Mirrored, List!AddNode
<1> QED
  BY NullAssumption, <1>1 DEF RingInv, List!RingTypeOK, List!Mirrored, List!OneRing, List!Allocated

LEMMA AddToRing ==
  ASSUME RingInv, NEW n \in Nodes, List!AddNode(n), head # Null
  PROVE  RingInv'
<1>1. /\ n \notin List!Allocated /\ head \in List!Allocated /\ List!tail \in List!Allocated /\ next[List!tail] = head
      /\ \A m \in List!Allocated : next[m] \in List!Allocated /\ prev[m] \in List!Allocated
      /\ \A m \in List!Allocated : prev[next[m]] = m /\ next[prev[m]] = m
  BY DEF RingInv, List!RingTypeOK, List!Mirrored, List!AddNode, List!tail
<1>2. /\ List!Allocated' = List!Allocated \cup {n} /\ DOMAIN prev' = List!Allocated' /\ head' = n
      /\ next'[n] = head /\ next'[List!tail] = n
      /\ prev'[n] = List!tail /\ prev'[head] = n
      /\ \A m \in List!Allocated : m # List!tail => next'[m] = next[m]
      /\ \A m \in List!Allocated : m # head => prev'[m] = prev[m]
  BY <1>1 DEF List!AddNode, List!Allocated
<1>3. List!RingTypeOK'
  <2>1. next' = [m \in List!Allocated' |-> next'[m]] /\ prev' = [m \in List!Allocated' |-> prev'[m]]
    BY <1>2 DEF List!AddNode, List!Allocated
  <2>2. \A m \in List!Allocated' : next'[m] \in List!Allocated' /\ prev'[m] \in List!Allocated'
    BY <1>1, <1>2
  <2> QED  BY <1>2, <2>1, <2>2 DEF RingInv, List!RingTypeOK
<1>4. List!Mirrored'
  <2>1. ASSUME NEW m \in List!Allocated, m # List!tail PROVE next[m] # head
    BY <1>1, <2>1 DEF List!tail
  <2>2. ASSUME NEW m \in List!Allocated, m # head PROVE prev[m] # List!tail
    BY <1>1, <2>2
  <2> QED  BY NullAssumption, <1>1, <1>2, <2>1, <2>2 DEF List!Mirrored
<1>5. ASSUME NEW S \in SUBSET List!Allocated', S # {}, \A m \in S : next'[m] \in S
      PROVE  S = List!Allocated'
  <2>1. head \in S
    <3>1. PICK m \in S : TRUE
      BY <1>5
    <3>2. n \in S => head \in S
      BY <1>2, <1>5
    <3>3. CASE n \notin S
      <4>1. List!tail \notin S
        BY <1>2, <1>5, <3>3
      <4>2. \A k \in S : k \in List!Allocated /\ next[k] \in S
        BY <1>2, <1>5, <3>3, <4>1
      <4>3. S = List!Allocated
        BY <1>5, <4>2 DEF RingInv, List!OneRing
      <4> QED  BY <1>1, <4>1, <4>3
    <3> QED  BY <3>2, <3>3
  <2>2. \A k \in S \ {n} : k \in List!Allocated /\ next[k] \in S \ {n}
    BY <1>1, <1>2, <1>5, <2>1
  <2>3. S \ {n} = List!Allocated
    BY <1>1, <2>1, <2>2 DEF RingInv, List!OneRing
  <2>4. n \in S
    BY <1>1, <1>2, <1>5, <2>3
  <2> QED  BY <1>2, <2>3, <2>4
<1>6. List!OneRing'
  BY <1>5 DEF List!OneRing
<1> QED  BY <1>2, <1>3, <1>4, <1>6 DEF RingInv

LEMMA DelLast ==
  ASSUME RingInv, NEW n \in Nodes, List!DelNode(n), prev[n] = n
  PROVE  RingInv'
<1>1. next[n] = n /\ n \in List!Allocated
  BY DEF RingInv, List!Mirrored, List!DelNode
<1>2. List!Allocated = {n}
  BY <1>1 DEF RingInv, List!OneRing
<1>3. head' = Null /\ next' = [m \in {} |-> next[m]] /\ prev' = [m \in {} |-> prev[m]]
  BY <1>2 DEF List!DelNode
<1> QED
  BY <1>3 DEF RingInv, List!RingTypeOK, List!Mirrored, List!OneRing, List!Allocated

LEMMA DelFromRing ==
  ASSUME RingInv, NEW n \in Nodes, List!DelNode(n), prev[n] # n
  PROVE  RingInv'
<1> DEFINE p == prev[n]
           q == next[n]
<1>1. /\ n \in List!Allocated /\ head \in List!Allocated /\ p \in List!Allocated /\ q \in List!Allocated
      /\ p # n /\ q # n
      /\ \A m \in List!Allocated : next[m] \in List!Allocated /\ prev[m] \in List!Allocated
      /\ \A m \in List!Allocated : prev[next[m]] = m /\ next[prev[m]] = m
  BY DEF RingInv, List!RingTypeOK, List!Mirrored, List!DelNode
<1>2. /\ List!Allocated' = List!Allocated \ {n} /\ DOMAIN prev' = List!Allocated'
      /\ head' = IF n = head THEN q ELSE head
      /\ next'[p] = q /\ prev'[q] = p
      /\ \A m \in List!Allocated' : m # p => next'[m] = next[m]
      /\ \A m \in List!Allocated' : m # q => prev'[m] = prev[m]
  BY <1>1 DEF List!DelNode, List!Allocated
<1>3. /\ next[p] = n /\ prev[q] = n
      /\ \A m \in List!Allocated' : m # p => next[m] # n
      /\ \A m \in List!Allocated' : m # q => prev[m] # n
  BY <1>1, <1>2
<1>4. List!RingTypeOK'
  <2>1. next' = [m \in List!Allocated' |-> next'[m]] /\ prev' = [m \in List!Allocated' |-> prev'[m]]
    BY <1>2 DEF List!DelNode, List!Allocated
  <2> HIDE DEF p, q
  <2>2. \A m \in List!Allocated' : next'[m] \in List!Allocated' /\ prev'[m] \in List!Allocated'
    BY <1>1, <1>2, <1>3
  <2>3. List!Allocated' \subseteq Nodes /\ head' \in List!Allocated'
    BY <1>1, <1>2 DEF RingInv, List!RingTypeOK
  <2> QED  BY <2>1, <2>2, <2>3 DEF List!RingTypeOK
<1> HIDE DEF p, q
<1>5. List!Mirrored'
  <2>1. ASSUME NEW m \in List!Allocated' PROVE prev'[next'[m]] = m /\ next'[prev'[m]] = m
    <3>1. m # p => next[m] # q
      BY <1>1, <1>2, <1>3
    <3>2. m # q => prev[m] # p
      BY <1>1, <1>2, <1>3
    <3>3. m # p => next[m] \in List!Allocated'
      BY <1>1, <1>2, <1>3
    <3>4. m # q => prev[m] \in List!Allocated'
      BY <1>1, <1>2, <1>3
    <3> QED  BY <1>1, <1>2, <3>1, <3>2, <3>3, <3>4
  <2>2. head' # Null /\ List!Allocated' # {}
    BY NullAssumption, <1>1, <1>2 DEF RingInv, List!RingTypeOK
  <2> QED  BY <2>1, <2>2 DEF List!Mirrored
<1>6. ASSUME NEW S \in SUBSET List!Allocated', S # {}, \A m \in S : next'[m] \in S
      PROVE  S = List!Allocated'
  <2>1. \A m \in S : m # p => next[m] \in S
    BY <1>2, <1>6
  <2>2. CASE p \in S
    <3>1. next[n] \in S
      BY <1>2, <1>6, <2>2 DEF q
    <3>2. \A m \in S \cup {n} : m \in List!Allocated /\ next[m] \in S \cup {n}
      BY <1>1, <1>2, <1>3, <2>1, <3>1
    <3>3. S \cup {n} = List!Allocated
      BY <3>2 DEF RingInv, List!OneRing
    <3> QED  BY <1>2, <3>3
  <2>3. CASE p \notin S
    <3>1. S \subseteq List!Allocated /\ \A m \in S : next[m] \in S
      BY <1>2, <2>1, <2>3
    <3>2. S = List!Allocated
      BY <1>6, <3>1 DEF RingInv, List!OneRing
    <3> QED  BY <1>1, <2>3, <3>2
  <2> QED  BY <2>2, <2>3
<1>7. List!OneRing'
  BY <1>6 DEF List!OneRing
<1> QED  BY <1>2, <1>4, <1>5, <1>7 DEF RingInv

LEMMA RingStep ==
  ASSUME RingInv, [List!RingNext]_List!ringVars
  PROVE  RingInv'
<1>1. CASE UNCHANGED List!ringVars
  BY <1>1 DEF List!ringVars, RingInv, List!RingTypeOK, List!Mirrored, List!OneRing, List!Allocated
<1> QED  BY <1>1, AddFirst, AddToRing, DelLast, DelFromRing DEF List!RingNext

\* A node that the manager makes or frees is linked or unlinked by one step of the list.
LEMMA LinkedIsRingStep ==
  ASSUME RingInv, [ListNext]_listVars
  PROVE  [List!RingNext]_List!ringVars
<1>1. CASE UNCHANGED listVars
  BY <1>1 DEF listVars, List!ringVars
<1>2. ASSUME NEW n, List!AddNode(n) PROVE List!RingNext
  BY <1>2 DEF List!RingNext, List!AddNode
<1>3. CASE Linked
  <2>1. ASSUME NEW n, List!DelNode(n) PROVE List!RingNext
    BY <2>1 DEF List!RingNext, List!DelNode, RingInv, List!RingTypeOK
  <2> QED  BY <1>2, <1>3, <2>1 DEF Linked, List!ringVars
<1> QED  BY <1>1, <1>3 DEF ListNext

LEMMA RingInvariant == ListSpec => []RingInv
<1>1. ListInit => RingInv
  BY RingInitInv DEF ListInit
<1>2. RingInv /\ [ListNext]_listVars => RingInv'
  BY LinkedIsRingStep, RingStep
<1> QED  BY <1>1, <1>2, PTL DEF ListSpec

\* The links and the head lead to allocated nodes, or nowhere when there is none.
THEOREM RingTypes == ListSpec => []List!RingTypeOK
<1>1. RingInv => List!RingTypeOK
  BY DEF RingInv
<1> QED  BY <1>1, RingInvariant, PTL

\* The links of the list mirror each other, and whatever the manager makes and frees in
\* whatever order, every allocated node stays on the one ring
\* (co_event_manager.cpp:26-55, 60, 129).
THEOREM AlwaysWellLinked == ListSpec => []WellLinked
<1>1. RingInv => WellLinked
  BY DEF RingInv, WellLinked, List!WellLinked
<1> QED  BY <1>1, RingInvariant, PTL

=============================================================================
