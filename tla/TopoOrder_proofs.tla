-------------------------- MODULE TopoOrder_proofs --------------------------
(***************************************************************************)
(* Kahn's algorithm as topo_order implements it is correct for arenas of   *)
(* every size, with any number of operands.                                *)
(***************************************************************************)
EXTENDS TopoOrder, CommonLemmas, FunctionTheorems

Counted == result \in {"Sorting", "Ordered", "Cycle"}

\* The operands of a node that are still waited for, by their places.
Pending(i) == {k \in DOMAIN arena[i] : arena[i][k] \notin Range(order)}

Distinct(s) == \A j, k \in DOMAIN s : s[j] = s[k] => j = k

\* Nothing is sorted before the edges are counted.
Fresh == ~ Counted => ready = << >> /\ order = << >>

\* The counts are those of the pending operands, and none dangles.
CountsPending ==
  Counted => /\ ~ Dangling
             /\ \A i \in Nodes : indegrees[i] = Cardinality(Pending(i))

\* A node whose count is zero is in the queue or in the order, and once.
QueueHoldsReady ==
  Counted => /\ {i \in Nodes : indegrees[i] = 0} = Range(ready) \cup Range(order)
             /\ Range(ready) \cap Range(order) = {}
             /\ Distinct(ready)

\* No part of a cycle ever gets into the order.
KnotsStayOut ==
  \A S \in SUBSET Nodes : Knotted(S) => S \cap Range(order) = {}

\* What the return was decided on.
Decided ==
  result \in {"Ordered", "Cycle"} =>
     ready = << >> /\ (result = "Ordered" <=> Len(order) = Len(arena))

IInv == /\ TypeOK /\ Fresh /\ CountsPending /\ QueueHoldsReady
        /\ OrderIsTopological /\ KnotsStayOut /\ Decided

-----------------------------------------------------------------------------
(* Sequences.                                                               *)

\* Appending adds one element to the range.
LEMMA AppendRange ==
  ASSUME NEW S, NEW s \in Seq(S), NEW x \in S
  PROVE  Range(Append(s, x)) = Range(s) \cup {x}
<1>1. /\ DOMAIN Append(s, x) = 1 .. (Len(s) + 1)
      /\ \A k \in 1 .. Len(s) : Append(s, x)[k] = s[k]
      /\ Append(s, x)[Len(s) + 1] = x
      /\ DOMAIN s = 1 .. Len(s) /\ Len(s) \in Nat
  OBVIOUS
<1>2. 1 .. (Len(s) + 1) = (1 .. Len(s)) \cup {Len(s) + 1}
  BY <1>1
<1> QED
  BY <1>1, <1>2 DEF Range

\* What a queue holds after its head is taken and others are put at its end.
LEMMA QueueStep ==
  ASSUME NEW S, NEW s \in Seq(S), s # << >>, Distinct(s),
         NEW t \in Seq(S), Distinct(t), Range(s) \cap Range(t) = {}
  PROVE  /\ Tail(s) \o t \in Seq(S)
         /\ Distinct(Tail(s) \o t)
         /\ Range(Tail(s) \o t) = (Range(s) \ {Head(s)}) \cup Range(t)
<1> DEFINE q == Tail(s) \o t
           m == Len(s) - 1
<1>1. /\ m \in Nat /\ Len(t) \in Nat /\ Len(s) = m + 1
      /\ DOMAIN s = 1 .. (m + 1) /\ DOMAIN t = 1 .. Len(t)
      /\ Head(s) = s[1]
  OBVIOUS
<1>2. /\ q \in Seq(S) /\ DOMAIN q = 1 .. (m + Len(t))
      /\ \A k \in 1 .. m : q[k] = s[k + 1]
      /\ \A k \in 1 .. Len(t) : q[m + k] = t[k]
  OBVIOUS
<1> HIDE DEF q, m
<1>3. \A k \in DOMAIN q : \/ k \in 1 .. m
                          \/ \E i \in 1 .. Len(t) : k = m + i
  <2> TAKE k \in DOMAIN q
  <2> SUFFICES ASSUME ~ (k \in 1 .. m)
               PROVE  \E i \in 1 .. Len(t) : k = m + i
    OBVIOUS
  <2>1. k - m \in 1 .. Len(t) /\ k = m + (k - m)
    BY <1>1, <1>2
  <2> QED
    BY <2>1
<1>in. /\ \A k \in DOMAIN s : s[k] \in Range(s)
       /\ \A k \in DOMAIN t : t[k] \in Range(t)
       /\ \A k \in DOMAIN q : q[k] \in Range(q)
  BY DEF Range
<1>4. \A k \in 1 .. m : k + 1 \in DOMAIN s /\ q[k] \in Range(s)
  <2> TAKE k \in 1 .. m
  <2>1. k + 1 \in DOMAIN s
    BY <1>1
  <2> QED
    BY <1>2, <1>in, <2>1
<1>5. \A k \in 1 .. Len(t) : q[m + k] \in Range(t) /\ m + k \in DOMAIN q
  <2> TAKE k \in 1 .. Len(t)
  <2>1. m + k \in 1 .. (m + Len(t)) /\ k \in DOMAIN t
    BY <1>1
  <2> QED
    BY <1>2, <1>in, <2>1
<1>6. ASSUME NEW j \in DOMAIN q, NEW k \in DOMAIN q, q[j] = q[k]
      PROVE  j = k
  <2>1. CASE j \in 1 .. m /\ k \in 1 .. m
    <3>1. s[j + 1] = s[k + 1]
      BY <1>2, <1>6, <2>1
    <3>2. j + 1 = k + 1
      BY <1>4, <2>1, <3>1 DEF Distinct
    <3> QED
      BY <1>1, <2>1, <3>2
  <2>2. CASE \E a, b \in 1 .. Len(t) : j = m + a /\ k = m + b
    <3>1. PICK a, b \in 1 .. Len(t) : j = m + a /\ k = m + b
      BY <2>2
    <3>2. t[a] = t[b] /\ a \in DOMAIN t /\ b \in DOMAIN t
      BY <1>1, <1>2, <1>6, <3>1
    <3>3. a = b
      BY <3>2 DEF Distinct
    <3> QED
      BY <3>1, <3>3
  <2>3. CASE j \in 1 .. m /\ \E b \in 1 .. Len(t) : k = m + b
    BY <1>4, <1>5, <1>6, <2>3
  <2>4. CASE k \in 1 .. m /\ \E b \in 1 .. Len(t) : j = m + b
    BY <1>4, <1>5, <1>6, <2>4
  <2> QED
    BY <1>3, <2>1, <2>2, <2>3, <2>4
<1>7. Range(q) \subseteq (Range(s) \ {Head(s)}) \cup Range(t)
  <2> SUFFICES ASSUME NEW k \in DOMAIN q
               PROVE  q[k] \in (Range(s) \ {Head(s)}) \cup Range(t)
    BY DEF Range
  <2>1. CASE k \in 1 .. m
    <3>1. q[k] = s[k + 1] /\ k + 1 # 1 /\ 1 \in DOMAIN s
      BY <1>1, <1>2, <2>1
    <3>2. q[k] # Head(s)
      BY <1>1, <1>4, <2>1, <3>1 DEF Distinct
    <3> QED
      BY <1>4, <2>1, <3>2
  <2> QED
    BY <1>3, <1>5, <2>1
<1>8. (Range(s) \ {Head(s)}) \cup Range(t) \subseteq Range(q)
  <2>1. ASSUME NEW k \in DOMAIN s, s[k] # Head(s) PROVE s[k] \in Range(q)
    <3>1. k - 1 \in 1 .. m /\ (k - 1) + 1 = k
      BY <1>1, <2>1
    <3>2. k - 1 \in DOMAIN q /\ q[k - 1] = s[k]
      BY <1>1, <1>2, <3>1
    <3> QED
      BY <1>in, <3>2
  <2>2. ASSUME NEW k \in DOMAIN t PROVE t[k] \in Range(q)
    <3>1. k \in 1 .. Len(t)
      BY <1>1
    <3>2. m + k \in DOMAIN q /\ q[m + k] = t[k]
      BY <1>2, <1>5, <3>1
    <3> QED
      BY <1>in, <3>2
  <2> QED
    BY <2>1, <2>2 DEF Range
<1> QED
  BY <1>2, <1>6, <1>7, <1>8 DEF q, Distinct

-----------------------------------------------------------------------------
(* The steps.                                                               *)

\* Before the first edge is counted nothing is queued or ordered.
LEMMA InitIInv == Init => IInv
<1> SUFFICES ASSUME Init
             PROVE  IInv
  OBVIOUS
<1>1. TypeOK
  BY TopoAssumption DEF Init, TypeOK
<1>2. order = << >> /\ ready = << >> /\ result = "Called"
  BY DEF Init
<1>3. Range(order) = {}
  BY <1>2 DEF Range
<1>4. OrderIsTopological
  BY <1>2 DEF OrderIsTopological
<1> QED
  BY <1>1, <1>2, <1>3, <1>4
  DEF IInv, Fresh, CountsPending, QueueHoldsReady, KnotsStayOut, Decided, Counted

\* An initial interval of the numbers has its length as size.
LEMMA IntervalSize ==
  ASSUME NEW n \in Nat
  PROVE  IsFiniteSet(1 .. n) /\ Cardinality(1 .. n) = n
<1>1. 1 \in Int /\ n \in Int
  OBVIOUS
<1>2. /\ IsFiniteSet(1 .. n)
      /\ Cardinality(1 .. n) = IF 1 > n THEN 0 ELSE n - 1 + 1
  BY <1>1, FS_Interval
<1> QED
  BY <1>2

\* Places of operands are few, and operands are nodes unless they dangle.
LEMMA Places ==
  ASSUME arena \in Seq(Seq(Nat)), NEW i \in Nodes
  PROVE  /\ Len(arena) \in Nat /\ arena[i] \in Seq(Nat)
         /\ IsFiniteSet(DOMAIN arena[i])
         /\ Cardinality(DOMAIN arena[i]) = Len(arena[i])
         /\ \A T \in SUBSET (DOMAIN arena[i]) :
               IsFiniteSet(T) /\ Cardinality(T) \in Nat
<1>1. Len(arena) \in Nat /\ arena[i] \in Seq(Nat)
  BY DEF Nodes
<1>2. DOMAIN arena[i] = 1 .. Len(arena[i]) /\ Len(arena[i]) \in Nat
  BY <1>1
<1>3. IsFiniteSet(DOMAIN arena[i]) /\ Cardinality(DOMAIN arena[i]) = Len(arena[i])
  BY <1>2, IntervalSize
<1> QED
  BY <1>1, <1>3, FS_Subset, FS_CardinalityType

\* An arena has finitely many ids.
LEMMA IdsFinite ==
  ASSUME arena \in Seq(Seq(Nat))
  PROVE  /\ Len(arena) \in Nat
         /\ IsFiniteSet(Nodes) /\ Cardinality(Nodes) = Len(arena)
         /\ \A T \in SUBSET Nodes : T \in SUBSET Nat /\ IsFiniteSet(T)
<1>1. Len(arena) \in Nat
  OBVIOUS
<1>2. IsFiniteSet(Nodes) /\ Cardinality(Nodes) = Len(arena)
  BY <1>1, IntervalSize DEF Nodes
<1>3. Nodes \in SUBSET Nat
  BY <1>1 DEF Nodes
<1> QED
  BY <1>1, <1>2, <1>3, FS_Subset

\* What is put into the queue: a list of nodes without repetition.
LEMMA AscendingQueue ==
  ASSUME arena \in Seq(Seq(Nat)), NEW T \in SUBSET Nodes
  PROVE  /\ Ascending(T) \in Seq(Nodes)
         /\ Range(Ascending(T)) = T
         /\ Distinct(Ascending(T))
<1>1. T \in SUBSET Nat /\ IsFiniteSet(T)
  BY IdsFinite
<1>2. /\ Ascending(T) \in Seq(Nat)
      /\ Range(Ascending(T)) = T
      /\ \A j, k \in DOMAIN Ascending(T) :
            j < k => Ascending(T)[j] < Ascending(T)[k]
  BY <1>1, AscendingIncreases
<1> DEFINE A == Ascending(T)
<1> HIDE DEF A
<1>3. A \in Seq(Nat) /\ Range(A) = T
      /\ \A j, k \in DOMAIN A : j < k => A[j] < A[k]
  BY <1>2 DEF A
<1>4. DOMAIN A = 1 .. Len(A) /\ Len(A) \in Nat /\ \A k \in DOMAIN A : A[k] \in Nat
  BY <1>3
<1>5. \A k \in DOMAIN A : A[k] \in T
  BY <1>3 DEF Range
<1>6. A \in Seq(Nodes)
  BY <1>3, <1>4, <1>5
<1>7. \A j, k \in DOMAIN A : A[j] = A[k] => j = k
  <2> SUFFICES ASSUME NEW j \in DOMAIN A, NEW k \in DOMAIN A, A[j] = A[k]
               PROVE  j = k
    OBVIOUS
  <2>1. j \in Nat /\ k \in Nat /\ ~ (A[j] < A[k]) /\ ~ (A[k] < A[j])
    BY <1>4
  <2> QED
    BY <1>3, <2>1
<1> QED
  BY <1>3, <1>6, <1>7 DEF A, Distinct

\* Counting the edges sets up the queue and the indegrees.
LEMMA CountEdgesKeeps == IInv /\ CountEdges => IInv'
<1> SUFFICES ASSUME IInv, CountEdges
             PROVE  IInv'
  OBVIOUS
<1> DEFINE T == {i \in Nodes : indegrees'[i] = 0}
<1>1. /\ result = "Called" /\ ~ Dangling
      /\ indegrees' = [i \in Nodes |-> Len(arena[i])]
      /\ ready' = Ascending(T)
      /\ result' = "Sorting" /\ arena' = arena /\ order' = order
  BY DEF CountEdges, IncomingEdges
<1>2. arena \in Seq(Seq(Nat)) /\ order = << >>
  BY <1>1 DEF IInv, TypeOK, Fresh, Counted
<1>3. Range(order) = {}
  BY <1>2 DEF Range
<1>4. ready' \in Seq(Nodes) /\ Range(ready') = T /\ Distinct(ready')
  BY <1>1, <1>2, AscendingQueue
<1>5. \A i \in Nodes : indegrees'[i] \in Nat /\ indegrees'[i] = Cardinality(Pending(i))
  <2> TAKE i \in Nodes
  <2>1. Pending(i) = DOMAIN arena[i]
    BY <1>3 DEF Pending
  <2> QED
    BY <1>1, <1>2, <2>1, Places
<1>6. Nodes' = Nodes /\ Dangling' = Dangling /\ \A i \in Nodes : Pending(i)' = Pending(i)
  BY <1>1 DEF Nodes, Dangling, Pending
<1>7. TypeOK'
  <2>1. indegrees' \in [Nodes -> Nat]
    BY <1>1, <1>5
  <2> QED
    BY <1>1, <1>2, <1>4, <1>6, <2>1 DEF IInv, TypeOK
<1>8. CountsPending'
  BY <1>1, <1>5, <1>6 DEF CountsPending
<1>9. QueueHoldsReady'
  BY <1>1, <1>3, <1>4, <1>6 DEF QueueHoldsReady
<1>10. OrderIsTopological' /\ KnotsStayOut'
  BY <1>1, <1>2, <1>3, <1>6 DEF OrderIsTopological, KnotsStayOut
<1> QED
  BY <1>1, <1>7, <1>8, <1>9, <1>10 DEF IInv, Fresh, Counted, Decided

\* One node is moved from the queue to the order: the counts of its users go
\* down by their edges to it, and those that come to zero enter the queue.
LEMMA PopKeeps == IInv /\ Pop => IInv'
<1> SUFFICES ASSUME IInv, Pop
             PROVE  IInv'
  OBVIOUS
<1> DEFINE n == Head(ready)
           T == Released(n)
<1>1. /\ result = "Sorting" /\ result' = result /\ arena' = arena
      /\ ready # << >>
      /\ order' = Append(order, n)
      /\ indegrees' = [i \in Nodes |-> indegrees[i] - Edges(n, i)]
      /\ ready' = Tail(ready) \o Ascending(T)
  BY DEF Pop
<1>2. /\ arena \in Seq(Seq(Nat)) /\ indegrees \in [Nodes -> Nat]
      /\ ready \in Seq(Nodes) /\ order \in Seq(Nodes)
  BY <1>1 DEF IInv, TypeOK
<1>3. /\ ~ Dangling
      /\ \A i \in Nodes : indegrees[i] = Cardinality(Pending(i))
      /\ {i \in Nodes : indegrees[i] = 0} = Range(ready) \cup Range(order)
      /\ Range(ready) \cap Range(order) = {}
      /\ Distinct(ready)
  BY <1>1 DEF IInv, CountsPending, QueueHoldsReady, Counted
<1>4. n \in Range(ready) /\ n \in Nodes /\ n \notin Range(order) /\ indegrees[n] = 0
  <2>1. 1 \in DOMAIN ready /\ n = ready[1] /\ n \in Nodes
    BY <1>1, <1>2
  <2> QED
    BY <1>3, <2>1 DEF Range
<1> HIDE DEF n
<1>5. Range(order') = Range(order) \cup {n}
  BY <1>1, <1>2, <1>4, AppendRange
<1>6. Nodes' = Nodes /\ Dangling' = Dangling
  BY <1>1 DEF Nodes, Dangling
\* The places of n among the operands of i.
<1> DEFINE At(i) == {k \in DOMAIN arena[i] : arena[i][k] = n}
<1>7. ASSUME NEW i \in Nodes
      PROVE  /\ Pending(i)' = Pending(i) \ At(i)
             /\ indegrees'[i] = Cardinality(Pending(i)')
             /\ indegrees'[i] \in Nat
             /\ indegrees'[i] = indegrees[i] - Cardinality(At(i))
             /\ Cardinality(At(i)) \in Nat
             /\ Cardinality(At(i)) = 0 <=> n \notin Range(arena[i])
  <2>1. Pending(i)' = Pending(i) \ At(i)
    BY <1>1, <1>5 DEF Pending
  <2>2. At(i) \subseteq Pending(i)
    BY <1>4 DEF Pending
  <2>3. Pending(i) \subseteq DOMAIN arena[i]
    BY DEF Pending
  <2> HIDE DEF At
  <2>4. /\ IsFiniteSet(Pending(i)) /\ Cardinality(Pending(i)) \in Nat
        /\ IsFiniteSet(At(i)) /\ Cardinality(At(i)) \in Nat
    BY <1>2, <2>2, <2>3, Places
  <2>5. /\ IsFiniteSet(Pending(i) \ At(i))
        /\ Cardinality(Pending(i) \ At(i))
             = Cardinality(Pending(i)) - Cardinality(Pending(i) \cap At(i))
    BY <2>4, FS_Difference
  <2>6. Pending(i) \cap At(i) = At(i)
    BY <2>2
  <2>7. Cardinality(Pending(i) \ At(i)) \in Nat
    BY <2>5, FS_CardinalityType
  <2>8. Cardinality(At(i)) = 0 <=> At(i) = {}
    BY <2>4, FS_EmptySet
  <2>9. At(i) = {} <=> n \notin Range(arena[i])
    BY DEF At, Range
  <2>10. Edges(n, i) = Cardinality(At(i))
    BY DEF At, Edges
  <2> QED
    BY <1>1, <1>3, <2>1, <2>4, <2>5, <2>6, <2>7, <2>8, <2>9, <2>10
<1>8. \A i \in Nodes : i \in T <=> n \in Range(arena[i]) /\ indegrees[i] = Cardinality(At(i))
  BY DEF Released, Edges
<1>9. T \in SUBSET Nodes
  BY DEF Released
<1> HIDE DEF At, T
<1>10. {i \in Nodes : indegrees'[i] = 0} = {i \in Nodes : indegrees[i] = 0} \cup T
  <2>1. ASSUME NEW i \in Nodes
        PROVE  indegrees'[i] = 0 <=> indegrees[i] = 0 \/ i \in T
    <3>1. indegrees[i] \in Nat /\ indegrees'[i] \in Nat
      BY <1>2, <1>7
    <3>2. CASE Cardinality(At(i)) = 0
      BY <1>7, <1>8, <3>1, <3>2
    <3>3. CASE Cardinality(At(i)) # 0
      BY <1>7, <1>8, <3>1, <3>3
    <3> QED
      BY <3>2, <3>3
  <2> QED
    BY <1>9, <2>1
<1>11. T \cap {i \in Nodes : indegrees[i] = 0} = {}
  <2>1. ASSUME NEW i \in T PROVE indegrees[i] # 0
    BY <1>7, <1>8, <1>9
  <2> QED
    BY <2>1
<1>12. /\ ready' \in Seq(Nodes)
       /\ Distinct(ready')
       /\ Range(ready') = (Range(ready) \ {n}) \cup T
  <2> DEFINE A == Ascending(T)
  <2>1. A \in Seq(Nodes) /\ Range(A) = T /\ Distinct(A)
    BY <1>2, <1>9, AscendingQueue
  <2>2. Range(ready) \cap Range(A) = {}
    BY <1>3, <1>11, <2>1
  <2> HIDE DEF A
  <2>3. /\ Tail(ready) \o A \in Seq(Nodes)
        /\ Distinct(Tail(ready) \o A)
        /\ Range(Tail(ready) \o A) = (Range(ready) \ {Head(ready)}) \cup Range(A)
    BY <1>1, <1>2, <1>3, <2>1, <2>2, QueueStep
  <2> QED
    BY <1>1, <2>1, <2>3 DEF A, n
<1>13. TypeOK'
  <2>1. order' \in Seq(Nodes)
    BY <1>1, <1>2, <1>4
  <2>2. indegrees' \in [Nodes -> Nat]
    BY <1>1, <1>7
  <2> QED
    BY <1>1, <1>2, <1>6, <1>12, <2>1, <2>2 DEF TypeOK
<1>14. CountsPending'
  BY <1>3, <1>6, <1>7 DEF CountsPending
<1>15. QueueHoldsReady'
  <2>1. {i \in Nodes : indegrees'[i] = 0} = Range(ready') \cup Range(order')
    BY <1>3, <1>4, <1>5, <1>10, <1>12
  <2>2. Range(ready') \cap Range(order') = {}
    BY <1>3, <1>4, <1>5, <1>11, <1>12
  <2> QED
    BY <1>6, <1>12, <2>1, <2>2 DEF QueueHoldsReady
\* All operands of n are in the order already.
<1>16. Range(arena[n]) \subseteq Range(order)
  <2>1. IsFiniteSet(Pending(n)) /\ Cardinality(Pending(n)) = 0
    <3>1. Pending(n) \subseteq DOMAIN arena[n]
      BY DEF Pending
    <3> QED
      BY <1>2, <1>3, <1>4, <3>1, Places
  <2>2. Pending(n) = {}
    BY <2>1, FS_EmptySet
  <2> QED
    BY <2>2 DEF Pending, Range
<1>17. OrderIsTopological'
  <2>1. /\ Len(order) \in Nat /\ DOMAIN order = 1 .. Len(order)
        /\ DOMAIN order' = 1 .. (Len(order) + 1)
        /\ \A k \in 1 .. Len(order) : order'[k] = order[k]
        /\ order'[Len(order) + 1] = n
    BY <1>1, <1>2
  <2> SUFFICES ASSUME NEW k \in DOMAIN order'
               PROVE  /\ \A j \in 1 .. (k - 1) : order'[j] # order'[k]
                      /\ \A a \in Range(arena[order'[k]]) :
                            \E j \in 1 .. (k - 1) : order'[j] = a
    BY <1>1 DEF OrderIsTopological
  <2>2. \A j \in 1 .. (k - 1) : j \in 1 .. Len(order) /\ order'[j] = order[j]
    BY <2>1
  <2>3. CASE k \in DOMAIN order
    <3>1. /\ \A j \in 1 .. (k - 1) : order[j] # order[k]
          /\ \A a \in Range(arena[order[k]]) : \E j \in 1 .. (k - 1) : order[j] = a
      BY <2>3 DEF IInv, OrderIsTopological
    <3>2. order'[k] = order[k]
      BY <2>1, <2>3
    <3> QED
      BY <2>2, <3>1, <3>2
  <2>4. CASE k = Len(order) + 1
    <3>1. k - 1 = Len(order) /\ order'[k] = n
      BY <2>1, <2>4
    <3>2. \A j \in 1 .. Len(order) : order[j] # n
      BY <1>4, <2>1 DEF Range
    <3>3. \A a \in Range(order) : \E j \in 1 .. Len(order) : order[j] = a
      BY <2>1 DEF Range
    <3> QED
      BY <1>16, <2>2, <3>1, <3>2, <3>3
  <2> QED
    BY <2>1, <2>3, <2>4
<1>18. KnotsStayOut'
  <2>1. ASSUME NEW S \in SUBSET Nodes, Knotted(S)
        PROVE  S \cap Range(order') = {}
    <3>1. S \cap Range(order) = {}
      BY <2>1 DEF IInv, KnotsStayOut
    <3>2. n \notin S
      BY <1>16, <2>1, <3>1 DEF Knotted
    <3> QED
      BY <1>5, <3>1, <3>2
  <2>2. \A S : Knotted(S)' = Knotted(S)
    BY <1>1 DEF Knotted
  <2> QED
    BY <1>6, <2>1, <2>2 DEF KnotsStayOut
<1> QED
  BY <1>1, <1>13, <1>14, <1>15, <1>17, <1>18 DEF IInv, Fresh, Counted, Decided

\* Steps that leave the search where it is.
LEMMA SameQueue ==
  ASSUME IInv, UNCHANGED <<arena, indegrees, ready, order>>, Counted' = Counted
  PROVE  (CountsPending /\ QueueHoldsReady /\ OrderIsTopological /\ KnotsStayOut)'
<1>1. CountsPending'
  BY DEF IInv, CountsPending, Dangling, Pending, Nodes
<1>2. QueueHoldsReady'
  BY DEF IInv, QueueHoldsReady, Nodes
<1>3. OrderIsTopological'
  BY DEF IInv, OrderIsTopological
<1>4. KnotsStayOut'
  BY DEF IInv, KnotsStayOut, Knotted, Nodes
<1> QED
  BY <1>1, <1>2, <1>3, <1>4

\* Hence the invariant holds in every reachable state.
LEMMA Invariance == Spec => []IInv
<1>1. IInv /\ [Next]_vars => IInv'
  <2> SUFFICES ASSUME IInv, [Next]_vars
               PROVE  IInv'
    OBVIOUS
  <2>1. CASE Refuse
    BY <2>1 DEF Refuse, IInv, TypeOK, Fresh, CountsPending, QueueHoldsReady,
                Counted, OrderIsTopological, KnotsStayOut, Knotted, Decided, Nodes
  <2>2. CASE Finish
    <3>1. /\ UNCHANGED <<arena, indegrees, ready, order>>
          /\ Counted' = Counted
          /\ TypeOK'
      BY <2>2 DEF Finish, Counted, IInv, TypeOK, Nodes
    <3> QED
      BY <2>2, <3>1, SameQueue DEF Finish, IInv, Fresh, Decided
  <2>3. CASE UNCHANGED vars
    <3>1. /\ UNCHANGED <<arena, indegrees, ready, order>>
          /\ Counted' = Counted
          /\ TypeOK'
      BY <2>3 DEF vars, Counted, IInv, TypeOK, Nodes
    <3> QED
      BY <2>3, <3>1, SameQueue DEF vars, IInv, Fresh, Decided
  <2> QED
    BY <2>1, <2>2, <2>3, CountEdgesKeeps, PopKeeps DEF Next
<1> QED
  BY <1>1, InitIInv, PTL DEF Spec

-----------------------------------------------------------------------------
\* graph.rs, topo_order: no count underflows, and what is queued and ordered
\* are nodes of the arena.
THEOREM TypeCorrect == Spec => []TypeOK
  BY Invariance, PTL DEF IInv

\* graph.rs, topo_order: an interpreter that follows the order finds the value
\* of every operand.
THEOREM Topological == Spec => []OrderIsTopological
  BY Invariance, PTL DEF IInv

\* An order without repetitions is as long as the arena if it holds all nodes.
LEMMA OrderLength ==
  ASSUME arena \in Seq(Seq(Nat)), order \in Seq(Nodes), OrderIsTopological
  PROVE  Len(order) = Len(arena) <=> Range(order) = Nodes
<1>1. Len(order) \in Nat /\ DOMAIN order = 1 .. Len(order)
  OBVIOUS
<1>2. \A j, k \in 1 .. Len(order) : order[j] = order[k] => j = k
  <2> SUFFICES ASSUME NEW j \in 1 .. Len(order), NEW k \in 1 .. Len(order),
                      order[j] = order[k], j # k
               PROVE  FALSE
    OBVIOUS
  <2>1. j \in 1 .. (k - 1) \/ k \in 1 .. (j - 1)
    BY <1>1
  <2> QED
    BY <1>1, <2>1 DEF OrderIsTopological
<1>3. order \in [1 .. Len(order) -> Nodes]
  BY <1>1
<1>4. order \in Injection(1 .. Len(order), Nodes)
  BY <1>2, <1>3 DEF Injection, IsInjective
<1>5. IsFiniteSet(Nodes) /\ Cardinality(Nodes) = Len(arena)
  BY IdsFinite
<1>6. Cardinality(1 .. Len(order)) = Cardinality(Nodes)
        <=> order \in Surjection(1 .. Len(order), Nodes)
  BY <1>4, <1>5, FS_Injection
<1>7. Cardinality(1 .. Len(order)) = Len(order)
  BY <1>1, IntervalSize
<1>8. order \in Surjection(1 .. Len(order), Nodes) <=> Range(order) = Nodes
  BY <1>1, <1>3 DEF Surjection, Range
<1> QED
  BY <1>5, <1>6, <1>7, <1>8

\* graph.rs, topo_order: it reports a cycle exactly where there is one.
THEOREM Verdict == Spec => []VerdictIsRight
<1>1. IInv => VerdictIsRight
  <2> SUFFICES ASSUME IInv
               PROVE  VerdictIsRight
    OBVIOUS
  <2>1. Len(order) = Len(arena) <=> Range(order) = Nodes
    BY OrderLength DEF IInv, TypeOK
  <2>2. Range(order) \subseteq Nodes
    BY DEF IInv, TypeOK, Range
  <2>3. CASE result = "Ordered"
    <3>1. Range(order) = Nodes
      BY <2>1, <2>3 DEF IInv, Decided
    <3>2. \A S \in SUBSET Nodes : ~ Knotted(S)
      BY <3>1 DEF IInv, KnotsStayOut, Knotted
    <3> QED
      BY <2>3, <3>1, <3>2 DEF VerdictIsRight
  <2>4. CASE result = "Cycle"
    <3> DEFINE S == Nodes \ Range(order)
    <3>1. S # {} /\ S \in SUBSET Nodes
      BY <2>1, <2>2, <2>4 DEF IInv, Decided
    <3>2. ASSUME NEW i \in S
          PROVE  Range(arena[i]) \cap S # {}
      <4>1. Range(ready) = {} /\ i \in Nodes /\ i \notin Range(order)
        BY <2>4 DEF IInv, Decided, Range
      <4>2. Cardinality(Pending(i)) # 0
        BY <2>4, <4>1 DEF IInv, CountsPending, QueueHoldsReady, Counted
      <4>3. Pending(i) # {}
        BY <4>2, FS_EmptySet
      <4>4. PICK k \in DOMAIN arena[i] : arena[i][k] \notin Range(order)
        BY <4>3 DEF Pending
      <4>5. arena[i][k] \in Range(arena[i]) /\ arena[i][k] \in Nodes
        BY <2>4, <4>1, <4>4 DEF IInv, CountsPending, Counted, Dangling, Range
      <4> QED
        BY <4>4, <4>5
    <3>3. Knotted(S)
      BY <3>1, <3>2 DEF Knotted
    <3> QED
      BY <2>4, <3>1, <3>3 DEF VerdictIsRight
  <2> QED
    BY <2>3, <2>4 DEF VerdictIsRight
<1> QED
  BY <1>1, Invariance, PTL

-----------------------------------------------------------------------------
\* Arenas that validate_structure accepts.
BuildOrdered == \A i \in Nodes : \A a \in Range(arena[i]) : a \in 1 .. (i - 1)

\* graph.rs, validate_structure and topo_order: a graph that was validated is
\* never refused.  Surgery, the rewrite driver, both interpreters and the
\* lowering rely on that; the driver turns a refusal into "no rule fires".
THEOREM ValidatedGraphsSort ==
  Spec => [](BuildOrdered => result \notin {"InvalidNodeId", "Cycle"})
<1> DEFINE Vouched == result = "InvalidNodeId" => Dangling
<1>1. ASSUME arena \in Seq(Seq(Nat)), BuildOrdered
      PROVE  ~ Dangling
  <2>1. Len(arena) \in Nat
    BY <1>1
  <2>2. \A i \in Nodes : 1 .. (i - 1) \subseteq Nodes
    BY <2>1 DEF Nodes
  <2> QED
    BY <1>1, <2>2 DEF BuildOrdered, Dangling
<1>2. ASSUME arena \in Seq(Seq(Nat)), BuildOrdered, NEW S \in SUBSET Nodes, Knotted(S)
      PROVE  FALSE
  <2>1. S \in SUBSET Nat /\ IsFiniteSet(S) /\ S # {}
    BY <1>2, IdsFinite DEF Knotted
  <2>2. 1 \in 1 .. Cardinality(S)
    <3>1. Cardinality(S) \in Nat /\ Cardinality(S) # 0
      BY <2>1, FS_CardinalityType, FS_EmptySet
    <3> QED
      BY <3>1
  <2>3. PICK i \in S : Rank(S, i) = 1
    BY <2>1, <2>2, RankOnto
  <2>4. PICK a \in S : a \in 1 .. (i - 1)
    BY <1>2 DEF Knotted, BuildOrdered
  <2>5. a \in Nat /\ i \in Nat /\ a < i
    BY <2>1, <2>4
  <2>6. Rank(S, a) \in 1 .. Cardinality(S) /\ Rank(S, a) < Rank(S, i)
    BY <2>1, <2>5, RankMonotone
  <2> QED
    BY <2>3, <2>6
<1>3. Init => Vouched
  BY DEF Init
<1>4. Vouched /\ [Next]_vars => Vouched'
  BY DEF Next, Refuse, CountEdges, Pop, Finish, vars, Dangling, Nodes
<1>5. IInv /\ VerdictIsRight /\ Vouched
        => (BuildOrdered => result \notin {"InvalidNodeId", "Cycle"})
  BY <1>1, <1>2 DEF IInv, TypeOK, VerdictIsRight
<1> QED
  BY <1>3, <1>4, <1>5, Invariance, Verdict, PTL DEF Spec
=============================================================================
