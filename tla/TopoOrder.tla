------------------------------ MODULE TopoOrder ------------------------------
(***************************************************************************)
(* Graph::topo_order of crates/ir/src/graph.rs: Kahn's algorithm.  Both    *)
(* interpreters and the lowering compute nodes in this order; surgery and  *)
(* the rewrite driver use it to enumerate them.  It takes any arena,       *)
(* whatever ids its nodes refer to: forward, to themselves, or dangling.   *)
(***************************************************************************)
EXTENDS AscendingIds, Sequences, SequencesExt

CONSTANT Arenas   \* an arena is the sequence of its nodes' operand lists

ASSUME TopoAssumption == \A a \in Arenas : a \in Seq(Seq(Nat))

VARIABLES arena,
          indegrees,  \* uses of operands that are not in the order yet
          ready,      \* queue of nodes without such uses
          order,
          result      \* "Called", "Sorting", or what is returned

vars == <<arena, indegrees, ready, order, result>>

Nodes == 1 .. Len(arena)

Init ==
  /\ arena \in Arenas
  /\ indegrees = << >> /\ ready = << >> /\ order = << >>
  /\ result = "Called"

-----------------------------------------------------------------------------
Dangling == \E i \in Nodes : ~ Range(arena[i]) \subseteq Nodes

Refuse ==
  /\ result = "Called"
  /\ Dangling
  /\ result' = "InvalidNodeId"
  /\ UNCHANGED <<arena, indegrees, ready, order>>

\* A slip: an operand that is used twice by a node is counted once.
DistinctOperands(i) == Cardinality(Range(arena[i]))

\* One edge for each operand, so two where a node uses an operand twice.
IncomingEdges(i) == Len(arena[i])

CountEdges ==
  /\ result = "Called"
  /\ ~ Dangling
  /\ indegrees' = [i \in Nodes |-> IncomingEdges(i)]
  /\ ready' = Ascending({i \in Nodes : indegrees'[i] = 0})
  /\ result' = "Sorting"
  /\ UNCHANGED <<arena, order>>

\* The edges from one node to another.
\* Slips: a second edge is overlooked; a node is released by its first operand.
FirstEdge(from, to) ==
  IF from \in Range(arena[to]) THEN 1 ELSE 0
ReleasedEarly(from) == {i \in Nodes : from \in Range(arena[i])}

Edges(from, to) == Cardinality({k \in DOMAIN arena[to] : arena[to][k] = from})

\* The nodes whose last edges lead from one node.
Released(from) ==
  {i \in Nodes : from \in Range(arena[i]) /\ indegrees[i] = Edges(from, i)}

Pop ==
  /\ result = "Sorting"
  /\ ready # << >>
  /\ order' = Append(order, Head(ready))
  /\ indegrees' = [i \in Nodes |-> indegrees[i] - Edges(Head(ready), i)]
  /\ ready' = Tail(ready) \o Ascending(Released(Head(ready)))
  /\ UNCHANGED <<arena, result>>

\* A slip: the queue's end is not the end of the search.
FinishOrder ==
  /\ result = "Sorting"
  /\ Len(order) = Len(arena)
  /\ result' = "Ordered"
  /\ UNCHANGED <<arena, indegrees, ready, order>>

Finish ==
  /\ result = "Sorting"
  /\ ready = << >>
  /\ result' = IF Len(order) = Len(arena) THEN "Ordered" ELSE "Cycle"
  /\ UNCHANGED <<arena, indegrees, ready, order>>

Next == Refuse \/ CountEdges \/ Pop \/ Finish

Spec == Init /\ [][Next]_vars

\* topo_order is a loop of one thread: it does not stop before it returns.
FairSpec == Spec /\ WF_vars(Next)

-----------------------------------------------------------------------------
\* In particular no count goes below zero, where the code's usize would wrap.
TypeOK ==
  /\ arena \in Seq(Seq(Nat))
  /\ result \in {"Called", "Sorting", "Ordered", "Cycle", "InvalidNodeId"}
  /\ result \in {"Called", "InvalidNodeId"} => indegrees = << >>
  /\ result \notin {"Called", "InvalidNodeId"} => indegrees \in [Nodes -> Nat]
  /\ ready \in Seq(Nodes)
  /\ order \in Seq(Nodes)

\* The interpreters read an operand's value when they come to its user: at every
\* moment of the search the order holds no node twice, and each of its nodes
\* after all the operands of that node.
OrderIsTopological ==
  \A k \in DOMAIN order :
     /\ \A j \in 1 .. (k - 1) : order[j] # order[k]
     /\ \A a \in Range(arena[order[k]]) : \E j \in 1 .. (k - 1) : order[j] = a

\* Nodes each of which uses another of them, or itself: there is a cycle.
Knotted(S) == S # {} /\ \A i \in S : Range(arena[i]) \cap S # {}

\* The verdict is right: all nodes are ordered, or there is a cycle, and no node
\* is lost because another uses it twice.
VerdictIsRight ==
  /\ result = "Ordered" =>
        Range(order) = Nodes /\ ~ \E S \in SUBSET Nodes : Knotted(S)
  /\ result = "Cycle" => \E S \in SUBSET Nodes : Knotted(S)

\* topo_order returns, on cyclic arenas too.
SortReturns == <>(result \in {"Ordered", "Cycle", "InvalidNodeId"})
=============================================================================
