------------------------ MODULE RewriteDriver_proofs ------------------------
(***************************************************************************)
(* What graph surgery preserves, for graphs of every size: a surgery that  *)
(* is not refused returns a valid graph with the inputs and the number of  *)
(* outputs it was given, and pruning a valid graph is never refused.       *)
(*                                                                         *)
(* Then the safety of the fixpoint driver, for every graph, rule list and  *)
(* step cap: it returns no error, it keeps the signature, and it leaves no *)
(* dead nodes.  Each step of the driver is a surgery followed by a         *)
(* pruning, so its invariant is what the two keep.                         *)
(*                                                                         *)
(* Then the variant of its loop: pruning never adds a node or lengthens a  *)
(* chain of reshapes, and what a rule replaces is not used any more and is *)
(* pruned, or is a reshape that has become the shorter by one.             *)
(*                                                                         *)
(* Last, the meaning of the graph: types and values are the solutions of   *)
(* equations, one per node, and each step turns a solution of the graph's  *)
(* equations into one of the next graph's.  So the driver is a sound       *)
(* optimizer, over any arithmetic with the laws of its mode.               *)
(***************************************************************************)
EXTENDS RewriteDriver, CommonLemmas

-----------------------------------------------------------------------------
(* Emission.                                                                *)
InputIds(nodes) == {i \in 1 .. Len(nodes) : nodes[i].op = "Input"}

\* The ids of the Input nodes are finitely many.
LEMMA InputIdsFinite ==
  ASSUME NEW attrs, NEW nodes \in Seq(NodesOver(attrs))
  PROVE  InputIds(nodes) \in SUBSET Nat /\ IsFiniteSet(InputIds(nodes))
<1>1. Len(nodes) \in Nat
  OBVIOUS
<1>2. IsFiniteSet(1 .. Len(nodes))
  BY <1>1, FS_Interval
<1>3. InputIds(nodes) \in SUBSET (1 .. Len(nodes))
  BY DEF InputIds
<1> QED
  BY <1>1, <1>2, <1>3, FS_Subset

\* The inputs of a graph that lists them are its Input nodes in order.
LEMMA ListedIsAscending ==
  ASSUME NEW attrs, NEW g \in GraphsOver(attrs), InputsAreInputs(g), InputsListed(g)
  PROVE  /\ Range(g.inputs) = InputIds(g.nodes)
         /\ g.inputs = Ascending(InputIds(g.nodes))
<1>1. g.inputs \in Seq(Nat)
  BY DEF GraphsOver
<1>2. Range(g.inputs) = InputIds(g.nodes)
  BY <1>1 DEF InputsAreInputs, InputsListed, IsInputId, InputIds, Ids, Range
<1> QED
  BY <1>1, <1>2, AscendingUnique DEF InputsListed

\* A fresh builder lists the Input nodes it is given, and builds if the result
\* is valid.
LEMMA EmissionLists ==
  ASSUME NEW attrs, NEW nodes \in Seq(NodesOver(attrs)), NEW outputs \in Seq(Nat)
  PROVE  LET e == Emission(nodes, outputs)
         IN  /\ e.graph \in GraphsOver(attrs)
             /\ e.graph.nodes = nodes
             /\ e.graph.outputs = outputs
             /\ e.graph.inputs = Ascending(InputIds(nodes))
             /\ InputsAreInputs(e.graph)
             /\ InputsListed(e.graph)
             /\ e.ok = Valid(e.graph)
<1> DEFINE h == [nodes |-> nodes, inputs |-> Ascending(InputIds(nodes)),
                 outputs |-> outputs]
<1>1. Emission(nodes, outputs) = [ok |-> Valid(h), graph |-> h]
  BY DEF Emission, InputIds
<1>2. /\ Ascending(InputIds(nodes)) \in Seq(Nat)
      /\ Range(Ascending(InputIds(nodes))) = InputIds(nodes)
      /\ \A j, k \in DOMAIN Ascending(InputIds(nodes)) :
            j < k => Ascending(InputIds(nodes))[j] < Ascending(InputIds(nodes))[k]
  BY InputIdsFinite, AscendingIncreases
<1>3. h \in GraphsOver(attrs)
  BY <1>2 DEF GraphsOver
<1>4. InputsListed(h)
  BY <1>2 DEF InputsListed, InputIds, Ids
<1>5. \A k \in DOMAIN h.inputs : h.inputs[k] \in InputIds(nodes)
  BY <1>2 DEF Range
<1>6. InputsAreInputs(h)
  BY <1>5 DEF InputsAreInputs, IsInputId, InputIds, Ids
<1> HIDE DEF h
<1>7. h.nodes = nodes /\ h.outputs = outputs /\ h.inputs = Ascending(InputIds(nodes))
  BY DEF h
<1> QED
  BY <1>1, <1>3, <1>4, <1>6, <1>7
-----------------------------------------------------------------------------
(* Surgery in place.                                                        *)

\* What rewriting g into h preserves, apart from g's meaning.
Keeps(attrs, g, h) ==
  /\ h \in GraphsOver(attrs)
  /\ Valid(h)
  /\ InputsListed(h)
  /\ Signature(h) = Signature(g)
  /\ Len(h.outputs) = Len(g.outputs)

\* Functions on an initial interval are sequences.
LEMMA SeqOfInterval ==
  ASSUME NEW S, NEW n \in Nat, NEW s \in [1 .. n -> S]
  PROVE  s \in Seq(S) /\ Len(s) = n
OBVIOUS

\* A node with as many other operands is a node.
LEMMA NewArgs ==
  ASSUME NEW attrs, NEW node \in NodesOver(attrs),
         NEW args \in Seq(Nat), Len(args) = Len(node.args)
  PROVE  /\ [node EXCEPT !.args = args] \in NodesOver(attrs)
         /\ [node EXCEPT !.args = args].op = node.op
         /\ [node EXCEPT !.args = args].attr = node.attr
         /\ [node EXCEPT !.args = args].args = args
BY DEF NodesOver

\* Emitting as many nodes with the operations and attributes of g's.
LEMMA EmissionKeeps ==
  ASSUME NEW attrs, NEW g \in GraphsOver(attrs), Valid(g), InputsListed(g),
         NEW nodes \in Seq(NodesOver(attrs)), Len(nodes) = Len(g.nodes),
         \A i \in Ids(g) : /\ nodes[i].op = g.nodes[i].op
                           /\ nodes[i].attr = g.nodes[i].attr,
         NEW outputs \in Seq(Nat), Len(outputs) = Len(g.outputs),
         Emission(nodes, outputs).ok
  PROVE  Keeps(attrs, g, Emission(nodes, outputs).graph)
<1> DEFINE h == Emission(nodes, outputs).graph
<1>1. /\ h \in GraphsOver(attrs)
      /\ h.nodes = nodes
      /\ h.outputs = outputs
      /\ h.inputs = Ascending(InputIds(nodes))
      /\ InputsListed(h)
      /\ Valid(h)
  BY EmissionLists
<1>2. InputIds(nodes) = InputIds(g.nodes)
  BY DEF InputIds, Ids
<1>3. InputsAreInputs(g)
  BY DEF Valid
<1>4. h.inputs = g.inputs
  BY <1>1, <1>2, <1>3, ListedIsAscending
<1>5. \A k \in DOMAIN g.inputs : g.inputs[k] \in Ids(g)
  BY <1>3 DEF InputsAreInputs, IsInputId
<1> HIDE DEF h
<1>6. Signature(h) = Signature(g)
  BY <1>1, <1>4, <1>5 DEF Signature
<1> QED
  BY <1>1, <1>6 DEF Keeps, h

\* Redirecting the uses of a node leaves as many operands.
LEMMA RenamedArgs ==
  ASSUME NEW args \in Seq(Nat), NEW target, NEW replacement \in Nat
  PROVE  LET list == [k \in DOMAIN args |->
                        IF args[k] = target THEN replacement ELSE args[k]]
         IN  list \in Seq(Nat) /\ Len(list) = Len(args)
<1> DEFINE use(a) == IF a = target THEN replacement ELSE a
           list == [k \in 1 .. Len(args) |-> use(args[k])]
<1>1. Len(args) \in Nat /\ DOMAIN args = 1 .. Len(args)
  OBVIOUS
<1>2. ASSUME NEW k \in 1 .. Len(args) PROVE use(args[k]) \in Nat
  <2>1. args[k] \in Nat
    BY <1>1
  <2> QED
    BY <2>1
<1>3. list \in [1 .. Len(args) -> Nat]
  <2> HIDE DEF use
  <2> QED
    BY <1>2
<1>4. list \in Seq(Nat) /\ Len(list) = Len(args)
  <2> HIDE DEF list
  <2> QED
    BY <1>1, <1>3, SeqOfInterval
<1> QED
  BY <1>1, <1>4

\* A node that no other node uses, and no output either.
Unused(g, i) ==
  /\ i \notin Range(g.outputs)
  /\ \A j \in Ids(g) \ {i} : i \notin Operands(g.nodes[j])

\* Redirecting the uses of a node to another keeps the graph, and leaves the
\* node unused.
LEMMA ReplaceAllUsesKeeps ==
  ASSUME NEW attrs, NEW g \in GraphsOver(attrs), InputsListed(g),
         NEW target, NEW replacement,
         ReplaceAllUses(g, target, replacement).ok
  PROVE  LET h == ReplaceAllUses(g, target, replacement).graph
         IN  /\ Keeps(attrs, g, h)
             /\ Len(h.nodes) = Len(g.nodes)
             /\ OpAt(h, target) = OpAt(g, target)
             /\ replacement # target => Unused(h, target)
<1> DEFINE use(a) == IF a = target THEN replacement ELSE a
           renamed(node) == [k \in DOMAIN node.args |-> use(node.args[k])]
           nodes == [i \in Ids(g) |-> IF i = target THEN g.nodes[i]
                                      ELSE [g.nodes[i] EXCEPT !.args = renamed(g.nodes[i])]]
           outputs == [k \in DOMAIN g.outputs |-> use(g.outputs[k])]
<1>1. /\ Valid(g)
      /\ target \in Ids(g) /\ replacement \in Ids(g)
      /\ ReplaceAllUses(g, target, replacement) = Emission(nodes, outputs)
  BY DEF ReplaceAllUses, Refused, WithOperands
<1> target \in Nat /\ replacement \in Nat
  BY <1>1 DEF Ids
<1>2. ASSUME NEW i \in Ids(g)
      PROVE  /\ nodes[i] \in NodesOver(attrs)
             /\ nodes[i].op = g.nodes[i].op
             /\ nodes[i].attr = g.nodes[i].attr
  <2>1. g.nodes[i] \in NodesOver(attrs)
    BY DEF GraphsOver, Ids
  <2>2. g.nodes[i].args \in Seq(Nat)
    BY <2>1 DEF NodesOver
  <2>3. /\ renamed(g.nodes[i]) \in Seq(Nat)
        /\ Len(renamed(g.nodes[i])) = Len(g.nodes[i].args)
    <3> DEFINE list(args) == [k \in DOMAIN args |->
                                IF args[k] = target THEN replacement ELSE args[k]]
    <3>1. \A args \in Seq(Nat) : list(args) \in Seq(Nat) /\ Len(list(args)) = Len(args)
      BY RenamedArgs
    <3>2. renamed(g.nodes[i]) = list(g.nodes[i].args)
      OBVIOUS
    <3> HIDE DEF renamed, list
    <3> QED
      BY <2>2, <3>1, <3>2
  <2> HIDE DEF renamed
  <2> QED
    BY <2>1, <2>3, NewArgs
<1>3. g.nodes \in Seq(NodesOver(attrs)) /\ g.outputs \in Seq(Nat)
  BY DEF GraphsOver
<1>4. nodes \in Seq(NodesOver(attrs)) /\ Len(nodes) = Len(g.nodes)
  <2>1. Len(g.nodes) \in Nat
    BY <1>3
  <2>2. nodes \in [1 .. Len(g.nodes) -> NodesOver(attrs)]
    <3>1. /\ DOMAIN nodes = 1 .. Len(g.nodes)
          /\ nodes = [i \in 1 .. Len(g.nodes) |-> nodes[i]]
      BY DEF Ids
    <3> HIDE DEF nodes
    <3>2. \A i \in 1 .. Len(g.nodes) : nodes[i] \in NodesOver(attrs)
      BY <1>2 DEF Ids
    <3> QED
      BY <3>1, <3>2
  <2> HIDE DEF nodes
  <2> QED
    BY <2>1, <2>2, SeqOfInterval
<1>5. outputs \in Seq(Nat) /\ Len(outputs) = Len(g.outputs)
  BY <1>3, SMTT(30)
<1>6. ASSUME replacement # target, NEW i \in Ids(g), i # target
      PROVE  target \notin Operands(nodes[i])
  <2>1. \A k \in DOMAIN renamed(g.nodes[i]) : renamed(g.nodes[i])[k] # target
    BY <1>6
  <2>2. g.nodes[i] \in NodesOver(attrs)
    BY DEF GraphsOver, Ids
  <2>3. nodes[i].args = renamed(g.nodes[i])
    BY <1>6, <2>2 DEF NodesOver
  <2> QED
    BY <2>1, <2>3 DEF Operands, Range
<1>7. ASSUME replacement # target PROVE target \notin Range(outputs)
  BY <1>7 DEF Range
<1> DEFINE h == ReplaceAllUses(g, target, replacement).graph
<1> HIDE DEF nodes, outputs
<1>8. h.nodes = nodes /\ h.outputs = outputs
  BY <1>1, <1>4, <1>5, EmissionLists
<1>9. Keeps(attrs, g, h)
  BY <1>1, <1>2, <1>4, <1>5, EmissionKeeps
<1> HIDE DEF h
<1>10. Len(h.nodes) = Len(g.nodes) /\ OpAt(h, target) = OpAt(g, target)
  BY <1>1, <1>2, <1>4, <1>8 DEF OpAt
<1>11. ASSUME replacement # target PROVE Unused(h, target)
  BY <1>4, <1>6, <1>7, <1>8, <1>11 DEF Unused, Ids
<1> QED
  BY <1>9, <1>10, <1>11 DEF h

\* So does giving a node other operands, however many its operation takes.
LEMMA RedefineNodeKeeps ==
  ASSUME NEW attrs, NEW g \in GraphsOver(attrs), InputsListed(g),
         NEW id, NEW node \in NodesOver(attrs),
         node.op = g.nodes[id].op, node.attr = g.nodes[id].attr,
         RedefineNode(g, id, node).ok
  PROVE  LET h == RedefineNode(g, id, node).graph
         IN  /\ Keeps(attrs, g, h)
             /\ h.nodes = [g.nodes EXCEPT ![id] = node]
             /\ h.outputs = g.outputs
<1> DEFINE nodes == [g.nodes EXCEPT ![id] = node]
<1>1. /\ Valid(g)
      /\ RedefineNode(g, id, node) = Emission(nodes, g.outputs)
  BY DEF RedefineNode, Refused
<1>2. g.nodes \in Seq(NodesOver(attrs)) /\ g.outputs \in Seq(Nat)
  BY DEF GraphsOver
<1>3. nodes \in Seq(NodesOver(attrs)) /\ Len(nodes) = Len(g.nodes)
  <2>1. /\ Len(g.nodes) \in Nat
        /\ g.nodes \in [1 .. Len(g.nodes) -> NodesOver(attrs)]
    BY <1>2
  <2>2. nodes \in [1 .. Len(g.nodes) -> NodesOver(attrs)]
    BY <2>1
  <2> HIDE DEF nodes
  <2> QED
    BY <2>1, <2>2, SeqOfInterval
<1>4. ASSUME NEW i \in Ids(g)
      PROVE  nodes[i].op = g.nodes[i].op /\ nodes[i].attr = g.nodes[i].attr
  BY <1>2 DEF Ids
<1> HIDE DEF nodes
<1>5. Keeps(attrs, g, RedefineNode(g, id, node).graph)
  BY <1>1, <1>2, <1>3, <1>4, EmissionKeeps
<1>6. /\ RedefineNode(g, id, node).graph.nodes = nodes
      /\ RedefineNode(g, id, node).graph.outputs = g.outputs
  BY <1>1, <1>2, <1>3, EmissionLists
<1> QED
  BY <1>5, <1>6 DEF nodes

\* How many operands the operations of the rules take.
LEMMA Arities ==
  /\ Arity("Input") = 0
  /\ Arity("Reshape") = 1 /\ Arity("Neg") = 1 /\ Arity("Relu") = 1
  /\ Arity("Add") = 2
<1>1. Arity("Input") = 0
  BY DEF Arity, UnaryOps, BinaryOps
<1>2. "Reshape" \in UnaryOps \cup {"Sum", "Reshape"} /\ "Reshape" \notin BinaryOps
  BY DEF BinaryOps
<1>3. "Reshape" \notin {"Input", "Const"}
  OBVIOUS
<1>4. Arity("Reshape") = 1
  BY <1>2, <1>3 DEF Arity
<1>5. /\ {"Neg", "Relu"} \in SUBSET (UnaryOps \cup {"Sum", "Reshape"})
      /\ "Neg" \notin {"Input", "Const"} /\ "Relu" \notin {"Input", "Const"}
      /\ "Neg" \notin BinaryOps /\ "Relu" \notin BinaryOps
  BY DEF BinaryOps, UnaryOps
<1>6. Arity("Neg") = 1 /\ Arity("Relu") = 1
  BY <1>5 DEF Arity
<1>7. /\ "Add" \in BinaryOps /\ "Add" \notin UnaryOps \cup {"Sum", "Reshape"}
      /\ "Add" \notin {"Input", "Const"}
  BY DEF BinaryOps, UnaryOps
<1>8. Arity("Add") = 2
  BY <1>7 DEF Arity
<1> QED
  BY <1>1, <1>4, <1>6, <1>8

\* A rule that fires keeps the graph.
LEMMA TryAtKeeps ==
  ASSUME NEW attrs, NEW g \in GraphsOver(attrs), InputsListed(g),
         NEW rule \in Rules, NEW i \in Ids(g), TryAt(rule, g, i).ok
  PROVE  Keeps(attrs, g, TryAt(rule, g, i).graph)
<1>1. CASE rule = "neg-neg-elim"
  <2>1. TryAt(rule, g, i) = ReplaceAllUses(g, i, ArgOf(g, ArgOf(g, i)))
    BY <1>1 DEF TryAt, NegNegElim, Refused
  <2> QED
    BY <2>1, ReplaceAllUsesKeeps
<1>2. CASE rule = "relu-idempotent-elim"
  <2>1. TryAt(rule, g, i) = ReplaceAllUses(g, i, ArgOf(g, i))
    BY <1>2 DEF TryAt, ReluIdempotentElim, Refused
  <2> QED
    BY <2>1, ReplaceAllUsesKeeps
<1>3. CASE rule = "add-zero-elim"
  <2>1. PICK x : TryAt(rule, g, i) = ReplaceAllUses(g, i, x)
    BY <1>3 DEF TryAt, AddZeroElim, Refused
  <2> QED
    BY <2>1, ReplaceAllUsesKeeps
<1>4. CASE rule = "reshape-reshape-fuse"
  <2> DEFINE x == ArgOf(g, ArgOf(g, i))
             args == <<x>>
             node == [g.nodes[i] EXCEPT !.args = args]
  <2>1. /\ OpAt(g, i) = "Reshape"
        /\ TryAt(rule, g, i) = RedefineNode(g, i, node)
    BY <1>4 DEF TryAt, ReshapeReshapeFuse, Refused
  <2>2. g.nodes[i] \in NodesOver(attrs)
    BY DEF GraphsOver, Ids
  <2>3. Len(g.nodes[i].args) = 1
    BY <2>1, <2>2, Arities DEF NodesOver, OpAt
  <2>4. x \in Nat
    <3>1. Operands(node) \in SUBSET (1 .. (i - 1))
      BY <2>1 DEF RedefineNode, Refused
    <3>2. node.args = <<x>>
      BY <2>2 DEF NodesOver
    <3> HIDE DEF x, node
    <3>3. x \in Operands(node)
      BY <3>2 DEF Operands, Range
    <3> QED
      BY <3>1, <3>3
  <2> HIDE DEF x
  <2>5. args \in Seq(Nat) /\ Len(args) = Len(g.nodes[i].args)
    BY <2>3, <2>4
  <2> HIDE DEF args
  <2>6. /\ node \in NodesOver(attrs)
        /\ node.op = g.nodes[i].op
        /\ node.attr = g.nodes[i].attr
    BY <2>2, <2>5, NewArgs
  <2> HIDE DEF node
  <2>7. RedefineNode(g, i, node).ok
    BY <2>1
  <2>8. Keeps(attrs, g, RedefineNode(g, i, node).graph)
    BY <2>6, <2>7, RedefineNodeKeeps
  <2> QED
    BY <2>1, <2>8
<1> QED
  BY <1>1, <1>2, <1>3, <1>4 DEF Rules

-----------------------------------------------------------------------------
(* Pruning.                                                                 *)

\* The reachable nodes are nodes, with the outputs and their own operands.
LEMMA ReachableClosed ==
  ASSUME NEW g, Valid(g)
  PROVE  Reachable(g) \in SUBSET Ids(g) /\ ClosedFromOutputs(g, Reachable(g))
<1>1. Reachable(g) \in SUBSET Ids(g)
  BY DEF Reachable
<1>2. \A o \in Range(g.outputs) : o \in Reachable(g)
  BY DEF Reachable, ClosedFromOutputs, Valid, OutputsInRange, Range
<1>3. ASSUME NEW i \in Reachable(g), NEW a \in Operands(g.nodes[i])
      PROVE  a \in Reachable(g)
  <2>1. i \in Ids(g) /\ a \in 1 .. (i - 1)
    BY <1>1, <1>3 DEF Valid, OperandsEarlier
  <2>2. a \in Ids(g)
    BY <2>1 DEF Ids
  <2> QED
    BY <2>2 DEF Reachable, ClosedFromOutputs
<1> QED
  BY <1>1, <1>2, <1>3 DEF ClosedFromOutputs

\* They are the least such set: each is an output or a reachable node's operand.
LEMMA ReachableUsed ==
  ASSUME NEW g, Valid(g), NEW i \in Reachable(g), i \notin Range(g.outputs)
  PROVE  \E j \in Reachable(g) : i \in Operands(g.nodes[j])
<1> SUFFICES ASSUME \A j \in Reachable(g) : i \notin Operands(g.nodes[j])
             PROVE  FALSE
  OBVIOUS
<1> DEFINE S == Reachable(g) \ {i}
<1>1. S \in SUBSET Ids(g) /\ i \notin S
  BY ReachableClosed
<1>2. ClosedFromOutputs(g, S)
  BY ReachableClosed DEF ClosedFromOutputs
<1> HIDE DEF S
<1> QED
  BY <1>1, <1>2 DEF Reachable

\* So are the kept ones: inputs have no operands.
LEMMA KeptClosed ==
  ASSUME NEW attrs, NEW g \in GraphsOver(attrs), Valid(g)
  PROVE  Kept(g) \in SUBSET Ids(g) /\ ClosedFromOutputs(g, Kept(g))
<1>1. \A i \in Range(g.inputs) : i \in Ids(g) /\ g.nodes[i].op = "Input"
  BY DEF Valid, InputsAreInputs, IsInputId, Range
<1>2. ASSUME NEW i \in Range(g.inputs) PROVE Operands(g.nodes[i]) = {}
  <2>1. g.nodes[i] \in NodesOver(attrs) /\ g.nodes[i].op = "Input"
    BY <1>1 DEF GraphsOver, Ids
  <2>2. g.nodes[i].args \in Seq(Nat) /\ Len(g.nodes[i].args) = 0
    BY <2>1, Arities DEF NodesOver
  <2> QED
    BY <2>2 DEF Operands, Range
<1> QED
  BY <1>1, <1>2, ReachableClosed DEF Kept, ClosedFromOutputs

\* The nodes and outputs that Compact emits.
CompactNodes(g, keep) ==
  LET old    == Ascending(keep)
      renamed(node) == [p \in DOMAIN node.args |-> Rank(keep, node.args[p])]
  IN  [k \in DOMAIN old |->
         WithOperands(g.nodes[old[k]], renamed(g.nodes[old[k]]))]

CompactOutputs(g, keep) ==
  [k \in DOMAIN g.outputs |-> Rank(keep, g.outputs[k])]

RenamedBy(keep, node, new) ==
  /\ Operands(new) = {Rank(keep, a) : a \in Operands(node)}
  /\ new.args \in Seq(Nat) /\ Len(new.args) = Len(node.args)
  /\ \A p \in DOMAIN node.args : new.args[p] = Rank(keep, node.args[p])

\* Each kept node moves to the place of its rank, and so do its operands.
LEMMA CompactMoves ==
  ASSUME NEW attrs, NEW g \in GraphsOver(attrs), Valid(g),
         NEW keep \in SUBSET Ids(g), ClosedFromOutputs(g, keep)
  PROVE  LET nodes == CompactNodes(g, keep)
             old   == Ascending(keep)
             n     == Cardinality(keep)
         IN  /\ n \in Nat
             /\ keep \in SUBSET Nat
             /\ IsFiniteSet(keep)
             /\ nodes \in Seq(NodesOver(attrs)) /\ Len(nodes) = n
             /\ \A k \in 1 .. n :
                  /\ old[k] \in keep
                  /\ Rank(keep, old[k]) = k
                  /\ nodes[k].op = g.nodes[old[k]].op
                  /\ nodes[k].attr = g.nodes[old[k]].attr
                  /\ RenamedBy(keep, g.nodes[old[k]], nodes[k])
             /\ \A i \in keep : Rank(keep, i) \in 1 .. n /\ old[Rank(keep, i)] = i
<1> DEFINE old == Ascending(keep)
           n == Cardinality(keep)
           args(k) == [p \in DOMAIN g.nodes[old[k]].args |->
                         Rank(keep, g.nodes[old[k]].args[p])]
           nodes == CompactNodes(g, keep)
<1>1. Len(g.nodes) \in Nat /\ g.nodes \in Seq(NodesOver(attrs))
  BY DEF GraphsOver
<1>2. IsFiniteSet(Ids(g)) /\ Ids(g) \in SUBSET Nat
  BY <1>1, FS_Interval, SMTT(30) DEF Ids
<1>3. keep \in SUBSET Nat /\ IsFiniteSet(keep) /\ n \in Nat
  BY <1>2, FS_Subset, FS_CardinalityType
<1>4. /\ old \in [1 .. n -> keep]
      /\ \A k \in 1 .. n : Rank(keep, old[k]) = k
      /\ \A i \in keep : Rank(keep, i) \in 1 .. n /\ old[Rank(keep, i)] = i
  BY <1>3, AscendingLists, RankMonotone
<1>5. nodes = [k \in 1 .. n |-> [g.nodes[old[k]] EXCEPT !.args = args(k)]]
  BY <1>4 DEF CompactNodes, WithOperands
<1> HIDE DEF old, n, nodes
<1>6. ASSUME NEW k \in 1 .. n
      PROVE  /\ nodes[k] \in NodesOver(attrs)
             /\ nodes[k].op = g.nodes[old[k]].op
             /\ nodes[k].attr = g.nodes[old[k]].attr
             /\ RenamedBy(keep, g.nodes[old[k]], nodes[k])
  <2> DEFINE node == g.nodes[old[k]]
             new == args(k)
  <2>1. node \in NodesOver(attrs)
    <3>1. old[k] \in Ids(g)
      BY <1>4
    <3>2. \A i \in Ids(g) : g.nodes[i] \in NodesOver(attrs)
      BY <1>1 DEF Ids
    <3> QED
      BY <3>1, <3>2
  <2>2. node.args \in Seq(Nat)
    BY <2>1 DEF NodesOver
  <2>3. \A p \in DOMAIN node.args : node.args[p] \in keep
    BY <1>4 DEF ClosedFromOutputs, Operands, Range
  <2>4. \A p \in DOMAIN node.args : Rank(keep, node.args[p]) \in Nat
    <3>1. \A a \in keep : Rank(keep, a) \in Nat
      BY <1>3, <1>4
    <3> QED
      BY <2>3, <3>1
  <2>5. new = [p \in DOMAIN node.args |-> Rank(keep, node.args[p])]
    OBVIOUS
  <2>6. nodes[k] = [node EXCEPT !.args = new]
    BY <1>5
  <2> HIDE DEF node, new
  <2>7. new \in Seq(Nat) /\ Len(new) = Len(node.args)
    BY <2>2, <2>4, <2>5
  <2>8. /\ nodes[k] \in NodesOver(attrs)
        /\ nodes[k].op = node.op
        /\ nodes[k].attr = node.attr
        /\ nodes[k].args = new
    BY <2>1, <2>6, <2>7, NewArgs
  <2>9. Range(new) = {Rank(keep, a) : a \in Range(node.args)}
    BY <2>5 DEF Range
  <2> QED
    BY <2>5, <2>7, <2>8, <2>9 DEF node, Operands, RenamedBy
<1>7. nodes \in [1 .. n -> NodesOver(attrs)]
  <2>1. DOMAIN nodes = 1 .. n /\ nodes = [k \in 1 .. n |-> nodes[k]]
    BY <1>5
  <2> QED
    BY <1>6, <2>1
<1>8. nodes \in Seq(NodesOver(attrs)) /\ Len(nodes) = n
  BY <1>3, <1>7, SeqOfInterval
<1> QED
  BY <1>3, <1>4, <1>6, <1>8 DEF old, n, nodes

\* The inputs that a pruned graph lists: the old ones, at their new places.
LEMMA CompactInputs ==
  ASSUME NEW attrs, NEW g \in GraphsOver(attrs), Valid(g), InputsListed(g),
         NEW keep \in SUBSET Ids(g), ClosedFromOutputs(g, keep),
         Range(g.inputs) \in SUBSET keep
  PROVE  Ascending(InputIds(CompactNodes(g, keep)))
           = [m \in DOMAIN g.inputs |-> Rank(keep, g.inputs[m])]
<1> DEFINE old == Ascending(keep)
           n == Cardinality(keep)
           nodes == CompactNodes(g, keep)
           s == [m \in DOMAIN g.inputs |-> Rank(keep, g.inputs[m])]
<1>1. /\ n \in Nat /\ keep \in SUBSET Nat /\ IsFiniteSet(keep)
      /\ Len(nodes) = n
      /\ \A k \in 1 .. n : /\ old[k] \in keep
                           /\ Rank(keep, old[k]) = k
                           /\ nodes[k].op = g.nodes[old[k]].op
      /\ \A i \in keep : Rank(keep, i) \in 1 .. n /\ old[Rank(keep, i)] = i
  BY CompactMoves
<1> HIDE DEF old, n, nodes
<1>2. g.inputs \in Seq(Nat)
  BY DEF GraphsOver
<1>3. \A m \in DOMAIN g.inputs : g.inputs[m] \in keep
  BY DEF Range
<1>4. s \in Seq(Nat) /\ DOMAIN s = DOMAIN g.inputs
  <2>1. \A m \in DOMAIN g.inputs : Rank(keep, g.inputs[m]) \in Nat
    <3>1. \A i \in keep : Rank(keep, i) \in Nat
      BY <1>1
    <3> QED
      BY <1>3, <3>1
  <2> QED
    BY <1>2, <2>1
<1>5. ASSUME NEW j \in DOMAIN s, NEW k \in DOMAIN s, j < k PROVE s[j] < s[k]
  <2>1. g.inputs[j] \in keep /\ g.inputs[k] \in keep /\ g.inputs[j] < g.inputs[k]
    BY <1>3, <1>4, <1>5 DEF InputsListed
  <2>2. g.inputs[j] \in Nat
    BY <1>1, <2>1
  <2>3. Rank(keep, g.inputs[j]) < Rank(keep, g.inputs[k])
    BY <1>1, <2>1, <2>2, RankMonotone
  <2> QED
    BY <1>4, <2>3
<1>6. Range(s) = InputIds(nodes)
  <2>1. ASSUME NEW m \in DOMAIN g.inputs PROVE s[m] \in InputIds(nodes)
    <3>1. g.nodes[g.inputs[m]].op = "Input"
      BY DEF Valid, InputsAreInputs, IsInputId
    <3>2. /\ s[m] = Rank(keep, g.inputs[m])
          /\ s[m] \in 1 .. n
          /\ old[s[m]] = g.inputs[m]
      BY <1>1, <1>3
    <3> HIDE DEF s
    <3> QED
      BY <1>1, <3>1, <3>2 DEF InputIds
  <2>2. ASSUME NEW k \in InputIds(nodes) PROVE k \in Range(s)
    <3>1. k \in 1 .. n /\ nodes[k].op = "Input"
      BY <1>1 DEF InputIds
    <3>2. old[k] \in Ids(g) /\ g.nodes[old[k]].op = "Input"
      BY <1>1, <3>1
    <3>3. PICK m \in DOMAIN g.inputs : g.inputs[m] = old[k]
      BY <3>2 DEF InputsListed, Range
    <3>4. s[m] = k
      BY <1>1, <3>1, <3>3
    <3> HIDE DEF s
    <3> QED
      BY <1>4, <3>3, <3>4 DEF Range
  <2> HIDE DEF s
  <2> QED
    BY <1>4, <2>1, <2>2 DEF Range
<1> HIDE DEF s
<1>7. s = Ascending(Range(s))
  BY <1>4, <1>5, AscendingUnique
<1> QED
  BY <1>6, <1>7 DEF s, nodes

\* Whether a constant fits depends on its operation and attributes.
LEMMA ConstErrorDepends ==
  ASSUME NEW p, NEW q, p.op = q.op, p.attr = q.attr
  PROVE  ConstError(p) = ConstError(q)
BY DEF ConstError

\* Keeping a closed set of nodes that has the inputs keeps the graph.
LEMMA CompactKeeps ==
  ASSUME NEW attrs, NEW g \in GraphsOver(attrs), Valid(g), InputsListed(g),
         NEW keep \in SUBSET Ids(g), ClosedFromOutputs(g, keep),
         Range(g.inputs) \in SUBSET keep
  PROVE  /\ Compact(g, keep).ok
         /\ Compact(g, keep).graph.nodes = CompactNodes(g, keep)
         /\ Compact(g, keep).graph.outputs = CompactOutputs(g, keep)
         /\ Keeps(attrs, g, Compact(g, keep).graph)
<1> DEFINE old == Ascending(keep)
           n == Cardinality(keep)
           nodes == CompactNodes(g, keep)
           outputs == CompactOutputs(g, keep)
           e == Compact(g, keep)
           h == e.graph
<1>1. e = Emission(nodes, outputs)
  BY DEF Compact, CompactNodes, CompactOutputs
<1>2. /\ n \in Nat /\ keep \in SUBSET Nat /\ IsFiniteSet(keep)
      /\ nodes \in Seq(NodesOver(attrs)) /\ Len(nodes) = n
      /\ \A k \in 1 .. n : /\ old[k] \in keep
                           /\ Rank(keep, old[k]) = k
                           /\ nodes[k].op = g.nodes[old[k]].op
                           /\ nodes[k].attr = g.nodes[old[k]].attr
                           /\ RenamedBy(keep, g.nodes[old[k]], nodes[k])
      /\ \A i \in keep : Rank(keep, i) \in 1 .. n /\ old[Rank(keep, i)] = i
  <2>1. /\ n \in Nat /\ keep \in SUBSET Nat /\ IsFiniteSet(keep)
        /\ nodes \in Seq(NodesOver(attrs)) /\ Len(nodes) = n
    BY CompactMoves
  <2>2. ASSUME NEW k \in 1 .. n
        PROVE  /\ old[k] \in keep
               /\ Rank(keep, old[k]) = k
               /\ nodes[k].op = g.nodes[old[k]].op
               /\ nodes[k].attr = g.nodes[old[k]].attr
    BY CompactMoves
  <2>3. ASSUME NEW k \in 1 .. n PROVE RenamedBy(keep, g.nodes[old[k]], nodes[k])
    BY CompactMoves
  <2>4. \A i \in keep : Rank(keep, i) \in 1 .. n /\ old[Rank(keep, i)] = i
    BY CompactMoves
  <2> QED
    BY <2>1, <2>2, <2>3, <2>4
<1>3. /\ outputs \in Seq(Nat)
      /\ Len(outputs) = Len(g.outputs)
      /\ \A k \in DOMAIN outputs : outputs[k] \in 1 .. n
      /\ outputs # << >>
  <2>1. g.outputs \in Seq(Nat) /\ g.outputs # << >>
    BY DEF GraphsOver, Valid
  <2>2. \A k \in DOMAIN g.outputs : g.outputs[k] \in keep
    BY DEF ClosedFromOutputs, Range
  <2>3. \A i \in keep : Rank(keep, i) \in 1 .. n /\ Rank(keep, i) \in Nat
    BY <1>2
  <2>4. outputs = [k \in DOMAIN g.outputs |-> Rank(keep, g.outputs[k])]
    BY DEF CompactOutputs
  <2>5. \A k \in DOMAIN g.outputs : outputs[k] \in 1 .. n /\ outputs[k] \in Nat
    BY <2>2, <2>3, <2>4
  <2> HIDE DEF outputs, n
  <2>6. DOMAIN outputs = DOMAIN g.outputs /\ DOMAIN g.outputs = 1 .. Len(g.outputs)
    BY <2>1, <2>4
  <2>7. Len(g.outputs) \in Nat /\ Len(g.outputs) # 0
    BY <2>1
  <2>8. outputs \in [1 .. Len(g.outputs) -> Nat]
    BY <2>4, <2>5, <2>6
  <2>9. outputs \in Seq(Nat) /\ Len(outputs) = Len(g.outputs)
    BY <2>7, <2>8, SeqOfInterval
  <2>10. outputs # << >>
    BY <2>7, <2>9
  <2>11. \A k \in DOMAIN outputs : outputs[k] \in 1 .. n
    BY <2>5, <2>6
  <2> QED
    BY <2>9, <2>10, <2>11
<1> HIDE DEF old, n, nodes, outputs, e
<1>4. /\ h \in GraphsOver(attrs)
      /\ h.nodes = nodes
      /\ h.outputs = outputs
      /\ h.inputs = Ascending(InputIds(nodes))
      /\ InputsAreInputs(h)
      /\ InputsListed(h)
      /\ e.ok = Valid(h)
  BY <1>1, <1>2, <1>3, EmissionLists
<1> HIDE DEF h
<1>5. Ids(h) = 1 .. n
  BY <1>2, <1>4 DEF Ids
<1>6. OperandsEarlier(h)
  <2> SUFFICES ASSUME NEW k \in 1 .. n, NEW b \in Operands(nodes[k])
               PROVE  b \in 1 .. (k - 1)
    BY <1>4, <1>5 DEF OperandsEarlier
  <2>1. PICK a \in Operands(g.nodes[old[k]]) : b = Rank(keep, a)
    BY <1>2 DEF RenamedBy
  <2>2. old[k] \in keep /\ old[k] \in Ids(g) /\ old[k] \in Nat /\ k \in Nat
    <3>1. old[k] \in keep
      BY <1>2
    <3>2. k \in Nat
      OBVIOUS
    <3> QED
      BY <1>2, <3>1, <3>2
  <2>3. a \in keep
    BY <2>2 DEF ClosedFromOutputs
  <2>4. a \in Nat /\ a < old[k]
    <3> DEFINE i == old[k]
    <3>1. a \in 1 .. (i - 1)
      BY <2>2 DEF Valid, OperandsEarlier
    <3> HIDE DEF i
    <3>2. i \in Nat
      BY <2>2 DEF i
    <3>3. a \in Nat /\ a < i
      BY <3>1, <3>2
    <3> QED
      BY <3>3 DEF i
  <2>5. Rank(keep, a) < Rank(keep, old[k])
    BY <1>2, <2>2, <2>4, RankMonotone
  <2>6. Rank(keep, a) \in 1 .. n /\ Rank(keep, old[k]) = k
    BY <1>2, <2>3
  <2> QED
    BY <1>2, <2>1, <2>2, <2>5, <2>6
<1>7. OutputsInRange(h) /\ h.outputs # << >>
  BY <1>3, <1>4, <1>5 DEF OutputsInRange
<1>8. ConstsFit(h)
  <2> SUFFICES ASSUME NEW k \in 1 .. n PROVE ConstError(nodes[k]) = "None"
    BY <1>4, <1>5 DEF ConstsFit
  <2>1. ConstError(nodes[k]) = ConstError(g.nodes[old[k]])
    BY <1>2, ConstErrorDepends
  <2>2. old[k] \in Ids(g)
    BY <1>2
  <2> QED
    BY <2>1, <2>2 DEF Valid, ConstsFit
<1>9. Valid(h)
  BY <1>4, <1>6, <1>7, <1>8 DEF Valid
<1>10. h.inputs = [m \in DOMAIN g.inputs |-> Rank(keep, g.inputs[m])]
  BY <1>4, CompactInputs DEF nodes
<1>11. Signature(h) = Signature(g)
  <2>1. ASSUME NEW m \in DOMAIN g.inputs
        PROVE  nodes[Rank(keep, g.inputs[m])].attr = g.nodes[g.inputs[m]].attr
    <3>1. g.inputs[m] \in keep
      BY DEF Range
    <3> QED
      BY <1>2, <3>1, ZenonT(30)
  <2> QED
    BY <1>4, <1>10, <2>1 DEF Signature
<1>12. Keeps(attrs, g, h)
  BY <1>3, <1>4, <1>9, <1>11 DEF Keeps
<1> QED
  BY <1>4, <1>9, <1>12 DEF e, h, nodes, outputs

\* What pruning returns.
LEMMA PruneIsCompact ==
  ASSUME NEW g, Valid(g)
  PROVE  PruneAndRebuild(g) = Compact(g, Kept(g))
<1> DEFINE S == {Compact(g, v) : v \in {Kept(g)}}
<1>1. PruneAndRebuild(g) = CHOOSE y \in S : TRUE
  BY DEF PruneAndRebuild, Once
<1>2. S = {Compact(g, Kept(g))}
  OBVIOUS
<1> HIDE DEF S
<1> QED
  BY <1>1, <1>2

\* Pruning a valid graph is not refused, keeps the graph, and leaves no node
\* that is neither an input nor an output nor used: prune_and_rebuild.
THEOREM PruneKeeps ==
  ASSUME NEW attrs, NEW g \in GraphsOver(attrs), Valid(g), InputsListed(g)
  PROVE  /\ PruneAndRebuild(g).ok
         /\ Keeps(attrs, g, PruneAndRebuild(g).graph)
         /\ AllUsed(PruneAndRebuild(g).graph)
<1> DEFINE keep == Kept(g)
           old == Ascending(keep)
           n == Cardinality(keep)
           nodes == CompactNodes(g, keep)
           h == PruneAndRebuild(g).graph
<1>1. /\ keep \in SUBSET Ids(g)
      /\ ClosedFromOutputs(g, keep)
      /\ Range(g.inputs) \in SUBSET keep
      /\ Reachable(g) \in SUBSET keep
  BY KeptClosed DEF Kept
<1>2. PruneAndRebuild(g) = Compact(g, keep)
  BY PruneIsCompact
<1> HIDE DEF keep
<1>3. /\ Compact(g, keep).ok
      /\ Keeps(attrs, g, Compact(g, keep).graph)
      /\ h.nodes = nodes
      /\ h.outputs = CompactOutputs(g, keep)
  BY <1>1, <1>2, CompactKeeps
<1>4. n \in Nat /\ Len(nodes) = n
  BY <1>1, CompactMoves
<1>5. ASSUME NEW k \in 1 .. n
      PROVE  /\ old[k] \in keep
             /\ Rank(keep, old[k]) = k
             /\ nodes[k].op = g.nodes[old[k]].op
  BY <1>1, CompactMoves
<1>6. ASSUME NEW i \in keep
      PROVE  Rank(keep, i) \in 1 .. n /\ old[Rank(keep, i)] = i
  BY <1>1, CompactMoves
<1>7. ASSUME NEW k \in 1 .. n PROVE RenamedBy(keep, g.nodes[old[k]], nodes[k])
  BY <1>1, CompactMoves
<1> HIDE DEF old, n, nodes, h
<1>8. ASSUME NEW k \in 1 .. n
      PROVE  \/ nodes[k].op = "Input"
             \/ k \in Range(h.outputs)
             \/ \E m \in 1 .. n : k \in Operands(nodes[m])
  <2>1. old[k] \in keep
    BY <1>5
  <2>2. CASE old[k] \in Range(g.inputs)
    <3>1. g.nodes[old[k]].op = "Input"
      BY <2>2 DEF Valid, InputsAreInputs, IsInputId, Range
    <3> QED
      BY <1>5, <3>1
  <2>3. CASE old[k] \in Range(g.outputs)
    <3>1. PICK m \in DOMAIN g.outputs : g.outputs[m] = old[k]
      BY <2>3 DEF Range
    <3>2. m \in DOMAIN h.outputs /\ h.outputs[m] = k
      BY <1>3, <1>5, <3>1 DEF CompactOutputs
    <3> QED
      BY <3>2 DEF Range
  <2>4. CASE old[k] \in Reachable(g) /\ old[k] \notin Range(g.outputs)
    <3>1. PICK j \in Reachable(g) : old[k] \in Operands(g.nodes[j])
      BY <2>4, ReachableUsed
    <3>2. j \in keep
      BY <1>1
    <3>3. Rank(keep, j) \in 1 .. n /\ old[Rank(keep, j)] = j
      BY <1>6, <3>2
    <3>4. RenamedBy(keep, g.nodes[j], nodes[Rank(keep, j)])
      BY <1>7, <3>3
    <3>5. Rank(keep, old[k]) \in Operands(nodes[Rank(keep, j)])
      BY <3>1, <3>4 DEF RenamedBy
    <3> QED
      BY <1>5, <3>3, <3>5
  <2> QED
    BY <2>1, <2>2, <2>3, <2>4 DEF keep, Kept
<1>9. AllUsed(h)
  BY <1>3, <1>4, <1>8 DEF AllUsed, Ids
<1> QED
  BY <1>2, <1>3, <1>9 DEF h

-----------------------------------------------------------------------------
(* Surgery that is not refused.  Rules ignore a refusal, so a rule that     *)
(* asked for one would silently never fire.                                 *)

\* Emitting nodes with earlier operands, and outputs among them, builds.
LEMMA EmissionBuilds ==
  ASSUME NEW attrs, NEW g \in GraphsOver(attrs), Valid(g),
         NEW nodes \in Seq(NodesOver(attrs)), Len(nodes) = Len(g.nodes),
         \A i \in Ids(g) :
            /\ nodes[i].op = g.nodes[i].op
            /\ nodes[i].attr = g.nodes[i].attr
            /\ \A a \in Operands(nodes[i]) : a \in 1 .. (i - 1),
         NEW outputs \in Seq(Nat), outputs # << >>,
         \A k \in DOMAIN outputs : outputs[k] \in Ids(g)
  PROVE  Emission(nodes, outputs).ok
<1> DEFINE e == Emission(nodes, outputs)
           h == e.graph
<1>1. /\ h.nodes = nodes
      /\ h.outputs = outputs
      /\ InputsAreInputs(h)
      /\ e.ok = Valid(h)
  BY EmissionLists
<1> HIDE DEF e, h
<1>2. Ids(h) = Ids(g)
  BY <1>1 DEF Ids
<1>3. OperandsEarlier(h) /\ OutputsInRange(h)
  BY <1>1, <1>2 DEF OperandsEarlier, OutputsInRange
<1>4. ASSUME NEW i \in Ids(g) PROVE ConstError(nodes[i]) = "None"
  <2>1. ConstError(nodes[i]) = ConstError(g.nodes[i])
    BY ConstErrorDepends
  <2> QED
    BY <2>1 DEF Valid, ConstsFit
<1>5. ConstsFit(h)
  BY <1>1, <1>2, <1>4 DEF ConstsFit
<1> QED
  BY <1>1, <1>3, <1>5 DEF Valid, e

\* The uses of a node can be redirected to any earlier node.
LEMMA ReplaceSucceeds ==
  ASSUME NEW attrs, NEW g \in GraphsOver(attrs), Valid(g),
         NEW target \in Ids(g), NEW replacement \in 1 .. (target - 1)
  PROVE  ReplaceAllUses(g, target, replacement).ok
<1> DEFINE use(a) == IF a = target THEN replacement ELSE a
           renamed(node) == [k \in DOMAIN node.args |-> use(node.args[k])]
           nodes == [i \in Ids(g) |-> IF i = target THEN g.nodes[i]
                                      ELSE [g.nodes[i] EXCEPT !.args = renamed(g.nodes[i])]]
           outputs == [k \in DOMAIN g.outputs |-> use(g.outputs[k])]
<1>1. /\ target \in Nat /\ replacement \in Nat /\ Len(g.nodes) \in Nat
      /\ replacement < target /\ replacement \in Ids(g)
  BY DEF GraphsOver, Ids
<1>2. ReplaceAllUses(g, target, replacement) = Emission(nodes, outputs)
  BY <1>1 DEF ReplaceAllUses, WithOperands
<1>3. ASSUME NEW i \in Ids(g)
      PROVE  /\ nodes[i] \in NodesOver(attrs)
             /\ nodes[i].op = g.nodes[i].op
             /\ nodes[i].attr = g.nodes[i].attr
             /\ \A a \in Operands(nodes[i]) : a \in 1 .. (i - 1)
  <2>1. g.nodes[i] \in NodesOver(attrs) /\ i \in Nat
    BY DEF GraphsOver, Ids
  <2>2. \A a \in Operands(g.nodes[i]) : a \in 1 .. (i - 1)
    BY DEF Valid, OperandsEarlier
  <2>3. CASE i = target
    BY <2>1, <2>2, <2>3
  <2>4. CASE i # target
    <3> DEFINE new == renamed(g.nodes[i])
    <3>1. g.nodes[i].args \in Seq(Nat) /\ replacement \in Nat
      BY <1>1, <2>1 DEF NodesOver
    <3>2. new \in Seq(Nat) /\ Len(new) = Len(g.nodes[i].args)
      <4> DEFINE list(args) == [k \in DOMAIN args |->
                                  IF args[k] = target THEN replacement ELSE args[k]]
      <4>1. \A args \in Seq(Nat) : list(args) \in Seq(Nat) /\ Len(list(args)) = Len(args)
        BY <3>1, RenamedArgs, ZenonT(30)
      <4>2. new = list(g.nodes[i].args)
        OBVIOUS
      <4> HIDE DEF new, list
      <4> QED
        BY <3>1, <4>1, <4>2
    <3>3. ASSUME NEW k \in DOMAIN new PROVE new[k] \in 1 .. (i - 1)
      <4>1. g.nodes[i].args[k] \in 1 .. (i - 1)
        BY <2>2, <3>3 DEF Operands, Range
      <4> QED
        BY <1>1, <2>1, <4>1
    <3>4. nodes[i] = [g.nodes[i] EXCEPT !.args = new]
      BY <2>4
    <3> HIDE DEF new, nodes
    <3>5. /\ nodes[i] \in NodesOver(attrs)
          /\ nodes[i].op = g.nodes[i].op
          /\ nodes[i].attr = g.nodes[i].attr
          /\ nodes[i].args = new
      BY <2>1, <3>2, <3>4, NewArgs
    <3> QED
      BY <3>3, <3>5 DEF Operands, Range
  <2> QED
    BY <2>3, <2>4
<1>4. nodes \in Seq(NodesOver(attrs)) /\ Len(nodes) = Len(g.nodes)
  <2>1. /\ DOMAIN nodes = 1 .. Len(g.nodes)
        /\ nodes = [i \in 1 .. Len(g.nodes) |-> nodes[i]]
    BY DEF Ids
  <2> HIDE DEF nodes
  <2>2. nodes \in [1 .. Len(g.nodes) -> NodesOver(attrs)]
    BY <1>3, <2>1 DEF Ids
  <2> QED
    BY <1>1, <2>2, SeqOfInterval
<1>5. /\ outputs \in Seq(Nat)
      /\ outputs # << >>
      /\ \A k \in DOMAIN outputs : outputs[k] \in Ids(g)
  <2>1. g.outputs \in Seq(Nat) /\ g.outputs # << >>
    BY DEF GraphsOver, Valid
  <2>2. \A k \in DOMAIN g.outputs : use(g.outputs[k]) \in Ids(g)
    BY <1>1 DEF Valid, OutputsInRange
  <2>3. \A k \in DOMAIN g.outputs : use(g.outputs[k]) \in Nat
    BY <1>1, <2>1
  <2>4. Len(g.outputs) \in Nat /\ DOMAIN g.outputs = 1 .. Len(g.outputs)
    BY <2>1
  <2>5. /\ DOMAIN outputs = DOMAIN g.outputs
        /\ \A k \in DOMAIN g.outputs : outputs[k] = use(g.outputs[k])
        /\ outputs = [k \in 1 .. Len(g.outputs) |-> outputs[k]]
    BY <2>4
  <2> HIDE DEF use, outputs
  <2>6. outputs \in [1 .. Len(g.outputs) -> Nat]
    BY <2>3, <2>4, <2>5
  <2>7. outputs \in Seq(Nat) /\ Len(outputs) = Len(g.outputs)
    BY <2>4, <2>6, SeqOfInterval
  <2>8. Len(g.outputs) # 0
    BY <2>1
  <2>9. outputs # << >>
    BY <2>7, <2>8
  <2> QED
    BY <2>2, <2>5, <2>7, <2>9
<1> HIDE DEF nodes, outputs
<1> QED
  BY <1>2, <1>3, <1>4, <1>5, EmissionBuilds

\* A node can be given any earlier operands.
LEMMA RedefineSucceeds ==
  ASSUME NEW attrs, NEW g \in GraphsOver(attrs), Valid(g),
         NEW id \in Ids(g), NEW node \in NodesOver(attrs),
         node.op = g.nodes[id].op, node.attr = g.nodes[id].attr,
         Operands(node) \in SUBSET (1 .. (id - 1))
  PROVE  RedefineNode(g, id, node).ok
<1> DEFINE nodes == [g.nodes EXCEPT ![id] = node]
<1>1. RedefineNode(g, id, node) = Emission(nodes, g.outputs)
  BY DEF RedefineNode
<1>2. g.nodes \in Seq(NodesOver(attrs)) /\ g.outputs \in Seq(Nat)
  BY DEF GraphsOver
<1>3. nodes \in Seq(NodesOver(attrs)) /\ Len(nodes) = Len(g.nodes)
  <2>1. /\ Len(g.nodes) \in Nat
        /\ g.nodes \in [1 .. Len(g.nodes) -> NodesOver(attrs)]
    BY <1>2
  <2>2. nodes \in [1 .. Len(g.nodes) -> NodesOver(attrs)]
    BY <2>1
  <2> HIDE DEF nodes
  <2> QED
    BY <2>1, <2>2, SeqOfInterval
<1>4. ASSUME NEW i \in Ids(g)
      PROVE  /\ nodes[i].op = g.nodes[i].op
             /\ nodes[i].attr = g.nodes[i].attr
             /\ \A a \in Operands(nodes[i]) : a \in 1 .. (i - 1)
  <2>1. nodes[i] = IF i = id THEN node ELSE g.nodes[i]
    BY <1>2 DEF Ids
  <2>2. \A a \in Operands(g.nodes[i]) : a \in 1 .. (i - 1)
    BY DEF Valid, OperandsEarlier
  <2> HIDE DEF nodes
  <2> QED
    BY <2>1, <2>2
<1>5. g.outputs # << >> /\ \A k \in DOMAIN g.outputs : g.outputs[k] \in Ids(g)
  BY DEF Valid, OutputsInRange
<1> HIDE DEF nodes
<1> QED
  BY <1>1, <1>2, <1>3, <1>4, <1>5, EmissionBuilds

\* What each rule removes.
Redex(rule, g, i) ==
  \/ rule = "neg-neg-elim" /\ OpAt(g, i) = "Neg" /\ OpAt(g, ArgOf(g, i)) = "Neg"
  \/ rule = "relu-idempotent-elim"
       /\ OpAt(g, i) = "Relu" /\ OpAt(g, ArgOf(g, i)) = "Relu"
  \/ rule = "reshape-reshape-fuse"
       /\ OpAt(g, i) = "Reshape" /\ OpAt(g, ArgOf(g, i)) = "Reshape"
  \/ rule = "add-zero-elim"
       /\ OpAt(g, i) = "Add" /\ \E a \in Operands(g.nodes[i]) : ZeroConst(g, a)

\* The operands of a node are as many as its operation takes, and earlier.
LEMMA OperandsOf ==
  ASSUME NEW attrs, NEW g \in GraphsOver(attrs), Valid(g), NEW i \in Ids(g)
  PROVE  /\ i \in Nat
         /\ g.nodes[i] \in NodesOver(attrs)
         /\ g.nodes[i].args \in Seq(Nat)
         /\ Len(g.nodes[i].args) = Arity(OpAt(g, i))
         /\ \A k \in 1 .. Arity(OpAt(g, i)) :
               g.nodes[i].args[k] \in 1 .. (i - 1) /\ g.nodes[i].args[k] \in Ids(g)
<1>1. g.nodes[i] \in NodesOver(attrs) /\ i \in Nat /\ Len(g.nodes) \in Nat
  BY DEF GraphsOver, Ids
<1>2. /\ g.nodes[i].args \in Seq(Nat)
      /\ Len(g.nodes[i].args) = Arity(OpAt(g, i))
  BY <1>1 DEF NodesOver, OpAt
<1>3. ASSUME NEW k \in DOMAIN g.nodes[i].args
      PROVE  g.nodes[i].args[k] \in 1 .. (i - 1) /\ g.nodes[i].args[k] \in Ids(g)
  <2>1. g.nodes[i].args[k] \in Operands(g.nodes[i])
    BY DEF Operands, Range
  <2>2. g.nodes[i].args[k] \in 1 .. (i - 1)
    BY <2>1 DEF Valid, OperandsEarlier
  <2> QED
    BY <1>1, <2>2 DEF Ids
<1>4. DOMAIN g.nodes[i].args = 1 .. Arity(OpAt(g, i))
  BY <1>2
<1> QED
  BY <1>1, <1>2, <1>3, <1>4

\* A rule fires wherever there is something for it to remove: the surgery it
\* asks for is never refused.
THEOREM RedexFires ==
  ASSUME NEW attrs, NEW g \in GraphsOver(attrs), Valid(g),
         NEW rule \in Rules, NEW i \in Ids(g), Redex(rule, g, i)
  PROVE  TryAt(rule, g, i).ok
<1> DEFINE j == ArgOf(g, i)
           x == ArgOf(g, j)
<1>1. i \in Nat
  BY OperandsOf
<1>2. ASSUME Arity(OpAt(g, i)) = 1
      PROVE  j \in 1 .. (i - 1) /\ j \in Ids(g)
  <2>1. 1 \in 1 .. Arity(OpAt(g, i))
    BY <1>2
  <2> QED
    BY <2>1, OperandsOf DEF ArgOf
<1> HIDE DEF j
<1>3. ASSUME Arity(OpAt(g, i)) = 1, Arity(OpAt(g, j)) = 1
      PROVE  x \in 1 .. (i - 1)
  <2>1. j \in 1 .. (i - 1) /\ j \in Ids(g)
    BY <1>2, <1>3
  <2>2. 1 \in 1 .. Arity(OpAt(g, j))
    BY <1>3
  <2>3. x \in 1 .. (j - 1)
    BY <2>1, <2>2, OperandsOf DEF ArgOf
  <2> QED
    BY <1>1, <2>1, <2>3
<1> HIDE DEF x
<1>4. CASE rule = "neg-neg-elim"
  <2>1. OpAt(g, i) = "Neg" /\ OpAt(g, j) = "Neg"
    BY <1>4 DEF Redex, j
  <2>2. x \in 1 .. (i - 1)
    BY <1>3, <2>1, Arities
  <2>3. TryAt(rule, g, i) = ReplaceAllUses(g, i, x)
    BY <1>4, <2>1 DEF TryAt, NegNegElim, j, x
  <2> QED
    BY <2>2, <2>3, ReplaceSucceeds
<1>5. CASE rule = "relu-idempotent-elim"
  <2>1. OpAt(g, i) = "Relu" /\ OpAt(g, j) = "Relu"
    BY <1>5 DEF Redex, j
  <2>2. j \in 1 .. (i - 1)
    BY <1>2, <2>1, Arities
  <2>3. TryAt(rule, g, i) = ReplaceAllUses(g, i, j)
    BY <1>5, <2>1 DEF TryAt, ReluIdempotentElim, j
  <2> QED
    BY <2>2, <2>3, ReplaceSucceeds
<1>6. CASE rule = "reshape-reshape-fuse"
  <2> DEFINE args == <<x>>
             node == [g.nodes[i] EXCEPT !.args = args]
  <2>1. OpAt(g, i) = "Reshape" /\ OpAt(g, j) = "Reshape"
    BY <1>6 DEF Redex, j
  <2>2. x \in 1 .. (i - 1)
    BY <1>3, <2>1, Arities
  <2>3. TryAt(rule, g, i) = RedefineNode(g, i, node)
    BY <1>6, <2>1 DEF TryAt, ReshapeReshapeFuse, j, x
  <2>4. g.nodes[i] \in NodesOver(attrs) /\ Len(g.nodes[i].args) = 1
    BY <2>1, OperandsOf, Arities
  <2>5. args \in Seq(Nat) /\ Len(args) = Len(g.nodes[i].args) /\ Range(args) = {x}
    BY <2>2, <2>4 DEF Range
  <2> HIDE DEF args
  <2>6. /\ node \in NodesOver(attrs)
        /\ node.op = g.nodes[i].op
        /\ node.attr = g.nodes[i].attr
        /\ node.args = args
    BY <2>4, <2>5, NewArgs
  <2> HIDE DEF node
  <2>7. Operands(node) \in SUBSET (1 .. (i - 1))
    BY <2>2, <2>5, <2>6 DEF Operands
  <2> QED
    BY <2>3, <2>6, <2>7, RedefineSucceeds
<1>7. CASE rule = "add-zero-elim"
  <2>1. /\ OpAt(g, i) = "Add"
        /\ \E a \in Operands(g.nodes[i]) : ZeroConst(g, a)
    BY <1>7 DEF Redex
  <2>2. /\ g.nodes[i].args \in Seq(Nat)
        /\ Len(g.nodes[i].args) = 2
        /\ \A k \in 1 .. 2 : g.nodes[i].args[k] \in 1 .. (i - 1)
    BY <2>1, OperandsOf, Arities
  <2>3. /\ g.nodes[i].args[1] \in 1 .. (i - 1)
        /\ g.nodes[i].args[2] \in 1 .. (i - 1)
    BY <2>2
  <2>4. ZeroConst(g, g.nodes[i].args[1]) \/ ZeroConst(g, g.nodes[i].args[2])
    <3>1. DOMAIN g.nodes[i].args = {1, 2}
      BY <2>2
    <3> QED
      BY <2>1, <3>1 DEF Operands, Range
  <2>5. \/ TryAt(rule, g, i) = ReplaceAllUses(g, i, g.nodes[i].args[1])
        \/ TryAt(rule, g, i) = ReplaceAllUses(g, i, g.nodes[i].args[2])
    BY <1>7, <2>1, <2>4 DEF TryAt, AddZeroElim
  <2> QED
    BY <2>3, <2>5, ReplaceSucceeds
<1> QED
  BY <1>4, <1>5, <1>6, <1>7 DEF Rules

-----------------------------------------------------------------------------
(* The run of the driver.                                                   *)
\* The inductive invariant.
IInv ==
  /\ TypeOK
  /\ source \in Graphs
  /\ NeverFails
  /\ SignatureKept
  /\ NoDeadNodes

\* The run starts from a graph a builder built.
LEMMA SourceIsBuilt ==
  ASSUME NEW g \in Graphs
  PROVE  g \in GraphsOver(Attributes) /\ Valid(g) /\ InputsListed(g)
BY DriverAssumption

\* The enabled rules are rules of the list.
LEMMA RulesInSeq ==
  ASSUME NEW list \in RuleLists, NEW mode, NEW k \in EnabledRules(list, mode)
  PROVE  list[k] \in Rules
<1>1. list \in Seq(Rules)
  BY DriverAssumption
<1> QED
  BY <1>1 DEF EnabledRules

\* Pruning a valid graph does not fail, so the driver takes its result.
LEMMA CanonicalizeKeeps ==
  ASSUME NEW h, h \in GraphsOver(Attributes), Valid(h), InputsListed(h),
         NEW next, Canonicalize(h, next)
  PROVE  /\ status' = next
         /\ graph' = PruneAndRebuild(h).graph
         /\ Keeps(Attributes, h, graph')
         /\ AllUsed(graph')
<1> DEFINE S == {PruneAndRebuild(v) : v \in {h}}
           pruned == PruneAndRebuild(h)
<1>1. Once(PruneAndRebuild, h) = CHOOSE y \in S : TRUE
  BY DEF Once
<1>2. S = {pruned}
  OBVIOUS
<1> HIDE DEF S, pruned
<1>3. Once(PruneAndRebuild, h) = pruned
  BY <1>1, <1>2
<1>4. pruned.ok /\ Keeps(Attributes, h, pruned.graph) /\ AllUsed(pruned.graph)
  BY PruneKeeps DEF pruned
<1>5. graph' = pruned.graph /\ status' = next
  BY <1>3, <1>4 DEF Canonicalize
<1> QED
  BY <1>4, <1>5 DEF pruned

\* The first graph satisfies the invariant.
LEMMA InitIInv == Init => IInv
<1> SUFFICES ASSUME Init PROVE IInv
  OBVIOUS
<1>1. /\ source \in GraphsOver(Attributes)
      /\ Valid(source)
      /\ InputsListed(source)
  BY SourceIsBuilt DEF Init
<1>2. TypeOK
  <2>1. config.max_steps \in Nat /\ applied = << >>
    BY DriverAssumption DEF Init
  <2> QED
    BY <1>1, <2>1 DEF Init, TypeOK
<1>3. NeverFails /\ SignatureKept /\ NoDeadNodes
  BY <1>1 DEF Init, NeverFails, SignatureKept, NoDeadNodes
<1> QED
  BY <1>2, <1>3 DEF IInv, Init

\* A step that leaves graph and source alone and does not return an error.
LEMMA StopKeeps ==
  ASSUME IInv, status = "Running", status' \in {"Fixpoint", "Capped"},
         UNCHANGED <<source, rules, config, graph, applied>>
  PROVE  IInv'
BY DEF IInv, TypeOK, NeverFails, SignatureKept, NoDeadNodes

\* Every step of the driver keeps it.
LEMMA StepIInv == IInv /\ [Next]_vars => IInv'
<1> SUFFICES ASSUME IInv, [Next]_vars PROVE IInv'
  OBVIOUS
<1>1. CASE Start
  <2>1. /\ source \in GraphsOver(Attributes)
        /\ Valid(source)
        /\ InputsListed(source)
    BY SourceIsBuilt DEF IInv
  <2>2. Canonicalize(source, "Running")
    BY <1>1 DEF Start
  <2>3. /\ status' = "Running"
        /\ Keeps(Attributes, source, graph')
        /\ AllUsed(graph')
    BY <2>1, <2>2, CanonicalizeKeeps
  <2>4. UNCHANGED <<source, rules, config, applied>>
    BY <1>1 DEF Start
  <2> QED
    BY <2>3, <2>4 DEF IInv, TypeOK, NeverFails, SignatureKept, NoDeadNodes, Keeps
<1>2. CASE Fire
  <2>1. PICK p \in FirstFiring :
           /\ Canonicalize(TryAt(rules[p[2]], graph, p[1]).graph, "Running")
           /\ applied' = Append(applied, rules[p[2]])
    BY <1>2 DEF Fire
  <2> DEFINE i == p[1]
             k == p[2]
             h == TryAt(rules[k], graph, i).graph
  <2>2. i \in Ids(graph) /\ k \in Enabled /\ TryAt(rules[k], graph, i).ok
    BY DEF FirstFiring, Firings
  <2>3. rules[k] \in Rules
    BY <2>2, RulesInSeq DEF IInv, TypeOK, Enabled
  <2>4. graph \in GraphsOver(Attributes) /\ InputsListed(graph)
    BY DEF IInv, TypeOK, NeverFails
  <2> HIDE DEF i, k
  <2>5. Keeps(Attributes, graph, h)
    BY <2>2, <2>3, <2>4, TryAtKeeps
  <2>6. Canonicalize(h, "Running") /\ applied' = Append(applied, rules[k])
    BY <2>1 DEF i, k
  <2> HIDE DEF h
  <2>7. /\ status' = "Running"
        /\ Keeps(Attributes, h, graph')
        /\ AllUsed(graph')
    BY <2>5, <2>6, CanonicalizeKeeps DEF Keeps
  <2>8. Keeps(Attributes, graph, graph')
    BY <2>5, <2>7 DEF Keeps
  <2>9. UNCHANGED <<source, rules, config>> /\ Len(applied) < config.max_steps
    BY <1>2 DEF Fire, BelowCap
  <2>10. applied' \in Seq(Rules) /\ Len(applied') <= config.max_steps
    <3>1. applied \in Seq(Rules) /\ config.max_steps \in Nat
      BY DriverAssumption DEF IInv, TypeOK
    <3>2. applied' \in Seq(Rules) /\ Len(applied') = Len(applied) + 1
      BY <2>3, <2>6, <3>1, AppendProperties
    <3> QED
      BY <2>9, <3>1, <3>2
  <2> QED
    BY <2>7, <2>8, <2>9, <2>10
    DEF IInv, TypeOK, NeverFails, SignatureKept, NoDeadNodes, Keeps
<1>3. CASE StopAtFixpoint
  BY <1>3, StopKeeps DEF StopAtFixpoint
<1>4. CASE StopAtCap
  BY <1>4, StopKeeps DEF StopAtCap
<1>5. CASE UNCHANGED vars
  BY <1>5 DEF vars, IInv, TypeOK, NeverFails, SignatureKept, NoDeadNodes
<1> QED
  BY <1>1, <1>2, <1>3, <1>4, <1>5 DEF Next

\* Hence it holds in every reachable state.
LEMMA Invariance == Spec => []IInv
BY InitIInv, StepIInv, PTL DEF Spec

-----------------------------------------------------------------------------
\* The driver's state has the shapes it declares, and it never applies more
\* rules than max_steps.
THEOREM TypeCorrect == Spec => []TypeOK
<1>1. IInv => TypeOK
  BY DEF IInv
<1> QED
  BY <1>1, Invariance, PTL

\* run returns no error for a graph that a builder made, and rewriting it stays
\* within the graphs that validation accepts.
THEOREM RunNeverFails == Spec => []NeverFails
<1>1. IInv => NeverFails
  BY DEF IInv
<1> QED
  BY <1>1, Invariance, PTL

\* Callers can bind the inputs and read the outputs they declared.
THEOREM RunKeepsSignature == Spec => []SignatureKept
<1>1. IInv => SignatureKept
  BY DEF IInv
<1> QED
  BY <1>1, Invariance, PTL

\* What run returns has no dead nodes.
THEOREM RunLeavesNoDeadNodes == Spec => []NoDeadNodes
<1>1. IInv => NoDeadNodes
  BY DEF IInv
<1> QED
  BY <1>1, Invariance, PTL
-----------------------------------------------------------------------------
(* Fixpoints.                                                               *)
ScanFoundNothing == status = "Fixpoint" => Firings = {}

\* The scan that ends a run in its fixpoint found no rule that fires.
LEMMA ScanInvariance == Spec => []ScanFoundNothing
<1>1. Init => ScanFoundNothing
  BY DEF Init, ScanFoundNothing
<1>2. ScanFoundNothing /\ [Next]_vars => ScanFoundNothing'
  <2> SUFFICES ASSUME ScanFoundNothing, [Next]_vars, status' = "Fixpoint"
               PROVE  Firings' = {}
    BY DEF ScanFoundNothing
  <2>1. CASE StopAtFixpoint
    BY <2>1 DEF StopAtFixpoint, Firings, Enabled
  <2>2. CASE UNCHANGED vars
    BY <2>2 DEF vars, ScanFoundNothing, Firings, Enabled
  <2>3. ~ StopAtCap
    BY DEF StopAtCap
  <2>4. ~ Start /\ ~ Fire
    BY DEF Start, Fire, Canonicalize
  <2> QED
    BY <2>1, <2>2, <2>3, <2>4 DEF Next
<1> QED
  BY <1>1, <1>2, PTL DEF Spec

\* The modes that a rule is enabled in.
LEMMA BitExactRules ==
  ASSUME NEW mode,
         NEW rule \in {"neg-neg-elim", "relu-idempotent-elim",
                       "reshape-reshape-fuse"}
  PROVE  Allows(mode, SafetyOf(RuleLaws(rule)))
<1>1. PICK law \in BitExactLaws : RuleLaws(rule) = <<law>>
  BY DEF RuleLaws, BitExactLaws
<1>2. Range(<<law>>) = {law}
  BY DEF Range
<1> QED
  BY <1>1, <1>2 DEF Allows, SafetyOf, PreservesBits

\* After a scan that found nothing, no enabled rule has a redex.
LEMMA NoRedexLeft ==
  ASSUME IInv, Firings = {},
         NEW rule \in Range(rules), Allows(config.mode, SafetyOf(RuleLaws(rule))),
         NEW i \in Ids(graph), Redex(rule, graph, i)
  PROVE  FALSE
<1>1. PICK k \in DOMAIN rules : rules[k] = rule
  BY DEF Range
<1>2. k \in Enabled
  BY <1>1 DEF Enabled, EnabledRules
<1>3. rule \in Rules
  BY <1>1, <1>2, RulesInSeq DEF IInv, TypeOK, Enabled
<1>4. graph \in GraphsOver(Attributes) /\ Valid(graph)
  BY DEF IInv, TypeOK, NeverFails
<1>5. TryAt(rule, graph, i).ok
  BY <1>3, <1>4, RedexFires
<1>6. <<i, k>> \in Firings
  BY <1>1, <1>2, <1>5 DEF Firings
<1> QED
  BY <1>6

\* A fixpoint that run reports is one: no enabled rule has anything left to
\* remove, and none was lost to a refused surgery.
THEOREM FixpointIsComplete == Spec => []FixpointHasNoRedex
<1>1. IInv /\ ScanFoundNothing => FixpointHasNoRedex
  <2> SUFFICES ASSUME IInv, Firings = {}, status = "Fixpoint"
               PROVE  FixpointHasNoRedex
    BY DEF ScanFoundNothing, FixpointHasNoRedex
  <2>1. ASSUME "neg-neg-elim" \in Range(rules), Nested("Neg") PROVE FALSE
    <3>1. PICK i \in Ids(graph) : Redex("neg-neg-elim", graph, i)
      BY <2>1 DEF Nested, Redex
    <3> QED
      BY <2>1, <3>1, BitExactRules, NoRedexLeft
  <2>2. ASSUME "relu-idempotent-elim" \in Range(rules), Nested("Relu") PROVE FALSE
    <3>1. PICK i \in Ids(graph) : Redex("relu-idempotent-elim", graph, i)
      BY <2>2 DEF Nested, Redex
    <3> QED
      BY <2>2, <3>1, BitExactRules, NoRedexLeft
  <2>3. ASSUME "reshape-reshape-fuse" \in Range(rules), Nested("Reshape")
        PROVE  FALSE
    <3>1. PICK i \in Ids(graph) : Redex("reshape-reshape-fuse", graph, i)
      BY <2>3 DEF Nested, Redex
    <3> QED
      BY <2>3, <3>1, BitExactRules, NoRedexLeft
  <2>4. ASSUME "add-zero-elim" \in Range(rules), config.mode = "FastMath",
               NEW i \in Ids(graph), OpAt(graph, i) = "Add",
               NEW a \in Operands(graph.nodes[i]), ZeroConst(graph, a)
        PROVE  FALSE
    <3>1. Redex("add-zero-elim", graph, i)
      BY <2>4 DEF Redex
    <3>2. Allows(config.mode, SafetyOf(RuleLaws("add-zero-elim")))
      BY <2>4 DEF Allows
    <3> QED
      BY <2>4, <3>1, <3>2, NoRedexLeft
  <2> QED
    BY <2>1, <2>2, <2>3, <2>4 DEF FixpointHasNoRedex
<1> QED
  BY <1>1, Invariance, ScanInvariance, PTL
-----------------------------------------------------------------------------
(* Progress.                                                                *)

\* The one operand of a reshape comes before it.
LEMMA ReshapeArg ==
  ASSUME NEW attrs, NEW g \in GraphsOver(attrs), Valid(g),
         NEW i \in Ids(g), OpAt(g, i) = "Reshape"
  PROVE  /\ ArgOf(g, i) \in 1 .. (i - 1)
         /\ ArgOf(g, i) \in Ids(g)
         /\ Operands(g.nodes[i]) = {ArgOf(g, i)}
<1>1. /\ g.nodes[i].args \in Seq(Nat)
      /\ Len(g.nodes[i].args) = 1
  BY OperandsOf, Arities
<1>2. 1 \in 1 .. Arity(OpAt(g, i))
  BY Arities
<1>3. ArgOf(g, i) \in 1 .. (i - 1) /\ ArgOf(g, i) \in Ids(g)
  BY <1>2, OperandsOf DEF ArgOf
<1>4. DOMAIN g.nodes[i].args = {1}
  BY <1>1
<1> QED
  BY <1>3, <1>4 DEF Operands, Range, ArgOf

\* The depths are what their recursion says: an operand comes earlier.
LEMMA ReshapeDepthsDef ==
  ASSUME NEW attrs, NEW g \in GraphsOver(attrs), Valid(g)
  PROVE  ReshapeDepths(g) =
           [i \in Ids(g) |-> IF OpAt(g, i) = "Reshape"
                             THEN 1 + ReshapeDepths(g)[ArgOf(g, i)] ELSE 0]
<1> DEFINE N == Len(g.nodes)
           Upto(m, f) == f = [i \in 1 .. m |-> IF OpAt(g, i) = "Reshape"
                                               THEN 1 + f[ArgOf(g, i)] ELSE 0]
           S == {m \in Nat : m <= N => \E f : Upto(m, f)}
<1>1. N \in Nat /\ Ids(g) = 1 .. N
  BY DEF GraphsOver, Ids
<1>2. ReshapeDepths(g) = CHOOSE f : Upto(N, f)
  BY <1>1 DEF ReshapeDepths
<1>3. ASSUME NEW i \in 1 .. N, OpAt(g, i) = "Reshape"
      PROVE  ArgOf(g, i) \in 1 .. (i - 1)
  BY <1>1, <1>3, ReshapeArg
<1> HIDE DEF N
<1>4. 0 \in S
  <2> DEFINE f == [i \in 1 .. 0 |-> 0]
  <2>1. Upto(0, f)
    OBVIOUS
  <2> QED
    BY <2>1
<1>5. ASSUME NEW m \in Nat, m \in S
      PROVE  m + 1 \in S
  <2> SUFFICES ASSUME m + 1 <= N PROVE \E f : Upto(m + 1, f)
    OBVIOUS
  <2>1. PICK f : Upto(m, f)
    BY <1>1, <1>5
  <2> DEFINE new == IF OpAt(g, m + 1) = "Reshape" THEN 1 + f[ArgOf(g, m + 1)] ELSE 0
             h == [i \in 1 .. (m + 1) |-> IF i = m + 1 THEN new ELSE f[i]]
  <2>2. ASSUME NEW i \in 1 .. (m + 1)
        PROVE  h[i] = IF OpAt(g, i) = "Reshape" THEN 1 + h[ArgOf(g, i)] ELSE 0
    <3>1. i \in 1 .. N
      BY <1>1
    <3>2. ASSUME OpAt(g, i) = "Reshape"
          PROVE  ArgOf(g, i) \in 1 .. m /\ h[ArgOf(g, i)] = f[ArgOf(g, i)]
      <4>1. ArgOf(g, i) \in 1 .. (i - 1)
        BY <1>3, <3>1, <3>2
      <4> QED
        BY <4>1
    <3>3. CASE i = m + 1
      BY <3>2, <3>3
    <3>4. CASE i # m + 1
      <4>1. i \in 1 .. m
        BY <3>4
      <4>2. f[i] = IF OpAt(g, i) = "Reshape" THEN 1 + f[ArgOf(g, i)] ELSE 0
        BY <2>1, <4>1
      <4>3. h[i] = f[i]
        BY <3>4
      <4> HIDE DEF h
      <4> QED
        BY <3>2, <4>2, <4>3
    <3> QED
      BY <3>3, <3>4
  <2>3. Upto(m + 1, h)
    <3>1. h = [i \in 1 .. (m + 1) |-> h[i]]
      OBVIOUS
    <3> HIDE DEF h
    <3> QED
      BY <2>2, <3>1
  <2> HIDE DEF Upto, h
  <2> QED
    BY <2>3
<1>6. N \in S
  <2> HIDE DEF S
  <2> QED
    BY <1>1, <1>4, <1>5, SetInduction
<1>7. Upto(N, ReshapeDepths(g))
  <2>1. \E f : Upto(N, f)
    BY <1>1, <1>6
  <2> HIDE DEF Upto
  <2> QED
    BY <1>2, <2>1
<1> QED
  BY <1>1, <1>7

\* Depths are numbers.
LEMMA ReshapeDepthsType ==
  ASSUME NEW attrs, NEW g \in GraphsOver(attrs), Valid(g)
  PROVE  ReshapeDepths(g) \in Seq(Nat) /\ Len(ReshapeDepths(g)) = Len(g.nodes)
<1> DEFINE N == Len(g.nodes)
           d == ReshapeDepths(g)
           S == {n \in Nat : \A i \in 1 .. N : i <= n => d[i] \in Nat}
<1>1. N \in Nat /\ Ids(g) = 1 .. N
  BY DEF GraphsOver, Ids
<1>2. d = [i \in 1 .. N |-> IF OpAt(g, i) = "Reshape" THEN 1 + d[ArgOf(g, i)] ELSE 0]
  BY <1>1, ReshapeDepthsDef
<1>3. ASSUME NEW i \in 1 .. N, OpAt(g, i) = "Reshape"
      PROVE  ArgOf(g, i) \in 1 .. (i - 1)
  BY <1>1, <1>3, ReshapeArg
<1> HIDE DEF N, d
<1>4. 0 \in S
  BY <1>1
<1>5. ASSUME NEW n \in Nat, n \in S
      PROVE  n + 1 \in S
  <2> SUFFICES ASSUME NEW i \in 1 .. N, i <= n + 1 PROVE d[i] \in Nat
    OBVIOUS
  <2>1. d[i] = IF OpAt(g, i) = "Reshape" THEN 1 + d[ArgOf(g, i)] ELSE 0
    BY <1>2
  <2>2. ASSUME OpAt(g, i) = "Reshape" PROVE d[ArgOf(g, i)] \in Nat
    <3>1. ArgOf(g, i) \in 1 .. (i - 1)
      BY <1>3, <2>2
    <3>2. ArgOf(g, i) \in 1 .. N /\ ArgOf(g, i) <= n
      BY <1>1, <3>1
    <3> QED
      BY <1>5, <3>2
  <2> QED
    BY <2>1, <2>2
<1>6. N \in S
  <2> HIDE DEF S
  <2> QED
    BY <1>1, <1>4, <1>5, SetInduction
<1>7. d \in [1 .. N -> Nat]
  BY <1>1, <1>2, <1>6
<1> QED
  BY <1>1, <1>7, SeqOfInterval DEF N, d

\* Sums are what their recursion says.
LEMMA SumsDef ==
  ASSUME NEW list, Len(list) \in Nat
  PROVE  SumsOf(list) =
           [n \in 0 .. Len(list) |-> IF n = 0 THEN 0 ELSE SumsOf(list)[n - 1] + list[n]]
<1> DEFINE N == Len(list)
           Upto(m, f) == f = [n \in 0 .. m |-> IF n = 0 THEN 0 ELSE f[n - 1] + list[n]]
           S == {m \in Nat : \E f : Upto(m, f)}
<1>1. SumsOf(list) = CHOOSE f : Upto(N, f)
  BY DEF SumsOf
<1>2. 0 \in S
  <2> DEFINE f == [n \in 0 .. 0 |-> 0]
  <2>1. Upto(0, f)
    OBVIOUS
  <2> QED
    BY <2>1
<1>3. ASSUME NEW m \in Nat, m \in S
      PROVE  m + 1 \in S
  <2>1. PICK f : Upto(m, f)
    BY <1>3
  <2> DEFINE h == [n \in 0 .. (m + 1) |-> IF n = m + 1 THEN f[m] + list[n] ELSE f[n]]
  <2>2. ASSUME NEW n \in 0 .. (m + 1)
        PROVE  h[n] = IF n = 0 THEN 0 ELSE h[n - 1] + list[n]
    <3>1. CASE n = 0
      BY <2>1, <3>1
    <3>2. CASE n = m + 1
      BY <3>2
    <3>3. CASE n # 0 /\ n # m + 1
      <4>1. n \in 0 .. m /\ n - 1 \in 0 .. m
        BY <3>3
      <4>2. h[n] = f[n] /\ h[n - 1] = f[n - 1]
        BY <4>1, <3>3
      <4>3. f[n] = f[n - 1] + list[n]
        BY <2>1, <4>1, <3>3
      <4> QED
        BY <4>2, <4>3, <3>3
    <3> QED
      BY <3>1, <3>2, <3>3
  <2>3. Upto(m + 1, h)
    <3>1. h = [n \in 0 .. (m + 1) |-> h[n]]
      OBVIOUS
    <3> HIDE DEF h
    <3> QED
      BY <2>2, <3>1
  <2> HIDE DEF Upto, h
  <2> QED
    BY <2>3
<1>4. N \in S
  <2> HIDE DEF S
  <2> QED
    BY <1>2, <1>3, SetInduction
<1>5. Upto(N, SumsOf(list))
  BY <1>1, <1>4
<1> QED
  BY <1>5

\* Of two lists, the one that is nowhere above the other and somewhere below it
\* has the smaller sum.
LEMMA SumsShrink ==
  ASSUME NEW d \in Seq(Nat), NEW e \in Seq(Nat), Len(e) = Len(d),
         \A i \in 1 .. Len(d) : e[i] <= d[i],
         NEW j \in 1 .. Len(d), e[j] < d[j]
  PROVE  SumsOf(e)[Len(d)] < SumsOf(d)[Len(d)]
<1> DEFINE N == Len(d)
           a == SumsOf(d)
           b == SumsOf(e)
           S == {n \in Nat : n <= N => /\ a[n] \in Nat /\ b[n] \in Nat
                                       /\ b[n] <= a[n]
                                       /\ j <= n => b[n] < a[n]}
<1>1. /\ N \in Nat
      /\ \A i \in 1 .. N : d[i] \in Nat /\ e[i] \in Nat
  BY SMTT(30)
<1>2. /\ a = [n \in 0 .. N |-> IF n = 0 THEN 0 ELSE a[n - 1] + d[n]]
      /\ b = [n \in 0 .. N |-> IF n = 0 THEN 0 ELSE b[n - 1] + e[n]]
  BY <1>1, SumsDef
<1> HIDE DEF a, b
<1>3. 0 \in S
  <2>1. a[0] = 0 /\ b[0] = 0
    BY <1>1, <1>2
  <2> QED
    BY <2>1
<1>4. ASSUME NEW n \in Nat, n \in S
      PROVE  n + 1 \in S
  <2> SUFFICES ASSUME n + 1 <= N
               PROVE  /\ a[n + 1] \in Nat /\ b[n + 1] \in Nat
                      /\ b[n + 1] <= a[n + 1]
                      /\ j <= n + 1 => b[n + 1] < a[n + 1]
    OBVIOUS
  <2>1. /\ a[n] \in Nat /\ b[n] \in Nat
        /\ b[n] <= a[n]
        /\ j <= n => b[n] < a[n]
    BY <1>1, <1>4
  <2>2. n + 1 \in 0 .. N /\ n + 1 # 0 /\ (n + 1) - 1 = n
    BY <1>1
  <2>3. a[n + 1] = a[n] + d[n + 1] /\ b[n + 1] = b[n] + e[n + 1]
    BY <1>2, <2>2
  <2>4. d[n + 1] \in Nat /\ e[n + 1] \in Nat /\ e[n + 1] <= d[n + 1]
    BY <1>1, <2>2
  <2>5. j = n + 1 => e[n + 1] < d[n + 1]
    OBVIOUS
  <2>6. j \in Nat /\ (j <= n + 1 => j <= n \/ j = n + 1)
    BY <1>1
  <2> DEFINE p == a[n]
             q == b[n]
             x == d[n + 1]
             y == e[n + 1]
  <2>7. /\ p \in Nat /\ q \in Nat /\ x \in Nat /\ y \in Nat
        /\ q <= p /\ y <= x
        /\ a[n + 1] = p + x /\ b[n + 1] = q + y
    BY <2>1, <2>3, <2>4
  <2>8. j <= n + 1 => q < p \/ y < x
    BY <2>1, <2>5, <2>6
  <2> HIDE DEF N, p, q, x, y
  <2>9. p + x \in Nat /\ q + y \in Nat /\ q + y <= p + x
    BY <2>7
  <2>10. q < p \/ y < x => q + y < p + x
    BY <2>7
  <2> QED
    BY <2>7, <2>8, <2>9, <2>10
<1>5. N \in S
  <2> HIDE DEF S
  <2> QED
    BY <1>1, <1>3, <1>4, SetInduction
<1> QED
  BY <1>1, <1>5 DEF a, b

\* Node i takes what the reshape it took is of.
Skips(g, h, i) ==
  /\ OpAt(g, ArgOf(g, i)) = "Reshape"
  /\ ArgOf(h, i) = ArgOf(g, ArgOf(g, i))

\* Skipping reshapes shortens the chains: a graph with the same operations, in
\* which reshapes take the operands they took or skip a reshape in between, and one
\* does skip, has less depth.
LEMMA SkippingShortens ==
  ASSUME NEW attrs, NEW g \in GraphsOver(attrs), Valid(g),
         NEW h \in GraphsOver(attrs), Valid(h),
         Len(h.nodes) = Len(g.nodes),
         \A i \in Ids(g) : OpAt(h, i) = OpAt(g, i),
         \A i \in Ids(g) : OpAt(g, i) = "Reshape" =>
                              ArgOf(h, i) = ArgOf(g, i) \/ Skips(g, h, i),
         NEW j \in Ids(g), OpAt(g, j) = "Reshape", Skips(g, h, j)
  PROVE  ReshapeDepth(h) < ReshapeDepth(g)
<1> DEFINE N == Len(g.nodes)
           d == ReshapeDepths(g)
           e == ReshapeDepths(h)
           S == {n \in Nat : \A i \in 1 .. N : i <= n => e[i] <= d[i]}
<1>1. N \in Nat /\ Ids(g) = 1 .. N /\ Ids(h) = 1 .. N
  BY DEF GraphsOver, Ids
<1>2. /\ d = [i \in 1 .. N |-> IF OpAt(g, i) = "Reshape" THEN 1 + d[ArgOf(g, i)] ELSE 0]
      /\ e = [i \in 1 .. N |-> IF OpAt(h, i) = "Reshape" THEN 1 + e[ArgOf(h, i)] ELSE 0]
  BY <1>1, ReshapeDepthsDef
<1>3. d \in Seq(Nat) /\ Len(d) = N /\ e \in Seq(Nat) /\ Len(e) = N
  BY ReshapeDepthsType
<1>4. \A i \in 1 .. N : d[i] \in Nat /\ e[i] \in Nat
  BY <1>3
<1>5. ASSUME NEW i \in 1 .. N, OpAt(g, i) = "Reshape"
      PROVE  ArgOf(g, i) \in 1 .. (i - 1) /\ ArgOf(h, i) \in 1 .. (i - 1)
  BY <1>1, <1>5, ReshapeArg
<1> HIDE DEF N, d, e
<1>6. ASSUME NEW i \in 1 .. N, OpAt(g, i) = "Reshape",
             \A k \in 1 .. (i - 1) : e[k] <= d[k]
      PROVE  e[i] <= d[i] /\ (Skips(g, h, i) => e[i] < d[i])
  <2> DEFINE x == ArgOf(g, i)
             y == ArgOf(h, i)
  <2>1. i \in Nat /\ x \in 1 .. (i - 1) /\ y \in 1 .. (i - 1)
    BY <1>1, <1>5, <1>6
  <2>2. x \in 1 .. N /\ y \in 1 .. N
    BY <1>1, <2>1
  <2>3. d[i] = 1 + d[x] /\ e[i] = 1 + e[y]
    BY <1>1, <1>2, <1>6
  <2>4. e[y] <= d[y]
    BY <1>6, <2>1
  <2>5. y = x \/ Skips(g, h, i)
    BY <1>1, <1>6
  <2>6. ASSUME Skips(g, h, i) PROVE d[x] = 1 + d[y]
    BY <1>2, <2>2, <2>6 DEF Skips
  <2>7. d[x] \in Nat /\ d[y] \in Nat /\ e[y] \in Nat
    BY <1>4, <2>2
  <2> HIDE DEF x, y
  <2> QED
    BY <2>3, <2>4, <2>5, <2>6, <2>7
<1>7. 0 \in S
  BY <1>1
<1>8. ASSUME NEW n \in Nat, n \in S
      PROVE  n + 1 \in S
  <2> SUFFICES ASSUME NEW i \in 1 .. N, i <= n + 1 PROVE e[i] <= d[i]
    OBVIOUS
  <2>1. CASE OpAt(g, i) = "Reshape"
    <3>1. \A k \in 1 .. (i - 1) : k \in 1 .. N /\ k <= n
      BY <1>1
    <3>2. \A k \in 1 .. (i - 1) : e[k] <= d[k]
      BY <1>8, <3>1
    <3> QED
      BY <1>6, <2>1, <3>2
  <2>2. CASE OpAt(g, i) # "Reshape"
    <3>1. d[i] = 0 /\ e[i] = 0
      BY <1>1, <1>2, <2>2
    <3> QED
      BY <3>1
  <2> QED
    BY <2>1, <2>2
<1>9. N \in S
  <2> HIDE DEF S
  <2> QED
    BY <1>1, <1>7, <1>8, SetInduction
<1>10. \A i \in 1 .. N : e[i] <= d[i]
  BY <1>1, <1>9
<1>11. e[j] < d[j]
  <2>1. j \in 1 .. N /\ \A k \in 1 .. (j - 1) : k \in 1 .. N
    BY <1>1
  <2>2. \A k \in 1 .. (j - 1) : e[k] <= d[k]
    BY <1>10, <2>1
  <2> QED
    BY <1>6, <2>1, <2>2
<1>12. SumsOf(e)[N] < SumsOf(d)[N]
  BY <1>1, <1>3, <1>10, <1>11, SumsShrink
<1> QED
  BY <1>12 DEF ReshapeDepth, d, e, N

\* What pruning returns has as many nodes as it keeps.
LEMMA PruneNodes ==
  ASSUME NEW attrs, NEW g \in GraphsOver(attrs), Valid(g), InputsListed(g)
  PROVE  LET keep == Kept(g)
             nodes == PruneAndRebuild(g).graph.nodes
         IN  /\ keep \in SUBSET Ids(g)
             /\ ClosedFromOutputs(g, keep)
             /\ nodes = CompactNodes(g, keep)
             /\ Cardinality(keep) \in Nat
             /\ Len(nodes) = Cardinality(keep)
<1> DEFINE keep == Kept(g)
<1>1. /\ keep \in SUBSET Ids(g)
      /\ ClosedFromOutputs(g, keep)
      /\ Range(g.inputs) \in SUBSET keep
  BY KeptClosed DEF Kept
<1>2. PruneAndRebuild(g) = Compact(g, keep)
  BY PruneIsCompact
<1> HIDE DEF keep
<1>3. Compact(g, keep).graph.nodes = CompactNodes(g, keep)
  BY <1>1, CompactKeeps
<1>4. Cardinality(keep) \in Nat /\ Len(CompactNodes(g, keep)) = Cardinality(keep)
  BY <1>1, CompactMoves
<1> QED
  BY <1>1, <1>2, <1>3, <1>4 DEF keep

\* A node that nothing uses, other than an input, does not survive pruning.
LEMMA UnusedIsPruned ==
  ASSUME NEW attrs, NEW g \in GraphsOver(attrs), Valid(g), InputsListed(g),
         NEW i \in Ids(g), OpAt(g, i) # "Input", Unused(g, i)
  PROVE  Len(PruneAndRebuild(g).graph.nodes) < Len(g.nodes)
<1> DEFINE T == Ids(g) \ {i}
           keep == Kept(g)
<1>1. Len(g.nodes) \in Nat /\ Ids(g) = 1 .. Len(g.nodes)
  BY DEF GraphsOver, Ids
<1>2. /\ IsFiniteSet(Ids(g))
      /\ Cardinality(Ids(g)) = Len(g.nodes)
  BY <1>1, FS_Interval
<1>3. ClosedFromOutputs(g, T)
  <2>1. Range(g.outputs) \in SUBSET T
    BY DEF Unused, Valid, OutputsInRange, Range
  <2>2. ASSUME NEW j \in T PROVE Operands(g.nodes[j]) \in SUBSET T
    <3>1. \A a \in Operands(g.nodes[j]) : a \in 1 .. (j - 1)
      BY DEF Valid, OperandsEarlier
    <3>2. \A a \in Operands(g.nodes[j]) : a \in Ids(g)
      BY <1>1, <3>1
    <3>3. i \notin Operands(g.nodes[j])
      BY DEF Unused
    <3> QED
      BY <3>2, <3>3
  <2> QED
    BY <2>1, <2>2 DEF ClosedFromOutputs
<1>4. i \notin keep
  <2>1. T \in SUBSET Ids(g) /\ i \notin T
    OBVIOUS
  <2>2. i \notin Reachable(g)
    <3> HIDE DEF T
    <3> QED
      BY <1>3, <2>1 DEF Reachable
  <2>3. i \notin Range(g.inputs)
    BY DEF Valid, InputsAreInputs, IsInputId, Range, OpAt
  <2> QED
    BY <2>2, <2>3 DEF Kept
<1>5. keep \in SUBSET Ids(g) /\ Len(PruneAndRebuild(g).graph.nodes) = Cardinality(keep)
  BY PruneNodes
<1> HIDE DEF keep
<1>6. /\ Cardinality(keep) <= Cardinality(Ids(g))
      /\ Cardinality(keep) = Cardinality(Ids(g)) => keep = Ids(g)
  BY <1>2, <1>5, FS_Subset
<1>7. Cardinality(keep) \in Nat /\ Cardinality(keep) # Cardinality(Ids(g))
  BY <1>2, <1>4, <1>5, <1>6, FS_Subset, FS_CardinalityType
<1> QED
  BY <1>1, <1>2, <1>5, <1>6, <1>7

\* In the interval from 1 each number has the rank that it is.
LEMMA RankInInterval ==
  ASSUME NEW n \in Nat, NEW a \in 1 .. n
  PROVE  Rank(1 .. n, a) = a
<1>1. {j \in 1 .. n : j <= a} = 1 .. a
  OBVIOUS
<1>2. Cardinality(1 .. a) = a
  BY FS_Interval
<1> QED
  BY <1>1, <1>2 DEF Rank

\* Pruning adds no node, and where it removes none it changes none.
LEMMA PruningOnlyRemoves ==
  ASSUME NEW attrs, NEW g \in GraphsOver(attrs), Valid(g), InputsListed(g)
  PROVE  LET p == PruneAndRebuild(g).graph
         IN  /\ Len(p.nodes) \in Nat
             /\ Len(p.nodes) <= Len(g.nodes)
             /\ Len(p.nodes) = Len(g.nodes) =>
                   \A i \in Ids(g) : /\ OpAt(p, i) = OpAt(g, i)
                                     /\ Operands(p.nodes[i]) = Operands(g.nodes[i])
<1> DEFINE p == PruneAndRebuild(g).graph
           keep == Kept(g)
           old == Ascending(keep)
           n == Len(g.nodes)
<1>1. n \in Nat /\ Ids(g) = 1 .. n
  BY DEF GraphsOver, Ids
<1>2. /\ IsFiniteSet(Ids(g))
      /\ Cardinality(Ids(g)) = n
  BY <1>1, FS_Interval
<1>3. /\ keep \in SUBSET Ids(g)
      /\ ClosedFromOutputs(g, keep)
      /\ p.nodes = CompactNodes(g, keep)
      /\ Cardinality(keep) \in Nat
      /\ Len(p.nodes) = Cardinality(keep)
  BY PruneNodes
<1> HIDE DEF keep, p, n
<1>4. /\ Cardinality(keep) <= n
      /\ Cardinality(keep) = n => keep = Ids(g)
  BY <1>2, <1>3, FS_Subset
<1>5. ASSUME Len(p.nodes) = n, NEW i \in Ids(g)
      PROVE  OpAt(p, i) = OpAt(g, i) /\ Operands(p.nodes[i]) = Operands(g.nodes[i])
  <2>1. Cardinality(keep) = n /\ keep = 1 .. n /\ i \in 1 .. n
    BY <1>1, <1>3, <1>4, <1>5
  <2>2. /\ old[i] \in keep
        /\ Rank(keep, old[i]) = i
        /\ CompactNodes(g, keep)[i].op = g.nodes[old[i]].op
        /\ RenamedBy(keep, g.nodes[old[i]], CompactNodes(g, keep)[i])
    BY <1>3, <2>1, CompactMoves
  <2> HIDE DEF old
  <2>3. old[i] = i
    BY <1>1, <2>1, <2>2, RankInInterval
  <2>4. \A a \in Operands(g.nodes[i]) : a \in 1 .. n
    BY <1>3, <2>1 DEF ClosedFromOutputs
  <2>5. \A a \in Operands(g.nodes[i]) : Rank(keep, a) = a
    BY <1>1, <2>1, <2>4, RankInInterval
  <2>6. Operands(p.nodes[i]) = {Rank(keep, a) : a \in Operands(g.nodes[i])}
    BY <1>3, <2>2, <2>3 DEF RenamedBy
  <2>7. Operands(p.nodes[i]) = Operands(g.nodes[i])
    BY <2>5, <2>6
  <2> QED
    BY <1>3, <2>2, <2>3, <2>7 DEF OpAt
<1>6. Len(p.nodes) \in Nat /\ Len(p.nodes) <= n
  BY <1>3, <1>4
<1> QED
  BY <1>5, <1>6 DEF p, n

\* What makes the loop of the driver end.
Less(p, g) ==
  \/ Len(p.nodes) < Len(g.nodes)
  \/ /\ Len(p.nodes) = Len(g.nodes)
     /\ ReshapeDepth(p) < ReshapeDepth(g)

\* A node redirected to another one is pruned.
LEMMA ReplacingIsLess ==
  ASSUME NEW attrs, NEW g \in GraphsOver(attrs), Valid(g), InputsListed(g),
         NEW i \in Ids(g), OpAt(g, i) # "Input",
         NEW x, x # i, ReplaceAllUses(g, i, x).ok
  PROVE  Less(PruneAndRebuild(ReplaceAllUses(g, i, x).graph).graph, g)
<1> DEFINE h == ReplaceAllUses(g, i, x).graph
<1>1. /\ Keeps(attrs, g, h)
      /\ Len(h.nodes) = Len(g.nodes)
      /\ OpAt(h, i) = OpAt(g, i)
      /\ Unused(h, i)
  BY ReplaceAllUsesKeeps
<1> HIDE DEF h
<1>2. i \in Ids(h) /\ OpAt(h, i) # "Input"
  BY <1>1 DEF Ids
<1>3. Len(PruneAndRebuild(h).graph.nodes) < Len(h.nodes)
  BY <1>1, <1>2, UnusedIsPruned DEF Keeps
<1> QED
  BY <1>1, <1>3 DEF Less, h

\* A reshape that skips another one shortens a chain, unless pruning then removes
\* the one skipped.
LEMMA FusingIsLess ==
  ASSUME NEW attrs, NEW g \in GraphsOver(attrs), Valid(g), InputsListed(g),
         NEW h, Keeps(attrs, g, h),
         NEW i \in Ids(g), OpAt(g, i) = "Reshape",
         NEW node, node.op = "Reshape", node.args[1] = ArgOf(g, ArgOf(g, i)),
         OpAt(g, ArgOf(g, i)) = "Reshape",
         h.nodes = [g.nodes EXCEPT ![i] = node]
  PROVE  Less(PruneAndRebuild(h).graph, g)
<1> DEFINE p == PruneAndRebuild(h).graph
<1>1. h \in GraphsOver(attrs) /\ Valid(h) /\ InputsListed(h)
  BY DEF Keeps
<1>2. Len(g.nodes) \in Nat /\ DOMAIN g.nodes = Ids(g)
  BY DEF GraphsOver, Ids
<1>3. Len(h.nodes) = Len(g.nodes) /\ Ids(h) = Ids(g)
  <2>1. DOMAIN h.nodes = DOMAIN g.nodes
    OBVIOUS
  <2>2. DOMAIN h.nodes = 1 .. Len(h.nodes) /\ Len(h.nodes) \in Nat
    BY <1>1 DEF GraphsOver
  <2>3. DOMAIN g.nodes = 1 .. Len(g.nodes)
    BY DEF GraphsOver
  <2> QED
    BY <1>2, <2>1, <2>2, <2>3 DEF Ids
<1>4. \A k \in Ids(g) : h.nodes[k] = IF k = i THEN node ELSE g.nodes[k]
  BY <1>2
<1>5. p \in GraphsOver(attrs) /\ Valid(p)
  BY <1>1, PruneKeeps DEF Keeps
<1>6. /\ Len(p.nodes) \in Nat
      /\ Len(p.nodes) <= Len(h.nodes)
      /\ Len(p.nodes) = Len(h.nodes) =>
            \A k \in Ids(h) : /\ OpAt(p, k) = OpAt(h, k)
                              /\ Operands(p.nodes[k]) = Operands(h.nodes[k])
  BY <1>1, PruningOnlyRemoves
<1> HIDE DEF p
<1>7. ASSUME Len(p.nodes) = Len(g.nodes)
      PROVE  ReshapeDepth(p) < ReshapeDepth(g)
  <2>1. ASSUME NEW k \in Ids(g)
        PROVE  OpAt(p, k) = OpAt(h, k) /\ OpAt(h, k) = OpAt(g, k)
    BY <1>3, <1>4, <1>6, <1>7 DEF OpAt
  <2>2. ASSUME NEW k \in Ids(g), OpAt(g, k) = "Reshape"
        PROVE  ArgOf(p, k) = ArgOf(h, k)
    <3>1. k \in Ids(h) /\ k \in Ids(p)
      BY <1>3, <1>7 DEF Ids
    <3>2. /\ Operands(p.nodes[k]) = {ArgOf(p, k)}
          /\ Operands(h.nodes[k]) = {ArgOf(h, k)}
      BY <1>1, <1>5, <2>1, <2>2, <3>1, ReshapeArg
    <3> QED
      BY <1>3, <1>6, <1>7, <3>1, <3>2
  <2>3. ASSUME NEW k \in Ids(g), k # i PROVE ArgOf(h, k) = ArgOf(g, k)
    BY <1>4, <2>3 DEF ArgOf
  <2>4. ArgOf(h, i) = ArgOf(g, ArgOf(g, i))
    BY <1>4 DEF ArgOf
  <2>5. Skips(g, p, i)
    BY <2>2, <2>4 DEF Skips
  <2>6. \A k \in Ids(g) : OpAt(g, k) = "Reshape" =>
                             ArgOf(p, k) = ArgOf(g, k) \/ Skips(g, p, k)
    BY <2>2, <2>3, <2>5
  <2>7. \A k \in Ids(g) : OpAt(p, k) = OpAt(g, k)
    BY <2>1
  <2> QED
    BY <1>5, <1>7, <2>5, <2>6, <2>7, SkippingShortens
<1> QED
  BY <1>2, <1>3, <1>6, <1>7 DEF Less, p

\* Each rule, followed by the pruning.
LEMMA FiringIsLess ==
  ASSUME NEW attrs, NEW g \in GraphsOver(attrs), Valid(g), InputsListed(g),
         NEW rule \in Rules, NEW i \in Ids(g), TryAt(rule, g, i).ok
  PROVE  Less(PruneAndRebuild(TryAt(rule, g, i).graph).graph, g)
<1> DEFINE j == ArgOf(g, i)
           x == ArgOf(g, j)
<1>1. i \in Nat
  BY OperandsOf
<1>2. ASSUME Arity(OpAt(g, i)) = 1
      PROVE  j \in 1 .. (i - 1) /\ j \in Ids(g)
  <2>1. 1 \in 1 .. Arity(OpAt(g, i))
    BY <1>2
  <2> QED
    BY <2>1, OperandsOf DEF ArgOf
<1> HIDE DEF j
<1>3. ASSUME Arity(OpAt(g, i)) = 1, Arity(OpAt(g, j)) = 1
      PROVE  x \in 1 .. (i - 1)
  <2>1. j \in 1 .. (i - 1) /\ j \in Ids(g)
    BY <1>2, <1>3
  <2>2. 1 \in 1 .. Arity(OpAt(g, j))
    BY <1>3
  <2>3. x \in 1 .. (j - 1)
    BY <2>1, <2>2, OperandsOf DEF ArgOf
  <2> QED
    BY <1>1, <2>1, <2>3
<1> HIDE DEF x
<1>4. CASE rule = "neg-neg-elim"
  <2>1. /\ OpAt(g, i) = "Neg" /\ OpAt(g, j) = "Neg"
        /\ TryAt(rule, g, i) = ReplaceAllUses(g, i, x)
    BY <1>4 DEF TryAt, NegNegElim, Refused, j, x
  <2>2. x # i /\ OpAt(g, i) # "Input"
    BY <1>1, <1>3, <2>1, Arities
  <2> QED
    BY <2>1, <2>2, ReplacingIsLess
<1>5. CASE rule = "relu-idempotent-elim"
  <2>1. /\ OpAt(g, i) = "Relu"
        /\ TryAt(rule, g, i) = ReplaceAllUses(g, i, j)
    BY <1>5 DEF TryAt, ReluIdempotentElim, Refused, j
  <2>2. j # i /\ OpAt(g, i) # "Input"
    BY <1>1, <1>2, <2>1, Arities
  <2> QED
    BY <2>1, <2>2, ReplacingIsLess
<1>6. CASE rule = "add-zero-elim"
  <2>1. OpAt(g, i) = "Add"
    BY <1>6 DEF TryAt, AddZeroElim, Refused
  <2>2. PICK k \in {1, 2} : TryAt(rule, g, i) = ReplaceAllUses(g, i, g.nodes[i].args[k])
    BY <1>6 DEF TryAt, AddZeroElim, Refused
  <2>3. k \in 1 .. Arity(OpAt(g, i))
    BY <2>1, Arities
  <2>4. g.nodes[i].args[k] \in 1 .. (i - 1)
    BY <2>3, OperandsOf
  <2>5. g.nodes[i].args[k] # i /\ OpAt(g, i) # "Input"
    BY <1>1, <2>1, <2>4
  <2> QED
    BY <2>2, <2>5, ReplacingIsLess
<1>7. CASE rule = "reshape-reshape-fuse"
  <2> DEFINE args == <<x>>
             node == [g.nodes[i] EXCEPT !.args = args]
             h == RedefineNode(g, i, node).graph
  <2>1. /\ OpAt(g, i) = "Reshape" /\ OpAt(g, j) = "Reshape"
        /\ TryAt(rule, g, i) = RedefineNode(g, i, node)
    BY <1>7 DEF TryAt, ReshapeReshapeFuse, Refused, j, x
  <2>2. x \in Nat
    BY <1>1, <1>3, <2>1, Arities
  <2>3. g.nodes[i] \in NodesOver(attrs) /\ Len(g.nodes[i].args) = 1
    BY <2>1, OperandsOf, Arities
  <2>4. args \in Seq(Nat) /\ Len(args) = Len(g.nodes[i].args) /\ args[1] = x
    BY <2>2, <2>3
  <2> HIDE DEF args
  <2>5. /\ node \in NodesOver(attrs)
        /\ node.op = g.nodes[i].op
        /\ node.attr = g.nodes[i].attr
        /\ node.args = args
    BY <2>3, <2>4, NewArgs
  <2> HIDE DEF node
  <2>6. RedefineNode(g, i, node).ok
    BY <2>1
  <2>7. Keeps(attrs, g, h) /\ h.nodes = [g.nodes EXCEPT ![i] = node]
    BY <2>5, <2>6, RedefineNodeKeeps
  <2> HIDE DEF h
  <2>8. node.op = "Reshape" /\ node.args[1] = x
    BY <2>1, <2>4, <2>5 DEF OpAt
  <2>9. Less(PruneAndRebuild(h).graph, g)
    BY <2>1, <2>7, <2>8, FusingIsLess DEF j, x
  <2> QED
    BY <2>1, <2>9 DEF h
<1> QED
  BY <1>4, <1>5, <1>6, <1>7 DEF Rules

\* Every rewrite the driver applies removes a node or shortens the chains of
\* reshapes, whatever the graph and the rules: no rule undoes another one, and the
\* loop of run ends without its step cap.
THEOREM RewritesMakeProgress == Spec => RewritesProgress
<1>1. IInv /\ [Next]_vars => (applied' # applied => Less(graph', graph))
  <2> SUFFICES ASSUME IInv, [Next]_vars, applied' # applied
               PROVE  Less(graph', graph)
    OBVIOUS
  <2>1. Fire
    BY DEF Next, Start, StopAtFixpoint, StopAtCap, vars
  <2>2. PICK p \in FirstFiring :
           Canonicalize(TryAt(rules[p[2]], graph, p[1]).graph, "Running")
    BY <2>1 DEF Fire
  <2> DEFINE i == p[1]
             k == p[2]
             h == TryAt(rules[k], graph, i).graph
  <2>3. i \in Ids(graph) /\ k \in Enabled /\ TryAt(rules[k], graph, i).ok
    BY DEF FirstFiring, Firings
  <2>4. rules[k] \in Rules
    BY <2>3, RulesInSeq DEF IInv, TypeOK, Enabled
  <2>5. graph \in GraphsOver(Attributes) /\ Valid(graph) /\ InputsListed(graph)
    BY DEF IInv, TypeOK, NeverFails
  <2> HIDE DEF i, k
  <2>6. Keeps(Attributes, graph, h) /\ Less(PruneAndRebuild(h).graph, graph)
    BY <2>3, <2>4, <2>5, TryAtKeeps, FiringIsLess
  <2>7. Canonicalize(h, "Running")
    BY <2>2 DEF i, k
  <2> HIDE DEF h
  <2>8. graph' = PruneAndRebuild(h).graph
    BY <2>6, <2>7, CanonicalizeKeeps DEF Keeps
  <2> QED
    BY <2>6, <2>8
<1>2. IInv /\ [Next]_vars =>
        [applied' # applied =>
           \/ Len(graph'.nodes) < Len(graph.nodes)
           \/ /\ Len(graph'.nodes) = Len(graph.nodes)
              /\ ReshapeDepth(graph') < ReshapeDepth(graph)]_vars
  BY <1>1 DEF Less
<1> QED
  BY <1>2, Invariance, PTL DEF Spec, RewritesProgress

-----------------------------------------------------------------------------
(* The meaning of a graph, and graphs that follow another.                  *)
\* The laws of arithmetic that the rules of a mode rest on, over scalars that the
\* literals of a graph are among.  Floats and rationals have the first, only
\* rationals the second.
Lawful(mode, S, g) ==
  /\ Arithmetic(S) /\ Lifts(LiteralsOf(g), S)
  /\ \A x \in S : Negate(Negate(x)) = x
  /\ mode = "FastMath" =>
        \A x \in S, zero \in LiteralsOf(g) :
           IsFinite(zero) /\ IsZeroLiteral(zero) =>
             Plus(x, LiftLiteral(zero)) = x /\ Plus(LiftLiteral(zero), x) = x

\* A graph without other literals needs no other laws.
LEMMA LawfulOver ==
  ASSUME NEW mode, NEW S, NEW g, Lawful(mode, S, g),
         NEW h, LiteralsOf(h) \subseteq LiteralsOf(g)
  PROVE  Lawful(mode, S, h)
BY DEF Lawful, Lifts

\* Constants that are another graph's have its literals.
LEMMA LiteralsKept ==
  ASSUME NEW g, NEW h,
         \A j \in Ids(h) : \E i \in Ids(g) : /\ h.nodes[j].op = g.nodes[i].op
                                           /\ h.nodes[j].attr = g.nodes[i].attr
  PROVE  LiteralsOf(h) \subseteq LiteralsOf(g)
<1> SUFFICES ASSUME NEW literal \in LiteralsOf(h)
             PROVE  literal \in LiteralsOf(g)
  OBVIOUS
<1>1. PICK j \in Ids(h) : h.nodes[j].op = "Const" /\ literal \in Range(h.nodes[j].attr.data)
  BY DEF LiteralsOf
<1>2. PICK i \in Ids(g) : h.nodes[j].op = g.nodes[i].op /\ h.nodes[j].attr = g.nodes[i].attr
  OBVIOUS
<1>3. g.nodes[i].op = "Const" /\ literal \in Range(g.nodes[i].attr.data)
  BY <1>1, <1>2
<1> QED
  BY <1>3 DEF LiteralsOf

\* The inputs are tensors over S.
EnvironmentOver(S, env) == \A name \in DOMAIN env : TensorOver(S, env[name])

\* What a list with an element for every node has at the outputs.
OutputsOf(g, list) == [k \in DOMAIN g.outputs |-> list[g.outputs[k]]]

\* A graph that has types and values is followed by one that has them too, with
\* the same at its outputs, and no other literals.
Follows(mode, g, h) ==
  /\ LiteralsOf(h) \subseteq LiteralsOf(g)
  /\ \A types : TypesAre(g, types) =>
       \E other :
          /\ TypesAre(h, other) /\ OutputsOf(h, other) = OutputsOf(g, types)
          /\ \A S, env, values :
                /\ Lawful(mode, S, g) /\ EnvironmentOver(S, env)
                /\ ValuesAre(g, env, types, values)
                => \E results : /\ ValuesAre(h, env, other, results)
                                /\ OutputsOf(h, results) = OutputsOf(g, values)

\* A graph that is typed stays typed, with the same types at the outputs, and what
\* it evaluates to without an error it still does.
KeepsMeaning(mode, g, h) ==
  InferTypes(g).err = "None" =>
     /\ InferTypes(h).err = "None"
     /\ OutputsOf(h, InferTypes(h).types) = OutputsOf(g, InferTypes(g).types)
     /\ \A S, env :
           /\ Lawful(mode, S, g) /\ EnvironmentOver(S, env)
           /\ Eval(g, env).err = "None"
           => Eval(h, env) = Eval(g, env)

\* Following is keeping the meaning: inference and evaluation find what solves the
\* equations, and nothing else does.
LEMMA MeaningKept ==
  ASSUME NEW mode, NEW g, NodesFit(g), Valid(g), NEW h, NodesFit(h), Valid(h),
         Follows(mode, g, h)
  PROVE  KeepsMeaning(mode, g, h)
<1> SUFFICES ASSUME InferTypes(g).err = "None"
             PROVE  /\ InferTypes(h).err = "None"
                    /\ OutputsOf(h, InferTypes(h).types) = OutputsOf(g, InferTypes(g).types)
                    /\ \A S, env :
                          /\ Lawful(mode, S, g) /\ EnvironmentOver(S, env)
                          /\ Eval(g, env).err = "None"
                          => Eval(h, env) = Eval(g, env)
  BY DEF KeepsMeaning
<1> DEFINE types == InferTypes(g).types
<1>1. InferTypes(g) = Inferences(g)[Len(g.nodes)]
  BY DEF InferTypes
<1>2. Typing(g, types) /\ Len(types) = Len(g.nodes)
  BY <1>1, InferencesFit
<1> HIDE DEF types
<1>3. TypesAre(g, types)
  BY <1>2 DEF Typing, TypesAre, Ids
<1>4. PICK other :
         /\ TypesAre(h, other) /\ OutputsOf(h, other) = OutputsOf(g, types)
         /\ \A S, env, values :
               /\ Lawful(mode, S, g) /\ EnvironmentOver(S, env)
               /\ ValuesAre(g, env, types, values)
               => \E results : /\ ValuesAre(h, env, other, results)
                               /\ OutputsOf(h, results) = OutputsOf(g, values)
  BY <1>3 DEF Follows
<1>5. InferTypes(h) = [err |-> "None", types |-> other]
  BY <1>4, TypesAreInferred
<1>6. ASSUME NEW S, NEW env, Lawful(mode, S, g), EnvironmentOver(S, env),
             Eval(g, env).err = "None"
      PROVE  Eval(h, env) = Eval(g, env)
  <2> DEFINE run == Evaluations(g, env, types)[Len(g.nodes)]
             values == run.values
  <2>1. EvalValues(g, env) = run
    BY DEF EvalValues, EvalTyped, types
  <2>2. run.err = "None"
    BY <1>6, <2>1 DEF Eval, Collected
  <2>3. ValuesAre(g, env, types, values)
    BY <1>2, <2>2, RunValues
  <2> HIDE DEF values, run
  <2>4. PICK results : /\ ValuesAre(h, env, other, results)
                       /\ OutputsOf(h, results) = OutputsOf(g, values)
    BY <1>4, <1>6, <2>3
  <2>5. EvalValues(h, env) = [err |-> "None", values |-> results]
    BY <1>4, <2>4, ValuesAreComputed
  <2>6. Eval(h, env) = [err |-> "None", outputs |-> OutputsOf(h, results)]
    BY <2>5 DEF Eval, Collected, OutputsOf
  <2>7. Eval(g, env) = [err |-> "None", outputs |-> OutputsOf(g, values)]
    BY <2>1, <2>2 DEF Eval, Collected, OutputsOf, values
  <2> QED
    BY <2>4, <2>6, <2>7
<1> QED
  BY <1>4, <1>5, <1>6 DEF types

\* Every graph follows itself.
LEMMA FollowsItself ==
  ASSUME NEW mode, NEW g
  PROVE  Follows(mode, g, g)
BY DEF Follows

\* What follows a graph that follows another follows that one.
LEMMA FollowsOn ==
  ASSUME NEW mode, NEW g, NEW h, NEW k, Follows(mode, g, h), Follows(mode, h, k)
  PROVE  Follows(mode, g, k)
<1>0. LiteralsOf(h) \subseteq LiteralsOf(g) /\ LiteralsOf(k) \subseteq LiteralsOf(g)
  BY DEF Follows
<1> SUFFICES ASSUME NEW types, TypesAre(g, types)
             PROVE  \E other :
                      /\ TypesAre(k, other) /\ OutputsOf(k, other) = OutputsOf(g, types)
                      /\ \A S, env, values :
                            /\ Lawful(mode, S, g) /\ EnvironmentOver(S, env)
                            /\ ValuesAre(g, env, types, values)
                            => \E results : /\ ValuesAre(k, env, other, results)
                                            /\ OutputsOf(k, results) = OutputsOf(g, values)
  BY <1>0 DEF Follows
<1>1. PICK middle :
         /\ TypesAre(h, middle) /\ OutputsOf(h, middle) = OutputsOf(g, types)
         /\ \A S, env, values :
               /\ Lawful(mode, S, g) /\ EnvironmentOver(S, env)
               /\ ValuesAre(g, env, types, values)
               => \E results : /\ ValuesAre(h, env, middle, results)
                               /\ OutputsOf(h, results) = OutputsOf(g, values)
  BY DEF Follows
<1>2. PICK other :
         /\ TypesAre(k, other) /\ OutputsOf(k, other) = OutputsOf(h, middle)
         /\ \A S, env, values :
               /\ Lawful(mode, S, h) /\ EnvironmentOver(S, env)
               /\ ValuesAre(h, env, middle, values)
               => \E results : /\ ValuesAre(k, env, other, results)
                               /\ OutputsOf(k, results) = OutputsOf(h, values)
  BY <1>1 DEF Follows
<1>3. ASSUME NEW S, NEW env, NEW values, Lawful(mode, S, g), EnvironmentOver(S, env),
             ValuesAre(g, env, types, values)
      PROVE  \E results : /\ ValuesAre(k, env, other, results)
                          /\ OutputsOf(k, results) = OutputsOf(g, values)
  <2>1. PICK between : /\ ValuesAre(h, env, middle, between)
                       /\ OutputsOf(h, between) = OutputsOf(g, values)
    BY <1>1, <1>3
  <2>3. Lawful(mode, S, h)
    BY <1>0, <1>3, LawfulOver
  <2>2. PICK results : /\ ValuesAre(k, env, other, results)
                       /\ OutputsOf(k, results) = OutputsOf(h, between)
    BY <1>2, <1>3, <2>1, <2>3
  <2> QED
    BY <2>1, <2>2
<1> QED
  BY <1>1, <1>2, <1>3

-----------------------------------------------------------------------------
(* Where the equations go.                                                  *)
\* Nodes with the same types, computed from the same operands' types.
LEMMA OtherNodes ==
  ASSUME NEW g, NodesFit(g), NEW h, Len(h.nodes) = Len(g.nodes),
         NEW types, TypesAre(g, types),
         \A i \in Ids(g) : InferNode(h.nodes[i], types) = InferNode(g.nodes[i], types)
  PROVE  TypesAre(h, types)
BY DEF TypesAre, Ids

\* The same of their values and their errors.
LEMMA OtherNodesEvaluate ==
  ASSUME NEW g, NodesFit(g), NEW h, Len(h.nodes) = Len(g.nodes),
         NEW env, NEW types, NEW values, ValuesAre(g, env, types, values),
         \A i \in Ids(g) :
            /\ NodeError(h.nodes[i], env, values) = NodeError(g.nodes[i], env, values)
            /\ EvalNode(h.nodes[i], env, values) = EvalNode(g.nodes[i], env, values)
  PROVE  ValuesAre(h, env, types, values)
BY DEF ValuesAre, ValuesUpTo, Ids

\* The nodes of h are those of g at their old places, over what they were over.
Moves(g, h, old) ==
  /\ Len(h.nodes) \in Nat
  /\ \A j \in Ids(h) :
        /\ old[j] \in Ids(g)
        /\ SameOperation(g.nodes[old[j]], h.nodes[j])
        /\ \A k \in DOMAIN g.nodes[old[j]].args :
              /\ h.nodes[j].args[k] \in Ids(h)
              /\ old[h.nodes[j].args[k]] = g.nodes[old[j]].args[k]

\* The elements of a list at the nodes' new places.
Moved(h, old, list) == [j \in Ids(h) |-> list[old[j]]]

\* It has one for every node.
LEMMA MovedList ==
  ASSUME NEW g, NEW h, NEW old, Moves(g, h, old), NEW list
  PROVE  /\ IsList(Moved(h, old, list)) /\ Len(Moved(h, old, list)) = Len(h.nodes)
         /\ DOMAIN Moved(h, old, list) = Ids(h)
         /\ \A j \in Ids(h) : Moved(h, old, list)[j] = list[old[j]]
<1> DEFINE n == Len(h.nodes)
           m == Moved(h, old, list)
<1>1. n \in Nat /\ Ids(h) = 1 .. n
  BY DEF Moves, Ids
<1>2. DOMAIN m = 1 .. n /\ m = [j \in 1 .. n |-> m[j]]
      /\ \A j \in Ids(h) : m[j] = list[old[j]]
  BY <1>1 DEF Moved
<1> HIDE DEF n, m
<1>3. IsList(m)
  BY <1>1, <1>2 DEF IsList
<1>4. Len(m) \in Nat /\ DOMAIN m = 1 .. Len(m)
  BY <1>3, Lists
<1>5. Len(m) = n
  BY <1>1, <1>2, <1>4
<1> QED
  BY <1>1, <1>2, <1>3, <1>5 DEF m, n

\* A moved node is over what it was over.
LEMMA MovedOperands ==
  ASSUME NEW g, NodesFit(g), NEW h, NEW old, Moves(g, h, old), NEW j \in Ids(h),
         NEW list, DOMAIN list = Ids(g)
  PROVE  /\ IsNode(g.nodes[old[j]]) /\ SameOperation(g.nodes[old[j]], h.nodes[j])
         /\ SameOperands(g.nodes[old[j]], h.nodes[j], list, Moved(h, old, list))
<1> DEFINE i == old[j]
<1>1. i \in Ids(g)
  BY DEF Moves
<1>2. IsNode(g.nodes[i]) /\ i \in Nat
      /\ \A k \in DOMAIN g.nodes[i].args : g.nodes[i].args[k] \in 1 .. (i - 1)
  BY <1>1, NodesAre
<1>3. \A a \in 1 .. (i - 1) : a \in Ids(g)
  BY <1>1, <1>2 DEF Ids, NodesFit
<1>4. /\ DOMAIN Moved(h, old, list) = Ids(h)
      /\ \A m \in Ids(h) : Moved(h, old, list)[m] = list[old[m]]
  BY MovedList
<1>5. SameOperands(g.nodes[i], h.nodes[j], list, Moved(h, old, list))
  BY <1>2, <1>3, <1>4 DEF SameOperands, Moves
<1> QED
  BY <1>2, <1>5 DEF Moves

\* Moved nodes have the types that they had.
LEMMA MovedTypes ==
  ASSUME NEW g, NodesFit(g), NEW h, NEW old, Moves(g, h, old),
         NEW types, TypesAre(g, types)
  PROVE  TypesAre(h, Moved(h, old, types))
<1> DEFINE other == Moved(h, old, types)
<1>1. /\ IsList(other) /\ Len(other) = Len(h.nodes)
      /\ \A j \in Ids(h) : other[j] = types[old[j]]
  BY MovedList
<1>2. DOMAIN types = Ids(g)
  BY Lists DEF TypesAre, Ids
<1> HIDE DEF other
<1>3. ASSUME NEW j \in Ids(h)
      PROVE  other[j] = InferNode(h.nodes[j], other) /\ other[j].err = "None"
  <2>1. InferNode(h.nodes[j], other) = InferNode(g.nodes[old[j]], types)
    BY <1>2, MovedOperands, InferNodeRenamed DEF other
  <2>2. old[j] \in Ids(g)
    BY DEF Moves
  <2> QED
    BY <1>1, <2>1, <2>2 DEF TypesAre
<1> QED
  BY <1>1, <1>3 DEF TypesAre, other

\* And the values.
LEMMA MovedValues ==
  ASSUME NEW g, NodesFit(g), NEW h, NEW old, Moves(g, h, old),
         NEW env, NEW types, NEW values, ValuesAre(g, env, types, values)
  PROVE  ValuesAre(h, env, Moved(h, old, types), Moved(h, old, values))
<1> DEFINE other == Moved(h, old, types)
           results == Moved(h, old, values)
<1>1. /\ IsList(results) /\ Len(results) = Len(h.nodes)
      /\ \A j \in Ids(h) : results[j] = values[old[j]] /\ other[j] = types[old[j]]
  BY MovedList
<1>2. DOMAIN values = Ids(g)
  BY Lists DEF ValuesAre, ValuesUpTo, Ids
<1> HIDE DEF other, results
<1>3. ASSUME NEW j \in Ids(h)
      PROVE  /\ NodeError(h.nodes[j], env, results) = "None"
             /\ results[j] = EvalNode(h.nodes[j], env, results)
             /\ results[j].shape = other[j].shape /\ IsTensor(results[j])
  <2>1. /\ NodeError(h.nodes[j], env, results) = NodeError(g.nodes[old[j]], env, values)
        /\ EvalNode(h.nodes[j], env, results) = EvalNode(g.nodes[old[j]], env, values)
    BY <1>2, MovedOperands, EvalNodeRenamed DEF results
  <2>2. old[j] \in 1 .. Len(g.nodes)
    BY DEF Moves, Ids
  <2> QED
    BY <1>1, <2>1, <2>2 DEF ValuesAre, ValuesUpTo
<1> QED
  BY <1>1, <1>3 DEF ValuesAre, ValuesUpTo, Ids, other, results

\* Whether an attribute fits depends on the operation only.
LEMMA AttrFitsDepends ==
  ASSUME NEW p, NEW q, q.op = p.op, q.attr = p.attr, AttrFits(p)
  PROVE  AttrFits(q)
BY DEF AttrFits

\* Pruning follows.
LEMMA PruneFollows ==
  ASSUME NEW attrs, NEW g \in GraphsOver(attrs), Valid(g), InputsListed(g),
         \A i \in Ids(g) : AttrFits(g.nodes[i]), NEW mode
  PROVE  LET h == PruneAndRebuild(g).graph
         IN  Follows(mode, g, h) /\ \A j \in Ids(h) : AttrFits(h.nodes[j])
<1> DEFINE h == PruneAndRebuild(g).graph
           keep == Kept(g)
           old == Ascending(keep)
           n == Cardinality(keep)
<1>0. NodesFit(g)
  BY FitsOver
<1>1. /\ keep \in SUBSET Ids(g)
      /\ ClosedFromOutputs(g, keep)
      /\ Range(g.inputs) \in SUBSET keep
  BY KeptClosed DEF Kept
<1>2. PruneAndRebuild(g) = Compact(g, keep)
  BY PruneIsCompact
<1> HIDE DEF keep
<1>3. /\ h.nodes = CompactNodes(g, keep)
      /\ h.outputs = CompactOutputs(g, keep)
  BY <1>1, <1>2, CompactKeeps
<1>4. n \in Nat /\ Len(h.nodes) = n
  BY <1>1, <1>3, CompactMoves
<1>5. ASSUME NEW k \in 1 .. n
      PROVE  /\ old[k] \in keep
             /\ h.nodes[k].op = g.nodes[old[k]].op
             /\ h.nodes[k].attr = g.nodes[old[k]].attr
             /\ RenamedBy(keep, g.nodes[old[k]], h.nodes[k])
  <2>1. old[k] \in keep
    BY <1>1, CompactMoves
  <2>2. /\ CompactNodes(g, keep)[k].op = g.nodes[old[k]].op
        /\ CompactNodes(g, keep)[k].attr = g.nodes[old[k]].attr
    BY <1>1, CompactMoves
  <2>3. RenamedBy(keep, g.nodes[old[k]], CompactNodes(g, keep)[k])
    BY <1>1, CompactMoves
  <2> HIDE DEF h, old, n
  <2> QED
    BY <1>3, <2>1, <2>2, <2>3
<1>6. ASSUME NEW i \in keep
      PROVE  Rank(keep, i) \in 1 .. n /\ old[Rank(keep, i)] = i
  BY <1>1, CompactMoves
<1> HIDE DEF h, old, n
<1>7. Ids(h) = 1 .. n
  BY <1>4 DEF Ids
<1>8. ASSUME NEW j \in Ids(h)
      PROVE  /\ old[j] \in Ids(g)
             /\ SameOperation(g.nodes[old[j]], h.nodes[j])
             /\ AttrFits(h.nodes[j])
             /\ \A k \in DOMAIN g.nodes[old[j]].args :
                   /\ h.nodes[j].args[k] \in Ids(h)
                   /\ old[h.nodes[j].args[k]] = g.nodes[old[j]].args[k]
  <2>1. old[j] \in keep /\ old[j] \in Ids(g)
    BY <1>1, <1>5, <1>7
  <2>2. SameOperation(g.nodes[old[j]], h.nodes[j])
    BY <1>5, <1>7 DEF RenamedBy, SameOperation
  <2>3. AttrFits(h.nodes[j])
    BY <2>1, <2>2, AttrFitsDepends DEF SameOperation
  <2>4. ASSUME NEW k \in DOMAIN g.nodes[old[j]].args
        PROVE  /\ h.nodes[j].args[k] \in Ids(h)
               /\ old[h.nodes[j].args[k]] = g.nodes[old[j]].args[k]
    <3> DEFINE a == g.nodes[old[j]].args[k]
    <3>1. a \in Operands(g.nodes[old[j]])
      BY DEF Operands, Range
    <3>2. a \in keep
      BY <1>1, <2>1, <3>1 DEF ClosedFromOutputs
    <3>3. h.nodes[j].args[k] = Rank(keep, a)
      BY <1>5, <1>7 DEF RenamedBy
    <3> HIDE DEF a
    <3>4. h.nodes[j].args[k] \in Ids(h) /\ old[h.nodes[j].args[k]] = a
      BY <1>6, <1>7, <3>2, <3>3
    <3> QED
      BY <3>4 DEF a
  <2> QED
    BY <2>1, <2>2, <2>3, <2>4
<1>9. Moves(g, h, old)
  BY <1>4, <1>8 DEF Moves
<1>10. ASSUME NEW list
       PROVE  OutputsOf(h, Moved(h, old, list)) = OutputsOf(g, list)
  <2>1. h.outputs = [k \in DOMAIN g.outputs |-> Rank(keep, g.outputs[k])]
    BY <1>3 DEF CompactOutputs
  <2>2. ASSUME NEW k \in DOMAIN g.outputs
        PROVE  Moved(h, old, list)[h.outputs[k]] = list[g.outputs[k]]
    <3> DEFINE o == g.outputs[k]
    <3>1. o \in keep
      BY <1>1 DEF ClosedFromOutputs, Range
    <3> HIDE DEF o
    <3>2. Rank(keep, o) \in Ids(h) /\ old[Rank(keep, o)] = o
      BY <1>6, <1>7, <3>1
    <3>3. h.outputs[k] = Rank(keep, o)
      BY <2>1 DEF o
    <3>4. Moved(h, old, list)[h.outputs[k]] = list[o]
      BY <3>2, <3>3 DEF Moved
    <3> QED
      BY <3>4 DEF o
  <2> QED
    BY <2>1, <2>2 DEF OutputsOf
<1>11. ASSUME NEW types, TypesAre(g, types)
       PROVE  /\ TypesAre(h, Moved(h, old, types))
              /\ OutputsOf(h, Moved(h, old, types)) = OutputsOf(g, types)
              /\ \A S, env, values :
                    ValuesAre(g, env, types, values) =>
                      /\ ValuesAre(h, env, Moved(h, old, types), Moved(h, old, values))
                      /\ OutputsOf(h, Moved(h, old, values)) = OutputsOf(g, values)
  BY <1>0, <1>9, <1>10, <1>11, MovedTypes, MovedValues
<1>12. LiteralsOf(h) \subseteq LiteralsOf(g)
  BY <1>8, LiteralsKept DEF SameOperation
<1>13. Follows(mode, g, h)
  BY <1>11, <1>12 DEF Follows
<1> QED
  BY <1>8, <1>13 DEF h

\* Redirecting to a node that has the same type and value.
Redirected(g, h, target, replacement) ==
  /\ Len(h.nodes) = Len(g.nodes)
  /\ \A i \in Ids(g) :
        /\ SameOperation(g.nodes[i], h.nodes[i])
        /\ \A k \in DOMAIN g.nodes[i].args :
              \/ h.nodes[i].args[k] = g.nodes[i].args[k]
              \/ g.nodes[i].args[k] = target /\ h.nodes[i].args[k] = replacement
  /\ DOMAIN h.outputs = DOMAIN g.outputs
  /\ \A k \in DOMAIN g.outputs :
        \/ h.outputs[k] = g.outputs[k]
        \/ g.outputs[k] = target /\ h.outputs[k] = replacement

\* Nodes i and x have the same type, and the same value over lawful arithmetic.
Alike(mode, g, i, x) ==
  \A types : TypesAre(g, types) =>
     /\ types[i] = types[x]
     /\ \A S, env, values :
           /\ Lawful(mode, S, g) /\ EnvironmentOver(S, env)
           /\ ValuesAre(g, env, types, values)
           => values[i] = values[x]

\* Redirecting the uses of a node to one that is like it.
LEMMA RedirectedFollows ==
  ASSUME NEW g, NodesFit(g), NEW h, NEW i \in Ids(g), NEW x \in Ids(g), NEW mode,
         Redirected(g, h, i, x), Alike(mode, g, i, x)
  PROVE  Follows(mode, g, h)
<1>1. ASSUME NEW list, list[i] = list[x]
      PROVE  OutputsOf(h, list) = OutputsOf(g, list)
  BY <1>1 DEF Redirected, OutputsOf
<1>2. ASSUME NEW list, list[i] = list[x], DOMAIN list = Ids(g), NEW j \in Ids(g)
      PROVE  /\ IsNode(g.nodes[j]) /\ SameOperation(g.nodes[j], h.nodes[j])
             /\ SameOperands(g.nodes[j], h.nodes[j], list, list)
  <2>1. IsNode(g.nodes[j]) /\ j \in Nat
        /\ \A k \in DOMAIN g.nodes[j].args : g.nodes[j].args[k] \in 1 .. (j - 1)
    BY NodesAre
  <2>2. \A a \in 1 .. (j - 1) : a \in Ids(g)
    BY <2>1 DEF Ids, NodesFit
  <2>3. SameOperands(g.nodes[j], h.nodes[j], list, list)
    BY <1>2, <2>1, <2>2 DEF SameOperands, Redirected
  <2> QED
    BY <2>1, <2>3 DEF Redirected
<1>3. ASSUME NEW types, TypesAre(g, types)
      PROVE  TypesAre(h, types) /\ OutputsOf(h, types) = OutputsOf(g, types)
  <2>1. types[i] = types[x]
    BY <1>3 DEF Alike
  <2>2. DOMAIN types = Ids(g)
    BY <1>3, Lists DEF TypesAre, Ids
  <2>3. \A j \in Ids(g) : InferNode(h.nodes[j], types) = InferNode(g.nodes[j], types)
    BY <1>2, <2>1, <2>2, InferNodeRenamed
  <2>4. Len(h.nodes) = Len(g.nodes)
    BY DEF Redirected
  <2> QED
    BY <1>1, <1>3, <2>1, <2>3, <2>4, OtherNodes
<1>4. ASSUME NEW types, TypesAre(g, types), NEW S, NEW env, NEW values,
             Lawful(mode, S, g), EnvironmentOver(S, env), ValuesAre(g, env, types, values)
      PROVE  ValuesAre(h, env, types, values) /\ OutputsOf(h, values) = OutputsOf(g, values)
  <2>1. values[i] = values[x]
    BY <1>4 DEF Alike
  <2>2. DOMAIN values = Ids(g)
    BY <1>4, Lists DEF ValuesAre, ValuesUpTo, Ids
  <2>3. \A j \in Ids(g) :
           /\ NodeError(h.nodes[j], env, values) = NodeError(g.nodes[j], env, values)
           /\ EvalNode(h.nodes[j], env, values) = EvalNode(g.nodes[j], env, values)
    BY <1>2, <2>1, <2>2, EvalNodeRenamed
  <2>4. Len(h.nodes) = Len(g.nodes)
    BY DEF Redirected
  <2> QED
    BY <1>1, <1>4, <2>1, <2>3, <2>4, OtherNodesEvaluate
<1>5. LiteralsOf(h) \subseteq LiteralsOf(g)
  BY LiteralsKept DEF Redirected, SameOperation, Ids
<1> QED
  BY <1>3, <1>4, <1>5 DEF Follows

-----------------------------------------------------------------------------
(* What the rules redirect to is like what they redirect.                   *)
\* Types are records of a data type and a shape.
LEMMA TypesAreTypes ==
  ASSUME NEW g, NodesFit(g), NEW types, TypesAre(g, types)
  PROVE  \A i \in Ids(g) : types[i] = TypeOf(types[i].dtype, types[i].shape)
<1> DEFINE N == Len(g.nodes)
           T == {n \in Nat : n <= N => \A i \in 1 .. n :
                                types[i] = TypeOf(types[i].dtype, types[i].shape)}
<1>1. N \in Nat /\ Ids(g) = 1 .. N
  BY DEF NodesFit, Ids
<1>2. 0 \in T
  OBVIOUS
<1>3. ASSUME NEW n \in Nat, n \in T
      PROVE  n + 1 \in T
  <2> SUFFICES ASSUME n + 1 <= N
               PROVE  \A i \in 1 .. (n + 1) :
                         types[i] = TypeOf(types[i].dtype, types[i].shape)
    OBVIOUS
  <2> DEFINE node == g.nodes[n + 1]
             t == types[n + 1]
             l == types[node.args[1]]
             r == types[node.args[2]]
  <2>1. n + 1 \in Ids(g) /\ (n + 1) - 1 = n /\ n <= N
    BY <1>1
  <2>2. IsNode(node) /\ \A k \in DOMAIN node.args : node.args[k] \in 1 .. n
    BY <2>1, NodesAre
  <2>3. t = InferNode(node, types) /\ t.err = "None"
    BY <2>1 DEF TypesAre
  <2>4. \A k \in DOMAIN node.args :
           LET a == types[node.args[k]] IN a = TypeOf(a.dtype, a.shape)
    BY <1>3, <2>1, <2>2
  <2>5. ~ (\E k \in DOMAIN node.args : node.args[k] \notin DOMAIN types)
    <3>1. DOMAIN types = 1 .. N
      BY Lists DEF TypesAre
    <3> QED
      BY <1>1, <2>1, <2>2, <3>1
  <2>6. /\ node.op \in BinaryOps => l = TypeOf(l.dtype, l.shape)
        /\ node.op \in UnaryOps => l = TypeOf(l.dtype, l.shape)
    BY <2>2, <2>4, OperandsThere
  <2> HIDE DEF node, t, l, r
  <2>7. node.op \in Operations
    BY <2>2 DEF IsNode
  <2>8. t = TypeOf(t.dtype, t.shape)
    <3>1. CASE node.op \in {"Input", "Const"}
      <4>1. t = TypeOf(node.attr.dtype, node.attr.shape)
        BY <2>3, <2>5, <3>1 DEF InferNode, UnaryOps
      <4> QED
        BY <4>1 DEF TypeOf
    <3>2. CASE node.op \in {"Add", "Sub", "Mul"}
      <4>1. t = InferElementwise(l, r)
        BY <2>3, <2>5, <3>2 DEF InferNode, l, r, UnaryOps
      <4>2. t = l
        BY <2>3, <4>1 DEF InferElementwise, TypeErr
      <4> QED
        BY <2>6, <3>2, <4>2 DEF BinaryOps
    <3>3. CASE node.op \in UnaryOps
      <4>1. t = InferUnary(l)
        BY <2>3, <2>5, <3>3 DEF InferNode, l, UnaryOps
      <4>2. t = l
        BY <2>3, <4>1 DEF InferUnary, TypeErr
      <4> QED
        BY <2>6, <3>3, <4>2
    <3>4. CASE node.op = "Matmul"
      <4>1. t = InferMatmul(l, r)
        BY <2>3, <2>5, <3>4 DEF InferNode, l, r, UnaryOps
      <4>2. t = TypeOf(l.dtype, <<l.shape[1], r.shape[2]>>)
        BY <2>3, <4>1 DEF InferMatmul, TypeErr
      <4> QED
        BY <4>2 DEF TypeOf
    <3>5. CASE node.op = "Sum"
      <4>1. t = InferSum(l, node.attr.axes, node.attr.keepdim)
        BY <2>3, <2>5, <3>5 DEF InferNode, l, UnaryOps
      <4>2. t = TypeOf(l.dtype, ReducedShape(l.shape, node.attr.axes, node.attr.keepdim))
        BY <2>3, <4>1 DEF InferSum, TypeErr
      <4> QED
        BY <4>2 DEF TypeOf
    <3>6. CASE node.op = "Reshape"
      <4>1. t = InferReshape(l, node.attr.shape)
        BY <2>3, <2>5, <3>6 DEF InferNode, l, UnaryOps
      <4>2. t = TypeOf(l.dtype, node.attr.shape)
        BY <2>3, <4>1 DEF InferReshape, TypeErr
      <4> QED
        BY <4>2 DEF TypeOf
    <3> QED
      BY <2>7, <3>1, <3>2, <3>3, <3>4, <3>5, <3>6 DEF Operations, BinaryOps
  <2>9. \A i \in 1 .. (n + 1) : i \in 1 .. n \/ i = n + 1
    OBVIOUS
  <2> QED
    BY <1>3, <2>1, <2>8, <2>9 DEF t
<1>4. N \in T
  <2> HIDE DEF T
  <2> QED
    BY <1>1, <1>2, <1>3, SetInduction
<1> QED
  BY <1>1, <1>4

\* What typed operands are to the operations of the rules.
LEMMA TypedOperands ==
  ASSUME NEW g, NodesFit(g), NEW types, TypesAre(g, types), NEW i \in Ids(g)
  PROVE  /\ OpAt(g, i) \in UnaryOps \cup {"Reshape"} => ArgOf(g, i) \in Ids(g)
         /\ OpAt(g, i) \in UnaryOps => types[i] = types[ArgOf(g, i)]
         /\ OpAt(g, i) = "Reshape" =>
              LET t == types[ArgOf(g, i)]
                  shape == g.nodes[i].attr.shape
              IN  /\ types[i] = TypeOf(t.dtype, shape)
                  /\ Numel(t.shape) # Overflow /\ Numel(shape) # Overflow
                  /\ Numel(t.shape) = Numel(shape)
         /\ OpAt(g, i) = "Add" =>
              LET a == g.nodes[i].args[1]
                  b == g.nodes[i].args[2]
              IN  /\ a \in Ids(g) /\ b \in Ids(g)
                  /\ types[i] = types[a] /\ types[i] = types[b]
<1> DEFINE node == g.nodes[i]
           t == types[i]
           l == types[node.args[1]]
           r == types[node.args[2]]
<1>1. i \in Nat /\ IsNode(node) /\ \A k \in DOMAIN node.args : node.args[k] \in 1 .. (i - 1)
  BY NodesAre
<1>2. \A k \in DOMAIN node.args : node.args[k] \in Ids(g)
  BY <1>1 DEF Ids, NodesFit
<1>3. DOMAIN types = Ids(g)
  BY Lists DEF TypesAre, Ids
<1>4. t = InferNode(node, types) /\ t.err = "None"
  BY DEF TypesAre
<1>5. /\ node.op \in BinaryOps => node.args[1] \in Ids(g) /\ node.args[2] \in Ids(g)
      /\ node.op \in UnaryOps \cup {"Reshape"} => node.args[1] \in Ids(g)
  BY <1>1, <1>2, OperandsThere
<1>6. /\ node.args[1] \in Ids(g) => l = TypeOf(l.dtype, l.shape)
      /\ node.args[2] \in Ids(g) => r = TypeOf(r.dtype, r.shape)
  BY TypesAreTypes
<1>7. ~ (\E k \in DOMAIN node.args : node.args[k] \notin DOMAIN types)
  BY <1>2, <1>3
<1> HIDE DEF node, t, l, r
<1>8. ASSUME node.op \in UnaryOps PROVE t = l
  <2>1. t = InferUnary(l)
    BY <1>4, <1>7, <1>8 DEF InferNode, l, UnaryOps
  <2> QED
    BY <1>4, <2>1 DEF InferUnary, TypeErr
<1>9. ASSUME node.op = "Reshape"
      PROVE  /\ t = TypeOf(l.dtype, node.attr.shape)
             /\ Numel(l.shape) # Overflow /\ Numel(node.attr.shape) # Overflow
             /\ Numel(l.shape) = Numel(node.attr.shape)
  <2>1. t = InferReshape(l, node.attr.shape)
    BY <1>4, <1>7, <1>9 DEF InferNode, l, UnaryOps
  <2> QED
    BY <1>4, <2>1 DEF InferReshape, TypeErr
<1>10. ASSUME node.op = "Add"
       PROVE  t = l /\ t = r
  <2>1. t = InferElementwise(l, r)
    BY <1>4, <1>7, <1>10 DEF InferNode, l, r, UnaryOps
  <2>2. t = l /\ l.shape = r.shape /\ l.dtype = r.dtype
    BY <1>4, <2>1 DEF InferElementwise, TypeErr
  <2>3. l = TypeOf(l.dtype, l.shape) /\ r = TypeOf(r.dtype, r.shape)
    BY <1>5, <1>6, <1>10 DEF BinaryOps
  <2> QED
    BY <2>2, <2>3
<1>11. OpAt(g, i) = node.op /\ ArgOf(g, i) = node.args[1]
  BY DEF OpAt, ArgOf, node
<1>12. "Add" \in BinaryOps
  BY DEF BinaryOps
<1> QED
  BY <1>5, <1>8, <1>9, <1>10, <1>11, <1>12 DEF node, t, l, r

\* The value of a constant.
Literals(shape, data) ==
  [shape |-> shape, data |-> [m \in 0 .. (Numel(shape) - 1) |-> LiftLiteral(data[m + 1])]]

\* What their values are.
LEMMA ValuedOperands ==
  ASSUME NEW g, NodesFit(g), NEW env, NEW types, NEW values,
         ValuesAre(g, env, types, values), NEW i \in Ids(g)
  PROVE  /\ OpAt(g, i) = "Neg" => values[i] = EvalNeg(values[ArgOf(g, i)])
         /\ OpAt(g, i) = "Relu" => values[i] = EvalRelu(values[ArgOf(g, i)])
         /\ OpAt(g, i) = "Reshape" =>
              values[i] = EvalReshape(values[ArgOf(g, i)], g.nodes[i].attr.shape)
         /\ OpAt(g, i) = "Add" =>
              LET l == values[g.nodes[i].args[1]]
                  r == values[g.nodes[i].args[2]]
              IN  values[i] = EvalAdd(l, r) /\ l.shape = r.shape
         /\ OpAt(g, i) = "Const" =>
              /\ \A k \in DOMAIN g.nodes[i].attr.data : IsFinite(g.nodes[i].attr.data[k])
              /\ values[i] = Literals(g.nodes[i].attr.shape, g.nodes[i].attr.data)
<1> DEFINE node == g.nodes[i]
           v == values[i]
<1>1. NodeError(node, env, values) = "None" /\ v = EvalNode(node, env, values)
  BY DEF ValuesAre, ValuesUpTo, Ids
<1> HIDE DEF node, v
<1>2. ASSUME node.op = "Neg" PROVE v = EvalNeg(values[node.args[1]])
  BY <1>1, <1>2 DEF EvalNode
<1>3. ASSUME node.op = "Relu" PROVE v = EvalRelu(values[node.args[1]])
  BY <1>1, <1>3 DEF EvalNode
<1>4. ASSUME node.op = "Reshape" PROVE v = EvalReshape(values[node.args[1]], node.attr.shape)
  BY <1>1, <1>4 DEF EvalNode
<1>5. ASSUME node.op = "Add"
      PROVE  /\ v = EvalAdd(values[node.args[1]], values[node.args[2]])
             /\ values[node.args[1]].shape = values[node.args[2]].shape
  <2>1. OperandsFit(node, values)
    BY <1>1, <1>5 DEF NodeError
  <2> QED
    BY <1>1, <1>5, <2>1 DEF EvalNode, OperandsFit
<1>6. ASSUME node.op = "Const"
      PROVE  /\ \A k \in DOMAIN node.attr.data : IsFinite(node.attr.data[k])
             /\ v = Literals(node.attr.shape, node.attr.data)
  <2>1. LiteralError(node) = "None"
    BY <1>1, <1>6 DEF NodeError
  <2>2. \A k \in DOMAIN node.attr.data : IsFinite(node.attr.data[k])
    BY <2>1 DEF LiteralError
  <2>3. v = Tensor(node.attr.shape, LAMBDA m : LiftLiteral(node.attr.data[m + 1]))
    BY <1>1, <1>6 DEF EvalNode
  <2>4. v = Literals(node.attr.shape, node.attr.data)
    BY <2>3 DEF Tensor, Literals
  <2> QED
    BY <2>2, <2>4
<1> QED
  BY <1>2, <1>3, <1>4, <1>5, <1>6 DEF node, v, OpAt, ArgOf

\* Negating twice, and clipping twice.
LEMMA NegTwice ==
  ASSUME NEW mode, NEW S, NEW g, Lawful(mode, S, g), NEW t, TensorOver(S, t)
  PROVE  EvalNeg(EvalNeg(t)) = t
<1>1. \A m \in 0 .. Numel(t.shape) - 1 : Negate(Negate(t.data[m])) = t.data[m]
  BY DEF Lawful, TensorOver
<1>2. EvalNeg(t) = [shape |-> t.shape,
                    data |-> [m \in 0 .. (Numel(t.shape) - 1) |-> Negate(t.data[m])]]
  BY DEF EvalNeg, Tensor
<1>3. EvalNeg(EvalNeg(t)) =
        [shape |-> t.shape,
         data |-> [m \in 0 .. (Numel(t.shape) - 1) |-> Negate(Negate(t.data[m]))]]
  BY <1>2 DEF EvalNeg, Tensor
<1>4. t = [shape |-> t.shape, data |-> [m \in 0 .. (Numel(t.shape) - 1) |-> t.data[m]]]
  BY DEF TensorOver
<1> QED
  BY <1>1, <1>3, <1>4

\* Clipping at zero twice is clipping once.
LEMMA ReluTwice ==
  ASSUME NEW t
  PROVE  EvalRelu(EvalRelu(t)) = EvalRelu(t)
<1> DEFINE clip(x) == IF IsPositive(x) THEN x ELSE Zero
<1>1. \A x : clip(clip(x)) = clip(x)
  OBVIOUS
<1>2. EvalRelu(t) = [shape |-> t.shape,
                     data |-> [m \in 0 .. (Numel(t.shape) - 1) |-> clip(t.data[m])]]
  BY DEF EvalRelu, Tensor
<1>3. EvalRelu(EvalRelu(t)) =
        [shape |-> t.shape,
         data |-> [m \in 0 .. (Numel(t.shape) - 1) |-> clip(clip(t.data[m]))]]
  <2> DEFINE u == [shape |-> t.shape,
                   data |-> [m \in 0 .. (Numel(t.shape) - 1) |-> clip(t.data[m])]]
  <2>1. EvalRelu(u) = [shape |-> u.shape,
                       data |-> [m \in 0 .. (Numel(u.shape) - 1) |-> clip(u.data[m])]]
    BY DEF EvalRelu, Tensor
  <2>2. /\ u.shape = t.shape
        /\ \A m \in 0 .. (Numel(t.shape) - 1) : u.data[m] = clip(t.data[m])
    OBVIOUS
  <2> HIDE DEF u, clip
  <2>3. EvalRelu(u) = [shape |-> t.shape,
                       data |-> [m \in 0 .. (Numel(t.shape) - 1) |-> clip(clip(t.data[m]))]]
    BY <2>1, <2>2
  <2> QED
    BY <1>2, <2>3 DEF u
<1> HIDE DEF clip
<1> QED
  BY <1>1, <1>2, <1>3

\* Adding a constant of zeros.
LEMMA AddZeros ==
  ASSUME NEW S, NEW g, Lawful("FastMath", S, g), NEW t, TensorOver(S, t),
         NEW shape, t.shape = shape, NEW data, Len(data) = Numel(shape),
         data \in Seq(Range(data)),
         \A k \in DOMAIN data : /\ data[k] \in LiteralsOf(g)
                                /\ IsFinite(data[k]) /\ IsZeroLiteral(data[k])
  PROVE  /\ EvalAdd(t, Literals(shape, data)) = t
         /\ EvalAdd(Literals(shape, data), t) = t
<1> DEFINE c == Literals(shape, data)
           D == 0 .. (Numel(shape) - 1)
<1>1. \A m \in D : m + 1 \in DOMAIN data
  BY SMTT(30)
<1>2. c = [shape |-> shape, data |-> [m \in D |-> LiftLiteral(data[m + 1])]]
  BY DEF Literals
<1>3. \A m \in D : t.data[m] \in S
  BY DEF TensorOver
<1>4. t = [shape |-> shape, data |-> [m \in D |-> t.data[m]]]
  BY DEF TensorOver
<1>5. \A m \in D : /\ Plus(t.data[m], LiftLiteral(data[m + 1])) = t.data[m]
                   /\ Plus(LiftLiteral(data[m + 1]), t.data[m]) = t.data[m]
  <2> SUFFICES ASSUME NEW m \in D
               PROVE  /\ Plus(t.data[m], LiftLiteral(data[m + 1])) = t.data[m]
                      /\ Plus(LiftLiteral(data[m + 1]), t.data[m]) = t.data[m]
    OBVIOUS
  <2>1. data[m + 1] \in LiteralsOf(g) /\ IsFinite(data[m + 1]) /\ IsZeroLiteral(data[m + 1])
    BY <1>1
  <2> QED
    BY <1>3, <2>1 DEF Lawful
<1> HIDE DEF c
<1>6. c.shape = shape /\ \A m \in D : c.data[m] = LiftLiteral(data[m + 1])
  BY <1>2
<1>7. EvalAdd(t, c) = [shape |-> shape, data |-> [m \in D |-> Plus(t.data[m], c.data[m])]]
  BY DEF EvalAdd, Tensor
<1>8. EvalAdd(c, t) = [shape |-> shape, data |-> [m \in D |-> Plus(c.data[m], t.data[m])]]
  BY <1>6 DEF EvalAdd, Tensor
<1> HIDE DEF D
<1>9. EvalAdd(t, c) = t
  BY <1>4, <1>5, <1>6, <1>7
<1>10. EvalAdd(c, t) = t
  BY <1>4, <1>5, <1>6, <1>8
<1> QED
  BY <1>9, <1>10 DEF c

\* What redirecting the uses of a node makes of the graph.
LEMMA ReplaceRedirects ==
  ASSUME NEW attrs, NEW g \in GraphsOver(attrs), NEW target, NEW replacement,
         ReplaceAllUses(g, target, replacement).ok
  PROVE  /\ target \in Ids(g) /\ replacement \in Ids(g)
         /\ Redirected(g, ReplaceAllUses(g, target, replacement).graph, target, replacement)
<1> DEFINE use(a) == IF a = target THEN replacement ELSE a
           renamed(node) == [k \in DOMAIN node.args |-> use(node.args[k])]
           nodes == [i \in Ids(g) |-> IF i = target THEN g.nodes[i]
                                      ELSE [g.nodes[i] EXCEPT !.args = renamed(g.nodes[i])]]
           outputs == [k \in DOMAIN g.outputs |-> use(g.outputs[k])]
           h == ReplaceAllUses(g, target, replacement).graph
<1>1. /\ target \in Ids(g) /\ replacement \in Ids(g)
      /\ ReplaceAllUses(g, target, replacement) = Emission(nodes, outputs)
  BY DEF ReplaceAllUses, Refused, WithOperands
<1>2. target \in Nat /\ replacement \in Nat
  BY <1>1 DEF Ids
<1>3. h.nodes = nodes /\ h.outputs = outputs
  <2> DEFINE e == [nodes |-> nodes,
                   inputs |-> Ascending({i \in 1 .. Len(nodes) : nodes[i].op = "Input"}),
                   outputs |-> outputs]
  <2>1. Emission(nodes, outputs).graph = e
    BY DEF Emission
  <2>2. e.nodes = nodes /\ e.outputs = outputs
    OBVIOUS
  <2> HIDE DEF e, nodes, outputs
  <2> QED
    BY <1>1, <2>1, <2>2
<1>4. ASSUME NEW i \in Ids(g)
      PROVE  /\ SameOperation(g.nodes[i], nodes[i])
             /\ \A k \in DOMAIN g.nodes[i].args :
                   \/ nodes[i].args[k] = g.nodes[i].args[k]
                   \/ g.nodes[i].args[k] = target /\ nodes[i].args[k] = replacement
  <2>1. g.nodes[i] \in NodesOver(attrs) /\ g.nodes[i].args \in Seq(Nat)
    BY DEF GraphsOver, Ids, NodesOver
  <2>2. CASE i = target
    BY <2>1, <2>2 DEF SameOperation
  <2>3. CASE i # target
    <3> DEFINE new == renamed(g.nodes[i])
    <3>1. new \in Seq(Nat) /\ Len(new) = Len(g.nodes[i].args)
      <4> DEFINE list(args) == [k \in DOMAIN args |->
                                  IF args[k] = target THEN replacement ELSE args[k]]
      <4>1. \A args \in Seq(Nat) : list(args) \in Seq(Nat) /\ Len(list(args)) = Len(args)
        BY <1>2, RenamedArgs
      <4>2. new = list(g.nodes[i].args)
        OBVIOUS
      <4> HIDE DEF new, list
      <4> QED
        BY <2>1, <4>1, <4>2
    <3>2. nodes[i] = [g.nodes[i] EXCEPT !.args = new]
      BY <2>3
    <3>3. \A k \in DOMAIN g.nodes[i].args : new[k] = use(g.nodes[i].args[k])
      OBVIOUS
    <3> HIDE DEF new, nodes
    <3>4. /\ nodes[i].op = g.nodes[i].op
          /\ nodes[i].attr = g.nodes[i].attr
          /\ nodes[i].args = new
      BY <2>1, <3>1, <3>2, NewArgs
    <3> QED
      BY <3>1, <3>3, <3>4 DEF SameOperation
  <2> QED
    BY <2>2, <2>3
<1>5. Len(nodes) = Len(g.nodes)
  <2>1. Len(g.nodes) \in Nat
    BY DEF GraphsOver
  <2> DEFINE S == {nodes[i] : i \in Ids(g)}
  <2>2. nodes \in [1 .. Len(g.nodes) -> S]
    <3>1. DOMAIN nodes = 1 .. Len(g.nodes) /\ nodes = [i \in 1 .. Len(g.nodes) |-> nodes[i]]
      BY DEF Ids
    <3> HIDE DEF nodes
    <3> QED
      BY <3>1 DEF Ids
  <2> HIDE DEF nodes, S
  <2> QED
    BY <2>1, <2>2, SeqOfInterval
<1>6. /\ DOMAIN outputs = DOMAIN g.outputs
      /\ \A k \in DOMAIN g.outputs :
            \/ outputs[k] = g.outputs[k]
            \/ g.outputs[k] = target /\ outputs[k] = replacement
  OBVIOUS
<1> HIDE DEF nodes, outputs, h
<1>7. Redirected(g, h, target, replacement)
  BY <1>3, <1>4, <1>5, <1>6 DEF Redirected
<1> QED
  BY <1>1, <1>7 DEF h

\* What the rules redirect to is like what they redirect.
LEMMA NegNegAlike ==
  ASSUME NEW g, NodesFit(g), Valid(g), NEW mode, NEW i \in Ids(g),
         OpAt(g, i) = "Neg", OpAt(g, ArgOf(g, i)) = "Neg"
  PROVE  Alike(mode, g, i, ArgOf(g, ArgOf(g, i)))
<1> DEFINE j == ArgOf(g, i)
           x == ArgOf(g, j)
<1> SUFFICES ASSUME NEW types, TypesAre(g, types)
             PROVE  /\ types[i] = types[x]
                    /\ \A S, env, values :
                          /\ Lawful(mode, S, g) /\ EnvironmentOver(S, env)
                          /\ ValuesAre(g, env, types, values)
                          => values[i] = values[x]
  BY DEF Alike
<1>1. j \in Ids(g) /\ x \in Ids(g) /\ types[i] = types[j] /\ types[j] = types[x]
  <2>1. j \in Ids(g) /\ types[i] = types[j]
    BY TypedOperands DEF UnaryOps
  <2> HIDE DEF j
  <2>2. x \in Ids(g) /\ types[j] = types[x]
    BY <2>1, TypedOperands DEF UnaryOps, j
  <2> QED
    BY <2>1, <2>2
<1>2. ASSUME NEW S, NEW env, NEW values, Lawful(mode, S, g), EnvironmentOver(S, env),
             ValuesAre(g, env, types, values)
      PROVE  values[i] = values[x]
  <2>1. values[i] = EvalNeg(values[j])
    BY <1>2, ValuedOperands
  <2>2. values[j] = EvalNeg(values[x])
    BY <1>1, <1>2, ValuedOperands
  <2>3. TensorOver(S, values[x])
    BY <1>1, <1>2, ValuesOver DEF Lawful, EnvironmentOver
  <2> HIDE DEF x, j
  <2> QED
    BY <1>2, <2>1, <2>2, <2>3, NegTwice
<1> QED
  BY <1>1, <1>2

\* A ReLU of a ReLU is like the inner one.
LEMMA ReluAlike ==
  ASSUME NEW g, NodesFit(g), NEW mode, NEW i \in Ids(g),
         OpAt(g, i) = "Relu", OpAt(g, ArgOf(g, i)) = "Relu"
  PROVE  Alike(mode, g, i, ArgOf(g, i))
<1> DEFINE j == ArgOf(g, i)
<1> SUFFICES ASSUME NEW types, TypesAre(g, types)
             PROVE  /\ types[i] = types[j]
                    /\ \A S, env, values :
                          /\ Lawful(mode, S, g) /\ EnvironmentOver(S, env)
                          /\ ValuesAre(g, env, types, values)
                          => values[i] = values[j]
  BY DEF Alike
<1>1. j \in Ids(g) /\ types[i] = types[j]
  BY TypedOperands DEF UnaryOps
<1>2. ASSUME NEW env, NEW values, ValuesAre(g, env, types, values)
      PROVE  values[i] = values[j]
  <2>1. values[i] = EvalRelu(values[j])
    BY <1>2, ValuedOperands
  <2>2. values[j] = EvalRelu(values[ArgOf(g, j)])
    BY <1>1, <1>2, ValuedOperands
  <2> HIDE DEF j
  <2> QED
    BY <2>1, <2>2, ReluTwice
<1> QED
  BY <1>1, <1>2

\* A sum with a constant of zeros is like its other operand, in FastMath mode.
LEMMA AddZeroAlike ==
  ASSUME NEW g, NodesFit(g), Valid(g), NEW i \in Ids(g), OpAt(g, i) = "Add",
         NEW k \in {1, 2}, ZeroConst(g, g.nodes[i].args[k])
  PROVE  Alike("FastMath", g, i, g.nodes[i].args[3 - k])
<1> DEFINE z == g.nodes[i].args[k]
           x == g.nodes[i].args[3 - k]
           data == g.nodes[z].attr.data
           shape == g.nodes[z].attr.shape
<1> SUFFICES ASSUME NEW types, TypesAre(g, types)
             PROVE  /\ types[i] = types[x]
                    /\ \A S, env, values :
                          /\ Lawful("FastMath", S, g) /\ EnvironmentOver(S, env)
                          /\ ValuesAre(g, env, types, values)
                          => values[i] = values[x]
  BY DEF Alike
<1>1. (k = 1 /\ 3 - k = 2) \/ (k = 2 /\ 3 - k = 1)
  <2> HIDE DEF z, x, data, shape
  <2> QED
    OBVIOUS
<1>2. x \in Ids(g) /\ z \in Ids(g) /\ types[i] = types[x]
  BY <1>1, TypedOperands
<1>3. /\ OpAt(g, z) = "Const"
      /\ \A m \in DOMAIN data : IsZeroLiteral(data[m])
  BY DEF ZeroConst
<1>6. \A m \in DOMAIN data : data[m] \in LiteralsOf(g)
  <2>1. z \in {j \in Ids(g) : g.nodes[j].op = "Const"}
    BY <1>2, <1>3 DEF OpAt
  <2> HIDE DEF z
  <2> QED
    BY <2>1 DEF LiteralsOf, Range
<1>4. Len(data) = Numel(shape) /\ data \in Seq(Range(data))
  <2>1. ConstError(g.nodes[z]) = "None" /\ AttrFits(g.nodes[z])
    BY <1>2 DEF Valid, ConstsFit, NodesFit
  <2> HIDE DEF z
  <2> QED
    BY <1>3, <2>1 DEF ConstError, AttrFits, OpAt
<1>5. ASSUME NEW S, NEW env, NEW values, Lawful("FastMath", S, g), EnvironmentOver(S, env),
             ValuesAre(g, env, types, values)
      PROVE  values[i] = values[x]
  <2> DEFINE c == Literals(shape, data)
  <2>1. values[z] = c /\ \A m \in DOMAIN data : IsFinite(data[m])
    <3> HIDE DEF z
    <3> QED
      BY <1>2, <1>3, <1>5, ValuedOperands
  <2>2. /\ values[i] = EvalAdd(values[x], values[z]) \/ values[i] = EvalAdd(values[z], values[x])
        /\ values[x].shape = values[z].shape
    BY <1>1, <1>5, ValuedOperands
  <2>3. TensorOver(S, values[x])
    BY <1>2, <1>5, ValuesOver DEF Lawful, EnvironmentOver
  <2>4. values[z].shape = shape
    <3> HIDE DEF z, shape, data
    <3> QED
      BY <2>1 DEF Literals
  <2> HIDE DEF x, z, data, shape
  <2>5. EvalAdd(values[x], c) = values[x] /\ EvalAdd(c, values[x]) = values[x]
    BY <1>3, <1>4, <1>5, <1>6, <2>1, <2>2, <2>3, <2>4, AddZeros
  <2> QED
    BY <2>1, <2>2, <2>5
<1> QED
  BY <1>2, <1>5

-----------------------------------------------------------------------------
(* Every rule follows.                                                      *)
\* A reshape of a reshape has the type and the value of a reshape of what that one
\* is of.
LEMMA FuseFollows ==
  ASSUME NEW g, NodesFit(g), DOMAIN g.nodes = Ids(g), NEW mode, NEW i \in Ids(g),
         OpAt(g, i) = "Reshape", OpAt(g, ArgOf(g, i)) = "Reshape",
         NEW node, node.op = "Reshape", node.attr = g.nodes[i].attr,
         node.args \in Seq(Nat), Len(node.args) = 1,
         node.args[1] = ArgOf(g, ArgOf(g, i)),
         NEW h, Len(h.nodes) = Len(g.nodes), h.nodes = [g.nodes EXCEPT ![i] = node],
         h.outputs = g.outputs
  PROVE  Follows(mode, g, h)
<1> DEFINE j == ArgOf(g, i)
           x == ArgOf(g, j)
           shape == g.nodes[i].attr.shape
<1>1. DOMAIN node.args = {1}
  OBVIOUS
<1>2. \A m \in Ids(g) : h.nodes[m] = IF m = i THEN node ELSE g.nodes[m]
  OBVIOUS
<1>3. \A list : OutputsOf(h, list) = OutputsOf(g, list)
  BY DEF OutputsOf
<1>4. ASSUME NEW types, TypesAre(g, types)
      PROVE  j \in Ids(g) /\ InferNode(node, types) = types[i]
  <2>1. /\ j \in Ids(g)
        /\ types[i] = TypeOf(types[j].dtype, shape)
        /\ Numel(shape) # Overflow /\ Numel(types[j].shape) = Numel(shape)
    BY <1>4, TypedOperands
  <2> HIDE DEF j
  <2>2. /\ x \in Ids(g)
        /\ types[j] = TypeOf(types[x].dtype, g.nodes[j].attr.shape)
        /\ Numel(types[x].shape) = Numel(g.nodes[j].attr.shape)
    BY <1>4, <2>1, TypedOperands DEF j
  <2> HIDE DEF x, shape
  <2>3. DOMAIN types = Ids(g)
    BY <1>4, Lists DEF TypesAre, Ids
  <2>4. node.args[1] = x /\ node.attr.shape = shape
    BY DEF x, j, shape
  <2>5. InferNode(node, types) = InferReshape(types[x], shape)
    BY <1>1, <2>2, <2>3, <2>4 DEF InferNode, UnaryOps
  <2>6. types[j].dtype = types[x].dtype /\ types[j].shape = g.nodes[j].attr.shape
    BY <2>2 DEF TypeOf
  <2>7. InferReshape(types[x], shape) = TypeOf(types[x].dtype, shape)
    BY <2>1, <2>2, <2>6 DEF InferReshape
  <2> QED
    BY <2>1, <2>5, <2>6, <2>7
<1>5. ASSUME NEW types, TypesAre(g, types), NEW env, NEW values,
             ValuesAre(g, env, types, values)
      PROVE  /\ NodeError(node, env, values) = NodeError(g.nodes[i], env, values)
             /\ EvalNode(node, env, values) = EvalNode(g.nodes[i], env, values)
  <2>1. j \in Ids(g)
    BY <1>4, <1>5
  <2>2. values[i] = EvalReshape(values[j], shape)
    BY <1>5, ValuedOperands
  <2>3. values[j] = EvalReshape(values[x], g.nodes[j].attr.shape)
    BY <1>5, <2>1, ValuedOperands
  <2>4. node.args[1] = x /\ node.attr.shape = shape /\ g.nodes[i].op = "Reshape"
        /\ g.nodes[i].args[1] = j
    BY DEF OpAt, ArgOf
  <2> HIDE DEF j, x, shape
  <2>5. EvalNode(node, env, values) = EvalReshape(values[x], shape)
    BY <2>4 DEF EvalNode
  <2>6. EvalNode(g.nodes[i], env, values) = EvalReshape(values[j], shape)
    BY <2>4 DEF EvalNode, shape
  <2>7. values[j].data = values[x].data
    BY <2>3 DEF EvalReshape
  <2>8. /\ NodeError(node, env, values) = "None"
        /\ NodeError(g.nodes[i], env, values) = "None"
    BY <2>4 DEF NodeError, OperandsFit
  <2> QED
    BY <2>5, <2>6, <2>7, <2>8 DEF EvalReshape
<1>6. ASSUME NEW types, TypesAre(g, types)
      PROVE  TypesAre(h, types)
  <2>1. types[i] = InferNode(g.nodes[i], types)
    BY <1>6 DEF TypesAre
  <2>2. \A m \in Ids(g) : InferNode(h.nodes[m], types) = InferNode(g.nodes[m], types)
    BY <1>2, <1>4, <1>6, <2>1
  <2> QED
    BY <1>6, <2>2, OtherNodes
<1>7. ASSUME NEW types, TypesAre(g, types), NEW env, NEW values,
             ValuesAre(g, env, types, values)
      PROVE  ValuesAre(h, env, types, values)
  <2>1. \A m \in Ids(g) :
           /\ NodeError(h.nodes[m], env, values) = NodeError(g.nodes[m], env, values)
           /\ EvalNode(h.nodes[m], env, values) = EvalNode(g.nodes[m], env, values)
    BY <1>2, <1>5, <1>7
  <2> QED
    BY <1>7, <2>1, OtherNodesEvaluate
<1>8. LiteralsOf(h) \subseteq LiteralsOf(g)
  <2>1. Ids(h) = Ids(g) /\ node.op = g.nodes[i].op
    BY DEF Ids, OpAt
  <2> QED
    BY <1>2, <2>1, LiteralsKept
<1> QED
  BY <1>3, <1>6, <1>7, <1>8 DEF Follows

\* The attributes of a graph with the operations of another one fit if its do.
LEMMA AttributesKept ==
  ASSUME NEW g, NEW h, Len(h.nodes) = Len(g.nodes),
         \A i \in Ids(g) : /\ AttrFits(g.nodes[i])
                           /\ h.nodes[i].op = g.nodes[i].op
                           /\ h.nodes[i].attr = g.nodes[i].attr
  PROVE  \A i \in Ids(h) : AttrFits(h.nodes[i])
<1>1. Ids(h) = Ids(g)
  BY DEF Ids
<1> QED
  BY <1>1, AttrFitsDepends

\* A redirection to a like node.
LEMMA ReplaceFollows ==
  ASSUME NEW attrs, NEW g \in GraphsOver(attrs), Valid(g),
         \A i \in Ids(g) : AttrFits(g.nodes[i]),
         NEW mode, NEW i, NEW x, ReplaceAllUses(g, i, x).ok, Alike(mode, g, i, x)
  PROVE  LET h == ReplaceAllUses(g, i, x).graph
         IN  Follows(mode, g, h) /\ \A j \in Ids(h) : AttrFits(h.nodes[j])
<1> DEFINE h == ReplaceAllUses(g, i, x).graph
<1>1. i \in Ids(g) /\ x \in Ids(g) /\ Redirected(g, h, i, x)
  BY ReplaceRedirects
<1> HIDE DEF h
<1>2. NodesFit(g)
  BY FitsOver
<1>3. Follows(mode, g, h)
  BY <1>1, <1>2, RedirectedFollows
<1>4. \A j \in Ids(h) : AttrFits(h.nodes[j])
  BY <1>1, AttributesKept DEF Redirected, SameOperation
<1> QED
  BY <1>3, <1>4 DEF h

\* Adding zero is a law of the reals only, so Strict mode does not enable its rule.
LEMMA OnlyFastMath ==
  ASSUME NEW mode \in Modes, Allows(mode, SafetyOf(RuleLaws("add-zero-elim")))
  PROVE  mode = "FastMath"
<1> DEFINE laws == <<"AddZeroIdentity">>
<1>1. RuleLaws("add-zero-elim") = laws
  BY DEF RuleLaws
<1>2. "AddZeroIdentity" \in Range(laws)
  BY DEF Range
<1>3. ~ PreservesBits("AddZeroIdentity")
  BY DEF PreservesBits, BitExactLaws
<1> HIDE DEF laws
<1>4. SafetyOf(laws) = "RealOnly"
  BY <1>2, <1>3 DEF SafetyOf
<1> QED
  BY <1>1, <1>4 DEF Allows

\* So does every rule of its mode.
LEMMA TryAtFollows ==
  ASSUME NEW attrs, NEW g \in GraphsOver(attrs), Valid(g), InputsListed(g),
         \A i \in Ids(g) : AttrFits(g.nodes[i]), NEW mode \in Modes,
         NEW rule \in Rules, Allows(mode, SafetyOf(RuleLaws(rule))),
         NEW i \in Ids(g), TryAt(rule, g, i).ok
  PROVE  LET h == TryAt(rule, g, i).graph
         IN  Follows(mode, g, h) /\ \A j \in Ids(h) : AttrFits(h.nodes[j])
<1> DEFINE j == ArgOf(g, i)
           x == ArgOf(g, j)
<1>1. NodesFit(g)
  BY FitsOver
<1>2. CASE rule = "neg-neg-elim"
  <2>1. /\ OpAt(g, i) = "Neg" /\ OpAt(g, j) = "Neg"
        /\ TryAt(rule, g, i) = ReplaceAllUses(g, i, x)
    BY <1>2 DEF TryAt, NegNegElim, Refused
  <2>2. Alike(mode, g, i, x)
    BY <1>1, <2>1, NegNegAlike
  <2> HIDE DEF x, j
  <2> QED
    BY <2>1, <2>2, ReplaceFollows
<1>3. CASE rule = "relu-idempotent-elim"
  <2>1. /\ OpAt(g, i) = "Relu" /\ OpAt(g, j) = "Relu"
        /\ TryAt(rule, g, i) = ReplaceAllUses(g, i, j)
    BY <1>3 DEF TryAt, ReluIdempotentElim, Refused
  <2>2. Alike(mode, g, i, j)
    BY <1>1, <2>1, ReluAlike
  <2> HIDE DEF x, j
  <2> QED
    BY <2>1, <2>2, ReplaceFollows
<1>4. CASE rule = "add-zero-elim"
  <2>1. mode = "FastMath"
    BY <1>4, OnlyFastMath
  <2>2. OpAt(g, i) = "Add"
    BY <1>4 DEF TryAt, AddZeroElim, Refused
  <2>3. PICK k \in {1, 2} :
           /\ ZeroConst(g, g.nodes[i].args[k])
           /\ TryAt(rule, g, i) = ReplaceAllUses(g, i, g.nodes[i].args[3 - k])
    <3>1. 3 - 1 = 2 /\ 3 - 2 = 1
      OBVIOUS
    <3> QED
      BY <1>4, <2>2, <3>1 DEF TryAt, AddZeroElim, Refused
  <2>4. Alike(mode, g, i, g.nodes[i].args[3 - k])
    BY <1>1, <2>1, <2>2, <2>3, AddZeroAlike
  <2> QED
    BY <2>3, <2>4, ReplaceFollows
<1>5. CASE rule = "reshape-reshape-fuse"
  <2> DEFINE args == <<x>>
             node == [g.nodes[i] EXCEPT !.args = args]
             h == RedefineNode(g, i, node).graph
  <2>1. /\ OpAt(g, i) = "Reshape" /\ OpAt(g, j) = "Reshape"
        /\ TryAt(rule, g, i) = RedefineNode(g, i, node)
    BY <1>5 DEF TryAt, ReshapeReshapeFuse, Refused
  <2>2. j \in Ids(g)
    BY <2>1, ReshapeArg
  <2>3. x \in Nat
    <3> HIDE DEF j
    <3>1. x \in Ids(g)
      BY <2>1, <2>2, ReshapeArg
    <3> QED
      BY <3>1 DEF Ids
  <2> HIDE DEF x, j
  <2>4. g.nodes[i] \in NodesOver(attrs) /\ Len(g.nodes[i].args) = 1
    BY <2>1, OperandsOf, Arities
  <2>5. args \in Seq(Nat) /\ Len(args) = 1 /\ args[1] = x
    BY <2>3
  <2> HIDE DEF args
  <2>6. /\ node \in NodesOver(attrs)
        /\ node.op = g.nodes[i].op
        /\ node.attr = g.nodes[i].attr
        /\ node.args = args
    BY <2>4, <2>5, NewArgs
  <2> HIDE DEF node
  <2>7. RedefineNode(g, i, node).ok
    BY <2>1
  <2>8. /\ Keeps(attrs, g, h)
        /\ h.nodes = [g.nodes EXCEPT ![i] = node]
        /\ h.outputs = g.outputs
    BY <2>6, <2>7, RedefineNodeKeeps
  <2> HIDE DEF h
  <2>9. DOMAIN g.nodes = Ids(g) /\ Len(h.nodes) = Len(g.nodes)
    <3>1. /\ DOMAIN g.nodes = 1 .. Len(g.nodes) /\ Len(g.nodes) \in Nat
          /\ DOMAIN h.nodes = 1 .. Len(h.nodes) /\ Len(h.nodes) \in Nat
      BY <2>8 DEF Keeps, GraphsOver
    <3>2. DOMAIN h.nodes = DOMAIN g.nodes
      BY <2>8
    <3> QED
      BY <3>1, <3>2 DEF Ids
  <2>10. node.op = "Reshape" /\ node.args[1] = ArgOf(g, ArgOf(g, i))
    BY <2>1, <2>5, <2>6 DEF OpAt, x, j
  <2>11. Follows(mode, g, h)
    BY <1>1, <2>1, <2>5, <2>6, <2>8, <2>9, <2>10, FuseFollows DEF j
  <2>12. \A m \in Ids(g) : /\ h.nodes[m].op = g.nodes[m].op
                           /\ h.nodes[m].attr = g.nodes[m].attr
    BY <2>6, <2>8, <2>9
  <2>13. \A m \in Ids(h) : AttrFits(h.nodes[m])
    BY <2>9, <2>12, AttributesKept
  <2> QED
    BY <2>1, <2>11, <2>13 DEF h
<1> QED
  BY <1>2, <1>3, <1>4, <1>5 DEF Rules

-----------------------------------------------------------------------------
(* The meaning of the run's graph.                                          *)
\* The graph so far follows the caller's.
MInv ==
  /\ \A i \in Ids(graph) : AttrFits(graph.nodes[i])
  /\ Follows(config.mode, source, graph)

\* A surgery that follows, and the pruning after it.
LEMMA CanonicalizeFollows ==
  ASSUME NEW h, h \in GraphsOver(Attributes), Valid(h), InputsListed(h),
         \A i \in Ids(h) : AttrFits(h.nodes[i]), NEW mode, NEW g, Follows(mode, g, h),
         NEW next, Canonicalize(h, next)
  PROVE  /\ \A i \in Ids(graph') : AttrFits(graph'.nodes[i])
         /\ Follows(mode, g, graph')
<1>1. graph' = PruneAndRebuild(h).graph
  BY CanonicalizeKeeps
<1>2. /\ Follows(mode, h, PruneAndRebuild(h).graph)
      /\ \A j \in Ids(PruneAndRebuild(h).graph) :
            AttrFits(PruneAndRebuild(h).graph.nodes[j])
  BY PruneFollows
<1>3. Follows(mode, g, PruneAndRebuild(h).graph)
  BY <1>2, FollowsOn
<1> QED
  BY <1>1, <1>2, <1>3

\* The run starts with the caller's graph.
LEMMA InitMInv == Init => MInv
<1> SUFFICES ASSUME Init PROVE MInv
  OBVIOUS
<1>1. graph = source /\ source \in Graphs
  BY DEF Init
<1>2. \A i \in Ids(source) : AttrFits(source.nodes[i])
  BY <1>1, DriverAssumption
<1> QED
  BY <1>1, <1>2, FollowsItself DEF MInv

\* Every step keeps it: a rule that fires follows, and so does what follows that.
LEMMA StepMInv == IInv /\ MInv /\ [Next]_vars => MInv'
<1> SUFFICES ASSUME IInv, MInv, [Next]_vars PROVE MInv'
  OBVIOUS
<1>1. CASE Start
  <2>1. /\ source \in GraphsOver(Attributes) /\ Valid(source) /\ InputsListed(source)
        /\ \A i \in Ids(source) : AttrFits(source.nodes[i])
    BY DriverAssumption DEF IInv
  <2>2. Canonicalize(source, "Running") /\ UNCHANGED <<source, config>>
    BY <1>1 DEF Start
  <2>3. /\ \A i \in Ids(graph') : AttrFits(graph'.nodes[i])
        /\ Follows(config.mode, source, graph')
    BY <2>1, <2>2, FollowsItself, CanonicalizeFollows
  <2> QED
    BY <2>2, <2>3 DEF MInv
<1>2. CASE Fire
  <2>1. PICK p \in FirstFiring :
           Canonicalize(TryAt(rules[p[2]], graph, p[1]).graph, "Running")
    BY <1>2 DEF Fire
  <2> DEFINE i == p[1]
             k == p[2]
             h == TryAt(rules[k], graph, i).graph
             mode == config.mode
  <2>2. i \in Ids(graph) /\ k \in Enabled /\ TryAt(rules[k], graph, i).ok
    BY DEF FirstFiring, Firings
  <2>3. rules[k] \in Rules /\ Allows(mode, SafetyOf(RuleLaws(rules[k])))
    <3>1. rules[k] \in Rules
      BY <2>2, RulesInSeq DEF IInv, TypeOK, Enabled
    <3> QED
      BY <2>2, <3>1 DEF Enabled, EnabledRules
  <2>4. /\ graph \in GraphsOver(Attributes) /\ Valid(graph) /\ InputsListed(graph)
        /\ mode \in Modes
        /\ \A m \in Ids(graph) : AttrFits(graph.nodes[m])
        /\ Follows(mode, source, graph)
    BY DEF IInv, TypeOK, NeverFails, MInv
  <2>5. Canonicalize(h, "Running")
    BY <2>1
  <2>6. UNCHANGED <<source, config>>
    BY <1>2 DEF Fire
  <2> HIDE DEF i, k, mode
  <2>7. Keeps(Attributes, graph, h)
    BY <2>2, <2>3, <2>4, TryAtKeeps
  <2>8. Follows(mode, graph, h) /\ \A j \in Ids(h) : AttrFits(h.nodes[j])
    BY <2>2, <2>3, <2>4, TryAtFollows
  <2> HIDE DEF h
  <2>9. Follows(mode, source, h)
    BY <2>4, <2>8, FollowsOn
  <2>10. /\ \A m \in Ids(graph') : AttrFits(graph'.nodes[m])
         /\ Follows(mode, source, graph')
    BY <2>5, <2>7, <2>8, <2>9, CanonicalizeFollows DEF Keeps
  <2> QED
    BY <2>6, <2>10 DEF MInv, mode
<1>3. CASE UNCHANGED <<source, config, graph>>
  BY <1>3 DEF MInv
<1> QED
  BY <1>1, <1>2, <1>3 DEF Next, StopAtFixpoint, StopAtCap, vars

\* So it is an invariant.
LEMMA MeaningInvariance == Spec => []MInv
BY InitMInv, StepMInv, Invariance, PTL DEF Spec

\* What the two invariants say of the meaning.
LEMMA MInvKeepsMeaning == IInv /\ MInv => KeepsMeaning(config.mode, source, graph)
<1> SUFFICES ASSUME IInv, MInv
             PROVE  KeepsMeaning(config.mode, source, graph)
  OBVIOUS
<1>1. /\ source \in GraphsOver(Attributes) /\ Valid(source)
      /\ \A i \in Ids(source) : AttrFits(source.nodes[i])
  BY DriverAssumption DEF IInv
<1>2. /\ graph \in GraphsOver(Attributes) /\ Valid(graph)
      /\ \A i \in Ids(graph) : AttrFits(graph.nodes[i])
      /\ Follows(config.mode, source, graph)
  BY DEF IInv, TypeOK, NeverFails, MInv
<1>3. NodesFit(source) /\ NodesFit(graph)
  BY <1>1, <1>2, FitsOver
<1> QED
  BY <1>1, <1>2, <1>3, MeaningKept

\* Whatever rules fire, the graph means what the caller's graph means.
THEOREM RunKeepsMeaning == Spec => []KeepsMeaning(config.mode, source, graph)
<1>1. IInv /\ MInv => KeepsMeaning(config.mode, source, graph)
  BY MInvKeepsMeaning
<1> QED
  BY <1>1, Invariance, MeaningInvariance, PTL

\* The driver as an optimizer that promises to keep the meaning of a graph.
Optimizer ==
  INSTANCE SoundOptimizer
    WITH Programs <- GraphsOver(Attributes), Requests <- Modes,
         Preserves <- KeepsMeaning, request <- config.mode, original <- source,
         program <- graph, done <- Returned

\* It starts where that starts.
LEMMA InitOptimizes == Init => Optimizer!Init
<1> SUFFICES ASSUME Init PROVE Optimizer!Init
  OBVIOUS
<1>1. source \in GraphsOver(Attributes)
  BY DriverAssumption DEF Init
<1>2. config.mode \in Modes /\ graph = source /\ Returned = FALSE
  BY DEF Init, Returned
<1> QED
  BY <1>1, <1>2, Zenon DEF Optimizer!Init

\* A rule that fires replaces the program, stopping finishes, and counting is none of it.
LEMMA StepOptimizes ==
  IInv /\ IInv' /\ MInv' /\ [Next]_vars => [Optimizer!Next]_Optimizer!vars
<1> SUFFICES ASSUME IInv, IInv', MInv', [Next]_vars
             PROVE  [Optimizer!Next]_Optimizer!vars
  OBVIOUS
<1>1. KeepsMeaning(config.mode, source, graph)'
  BY MInvKeepsMeaning, PTL
<1>2. CASE Start \/ Fire
  <2>1. ~ Returned /\ ~ Returned' /\ UNCHANGED <<source, config>>
    <3>1. NeverFails'
      BY DEF IInv
    <3> QED
      BY <1>2, <3>1 DEF Start, Fire, Canonicalize, Returned, NeverFails
  <2>2. KeepsMeaning(config.mode, source, graph')
    BY <1>1, <2>1
  <2>3. Returned' = Returned
    <3>1. Returned = FALSE
      BY <2>1 DEF Returned
    <3>2. Returned' = FALSE
      BY <2>1 DEF Returned
    <3> QED
      BY <3>1, <3>2, Zenon
  <2>4. UNCHANGED <<config.mode, source>>
    BY <2>1
  <2>5. Optimizer!Replace
    BY <2>1, <2>2, <2>3, <2>4, Zenon DEF Optimizer!Replace
  <2> QED
    BY <2>5, Zenon DEF Optimizer!Next
<1>3. CASE StopAtFixpoint \/ StopAtCap
  <2>1. /\ ~ Returned /\ Returned' /\ UNCHANGED <<source, config, graph>>
    BY <1>3 DEF StopAtFixpoint, StopAtCap, Returned
  <2>2. Optimizer!Finish
    BY <2>1, Zenon DEF Optimizer!Finish
  <2> QED
    BY <2>2, Zenon DEF Optimizer!Next
<1>4. CASE UNCHANGED vars
  BY <1>4 DEF vars, Returned, Optimizer!vars
<1> QED
  BY <1>2, <1>3, <1>4 DEF Next

\* The driver, the pass manager's canonicalize with any rule list, step cap and mode,
\* is a sound optimizer: it never replaces a graph by one of another meaning, and it
\* returns the last one.
THEOREM DriverImplementsSoundOptimizer == Spec => Optimizer!Spec
<1>1. IInv /\ IInv' /\ MInv' /\ [Next]_vars => [Optimizer!Next]_Optimizer!vars
  BY StepOptimizes
<1> QED
  BY <1>1, InitOptimizes, Invariance, MeaningInvariance, PTL DEF Spec, Optimizer!Spec

=============================================================================
