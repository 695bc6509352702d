-------------------------- MODULE RandomGraph_proofs --------------------------
(***************************************************************************)
(* What the generator keeps beside the builder agrees with it, for every   *)
(* configuration: the names returned are those of the inputs, all          *)
(* different, the pool has nodes of the graph at hand only, and each value *)
(* has the shape that inference gives its node.  So the interpreter        *)
(* evaluates a drawn graph on the inputs drawn for it.                     *)
(***************************************************************************)
EXTENDS RandomGraph, CommonLemmas

\* Inputs are numbered as they are named.
Numbered(g, names) ==
  /\ IsList(g.nodes) /\ IsList(g.inputs) /\ IsList(names)
  /\ Len(names) = Len(g.inputs)
  /\ \A k \in 1 .. Len(names) :
        /\ names[k] = k - 1
        /\ g.inputs[k] \in Ids(g)
        /\ g.nodes[g.inputs[k]].attr.name = k - 1

\* What the helpers hand on, an error included.
Named(d) ==
  /\ d = [err |-> d.err, graph |-> d.graph, names |-> d.names]
  /\ d.err = "None" => Numbered(d.graph, d.names)

\* What e has beyond d was emitted after it.
Beyond(d, e) ==
  e.err = "None" => /\ d.err = "None"
                    /\ Len(e.graph.nodes) \in Nat
                    /\ Len(e.graph.nodes) > Len(d.graph.nodes)

IInv ==
  /\ config.pattern \in Patterns
  /\ Named(draft) /\ draft.err = "None"
  /\ IsList(pool)
  /\ PoolInDraft

-----------------------------------------------------------------------------
\* Nothing is refused but a constant whose payload does not fit, or a node whose
\* operands are not there.
LEMMA InputAccepted ==
  ASSUME NEW g, NEW name, NEW shape
  PROVE  EmitError(g, InputNode(name, DType, shape)) = "None"
BY DEF EmitError, InputNode, ConstError

\* A builder call that is not for an input leaves the names as they are.
LEMMA CallKeepsNames ==
  ASSUME NEW d, Named(d), NEW node, node.op # "Input"
  PROVE  Named(Called(d, node)) /\ Beyond(d, Called(d, node))
<1> DEFINE e == Called(d, node)
<1>1. CASE d.err # "None"
  BY <1>1 DEF Called, Beyond
<1>2. CASE d.err = "None" /\ EmitError(d.graph, node) # "None"
  <2>1. e = [err |-> EmitError(d.graph, node), graph |-> d.graph, names |-> d.names]
    BY <1>2 DEF Named, Called
  <2> HIDE DEF e
  <2>2. Named(e) /\ Beyond(d, e)
    BY <1>2, <2>1 DEF Named, Beyond
  <2> QED
    BY <2>2 DEF e
<1>3. CASE d.err = "None" /\ EmitError(d.graph, node) = "None"
  <2> DEFINE g == d.graph
             h == Push(g, node)
  <2>1. e = [err |-> "None", graph |-> h, names |-> d.names]
    BY <1>3 DEF Named, Called
  <2>2. Numbered(g, d.names)
    BY <1>3 DEF Named
  <2>3. h.nodes = Append(g.nodes, node) /\ h.inputs = g.inputs
    BY DEF Push
  <2> HIDE DEF e, h, g
  <2>4. /\ IsList(h.nodes)
        /\ Len(g.nodes) \in Nat
        /\ Len(h.nodes) = Len(g.nodes) + 1
        /\ \A i \in Ids(g) : i \in Ids(h) /\ h.nodes[i] = g.nodes[i]
    BY <2>2, <2>3, Lists, AppendToList DEF Numbered, Ids
  <2>5. Numbered(h, d.names)
    BY <2>2, <2>3, <2>4 DEF Numbered
  <2>6. Named(e) /\ Beyond(d, e)
    BY <1>3, <2>1, <2>4, <2>5 DEF Named, Beyond, g
  <2> QED
    BY <2>6 DEF e
<1> QED
  BY <1>1, <1>2, <1>3

\* A leaf that is an input takes the next name.
LEMMA LeafKeepsNames ==
  ASSUME NEW d, Named(d), NEW shape, NEW isInput \in BOOLEAN
  PROVE  Named(Leaf(d, shape, isInput)) /\ Beyond(d, Leaf(d, shape, isInput))
<1>1. CASE ~ isInput
  <2> DEFINE node == ConstNode(DType, shape, Payload(shape))
  <2>1. node.op # "Input" /\ Leaf(d, shape, isInput) = Called(d, node)
    BY <1>1 DEF ConstNode, Leaf
  <2> HIDE DEF node
  <2> QED
    BY <2>1, CallKeepsNames
<1>2. CASE isInput
  <2> DEFINE name == Len(d.names)
             node == InputNode(name, DType, shape)
             g    == d.graph
             h    == Push(g, node)
             e    == Leaf(d, shape, isInput)
  <2>1. e = [Called(d, node) EXCEPT !.names = Append(@, name)]
    BY <1>2 DEF Leaf
  <2>2. CASE d.err # "None"
    <3>1. Called(d, node) = d
      BY <2>2 DEF Called
    <3>2. e = [err |-> d.err, graph |-> d.graph, names |-> Append(d.names, name)]
      <4> DEFINE c == Called(d, node)
      <4>1. c = [err |-> d.err, graph |-> d.graph, names |-> d.names]
        BY <3>1 DEF Named
      <4>2. e = [c EXCEPT !.names = Append(@, name)]
        BY <2>1
      <4> HIDE DEF c, e, name
      <4> QED
        BY <4>1, <4>2
    <3> HIDE DEF e
    <3>3. Named(e) /\ Beyond(d, e)
      BY <2>2, <3>2 DEF Named, Beyond
    <3> QED
      BY <3>3 DEF e
  <2>3. CASE d.err = "None"
    <3>1. EmitError(g, node) = "None"
      BY InputAccepted
    <3>2. Called(d, node) = [err |-> "None", graph |-> h, names |-> d.names]
      BY <2>3, <3>1 DEF Called, Named
    <3>3. e = [err |-> "None", graph |-> h, names |-> Append(d.names, name)]
      <4> DEFINE c == Called(d, node)
      <4>1. c = [err |-> "None", graph |-> h, names |-> d.names]
        BY <3>2
      <4>2. e = [c EXCEPT !.names = Append(@, name)]
        BY <2>1
      <4> HIDE DEF c, e, name, h
      <4> QED
        BY <4>1, <4>2
    <3>4. Numbered(g, d.names)
      BY <2>3 DEF Named
    <3>5. /\ node.op = "Input" /\ node.attr.name = name
          /\ h.nodes = Append(g.nodes, node)
          /\ h.inputs = Append(g.inputs, Len(g.nodes) + 1)
      BY DEF InputNode, Push
    <3> DEFINE names == Append(d.names, name)
    <3>6. /\ Len(d.names) \in Nat /\ Len(g.nodes) \in Nat
          /\ Len(g.inputs) = Len(d.names)
      BY <3>4, Lists DEF Numbered
    <3>7. /\ IsList(h.nodes)
          /\ Len(h.nodes) = Len(g.nodes) + 1
          /\ \A i \in Ids(g) : i \in Ids(h) /\ h.nodes[i] = g.nodes[i]
          /\ Len(g.nodes) + 1 \in Ids(h)
          /\ h.nodes[Len(g.nodes) + 1].attr.name = Len(d.names)
      BY <3>4, <3>5, <3>6, AppendToList, SMTT(30) DEF Numbered, Ids
    <3>8. /\ IsList(h.inputs)
          /\ Len(h.inputs) = Len(d.names) + 1
          /\ \A k \in 1 .. Len(d.names) : h.inputs[k] = g.inputs[k]
          /\ h.inputs[Len(d.names) + 1] = Len(g.nodes) + 1
      BY <3>4, <3>5, <3>6, AppendToList, SMTT(30) DEF Numbered
    <3>9. /\ IsList(names)
          /\ Len(names) = Len(d.names) + 1
          /\ \A k \in 1 .. Len(d.names) : names[k] = d.names[k]
          /\ names[Len(d.names) + 1] = Len(d.names)
      BY <3>4, AppendToList DEF Numbered
    <3> HIDE DEF e, h, g, names, node
    <3>10. ASSUME NEW k \in 1 .. Len(names)
           PROVE  /\ names[k] = k - 1
                  /\ h.inputs[k] \in Ids(h)
                  /\ h.nodes[h.inputs[k]].attr.name = k - 1
      <4>1. CASE k \in 1 .. Len(d.names)
        BY <3>4, <3>7, <3>8, <3>9, <4>1 DEF Numbered
      <4>2. CASE k = Len(d.names) + 1
        BY <3>6, <3>7, <3>8, <3>9, <4>2
      <4> QED
        BY <3>6, <3>9, <4>1, <4>2
    <3>11. Numbered(h, names)
      BY <3>7, <3>8, <3>9, <3>10 DEF Numbered
    <3>12. e.err = "None" /\ e.graph = h /\ e.names = names
           /\ e = [err |-> e.err, graph |-> e.graph, names |-> e.names]
      BY <3>3 DEF names
    <3>13. Named(e) /\ Beyond(d, e)
      BY <2>3, <3>6, <3>7, <3>11, <3>12 DEF Named, Beyond, g
    <3> QED
      BY <3>13 DEF e
  <2> QED
    BY <2>2, <2>3
<1> QED
  BY <1>1, <1>2

\* Two steps beyond one another.
LEMMA BeyondAgain ==
  ASSUME NEW d, NEW e, NEW f, Len(d.graph.nodes) \in Nat,
         d = e \/ Beyond(d, e), Beyond(e, f)
  PROVE  Beyond(d, f)
BY DEF Beyond

-----------------------------------------------------------------------------
\* A graph that is given up leaves nothing behind.
LEMMA EmptyKeeps ==
  ASSUME draft' = EmptyDraft, pool' = << >>, config'.pattern \in Patterns
  PROVE  IInv'
<1>1. IsList(<< >>) /\ Len(<< >>) = 0 /\ DOMAIN << >> = {}
  <2>1. << >> = [i \in 1 .. 0 |-> << >>[i]]
    OBVIOUS
  <2> QED
    BY <2>1 DEF IsList
<1>2. Numbered(EmptyGraph, << >>)
  BY <1>1 DEF Numbered, EmptyGraph
<1>3. Named(EmptyDraft) /\ EmptyDraft.err = "None"
  BY <1>2 DEF Named, EmptyDraft
<1> QED
  BY <1>1, <1>3 DEF IInv, PoolInDraft

\* A value appended after whatever calls is the newest node.
LEMMA DrawnKeeps ==
  ASSUME IInv, NEW e, NEW shape, Named(e), Beyond(draft, e), Drawn(e, shape)
  PROVE  IInv'
<1>1. CASE e.err # "None"
  BY <1>1, EmptyKeeps DEF Drawn, IInv
<1>2. CASE e.err = "None"
  <2> DEFINE value == Value(Newest(e), shape)
  <2>1. draft' = e /\ pool' = Append(pool, value)
    BY <1>2 DEF Drawn
  <2>2. /\ Len(e.graph.nodes) \in Nat
        /\ Len(e.graph.nodes) > Len(draft.graph.nodes)
    BY <1>2 DEF Beyond
  <2>3. Len(draft.graph.nodes) \in Nat
    BY Lists DEF IInv, Named, Numbered
  <2>4. value.id \in Ids(e.graph) /\ Ids(draft.graph) \subseteq Ids(e.graph)
    BY <2>2, <2>3 DEF Value, Newest, Ids
  <2> HIDE DEF value
  <2>5. /\ IsList(pool') /\ Len(pool) \in Nat
        /\ DOMAIN pool = 1 .. Len(pool) /\ DOMAIN pool' = 1 .. (Len(pool) + 1)
        /\ \A p \in DOMAIN pool : pool'[p] = pool[p]
        /\ pool'[Len(pool) + 1] = value
    BY <2>1, Lists, AppendToList DEF IInv
  <2>6. \A p \in DOMAIN pool' : pool'[p].id \in Ids(draft'.graph)
    BY <2>1, <2>4, <2>5 DEF IInv, PoolInDraft
  <2> QED
    BY <1>2, <2>1, <2>5, <2>6 DEF IInv, PoolInDraft, Drawn
<1> QED
  BY <1>1, <1>2

\* So does a value that one call appends.
LEMMA CallDrawnKeeps ==
  ASSUME IInv, NEW node, node.op # "Input", NEW shape, Drawn(Called(draft, node), shape)
  PROVE  IInv'
BY CallKeepsNames, DrawnKeeps DEF IInv

\* A matrix product appends its right leaf, or both, and itself.
LEMMA ProductKeeps ==
  ASSUME IInv, NEW d, Named(d), d = draft \/ Beyond(draft, d),
         NEW left, NEW n, NEW isInput \in BOOLEAN, Product(d, left, n, isInput)
  PROVE  IInv'
<1> DEFINE right == Leaf(d, <<left.shape[2], n>>, isInput)
           node  == BinaryNode("Matmul", left.id, Newest(right))
           whole == Called(right, node)
<1>1. Named(right) /\ Beyond(d, right)
  BY LeafKeepsNames
<1>2. node.op # "Input"
  BY DEF BinaryNode
<1>3. Drawn(whole, <<left.shape[1], n>>)
  BY DEF Product
<1>4. Len(draft.graph.nodes) \in Nat
  BY Lists DEF IInv, Named, Numbered
<1> HIDE DEF right, node
<1>5. Named(whole) /\ Beyond(right, whole)
  BY <1>1, <1>2, CallKeepsNames
<1> HIDE DEF whole
<1>6. Beyond(draft, right)
  BY <1>1, <1>4, BeyondAgain
<1>7. Beyond(draft, whole)
  BY <1>4, <1>5, <1>6, BeyondAgain
<1> QED
  BY <1>3, <1>5, <1>7, DrawnKeeps

\* Marking the output adds no node.
LEMMA FinishKeeps ==
  ASSUME IInv, NEW d, Named(d), d = draft \/ Beyond(draft, d), NEW output,
         Finish(d, output)
  PROVE  IInv'
<1> DEFINE marked == [d.graph EXCEPT !.outputs = Append(@, output)]
<1>1. \/ draft' = EmptyDraft /\ pool' = << >>
      \/ /\ draft' = [d EXCEPT !.graph = marked] /\ pool' = pool
         /\ d.err = "None"
  BY DEF Finish
<1>2. CASE draft' = EmptyDraft /\ pool' = << >>
  BY <1>2, EmptyKeeps DEF Finish, IInv
<1>3. CASE /\ draft' = [d EXCEPT !.graph = marked] /\ pool' = pool
           /\ d.err = "None"
  <2>1. marked.nodes = d.graph.nodes /\ marked.inputs = d.graph.inputs
    OBVIOUS
  <2> HIDE DEF marked
  <2>2. draft' = [err |-> "None", graph |-> marked, names |-> d.names]
    BY <1>3 DEF Named
  <2>3. Numbered(marked, d.names)
    BY <1>3, <2>1 DEF Named, Numbered, Ids
  <2>4. Named(draft') /\ draft'.err = "None"
    BY <2>2, <2>3 DEF Named
  <2>5. Len(draft.graph.nodes) \in Nat
    BY Lists DEF IInv, Named, Numbered
  <2>6. Ids(draft.graph) \subseteq Ids(draft'.graph)
    <3>1. draft'.graph.nodes = d.graph.nodes
      BY <2>1, <2>2
    <3>2. Len(d.graph.nodes) \in Nat /\ Len(draft.graph.nodes) <= Len(d.graph.nodes)
      BY <1>3, <2>5 DEF Beyond
    <3> QED
      BY <2>5, <3>1, <3>2 DEF Ids
  <2> QED
    BY <1>3, <2>4, <2>6 DEF IInv, PoolInDraft, Finish
<1> QED
  BY <1>1, <1>2, <1>3

-----------------------------------------------------------------------------
\* A call begins with an empty draft.
LEMMA InitIInv == Init => IInv
<1> SUFFICES ASSUME Init
             PROVE  IInv
  OBVIOUS
<1>1. IsList(<< >>) /\ Len(<< >>) = 0 /\ DOMAIN << >> = {}
  <2>1. << >> = [i \in 1 .. 0 |-> << >>[i]]
    OBVIOUS
  <2> QED
    BY <2>1 DEF IsList
<1>2. Numbered(EmptyGraph, << >>)
  BY <1>1 DEF Numbered, EmptyGraph
<1>3. Named(EmptyDraft) /\ EmptyDraft.err = "None"
  BY <1>2 DEF Named, EmptyDraft
<1>4. config.pattern \in Patterns
  BY GeneratorAssumption DEF Init
<1> QED
  BY <1>1, <1>3, <1>4 DEF Init, IInv, PoolInDraft

\* Every step of a draw keeps the names and the pool with the builder.
LEMMA StepIInv == IInv /\ [Next]_vars => IInv'
<1> SUFFICES ASSUME IInv, [Next]_vars
             PROVE  IInv'
  OBVIOUS
<1>1. CASE AppendLeaf
  <2>1. PICK shape \in AnyShapes, isInput \in BOOLEAN :
           Drawn(Leaf(draft, shape, isInput), shape)
    BY <1>1 DEF AppendLeaf
  <2> QED
    BY <2>1, LeafKeepsNames, DrawnKeeps DEF IInv
<1>2. CASE AppendBinary
  <2>1. PICK op \in {"Add", "Sub", "Mul"}, left \in Range(pool), right \in Range(pool) :
           Drawn(Called(draft, BinaryNode(op, left.id, right.id)), left.shape)
    BY <1>2 DEF AppendBinary
  <2>2. BinaryNode(op, left.id, right.id).op # "Input"
    BY DEF BinaryNode
  <2> QED
    BY <2>1, <2>2, CallDrawnKeeps
<1>3. CASE AppendUnary
  <2>1. PICK op \in UnaryOps, input \in Range(pool) :
           Drawn(Called(draft, UnaryNode(op, input.id)), input.shape)
    BY <1>3 DEF AppendUnary
  <2>2. UnaryNode(op, input.id).op # "Input"
    BY DEF UnaryNode, UnaryOps
  <2> QED
    BY <2>1, <2>2, CallDrawnKeeps
<1>4. CASE AppendMatmul
  <2>1. PICK n \in Dims, isInput \in BOOLEAN :
           \/ \E left \in Matrices : Product(draft, left, n, isInput)
           \/ \E shape \in RankShapes(2), leftIsInput \in BOOLEAN :
                 LET left == Leaf(draft, shape, leftIsInput)
                 IN  Product(left, Value(Newest(left), shape), n, isInput)
    BY <1>4 DEF AppendMatmul
  <2>2. CASE \E left \in Matrices : Product(draft, left, n, isInput)
    BY <2>2, ProductKeeps DEF IInv
  <2>3. ASSUME NEW shape \in RankShapes(2), NEW leftIsInput \in BOOLEAN,
               LET left == Leaf(draft, shape, leftIsInput)
               IN  Product(left, Value(Newest(left), shape), n, isInput)
        PROVE  IInv'
    <3> DEFINE d    == Leaf(draft, shape, leftIsInput)
               left == Value(Newest(d), shape)
    <3>1. Named(d) /\ Beyond(draft, d) /\ Product(d, left, n, isInput)
      BY <2>3, LeafKeepsNames DEF IInv
    <3> HIDE DEF d, left
    <3> QED
      BY <3>1, ProductKeeps
  <2> QED
    BY <2>1, <2>2, <2>3
<1>5. CASE AppendSum
  <2>1. PICK input \in Range(pool), keepdim \in BOOLEAN :
           \E axes \in AxisLists(input.shape) :
              Drawn(Called(draft, SumNode(input.id, axes, keepdim)),
                    SummedShape(input.shape, axes, keepdim))
    BY <1>5 DEF AppendSum
  <2>2. PICK axes \in AxisLists(input.shape) :
           Drawn(Called(draft, SumNode(input.id, axes, keepdim)),
                 SummedShape(input.shape, axes, keepdim))
    BY <2>1
  <2>3. SumNode(input.id, axes, keepdim).op # "Input"
    BY DEF SumNode
  <2> QED
    BY <2>2, <2>3, CallDrawnKeeps
<1>6. CASE AppendReshape
  <2>1. PICK input \in Range(pool) :
           \E shape \in ReshapeShapes(input.shape) :
              Drawn(Called(draft, ReshapeNode(input.id, shape)), shape)
    BY <1>6 DEF AppendReshape
  <2>2. PICK shape \in ReshapeShapes(input.shape) :
           Drawn(Called(draft, ReshapeNode(input.id, shape)), shape)
    BY <2>1
  <2>3. ReshapeNode(input.id, shape).op # "Input"
    BY DEF ReshapeNode
  <2> QED
    BY <2>2, <2>3, CallDrawnKeeps
<1>7. CASE FinishAnywhere
  <2>1. PICK output \in Range(pool) : Finish(draft, output.id)
    BY <1>7 DEF FinishAnywhere
  <2> QED
    BY <2>1, FinishKeeps DEF IInv
<1>8. CASE FinishWithPattern
  <2>1. PICK value \in Range(pool) :
           \E outer, inner \in PatternOps(value) :
              LET twice == Twice(draft, outer, inner, value.id)
              IN  Finish(twice, Newest(twice))
    BY <1>8 DEF FinishWithPattern
  <2>2. PICK outer \in PatternOps(value), inner \in PatternOps(value) :
           LET twice == Twice(draft, outer, inner, value.id)
           IN  Finish(twice, Newest(twice))
    BY <2>1
  <2> DEFINE one   == Applied(inner, value.id)
             first == Called(draft, one)
             two   == Applied(outer, Newest(first))
             twice == Called(first, two)
  <2>3. Finish(twice, Newest(twice))
    BY <2>2 DEF Twice
  <2>4. one.op # "Input" /\ two.op # "Input"
    BY <1>8 DEF PatternOps, Patterns, IInv, FinishWithPattern, Applied
  <2>5. Len(draft.graph.nodes) \in Nat
    BY Lists DEF IInv, Named, Numbered
  <2> HIDE DEF one
  <2>6. Named(first) /\ Beyond(draft, first)
    BY <2>4, CallKeepsNames DEF IInv
  <2> HIDE DEF two, first
  <2>7. Named(twice) /\ Beyond(first, twice)
    BY <2>4, <2>6, CallKeepsNames
  <2> HIDE DEF twice
  <2>8. Beyond(draft, twice)
    BY <2>5, <2>6, <2>7, BeyondAgain
  <2> QED
    BY <2>3, <2>7, <2>8, FinishKeeps
<1>9. CASE UNCHANGED vars
  BY <1>9 DEF vars, IInv, PoolInDraft
<1> QED
  BY <1>1, <1>2, <1>3, <1>4, <1>5, <1>6, <1>7, <1>8, <1>9 DEF Next

\* So it is an invariant.
LEMMA Inductive == Spec => []IInv
BY InitIInv, StepIInv, PTL DEF Spec

-----------------------------------------------------------------------------
\* Numbered names are distinct.
LEMMA NumberedApart == IInv => NamesApart
<1> SUFFICES ASSUME IInv
             PROVE  NamesApart
  OBVIOUS
<1>1. Numbered(draft.graph, draft.names)
  BY DEF IInv, Named
<1>2. DOMAIN draft.names = 1 .. Len(draft.names) /\ Len(draft.names) \in Nat
  BY <1>1, Lists DEF Numbered
<1>3. \A k \in DOMAIN draft.names : draft.names[k] = k - 1 /\ InputName(k) = k - 1
  BY <1>1, <1>2 DEF Numbered, InputName
<1> QED
  BY <1>1, <1>2, <1>3 DEF Numbered, NamesApart

\* However many leaves a step draws and however often a graph is begun anew, the
\* names returned are those of the declared inputs, and no two share one.
THEOREM InputsNamedApart == Spec => []NamesApart
BY Inductive, NumberedApart, PTL

\* No builder call of the generator is refused for an operand: what it draws
\* operands from are nodes of the graph at hand.
THEOREM PoolKeepsToTheDraft == Spec => []PoolInDraft
BY Inductive, PTL DEF IInv

-----------------------------------------------------------------------------
(* The shapes that the generator tracks are those that inference finds.     *)

\* sum_output_shape of the generator filters as infer_types does.
LEMMA SummedIsReduced ==
  ASSUME NEW shape \in Seq(Nat), NEW axes, NEW keepdim \in BOOLEAN
  PROVE  SummedShape(shape, axes, keepdim) = ReducedShape(shape, axes, keepdim)
BY SumShapeIsReduced DEF SummedShape, SumOutputShape

\* Every shape drawn for a reshape has the elements of the value reshaped, or one
\* if those cannot be counted.
LEMMA ReshapeShapesFit ==
  ASSUME NEW shape \in Seq(Nat), NEW new \in ReshapeShapes(shape)
  PROVE  /\ new \in Seq(Nat)
         /\ Numel(new) = IF Numel(shape) = Overflow THEN 1 ELSE Numel(shape)
<1> DEFINE n == IF Numel(shape) = Overflow THEN 1 ELSE Numel(shape)
<1>1. n \in 0 .. MaxUsize /\ n \in Nat
  BY NumelFits, MaxUsizeAssumption
<1>2. \/ new = <<n>>
      \/ \E d \in {e \in 1 .. n : n % e = 0} : new = <<d, n \div d>>
  BY DEF ReshapeShapes
<1> HIDE DEF n
<1>3. CASE new = <<n>>
  <2>1. <<n>> \in Seq(Nat)
    BY <1>1
  <2> QED
    BY <1>1, <1>3, <2>1, NumelOfOne DEF n
<1>4. ASSUME NEW d \in {e \in 1 .. n : n % e = 0}, new = <<d, n \div d>>
      PROVE  /\ new \in Seq(Nat)
             /\ Numel(new) = n
  <2>1. d \in 1 .. n /\ n % d = 0 /\ d \in Nat /\ d <= MaxUsize
    BY <1>1, MaxUsizeAssumption
  <2>2. n \div d \in Nat /\ d * (n \div d) = n
    BY <1>1, <2>1
  <2> DEFINE m == n \div d
  <2>3. m \in Nat /\ d * m <= MaxUsize
    BY <1>1, <2>2
  <2> HIDE DEF m
  <2>4. <<d, m>> \in Seq(Nat)
    BY <2>1, <2>3
  <2>5. Numel(<<d, m>>) = d * m
    BY <2>1, <2>3, NumelOfTwo
  <2> QED
    BY <1>4, <2>2, <2>4, <2>5 DEF m
<1> QED
  BY <1>2, <1>3, <1>4 DEF n

\* The types of values, as the pool tracks them.
TypesOf(values, types) ==
  \A v \in values : v.id \in DOMAIN types /\ types[v.id] = TypeOf(DType, v.shape)

\* Whatever else is in the graph: inference finds the shape tracked for a node, or
\* an element count that cannot be counted, where that is excused.
Gives(node, values, shape, excused) ==
  \A types : TypesOf(values, types) =>
     \/ InferNode(node, types) = TypeOf(DType, shape)
     \/ InferNode(node, types).err = "ShapeOverflow" /\ excused

\* An input or a constant gives the shape it is drawn with.
LEMMA LeafGives ==
  ASSUME NEW values, NEW shape, NEW excused, NEW name, NEW data
  PROVE  /\ Gives(InputNode(name, DType, shape), values, shape, excused)
         /\ Gives(ConstNode(DType, shape, data), values, shape, excused)
<1>1. ASSUME NEW node, NEW types, node.op \in {"Input", "Const"}, node.args = << >>,
             node.attr.dtype = DType, node.attr.shape = shape
      PROVE  InferNode(node, types) = TypeOf(DType, shape)
  <2>1. ~ \E k \in DOMAIN node.args : node.args[k] \notin DOMAIN types
    BY <1>1
  <2> QED
    BY <1>1, <2>1 DEF InferNode, UnaryOps
<1>2. ASSUME NEW types
      PROVE  InferNode(InputNode(name, DType, shape), types) = TypeOf(DType, shape)
  BY <1>1 DEF InputNode
<1>3. ASSUME NEW types
      PROVE  InferNode(ConstNode(DType, shape, data), types) = TypeOf(DType, shape)
  BY <1>1 DEF ConstNode
<1> QED
  BY <1>2, <1>3 DEF Gives

\* The parts of a drawn type.
LEMMA TypeParts ==
  ASSUME NEW shape
  PROVE  /\ TypeOf(DType, shape).shape = shape
         /\ TypeOf(DType, shape).dtype = DType
         /\ IsNumeric(DType)
BY DEF TypeOf, IsNumeric, DType

\* A binary operation on values of one shape gives that shape.
LEMMA BinaryGives ==
  ASSUME NEW values, NEW left \in values, NEW right \in values, NEW excused,
         right.shape = left.shape, NEW op \in {"Add", "Sub", "Mul"}
  PROVE  Gives(BinaryNode(op, left.id, right.id), values, left.shape, excused)
<1> SUFFICES ASSUME NEW types, TypesOf(values, types)
             PROVE  InferNode(BinaryNode(op, left.id, right.id), types) =
                      TypeOf(DType, left.shape)
  BY DEF Gives
<1> DEFINE node == BinaryNode(op, left.id, right.id)
<1>1. /\ node.op = op /\ DOMAIN node.args = {1, 2}
      /\ node.args[1] = left.id /\ node.args[2] = right.id
  BY DEF BinaryNode
<1>2. /\ left.id \in DOMAIN types /\ types[left.id] = TypeOf(DType, left.shape)
      /\ right.id \in DOMAIN types /\ types[right.id] = TypeOf(DType, left.shape)
  BY DEF TypesOf
<1> HIDE DEF node
<1>3. InferNode(node, types) =
        InferElementwise(TypeOf(DType, left.shape), TypeOf(DType, left.shape))
  BY <1>1, <1>2 DEF InferNode, UnaryOps
<1> QED
  BY <1>3, TypeParts DEF node, InferElementwise

\* So does a unary one.
LEMMA UnaryGives ==
  ASSUME NEW values, NEW input \in values, NEW excused, NEW op \in UnaryOps, NEW attr
  PROVE  Gives([op |-> op, args |-> <<input.id>>, attr |-> attr],
               values, input.shape, excused)
<1> DEFINE node == [op |-> op, args |-> <<input.id>>, attr |-> attr]
<1> SUFFICES ASSUME NEW types, TypesOf(values, types)
             PROVE  InferNode(node, types) = TypeOf(DType, input.shape)
  BY DEF Gives
<1>1. node.op = op /\ DOMAIN node.args = {1} /\ node.args[1] = input.id
  OBVIOUS
<1>2. input.id \in DOMAIN types /\ types[input.id] = TypeOf(DType, input.shape)
  BY DEF TypesOf
<1> HIDE DEF node
<1>3. InferNode(node, types) = InferUnary(TypeOf(DType, input.shape))
  BY <1>1, <1>2 DEF InferNode, UnaryOps
<1> QED
  BY <1>3, TypeParts DEF InferUnary

\* A product gives the outer dimensions.
LEMMA MatmulGives ==
  ASSUME NEW values, NEW left \in values, NEW right \in values, NEW excused,
         NEW a, NEW b, NEW n, left.shape = <<a, b>>, right.shape = <<b, n>>
  PROVE  Gives(BinaryNode("Matmul", left.id, right.id), values, <<a, n>>, excused)
<1> SUFFICES ASSUME NEW types, TypesOf(values, types)
             PROVE  InferNode(BinaryNode("Matmul", left.id, right.id), types) =
                      TypeOf(DType, <<a, n>>)
  BY DEF Gives
<1> DEFINE node == BinaryNode("Matmul", left.id, right.id)
           l == TypeOf(DType, <<a, b>>)
           r == TypeOf(DType, <<b, n>>)
<1>1. /\ node.op = "Matmul" /\ DOMAIN node.args = {1, 2}
      /\ node.args[1] = left.id /\ node.args[2] = right.id
  BY DEF BinaryNode
<1>2. /\ left.id \in DOMAIN types /\ types[left.id] = l
      /\ right.id \in DOMAIN types /\ types[right.id] = r
  BY DEF TypesOf
<1>3. /\ l.shape = <<a, b>> /\ l.dtype = DType
      /\ r.shape = <<b, n>> /\ r.dtype = DType
  BY TypeParts
<1> HIDE DEF node, l, r
<1>4. InferNode(node, types) = InferMatmul(l, r)
  BY <1>1, <1>2 DEF InferNode, UnaryOps
<1>5. InferMatmul(l, r) = TypeOf(DType, <<l.shape[1], r.shape[2]>>)
  BY <1>3, TypeParts DEF InferMatmul
<1> QED
  BY <1>3, <1>4, <1>5 DEF node

\* Drawn axes are axes of the shape, in ascending order.
LEMMA AxesAscend ==
  ASSUME NEW shape \in Seq(Nat), NEW axes \in AxisLists(shape)
  PROVE  /\ axes \in Seq(Nat)
         /\ \A k \in DOMAIN axes : axes[k] \in DOMAIN shape
         /\ \A j, k \in DOMAIN axes : j < k => axes[j] < axes[k]
<1>1. PICK A \in SUBSET (DOMAIN shape) : axes = Ascending(A)
  BY DEF AxisLists
<1>2. A \in SUBSET Nat /\ IsFiniteSet(A)
  <2>1. Len(shape) \in Nat /\ DOMAIN shape = 1 .. Len(shape)
    OBVIOUS
  <2>2. IsFiniteSet(1 .. Len(shape))
    BY <2>1, FS_Interval
  <2> QED
    BY <2>1, <2>2, FS_Subset
<1>3. /\ axes \in Seq(Nat) /\ Range(axes) = A
      /\ \A j, k \in DOMAIN axes : j < k => axes[j] < axes[k]
  BY <1>1, <1>2, AscendingIncreases
<1> QED
  BY <1>3 DEF Range

\* A sum gives the shape without the axes, or with them of length one.
LEMMA SumGives ==
  ASSUME NEW values, NEW input \in values, input.shape \in Seq(Nat), NEW excused,
         NEW axes \in AxisLists(input.shape), NEW keepdim \in BOOLEAN
  PROVE  Gives(SumNode(input.id, axes, keepdim), values,
               SummedShape(input.shape, axes, keepdim), excused)
<1> DEFINE node == SumNode(input.id, axes, keepdim)
           shape == input.shape
<1> SUFFICES ASSUME NEW types, TypesOf(values, types)
             PROVE  InferNode(node, types) =
                      TypeOf(DType, SummedShape(shape, axes, keepdim))
  BY DEF Gives
<1>1. /\ node.op = "Sum" /\ DOMAIN node.args = {1} /\ node.args[1] = input.id
      /\ node.attr.axes = axes /\ node.attr.keepdim = keepdim
  BY DEF SumNode
<1>2. input.id \in DOMAIN types /\ types[input.id] = TypeOf(DType, shape)
  BY DEF TypesOf
<1> HIDE DEF node
<1>3. InferNode(node, types) = InferSum(TypeOf(DType, shape), axes, keepdim)
  BY <1>1, <1>2 DEF InferNode, UnaryOps
<1>4. /\ axes \in Seq(Nat)
      /\ \A j, k \in DOMAIN axes : j < k => axes[j] < axes[k]
      /\ \A k \in DOMAIN axes : axes[k] \in DOMAIN shape
  BY AxesAscend
<1>5. \A k \in DOMAIN axes : \A j \in 1 .. (k - 1) : axes[j] # axes[k]
  <2> SUFFICES ASSUME NEW k \in DOMAIN axes, NEW j \in 1 .. (k - 1)
               PROVE  axes[j] # axes[k]
    OBVIOUS
  <2>1. j \in DOMAIN axes /\ j < k
    BY <1>4
  <2>2. axes[j] \in Nat /\ axes[k] \in Nat
    BY <1>4, <2>1, SMTT(30)
  <2> QED
    BY <1>4, <2>1, <2>2
<1> DEFINE bad == {k \in DOMAIN axes : \/ axes[k] \notin DOMAIN shape
                                       \/ \E j \in 1 .. (k - 1) : axes[j] = axes[k]}
<1>6. bad = {}
  BY <1>4, <1>5
<1>7. InferSum(TypeOf(DType, shape), axes, keepdim) =
         TypeOf(DType, ReducedShape(shape, axes, keepdim))
  BY <1>6, TypeParts DEF InferSum
<1> QED
  BY <1>3, <1>7, SummedIsReduced

\* A reshape to as many elements gives the shape it asks for.
LEMMA ReshapeGives ==
  ASSUME NEW values, NEW input \in values, NEW excused, NEW shape \in Seq(Nat),
         Numel(input.shape) = Overflow => excused,
         Numel(input.shape) # Overflow => Numel(shape) = Numel(input.shape)
  PROVE  Gives(ReshapeNode(input.id, shape), values, shape, excused)
<1> DEFINE node == ReshapeNode(input.id, shape)
           t == TypeOf(DType, input.shape)
<1> SUFFICES ASSUME NEW types, TypesOf(values, types)
             PROVE  \/ InferNode(node, types) = TypeOf(DType, shape)
                    \/ InferNode(node, types).err = "ShapeOverflow" /\ excused
  BY DEF Gives
<1>1. /\ node.op = "Reshape" /\ DOMAIN node.args = {1} /\ node.args[1] = input.id
      /\ node.attr.shape = shape
  BY DEF ReshapeNode
<1>2. input.id \in DOMAIN types /\ types[input.id] = t
  BY DEF TypesOf
<1>3. t.shape = input.shape /\ t.dtype = DType
  BY TypeParts
<1> HIDE DEF node, t
<1>4. InferNode(node, types) = InferReshape(t, shape)
  BY <1>1, <1>2 DEF InferNode, UnaryOps
<1>5. CASE Numel(input.shape) = Overflow
  BY <1>3, <1>4, <1>5 DEF InferReshape, TypeErr
<1>6. CASE Numel(input.shape) # Overflow
  BY <1>3, <1>4, <1>6 DEF InferReshape
<1> QED
  BY <1>5, <1>6

-----------------------------------------------------------------------------
(* The whole draw.                                                          *)

Inferred(g) == Inferences(g)[Len(g.nodes)]

\* What is inferred of a graph has the shapes tracked for values of it, or stops
\* at an element count that cannot be counted, where that is excused.
Tracked(g, values, excused) ==
  /\ IsList(g.nodes)
  /\ IsInference(Inferred(g))
  /\ Inferred(g).err = "None" =>
        /\ IsList(Inferred(g).types) /\ Len(Inferred(g).types) = Len(g.nodes)
        /\ TypesOf(values, Inferred(g).types)
  /\ Inferred(g).err # "None" => Inferred(g).err = "ShapeOverflow" /\ excused
  /\ \A v \in values : v.shape \in Seq(Nat)

\* So it is of a draft without an error.
Holds(d, values, excused) == d.err = "None" => Tracked(d.graph, values, excused)

Unsized == \E value \in Range(pool) : Numel(value.shape) = Overflow

TInv ==
  /\ config \in Configs
  /\ Tracked(draft.graph, Range(pool), Unsized)
  /\ status = "Returned" => Valid(draft.graph)

\* A draft that holds values holds fewer.
LEMMA FewerTracked ==
  ASSUME NEW d, NEW values, NEW excused, Holds(d, values, excused), NEW fewer,
         fewer \subseteq values
  PROVE  Holds(d, fewer, excused)
BY DEF Holds, Tracked, TypesOf

\* A value that a call appends is tracked with the shape that the node gives.
LEMMA CallTracks ==
  ASSUME NEW d, Named(d), NEW values, NEW excused \in BOOLEAN,
         Holds(d, values, excused), NEW node, NEW shape \in Seq(Nat),
         d.err = "None" => Gives(node, values, shape, excused)
  PROVE  LET e == Called(d, node)
         IN  Holds(e, values \cup {Value(Newest(e), shape)}, excused)
<1> DEFINE e == Called(d, node)
           g == d.graph
           h == Push(g, node)
           new == Value(Newest(e), shape)
<1>1. CASE d.err # "None" \/ EmitError(g, node) # "None"
  <2>1. e.err # "None"
    BY <1>1 DEF Called, Named
  <2> HIDE DEF e
  <2>2. Holds(e, values \cup {new}, excused)
    BY <2>1 DEF Holds
  <2> QED
    BY <2>2 DEF e, new
<1>2. CASE d.err = "None" /\ EmitError(g, node) = "None"
  <2>1. e = [err |-> "None", graph |-> h, names |-> d.names]
    BY <1>2 DEF Called, Named
  <2>2. Tracked(g, values, excused) /\ Gives(node, values, shape, excused)
    BY <1>2 DEF Holds
  <2> DEFINE old  == Inferred(g)
             next == Inferred(h)
             t    == InferNode(node, old.types)
  <2>3. next = InferNext(old, node)
    BY <2>2, PushInfers DEF Inferred, Tracked
  <2>4. next = Typed(old, t)
    BY <2>3 DEF InferNext
  <2>5. /\ h.nodes = Append(g.nodes, node)
    BY DEF Push
  <2>6. e.graph = h /\ new = Value(Len(h.nodes), shape)
    BY <2>1 DEF Newest
  <2>7. new.id = Len(h.nodes) /\ new.shape = shape
    BY <2>6 DEF Value
  <2> HIDE DEF e, g, h, new, old, next, t
  <2>8. /\ IsList(g.nodes) /\ IsList(h.nodes) /\ Len(g.nodes) \in Nat
        /\ Len(h.nodes) = Len(g.nodes) + 1
    BY <2>2, <2>5, AppendToList, Lists DEF Tracked
  <2>9. /\ IsInference(old)
        /\ old.err = "None" => /\ IsList(old.types) /\ Len(old.types) = Len(g.nodes)
                               /\ TypesOf(values, old.types)
        /\ old.err # "None" => old.err = "ShapeOverflow" /\ excused
        /\ \A v \in values : v.shape \in Seq(Nat)
    BY <2>2 DEF Tracked, old
  <2>10. /\ IsInference(next)
         /\ old.err # "None" => next = old
         /\ old.err = "None" /\ t.err # "None" =>
               next.err = t.err /\ next.types = old.types
         /\ old.err = "None" /\ t.err = "None" =>
               next.err = "None" /\ next.types = Append(old.types, t)
    BY <2>4, <2>9, TypedIs
  <2>11. \A v \in values \cup {new} : v.shape \in Seq(Nat)
    BY <2>7, <2>9
  <2>12. TypeOf(DType, shape).err = "None"
    BY DEF TypeOf
  <2>13. CASE old.err # "None"
    <3>1. Tracked(h, values \cup {new}, excused)
      BY <2>8, <2>9, <2>10, <2>11, <2>13 DEF Tracked, next
    <3> QED
      BY <2>6, <3>1 DEF Holds, e, new
  <2>14. CASE old.err = "None" /\ t.err = "ShapeOverflow" /\ excused
    <3>1. next.err = "ShapeOverflow"
      BY <2>10, <2>14
    <3>2. Tracked(h, values \cup {new}, excused)
      BY <2>8, <2>10, <2>11, <2>14, <3>1 DEF Tracked, next
    <3> QED
      BY <2>6, <3>2 DEF Holds, e, new
  <2>15. CASE old.err = "None" /\ t = TypeOf(DType, shape)
    <3> DEFINE more == Append(old.types, t)
    <3>1. next.err = "None" /\ next.types = more
      BY <2>10, <2>12, <2>15
    <3>2. IsList(old.types) /\ Len(old.types) = Len(g.nodes) /\ TypesOf(values, old.types)
      BY <2>9, <2>15
    <3>3. /\ IsList(more) /\ Len(more) = Len(g.nodes) + 1
          /\ \A i \in 1 .. Len(g.nodes) : more[i] = old.types[i]
          /\ more[Len(g.nodes) + 1] = t
      BY <3>2, AppendToList
    <3>4. DOMAIN old.types = 1 .. Len(g.nodes)
      BY <3>2, Lists
    <3> HIDE DEF more
    <3>5. DOMAIN more = 1 .. (Len(g.nodes) + 1)
      BY <3>3, Lists
    <3>6. TypesOf(values \cup {new}, more)
      <4>1. ASSUME NEW v \in values
            PROVE  v.id \in DOMAIN more /\ more[v.id] = TypeOf(DType, v.shape)
        BY <2>8, <3>2, <3>3, <3>4, <3>5 DEF TypesOf
      <4>2. new.id \in DOMAIN more /\ more[new.id] = TypeOf(DType, new.shape)
        BY <2>7, <2>8, <2>15, <3>3, <3>5
      <4> QED
        BY <4>1, <4>2 DEF TypesOf
    <3>7. Tracked(h, values \cup {new}, excused)
      BY <2>8, <2>10, <2>11, <3>1, <3>3, <3>6 DEF Tracked, next
    <3> QED
      BY <2>6, <3>7 DEF Holds, e, new
  <2>16. \/ t = TypeOf(DType, shape)
         \/ t.err = "ShapeOverflow" /\ excused
         \/ old.err # "None"
    BY <2>2, <2>9 DEF Gives, t
  <2> QED
    BY <2>13, <2>14, <2>15, <2>16
<1> QED
  BY <1>1, <1>2

\* A leaf has any shape asked for.
LEMMA LeafTracks ==
  ASSUME NEW d, Named(d), NEW values, NEW excused \in BOOLEAN,
         Holds(d, values, excused), NEW shape \in Seq(Nat), NEW isInput \in BOOLEAN
  PROVE  LET e == Leaf(d, shape, isInput)
         IN  Holds(e, values \cup {Value(Newest(e), shape)}, excused)
<1> DEFINE e == Leaf(d, shape, isInput)
<1>1. CASE ~ isInput
  <2> DEFINE node == ConstNode(DType, shape, Payload(shape))
  <2>1. e = Called(d, node)
    BY <1>1 DEF Leaf
  <2>2. Gives(node, values, shape, excused)
    BY LeafGives
  <2> HIDE DEF e, node
  <2>3. Holds(e, values \cup {Value(Newest(e), shape)}, excused)
    BY <2>1, <2>2, CallTracks
  <2> QED
    BY <2>3 DEF e
<1>2. CASE isInput
  <2> DEFINE node == InputNode(Len(d.names), DType, shape)
             c == Called(d, node)
  <2>1. e = [c EXCEPT !.names = Append(@, Len(d.names))]
    BY <1>2 DEF Leaf
  <2>2. Gives(node, values, shape, excused)
    BY LeafGives
  <2>3. c = [err |-> c.err, graph |-> c.graph, names |-> c.names]
    BY DEF Called, Named
  <2> HIDE DEF e, c, node
  <2>4. Holds(c, values \cup {Value(Newest(c), shape)}, excused)
    BY <2>2, CallTracks DEF c
  <2>5. e.err = c.err /\ e.graph = c.graph
    BY <2>1, <2>3
  <2>6. Holds(e, values \cup {Value(Newest(e), shape)}, excused)
    BY <2>4, <2>5 DEF Holds, Newest
  <2> QED
    BY <2>6 DEF e
<1> QED
  BY <1>1, <1>2

\* The empty graph holds no value.
LEMMA EmptyTracks ==
  ASSUME NEW excused
  PROVE  Tracked(EmptyGraph, {}, excused)
<1>1. EmptyGraph.nodes = << >> /\ Len(EmptyGraph.nodes) = 0
  BY DEF EmptyGraph
<1>2. IsList(<< >>) /\ Len(<< >>) = 0
  <2>1. << >> = [i \in 1 .. 0 |-> << >>[i]]
    OBVIOUS
  <2> QED
    BY <2>1 DEF IsList
<1>3. Inferred(EmptyGraph) = [err |-> "None", types |-> << >>]
  BY <1>1, NothingInferred DEF Inferred
<1>4. IsInference(Inferred(EmptyGraph))
  BY <1>3, Zenon DEF IsInference
<1>5. Inferred(EmptyGraph).err = "None" /\ Inferred(EmptyGraph).types = << >>
  BY <1>3
<1> QED
  BY <1>1, <1>2, <1>4, <1>5 DEF Tracked, TypesOf

\* A graph that is given up leaves nothing behind.
LEMMA EmptyDrawn ==
  ASSUME draft' = EmptyDraft, pool' = << >>, config' \in Configs, status' = "Drawing"
  PROVE  TInv'
<1>1. Range(<< >>) = {}
  BY DEF Range
<1>2. draft'.graph = EmptyGraph
  BY DEF EmptyDraft
<1>3. Tracked(draft'.graph, Range(pool'), Unsized')
  BY <1>1, <1>2, EmptyTracks
<1> QED
  BY <1>3 DEF TInv

\* The values of the pool are values with nodes of the draft.
LEMMA PoolGrows ==
  ASSUME IsList(pool), NEW value, pool' = Append(pool, value)
  PROVE  Range(pool') = Range(pool) \cup {value}
<1>1. /\ IsList(pool') /\ Len(pool) \in Nat
      /\ DOMAIN pool = 1 .. Len(pool) /\ DOMAIN pool' = 1 .. (Len(pool) + 1)
      /\ \A p \in DOMAIN pool : pool'[p] = pool[p]
      /\ pool'[Len(pool) + 1] = value
  BY Lists, AppendToList
<1>2. 1 .. (Len(pool) + 1) = (1 .. Len(pool)) \cup {Len(pool) + 1}
  BY <1>1
<1>3. Range(pool') = {pool'[p] : p \in 1 .. Len(pool)} \cup {pool'[Len(pool) + 1]}
  BY <1>1, <1>2 DEF Range
<1>4. {pool'[p] : p \in 1 .. Len(pool)} = {pool[p] : p \in 1 .. Len(pool)}
  BY <1>1
<1> QED
  BY <1>1, <1>3, <1>4 DEF Range

\* A draw whose newest node has the drawn shape keeps the pool tracked.
LEMMA DrawnTracks ==
  ASSUME IInv, TInv, status = "Drawing", NEW e, NEW shape,
         Holds(e, Range(pool) \cup {Value(Newest(e), shape)}, Unsized),
         Drawn(e, shape)
  PROVE  TInv'
<1>1. CASE e.err # "None"
  BY <1>1, EmptyDrawn DEF Drawn, TInv
<1>2. CASE e.err = "None"
  <2> DEFINE value == Value(Newest(e), shape)
             values == Range(pool) \cup {value}
  <2>1. draft' = e /\ pool' = Append(pool, value)
    BY <1>2 DEF Drawn
  <2>2. Tracked(e.graph, values, Unsized)
    BY <1>2 DEF Holds
  <2> HIDE DEF value
  <2>3. Range(pool') = values
    BY <2>1, PoolGrows DEF IInv
  <2>4. Unsized => Unsized'
    BY <2>3 DEF Unsized
  <2>5. Tracked(draft'.graph, Range(pool'), Unsized')
    BY <2>1, <2>2, <2>3, <2>4 DEF Tracked
  <2> QED
    BY <1>2, <2>5 DEF TInv, Drawn
<1> QED
  BY <1>1, <1>2

\* Marking the output changes nothing that is inferred.
LEMMA FinishTracks ==
  ASSUME TInv, NEW d, Named(d), Holds(d, Range(pool), Unsized), NEW output,
         Finish(d, output)
  PROVE  TInv'
<1> DEFINE marked == [d.graph EXCEPT !.outputs = Append(@, output)]
           built  == d.err = "None" /\ StructureError(marked) = "None"
<1>1. CASE ~ built
  <2>1. draft' = EmptyDraft /\ pool' = << >> /\ status' = "Drawing" /\ config' = config
    BY <1>1 DEF Finish
  <2> QED
    BY <2>1, EmptyDrawn DEF TInv
<1>2. CASE built
  <2>1. /\ draft' = [d EXCEPT !.graph = marked] /\ pool' = pool
        /\ config' = config
    BY <1>2 DEF Finish
  <2>2. marked.nodes = d.graph.nodes /\ d.err = "None" /\ StructureError(marked) = "None"
    BY <1>2
  <2> HIDE DEF marked, built
  <2>3. draft'.graph = marked
    BY <2>1 DEF Named
  <2>4. Tracked(d.graph, Range(pool), Unsized)
    BY <2>2 DEF Holds
  <2>5. Len(marked.nodes) \in Nat /\ Len(d.graph.nodes) \in Nat
    BY <2>2, <2>4, Lists DEF Tracked
  <2>6. Inferred(marked) = Inferred(d.graph)
    <3> DEFINE N == Len(marked.nodes)
    <3>1. N = Len(d.graph.nodes) /\ N \in Nat
      BY <2>2, <2>5
    <3>2. Inferences(marked)[N] = Inferences(d.graph)[N]
      <4>1. \A i \in 1 .. N : marked.nodes[i] = d.graph.nodes[i]
        BY <2>2
      <4>2. N <= Len(marked.nodes) /\ N <= Len(d.graph.nodes)
        BY <3>1
      <4> HIDE DEF N
      <4> QED
        BY <2>5, <3>1, <4>1, <4>2, SameInferences, ZenonT(30)
    <3> QED
      BY <3>1, <3>2 DEF Inferred
  <2>7. Tracked(marked, Range(pool), Unsized)
    BY <2>2, <2>4, <2>6 DEF Tracked
  <2>8. Valid(marked)
    BY <2>2, <2>5, StructureErrorNamed
  <2>9. Unsized' = Unsized
    BY <2>1 DEF Unsized
  <2> QED
    BY <2>1, <2>3, <2>7, <2>8, <2>9 DEF TInv
<1> QED
  BY <1>1, <1>2

\* Both operands of a product are values of the draft, drawn for it or before.
LEMMA ProductTracks ==
  ASSUME IInv, TInv, status = "Drawing", NEW d, Named(d), NEW values,
         Range(pool) \subseteq values, Holds(d, values, Unsized),
         NEW left \in values, left.shape \in Seq(Nat), Len(left.shape) = 2,
         NEW n \in Nat, NEW isInput \in BOOLEAN, Product(d, left, n, isInput)
  PROVE  TInv'
<1> DEFINE shape == <<left.shape[2], n>>
           right == Leaf(d, shape, isInput)
           new   == Value(Newest(right), shape)
           more  == values \cup {new}
           node  == BinaryNode("Matmul", left.id, Newest(right))
           whole == Called(right, node)
           out   == <<left.shape[1], n>>
<1>1. /\ left.shape = <<left.shape[1], left.shape[2]>>
      /\ left.shape[1] \in Nat /\ left.shape[2] \in Nat
  OBVIOUS
<1>2. shape \in Seq(Nat) /\ out \in Seq(Nat)
  BY <1>1
<1>3. Unsized \in BOOLEAN
  BY DEF Unsized
<1>4. Named(right)
  BY LeafKeepsNames
<1> HIDE DEF shape
<1>5. Holds(right, more, Unsized)
  BY <1>2, <1>3, LeafTracks
<1>6. new.id = Newest(right) /\ new.shape = shape
  BY DEF Value
<1>7. Gives(node, more, out, Unsized)
  <2>1. new \in more /\ left \in more
    OBVIOUS
  <2>2. new.shape = <<left.shape[2], n>>
    BY <1>6 DEF shape
  <2>3. Gives(BinaryNode("Matmul", left.id, new.id), more, out, Unsized)
    <3> HIDE DEF new, more
    <3> QED
      BY <1>1, <2>1, <2>2, MatmulGives
  <2> QED
    BY <1>6, <2>3
<1> HIDE DEF new, right
<1>8. Holds(whole, more \cup {Value(Newest(whole), out)}, Unsized)
  <2> HIDE DEF node, more, out
  <2> QED
    BY <1>2, <1>3, <1>4, <1>5, <1>7, CallTracks
<1>9. Holds(whole, Range(pool) \cup {Value(Newest(whole), out)}, Unsized)
  <2>1. Range(pool) \cup {Value(Newest(whole), out)} \subseteq more \cup {Value(Newest(whole), out)}
    OBVIOUS
  <2> HIDE DEF whole, more, out
  <2> QED
    BY <1>8, <2>1, FewerTracked
<1>10. Drawn(whole, out)
  BY DEF Product, right, shape
<1> HIDE DEF whole, out
<1> QED
  BY <1>9, <1>10, DrawnTracks

\* The shapes drawn from are shapes.
LEMMA ShapesDrawn ==
  ASSUME config \in Configs
  PROVE  /\ Dims \subseteq Nat /\ config.pattern \in Patterns
         /\ \A rank \in Nat : RankShapes(rank) \subseteq Seq(Nat)
         /\ AnyShapes \subseteq Seq(Nat)
<1>1. config.max_dim \in Nat /\ config.pattern \in Patterns
  BY GeneratorAssumption
<1>2. Dims \subseteq Nat
  BY <1>1 DEF Dims
<1>3. ASSUME NEW rank \in Nat
      PROVE  RankShapes(rank) \subseteq Seq(Nat)
  <2>1. ASSUME NEW shape \in RankShapes(rank)
        PROVE  shape \in [1 .. rank -> Nat]
    BY <1>2 DEF RankShapes
  <2> QED
    BY <2>1
<1>4. \A rank \in 1 .. MAX_RANK : rank \in Nat
  BY GeneratorAssumption
<1> QED
  BY <1>1, <1>2, <1>3, <1>4 DEF AnyShapes

\* Nothing is tracked at first.
LEMMA InitTInv == Init => TInv
<1> SUFFICES ASSUME Init
             PROVE  TInv
  OBVIOUS
<1>1. Range(<< >>) = {}
  BY DEF Range
<1>2. draft.graph = EmptyGraph /\ Range(pool) = {}
  BY <1>1 DEF Init, EmptyDraft
<1>3. Tracked(draft.graph, Range(pool), Unsized)
  BY <1>2, EmptyTracks
<1> QED
  BY <1>3 DEF Init, TInv

\* A pattern is laid over a value of the pool: its inner node has a shape that the
\* outer node finds fit.
LEMMA PatternTracks ==
  ASSUME IInv, TInv, FinishWithPattern
  PROVE  TInv'
<1>1. PICK value \in Range(pool) :
         \E outer, inner \in PatternOps(value) :
            LET twice == Twice(draft, outer, inner, value.id)
            IN  Finish(twice, Newest(twice))
  BY DEF FinishWithPattern
<1>2. PICK outer \in PatternOps(value), inner \in PatternOps(value) :
         LET twice == Twice(draft, outer, inner, value.id)
         IN  Finish(twice, Newest(twice))
  BY <1>1
<1> DEFINE values == Range(pool)
           one   == Applied(inner, value.id)
           first == Called(draft, one)
           two   == Applied(outer, Newest(first))
           twice == Called(first, two)
           s1    == IF config.pattern = "ReshapeReshape" THEN inner.attr.shape ELSE value.shape
           s2    == IF config.pattern = "ReshapeReshape" THEN outer.attr.shape ELSE value.shape
           mid   == Value(Newest(first), s1)
           more  == values \cup {mid}
<1>3. Finish(twice, Newest(twice))
  BY <1>2 DEF Twice
<1>4. /\ Named(draft) /\ Holds(draft, values, Unsized) /\ Unsized \in BOOLEAN
      /\ value.shape \in Seq(Nat)
      /\ Numel(value.shape) = Overflow => Unsized
  BY DEF IInv, TInv, Holds, Tracked, Unsized
<1>5. config.pattern \in {"NegNeg", "ReluRelu", "ReshapeReshape"}
  BY ShapesDrawn DEF TInv, FinishWithPattern, Patterns
<1>6. mid.id = Newest(first) /\ mid.shape = s1
  BY DEF Value
<1>7. ASSUME config.pattern # "ReshapeReshape"
      PROVE  /\ one = [op |-> inner.op, args |-> <<value.id>>, attr |-> inner.attr]
             /\ two = [op |-> outer.op, args |-> <<Newest(first)>>, attr |-> outer.attr]
             /\ inner.op \in UnaryOps /\ outer.op \in UnaryOps
  <2>1. inner.op \in UnaryOps /\ outer.op \in UnaryOps
    BY <1>5, <1>7 DEF PatternOps, UnaryOps
  <2> QED
    BY <2>1 DEF Applied
<1>8. ASSUME config.pattern = "ReshapeReshape"
      PROVE  /\ one = ReshapeNode(value.id, inner.attr.shape)
             /\ two = ReshapeNode(Newest(first), outer.attr.shape)
             /\ inner.attr.shape \in ReshapeShapes(value.shape)
             /\ outer.attr.shape \in ReshapeShapes(value.shape)
  <2>1. PatternOps(value) = {[op |-> "Reshape", attr |-> [shape |-> shape]] :
                               shape \in ReshapeShapes(value.shape)}
    BY <1>8 DEF PatternOps
  <2>2. PICK p \in ReshapeShapes(value.shape) :
           inner = [op |-> "Reshape", attr |-> [shape |-> p]]
    BY <2>1
  <2>3. PICK q \in ReshapeShapes(value.shape) :
           outer = [op |-> "Reshape", attr |-> [shape |-> q]]
    BY <2>1
  <2>4. inner.op = "Reshape" /\ inner.attr = [shape |-> p] /\ inner.attr.shape = p
    BY <2>2
  <2>5. outer.op = "Reshape" /\ outer.attr = [shape |-> q] /\ outer.attr.shape = q
    BY <2>3
  <2> HIDE DEF first
  <2> QED
    BY <2>4, <2>5 DEF Applied, ReshapeNode
<1> HIDE DEF one
<1>9. /\ s1 \in Seq(Nat) /\ s2 \in Seq(Nat)
      /\ Gives(one, values, s1, Unsized)
  <2>1. CASE config.pattern = "ReshapeReshape"
    <3>1. /\ s1 \in Seq(Nat) /\ s2 \in Seq(Nat)
          /\ Numel(value.shape) # Overflow => Numel(s1) = Numel(value.shape)
      BY <1>4, <1>8, <2>1, ReshapeShapesFit
    <3>2. one = ReshapeNode(value.id, s1)
      BY <1>8, <2>1
    <3> HIDE DEF s1, s2
    <3> QED
      BY <1>4, <3>1, <3>2, ReshapeGives
  <2>2. CASE config.pattern # "ReshapeReshape"
    BY <1>4, <1>7, <2>2, UnaryGives
  <2> QED
    BY <2>1, <2>2
<1> HIDE DEF mid, first
<1>10. Holds(first, more, Unsized) /\ Named(first)
  <2>1. Named(first)
    <3>1. one.op # "Input"
      BY <1>5, <1>7, <1>8 DEF ReshapeNode, UnaryOps
    <3> QED
      BY <1>4, <3>1, CallKeepsNames DEF first
  <2>2. Holds(first, values \cup {Value(Newest(first), s1)}, Unsized)
    <3> HIDE DEF s1, values
    <3> QED
      BY <1>4, <1>9, CallTracks DEF first
  <2> QED
    BY <2>1, <2>2 DEF mid
<1>11. Gives(two, more, s2, Unsized)
  <2>1. mid \in more
    OBVIOUS
  <2>2. CASE config.pattern = "ReshapeReshape"
    <3>1. two = ReshapeNode(mid.id, s2)
      BY <1>6, <1>8, <2>2
    <3>2. /\ Numel(s2) = Numel(s1) /\ Numel(s1) # Overflow
      <4>1. \A s \in {s1, s2} :
               Numel(s) = IF Numel(value.shape) = Overflow THEN 1 ELSE Numel(value.shape)
        BY <1>4, <1>8, <2>2, ReshapeShapesFit
      <4>2. 1 # Overflow
        BY DEF Overflow
      <4> QED
        BY <4>1, <4>2
    <3> HIDE DEF s1, s2, more, two
    <3> QED
      BY <1>6, <1>9, <2>1, <3>1, <3>2, ReshapeGives
  <2>3. CASE config.pattern # "ReshapeReshape"
    <3>1. /\ two = [op |-> outer.op, args |-> <<mid.id>>, attr |-> outer.attr]
          /\ outer.op \in UnaryOps
      BY <1>6, <1>7, <2>3
    <3>2. s2 = mid.shape
      BY <1>6, <2>3
    <3> HIDE DEF s2, more, two
    <3> QED
      BY <2>1, <3>1, <3>2, UnaryGives
  <2> QED
    BY <2>2, <2>3
<1> DEFINE last == Value(Newest(twice), s2)
<1>12. Holds(twice, more \cup {last}, Unsized)
  <2> HIDE DEF two, more, s2
  <2> QED
    BY <1>4, <1>9, <1>10, <1>11, CallTracks
<1>13. Holds(twice, values, Unsized)
  <2>1. values \subseteq more \cup {last}
    OBVIOUS
  <2> HIDE DEF twice, values, more, last
  <2> QED
    BY <1>12, <2>1, FewerTracked
<1>14. Named(twice)
  <2>1. two.op # "Input"
    BY <1>5, <1>7, <1>8 DEF ReshapeNode, UnaryOps
  <2> HIDE DEF two
  <2> QED
    BY <1>10, <2>1, CallKeepsNames
<1> HIDE DEF twice
<1> QED
  BY <1>3, <1>13, <1>14, FinishTracks

\* Every step of a draw gives a value the shape that inference finds.
LEMMA StepTInv == IInv /\ TInv /\ [Next]_vars => TInv'
<1> SUFFICES ASSUME IInv, TInv, [Next]_vars
             PROVE  TInv'
  OBVIOUS
<1> DEFINE values == Range(pool)
<1>1. /\ Named(draft) /\ Holds(draft, values, Unsized) /\ Unsized \in BOOLEAN
      /\ \A v \in values : v.shape \in Seq(Nat)
  BY DEF IInv, TInv, Holds, Tracked, Unsized
<1>2. /\ Dims \subseteq Nat
      /\ \A rank \in Nat : RankShapes(rank) \subseteq Seq(Nat)
      /\ AnyShapes \subseteq Seq(Nat)
  BY ShapesDrawn DEF TInv
\* One call draws one value.
<1>3. ASSUME status = "Drawing", NEW node, NEW shape \in Seq(Nat),
             Gives(node, values, shape, Unsized), Drawn(Called(draft, node), shape)
      PROVE  TInv'
  <2> DEFINE e == Called(draft, node)
  <2>1. Holds(e, values \cup {Value(Newest(e), shape)}, Unsized)
    <3> HIDE DEF values
    <3> QED
      BY <1>1, <1>3, CallTracks
  <2> HIDE DEF e
  <2>2. Drawn(e, shape)
    BY <1>3 DEF e
  <2> QED
    BY <1>3, <2>1, <2>2, DrawnTracks
<1>4. CASE AppendLeaf
  <2>1. PICK shape \in AnyShapes, isInput \in BOOLEAN :
           Drawn(Leaf(draft, shape, isInput), shape)
    BY <1>4 DEF AppendLeaf
  <2> DEFINE e == Leaf(draft, shape, isInput)
  <2>2. Holds(e, values \cup {Value(Newest(e), shape)}, Unsized)
    <3> HIDE DEF values
    <3> QED
      BY <1>1, <1>2, LeafTracks
  <2>3. Drawn(e, shape) /\ status = "Drawing"
    BY <1>4, <2>1 DEF AppendLeaf
  <2> HIDE DEF e
  <2> QED
    BY <2>2, <2>3, DrawnTracks
<1>5. CASE AppendBinary
  <2>1. PICK op \in {"Add", "Sub", "Mul"}, left \in values, right \in values :
           /\ right.shape = left.shape
           /\ Drawn(Called(draft, BinaryNode(op, left.id, right.id)), left.shape)
    BY <1>5 DEF AppendBinary
  <2>2. Gives(BinaryNode(op, left.id, right.id), values, left.shape, Unsized)
    <3> HIDE DEF values
    <3> QED
      BY <2>1, BinaryGives
  <2> QED
    BY <1>1, <1>3, <1>5, <2>1, <2>2 DEF AppendBinary, Operation
<1>6. CASE AppendUnary
  <2>1. PICK op \in UnaryOps, input \in values :
           Drawn(Called(draft, UnaryNode(op, input.id)), input.shape)
    BY <1>6 DEF AppendUnary
  <2>2. Gives(UnaryNode(op, input.id), values, input.shape, Unsized)
    <3> HIDE DEF values
    <3> QED
      BY <2>1, UnaryGives DEF UnaryNode
  <2> QED
    BY <1>1, <1>3, <1>6, <2>1, <2>2 DEF AppendUnary, Operation
<1>7. CASE AppendMatmul
  <2>1. /\ status = "Drawing"
        /\ RankShapes(2) \subseteq Seq(Nat)
        /\ \E n \in Nat, isInput \in BOOLEAN :
              \/ \E left \in Matrices : Product(draft, left, n, isInput)
              \/ \E shape \in RankShapes(2), leftIsInput \in BOOLEAN :
                    LET left == Leaf(draft, shape, leftIsInput)
                    IN  Product(left, Value(Newest(left), shape), n, isInput)
    BY <1>2, <1>7 DEF AppendMatmul, Operation
  <2>2. PICK n \in Nat, isInput \in BOOLEAN :
              \/ \E left \in Matrices : Product(draft, left, n, isInput)
              \/ \E shape \in RankShapes(2), leftIsInput \in BOOLEAN :
                    LET left == Leaf(draft, shape, leftIsInput)
                    IN  Product(left, Value(Newest(left), shape), n, isInput)
    BY <2>1
  <2>3. ASSUME NEW left \in Matrices, Product(draft, left, n, isInput)
        PROVE  TInv'
    <3>1. left \in values /\ left.shape \in Seq(Nat) /\ Len(left.shape) = 2
      BY <1>1 DEF Matrices
    <3> QED
      BY <1>1, <2>1, <2>3, <3>1, ProductTracks
  <2>4. ASSUME NEW shape \in RankShapes(2), NEW leftIsInput \in BOOLEAN,
               LET left == Leaf(draft, shape, leftIsInput)
               IN  Product(left, Value(Newest(left), shape), n, isInput)
        PROVE  TInv'
    <3> DEFINE d    == Leaf(draft, shape, leftIsInput)
               left == Value(Newest(d), shape)
               more == values \cup {left}
    <3>1. Named(d)
      BY <1>1, LeafKeepsNames
    <3>2. Holds(d, more, Unsized)
      <4> HIDE DEF values
      <4> QED
        BY <1>1, <2>1, LeafTracks
    <3>3. Product(d, left, n, isInput)
      BY <2>4
    <3>4. left.shape = shape
      BY DEF Value
    <3>5. values \subseteq more /\ left \in more
      OBVIOUS
    <3>6. left.shape \in Seq(Nat) /\ Len(left.shape) = 2
      <4>1. shape \in Seq(Nat) /\ DOMAIN shape = 1 .. 2
        BY <2>1 DEF RankShapes
      <4> QED
        BY <3>4, <4>1
    <3> HIDE DEF d, left, more
    <3> QED
      BY <2>1, <3>1, <3>2, <3>3, <3>5, <3>6, ProductTracks
  <2> QED
    BY <2>2, <2>3, <2>4
<1>8. CASE AppendSum
  <2>1. PICK input \in values, keepdim \in BOOLEAN :
           \E axes \in AxisLists(input.shape) :
              Drawn(Called(draft, SumNode(input.id, axes, keepdim)),
                    SummedShape(input.shape, axes, keepdim))
    BY <1>8 DEF AppendSum
  <2>2. PICK axes \in AxisLists(input.shape) :
           Drawn(Called(draft, SumNode(input.id, axes, keepdim)),
                 SummedShape(input.shape, axes, keepdim))
    BY <2>1
  <2>3. Gives(SumNode(input.id, axes, keepdim), values,
              SummedShape(input.shape, axes, keepdim), Unsized)
    <3> HIDE DEF values
    <3> QED
      BY <1>1, SumGives
  <2>4. SummedShape(input.shape, axes, keepdim) \in Seq(Nat)
    BY <1>1, SummedIsReduced, ReducedShapeIsShape
  <2> QED
    BY <1>3, <1>8, <2>2, <2>3, <2>4 DEF AppendSum, Operation
<1>9. CASE AppendReshape
  <2>1. PICK input \in values :
           \E shape \in ReshapeShapes(input.shape) :
              Drawn(Called(draft, ReshapeNode(input.id, shape)), shape)
    BY <1>9 DEF AppendReshape
  <2>2. PICK shape \in ReshapeShapes(input.shape) :
           Drawn(Called(draft, ReshapeNode(input.id, shape)), shape)
    BY <2>1
  <2>3. /\ shape \in Seq(Nat)
        /\ Numel(input.shape) # Overflow => Numel(shape) = Numel(input.shape)
    BY <1>1, ReshapeShapesFit
  <2>4. Numel(input.shape) = Overflow => Unsized
    BY DEF Unsized
  <2>5. Gives(ReshapeNode(input.id, shape), values, shape, Unsized)
    <3> HIDE DEF values
    <3> QED
      BY <2>3, <2>4, ReshapeGives
  <2> QED
    BY <1>3, <1>9, <2>2, <2>3, <2>5 DEF AppendReshape, Operation
<1>10. CASE FinishAnywhere
  <2>1. PICK output \in Range(pool) : Finish(draft, output.id)
    BY <1>10 DEF FinishAnywhere
  <2> QED
    BY <1>1, <2>1, FinishTracks
<1>11. CASE FinishWithPattern
  BY <1>11, PatternTracks
<1>12. CASE UNCHANGED vars
  BY <1>12 DEF vars, TInv, Unsized
<1> QED
  BY <1>4, <1>5, <1>6, <1>7, <1>8, <1>9, <1>10, <1>11, <1>12 DEF Next

\* "Generates a random well-typed graph": for every configuration, rank and width of
\* usize, inference finds for each value the shape that the generator tracked, and
\* refuses a graph only for an element count that overflows.
THEOREM GeneratedGraphsType == Spec => []GeneratedIsWellTyped
<1>1. TInv => GeneratedIsWellTyped
  <2> SUFFICES ASSUME TInv, status = "Returned"
               PROVE  LET inferred == InferTypes(Graph)
                      IN  /\ inferred.err \in {"None", "ShapeOverflow"}
                          /\ Sized => inferred.err = "None"
                          /\ inferred.err = "None" =>
                                \A value \in Range(pool) :
                                   inferred.types[value.id] = TypeOf(DType, value.shape)
    BY DEF GeneratedIsWellTyped
  <2>1. InferTypes(Graph) = Inferred(Graph)
    BY DEF InferTypes, Inferred, TInv, Graph
  <2>2. Tracked(Graph, Range(pool), Unsized)
    BY DEF TInv, Graph
  <2>3. Sized => ~ Unsized
    BY DEF Sized, Unsized
  <2> QED
    BY <2>1, <2>2, <2>3 DEF Tracked, TypesOf
<1> QED
  BY <1>1, InitTInv, StepTInv, Inductive, PTL DEF Spec

-----------------------------------------------------------------------------
(* What the generator emits the interpreter evaluates.                      *)

\* A node is what its operation says it is; leaves have the one dtype and literal.
WellDrawn(node) ==
  /\ node.op \in Operations /\ node.args \in Seq(Nat)
  /\ Len(node.args) = Arity(node.op)
  /\ AttrFits(node)
  /\ node.op \in {"Input", "Const"} => node.attr.dtype = DType
  /\ node.op = "Const" => \A k \in DOMAIN node.attr.data : node.attr.data[k] = Literal

\* The operations whose results inference does not size.
Growing == {"Sum", "Matmul"}

\* Whatever nodes are not tracked as values, none of them is of these operations.
Pooled(d, values) ==
  d.err = "None" =>
     \A i \in Ids(d.graph) :
        /\ WellDrawn(d.graph.nodes[i])
        /\ d.graph.nodes[i].op = "Input" => i \in Range(d.graph.inputs)
        /\ d.graph.nodes[i].op \in Growing => \E v \in values : v.id = i

PInv == Pooled(draft, Range(pool))

\* More values may be pooled.
LEMMA MorePooled ==
  ASSUME NEW d, NEW values, Pooled(d, values), NEW more, values \subseteq more
  PROVE  Pooled(d, more)
BY DEF Pooled

\* A builder call pools its node, if nodes of that kind are pooled.
LEMMA CallPools ==
  ASSUME NEW d, Named(d), NEW values, Pooled(d, values), NEW node, node.op # "Input",
         d.err = "None" => WellDrawn(node), NEW more, values \subseteq more,
         node.op \in Growing => \E v \in more : v.id = Newest(Called(d, node))
  PROVE  Pooled(Called(d, node), more)
<1> DEFINE e == Called(d, node)
           g == d.graph
           h == Push(g, node)
<1>1. CASE d.err # "None" \/ EmitError(g, node) # "None"
  <2>1. e.err # "None"
    BY <1>1 DEF Called, Named
  <2> HIDE DEF e
  <2>2. Pooled(e, more)
    BY <2>1 DEF Pooled
  <2> QED
    BY <2>2 DEF e
<1>2. CASE d.err = "None" /\ EmitError(g, node) = "None"
  <2>1. e = [err |-> "None", graph |-> h, names |-> d.names]
    BY <1>2 DEF Called, Named
  <2>2. h.nodes = Append(g.nodes, node) /\ h.inputs = g.inputs
    BY DEF Push
  <2>3. IsList(g.nodes)
    BY <1>2 DEF Named, Numbered
  <2>4. e.graph = h /\ Newest(e) = Len(h.nodes)
    BY <2>1 DEF Newest
  <2> HIDE DEF h, e
  <2>5. /\ Len(g.nodes) \in Nat /\ Len(h.nodes) = Len(g.nodes) + 1
        /\ \A i \in 1 .. Len(g.nodes) : h.nodes[i] = g.nodes[i]
        /\ h.nodes[Len(h.nodes)] = node
    BY <2>2, <2>3, Lists, AppendToList
  <2>6. ASSUME NEW i \in Ids(h)
        PROVE  /\ WellDrawn(h.nodes[i])
               /\ h.nodes[i].op = "Input" => i \in Range(h.inputs)
               /\ h.nodes[i].op \in Growing => \E v \in more : v.id = i
    <3>1. CASE i \in Ids(g)
      <4>1. h.nodes[i] = g.nodes[i]
        BY <2>5, <3>1 DEF Ids
      <4>2. /\ WellDrawn(g.nodes[i])
            /\ g.nodes[i].op = "Input" => i \in Range(g.inputs)
            /\ g.nodes[i].op \in Growing => \E v \in values : v.id = i
        BY <1>2, <3>1 DEF Pooled
      <4> QED
        BY <2>2, <4>1, <4>2
    <3>2. CASE i \notin Ids(g)
      <4>1. i = Len(h.nodes) /\ h.nodes[i] = node
        BY <2>5, <3>2 DEF Ids
      <4> QED
        BY <1>2, <2>4, <4>1 DEF e
    <3> QED
      BY <3>1, <3>2
  <2> QED
    BY <2>4, <2>6 DEF Pooled, e
<1> QED
  BY <1>1, <1>2

\* Nodes of the forms that the generator gives them.
LEMMA FormsWellDrawn ==
  /\ \A shape \in Seq(Nat) : /\ WellDrawn(ConstNode(DType, shape, Payload(shape)))
                             /\ \A name : WellDrawn(InputNode(name, DType, shape))
  /\ \A op \in BinaryOps, l, r \in Nat : WellDrawn(BinaryNode(op, l, r))
  /\ \A op \in UnaryOps, i \in Nat : WellDrawn([op |-> op, args |-> <<i>>, attr |-> NoAttr])
  /\ \A i \in Nat, axes \in Seq(Nat), keepdim \in BOOLEAN : WellDrawn(SumNode(i, axes, keepdim))
  /\ \A i \in Nat, shape \in Seq(Nat) : WellDrawn(ReshapeNode(i, shape))
<1>1. /\ \A op \in BinaryOps : Arity(op) = 2
      /\ \A op \in UnaryOps \cup {"Sum", "Reshape"} : Arity(op) = 1
      /\ Arity("Input") = 0 /\ Arity("Const") = 0
  BY DEF Arity, BinaryOps, UnaryOps
<1>2. /\ << >> \in Seq(Nat) /\ Len(<< >>) = 0
      /\ \A i \in Nat : <<i>> \in Seq(Nat) /\ Len(<<i>>) = 1
      /\ \A i, j \in Nat : <<i, j>> \in Seq(Nat) /\ Len(<<i, j>>) = 2
  OBVIOUS
<1>3. ASSUME NEW shape \in Seq(Nat)
      PROVE  WellDrawn(ConstNode(DType, shape, Payload(shape)))
  <2>1. \A k \in DOMAIN Payload(shape) : Payload(shape)[k] = Literal
    BY DEF Payload
  <2>2. Payload(shape) \in Seq(Range(Payload(shape)))
    <3>1. Numel(shape) \in Int
      BY NumelFits, MaxUsizeAssumption DEF Overflow
    <3>2. PICK n \in Nat : 1 .. Numel(shape) = 1 .. n
      <4>1. CASE Numel(shape) < 0
        BY <3>1, <4>1
      <4> QED
        BY <3>1, <4>1
    <3>3. Payload(shape) = [k \in 1 .. n |-> Literal]
      BY <3>2 DEF Payload
    <3>4. Payload(shape) \in [1 .. n -> Range(Payload(shape))]
      BY <3>3 DEF Range
    <3> QED
      BY <3>4
  <2> QED
    BY <1>1, <1>2, <2>1, <2>2 DEF WellDrawn, ConstNode, AttrFits, Operations
<1>4. ASSUME NEW shape \in Seq(Nat), NEW name
      PROVE  WellDrawn(InputNode(name, DType, shape))
  BY <1>1, <1>2 DEF WellDrawn, InputNode, AttrFits, Operations
<1>5. ASSUME NEW op \in BinaryOps, NEW l \in Nat, NEW r \in Nat
      PROVE  WellDrawn(BinaryNode(op, l, r))
  BY <1>1, <1>2 DEF WellDrawn, BinaryNode, AttrFits, Operations, BinaryOps
<1>6. ASSUME NEW op \in UnaryOps, NEW i \in Nat
      PROVE  WellDrawn([op |-> op, args |-> <<i>>, attr |-> NoAttr])
  BY <1>1, <1>2 DEF WellDrawn, AttrFits, Operations, UnaryOps
<1>7. ASSUME NEW i \in Nat, NEW axes \in Seq(Nat), NEW keepdim \in BOOLEAN
      PROVE  WellDrawn(SumNode(i, axes, keepdim))
  BY <1>1, <1>2 DEF WellDrawn, SumNode, AttrFits, Operations
<1>8. ASSUME NEW i \in Nat, NEW shape \in Seq(Nat)
      PROVE  WellDrawn(ReshapeNode(i, shape))
  BY <1>1, <1>2 DEF WellDrawn, ReshapeNode, AttrFits, Operations
<1> QED
  BY <1>3, <1>4, <1>5, <1>6, <1>7, <1>8

\* A leaf is an input that is listed, or a constant.
LEMMA LeafPools ==
  ASSUME NEW d, Named(d), NEW values, Pooled(d, values), NEW shape \in Seq(Nat),
         NEW isInput \in BOOLEAN
  PROVE  Pooled(Leaf(d, shape, isInput), values)
<1>1. CASE ~ isInput
  <2> DEFINE node == ConstNode(DType, shape, Payload(shape))
  <2>1. Leaf(d, shape, isInput) = Called(d, node) /\ node.op = "Const" /\ WellDrawn(node)
    BY <1>1, FormsWellDrawn DEF Leaf, ConstNode
  <2> HIDE DEF node
  <2>2. values \subseteq values /\ node.op \notin Growing /\ node.op # "Input"
    BY <2>1 DEF Growing
  <2> QED
    BY <2>1, <2>2, CallPools
<1>2. CASE isInput
  <2> DEFINE name == Len(d.names)
             node == InputNode(name, DType, shape)
             g    == d.graph
             h    == Push(g, node)
             e    == Leaf(d, shape, isInput)
             c    == Called(d, node)
  <2>1. e = [c EXCEPT !.names = Append(@, name)]
    BY <1>2 DEF Leaf
  <2>2. c = [err |-> c.err, graph |-> c.graph, names |-> c.names]
    BY DEF Called, Named
  <2>3. e.err = c.err /\ e.graph = c.graph
    <3> HIDE DEF c, e
    <3> QED
      BY <2>1, <2>2
  <2>4. CASE d.err # "None"
    <3>1. c.err # "None"
      BY <2>4 DEF Called
    <3> HIDE DEF c, e
    <3>2. Pooled(e, values)
      BY <2>3, <3>1 DEF Pooled
    <3> QED
      BY <3>2 DEF e
  <2>5. CASE d.err = "None"
    <3>1. EmitError(g, node) = "None"
      BY InputAccepted
    <3>2. c = [err |-> "None", graph |-> h, names |-> d.names]
      BY <2>5, <3>1 DEF Called, Named
    <3>3. /\ node.op = "Input" /\ WellDrawn(node)
          /\ h.nodes = Append(g.nodes, node)
          /\ h.inputs = Append(g.inputs, Len(g.nodes) + 1)
      BY FormsWellDrawn DEF InputNode, Push
    <3>4. e.graph = h
      <4> HIDE DEF e, h, c
      <4> QED
        BY <2>3, <3>2
    <3>5. IsList(g.nodes) /\ IsList(g.inputs)
      BY <2>5 DEF Named, Numbered
    <3> HIDE DEF e, h, g, node
    <3>6. /\ Len(g.nodes) \in Nat /\ Len(h.nodes) = Len(g.nodes) + 1
          /\ \A i \in 1 .. Len(g.nodes) : h.nodes[i] = g.nodes[i]
          /\ h.nodes[Len(g.nodes) + 1] = node
      BY <3>3, <3>5, Lists, AppendToList
    <3>7. /\ Range(g.inputs) \subseteq Range(h.inputs)
          /\ Len(g.nodes) + 1 \in Range(h.inputs)
      <4>1. /\ IsList(h.inputs) /\ Len(g.inputs) \in Nat
            /\ DOMAIN g.inputs = 1 .. Len(g.inputs)
            /\ DOMAIN h.inputs = 1 .. (Len(g.inputs) + 1)
            /\ \A k \in 1 .. Len(g.inputs) : h.inputs[k] = g.inputs[k]
            /\ h.inputs[Len(g.inputs) + 1] = Len(g.nodes) + 1
        BY <3>3, <3>5, Lists, AppendToList
      <4>2. 1 .. Len(g.inputs) \subseteq 1 .. (Len(g.inputs) + 1)
            /\ Len(g.inputs) + 1 \in 1 .. (Len(g.inputs) + 1)
        BY <4>1
      <4> QED
        BY <4>1, <4>2 DEF Range
    <3>8. ASSUME NEW i \in Ids(h)
          PROVE  /\ WellDrawn(h.nodes[i])
                 /\ h.nodes[i].op = "Input" => i \in Range(h.inputs)
                 /\ h.nodes[i].op \in Growing => \E v \in values : v.id = i
      <4>1. CASE i \in Ids(g)
        <5>1. h.nodes[i] = g.nodes[i]
          BY <3>6, <4>1 DEF Ids
        <5>2. /\ WellDrawn(g.nodes[i])
              /\ g.nodes[i].op = "Input" => i \in Range(g.inputs)
              /\ g.nodes[i].op \in Growing => \E v \in values : v.id = i
          BY <2>5, <4>1 DEF Pooled, g
        <5> QED
          BY <3>7, <5>1, <5>2
      <4>2. CASE i \notin Ids(g)
        <5>1. i = Len(g.nodes) + 1
          BY <3>6, <4>2 DEF Ids
        <5> QED
          BY <3>3, <3>6, <3>7, <5>1 DEF Growing
      <4> QED
        BY <4>1, <4>2
    <3>9. Pooled(e, values)
      BY <3>4, <3>8 DEF Pooled
    <3> QED
      BY <3>9 DEF e
  <2> QED
    BY <2>4, <2>5
<1> QED
  BY <1>1, <1>2

\* A new draft has no nodes to pool.
LEMMA NothingPooled ==
  ASSUME draft' = EmptyDraft
  PROVE  PInv'
<1>1. Len(EmptyGraph.nodes) = 0 /\ draft'.graph = EmptyGraph
  BY DEF EmptyGraph, EmptyDraft
<1>2. Ids(draft'.graph) = {}
  BY <1>1 DEF Ids
<1> QED
  BY <1>2 DEF PInv, Pooled

\* A draw pools its newest node.
LEMMA DrawnPools ==
  ASSUME IInv, NEW e, NEW shape,
         Pooled(e, Range(pool) \cup {Value(Newest(e), shape)}), Drawn(e, shape)
  PROVE  PInv'
<1>1. CASE e.err # "None"
  BY <1>1, NothingPooled DEF Drawn
<1>2. CASE e.err = "None"
  <2> DEFINE value == Value(Newest(e), shape)
             values == Range(pool) \cup {value}
  <2>1. draft' = e /\ pool' = Append(pool, value)
    BY <1>2 DEF Drawn
  <2> HIDE DEF value
  <2>2. Range(pool') = values
    BY <2>1, PoolGrows DEF IInv
  <2>3. Pooled(e, values)
    BY DEF value
  <2> HIDE DEF values
  <2> QED
    BY <2>1, <2>2, <2>3 DEF PInv
<1> QED
  BY <1>1, <1>2

\* A node of any operation that one call appends is tracked.
LEMMA CallDrawnPools ==
  ASSUME IInv, PInv, NEW node, node.op # "Input", WellDrawn(node), NEW shape,
         Drawn(Called(draft, node), shape)
  PROVE  PInv'
<1> DEFINE e == Called(draft, node)
           value == Value(Newest(e), shape)
           values == Range(pool)
           more == values \cup {value}
<1>1. value \in more /\ value.id = Newest(e) /\ values \subseteq more
  BY DEF Value
<1>2. Named(draft) /\ Pooled(draft, values)
  BY DEF IInv, PInv
<1> HIDE DEF value
<1>3. \E v \in more : v.id = Newest(e)
  BY <1>1
<1>4. Pooled(e, more)
  <2> HIDE DEF values, more
  <2> QED
    BY <1>1, <1>2, <1>3, CallPools
<1> QED
  BY <1>4, DrawnPools DEF value

\* So do the calls that draw a product,
LEMMA ProductPools ==
  ASSUME IInv, NEW d, Named(d), Pooled(d, Range(pool)), NEW left,
         d.err = "None" => left.id \in Nat, left.shape \in Seq(Nat), Len(left.shape) = 2,
         NEW n \in Nat, NEW isInput \in BOOLEAN, Product(d, left, n, isInput)
  PROVE  PInv'
<1> DEFINE shape == <<left.shape[2], n>>
           right == Leaf(d, shape, isInput)
           node  == BinaryNode("Matmul", left.id, Newest(right))
           whole == Called(right, node)
           out   == <<left.shape[1], n>>
           value == Value(Newest(whole), out)
           values == Range(pool)
           more  == values \cup {value}
<1>1. shape \in Seq(Nat)
  <2>1. left.shape[2] \in Nat
    OBVIOUS
  <2> HIDE DEF values
  <2> QED
    BY <2>1
<1>2. Drawn(whole, out)
  BY DEF Product
<1> HIDE DEF shape
<1>3. Named(right) /\ Beyond(d, right)
  BY LeafKeepsNames
<1>4. Pooled(right, values)
  BY <1>1, LeafPools
<1>5. right.err = "None" => d.err = "None" /\ Newest(right) \in Nat
  BY <1>3 DEF Beyond, Newest
<1> HIDE DEF right
<1>6. node.op = "Matmul" /\ (right.err = "None" => WellDrawn(node))
  <2>1. "Matmul" \in BinaryOps
    BY DEF BinaryOps
  <2> QED
    BY <1>5, <2>1, FormsWellDrawn DEF BinaryNode
<1>7. value \in more /\ value.id = Newest(whole) /\ values \subseteq more
  BY DEF Value
<1> HIDE DEF node, value
<1>8. \E v \in more : v.id = Newest(whole)
  BY <1>7
<1>9. Pooled(whole, more)
  <2> HIDE DEF values, more
  <2> QED
    BY <1>3, <1>4, <1>6, <1>7, <1>8, CallPools
<1> HIDE DEF whole, out
<1> QED
  BY <1>2, <1>9, DrawnPools DEF value

\* Marking the output touches no node.
LEMMA FinishPools ==
  ASSUME NEW d, Named(d), Pooled(d, Range(pool)), NEW output, Finish(d, output)
  PROVE  PInv'
<1> DEFINE marked == [d.graph EXCEPT !.outputs = Append(@, output)]
<1>1. \/ draft' = EmptyDraft
      \/ draft' = [d EXCEPT !.graph = marked] /\ pool' = pool /\ d.err = "None"
  BY DEF Finish
<1>2. CASE draft' = EmptyDraft
  BY <1>2, NothingPooled
<1>3. CASE draft' = [d EXCEPT !.graph = marked] /\ pool' = pool /\ d.err = "None"
  <2>1. marked.nodes = d.graph.nodes /\ marked.inputs = d.graph.inputs
    OBVIOUS
  <2> HIDE DEF marked
  <2>2. draft'.graph = marked
    BY <1>3 DEF Named
  <2> QED
    BY <1>3, <2>1, <2>2 DEF PInv, Pooled, Ids
<1> QED
  BY <1>1, <1>2, <1>3

\* The nodes of a pattern keep the elements that they are given.
LEMMA PatternWellDrawn ==
  ASSUME config.pattern \in {"NegNeg", "ReluRelu", "ReshapeReshape"}, NEW value,
         value.shape \in Seq(Nat), NEW part \in PatternOps(value), NEW id
  PROVE  /\ id \in Nat => WellDrawn(Applied(part, id))
         /\ Applied(part, id).op \notin Growing \cup {"Input"}
<1>1. CASE config.pattern # "ReshapeReshape"
  <2>1. part.op \in UnaryOps /\ part.attr = NoAttr
    BY <1>1 DEF PatternOps, UnaryOps
  <2> QED
    BY <2>1, FormsWellDrawn DEF Applied, Growing, UnaryOps
<1>2. CASE config.pattern = "ReshapeReshape"
  <2>1. PatternOps(value) = {[op |-> "Reshape", attr |-> [shape |-> shape]] :
                               shape \in ReshapeShapes(value.shape)}
    BY <1>2 DEF PatternOps
  <2>2. PICK p \in ReshapeShapes(value.shape) :
           part = [op |-> "Reshape", attr |-> [shape |-> p]]
    BY <2>1
  <2>3. p \in Seq(Nat)
    BY ReshapeShapesFit
  <2>4. Applied(part, id) = ReshapeNode(id, p)
    BY <2>2 DEF Applied, ReshapeNode
  <2>5. ReshapeNode(id, p).op = "Reshape"
    BY DEF ReshapeNode
  <2> QED
    BY <2>3, <2>4, <2>5, FormsWellDrawn DEF Growing
<1> QED
  BY <1>1, <1>2

\* and those that plant a pattern.
LEMMA PatternPools ==
  ASSUME IInv, TInv, PInv, FinishWithPattern
  PROVE  PInv'
<1>1. PICK value \in Range(pool) :
         \E outer, inner \in PatternOps(value) :
            LET twice == Twice(draft, outer, inner, value.id)
            IN  Finish(twice, Newest(twice))
  BY DEF FinishWithPattern
<1>2. PICK outer \in PatternOps(value), inner \in PatternOps(value) :
         LET twice == Twice(draft, outer, inner, value.id)
         IN  Finish(twice, Newest(twice))
  BY <1>1
<1> DEFINE values == Range(pool)
           one   == Applied(inner, value.id)
           first == Called(draft, one)
           two   == Applied(outer, Newest(first))
           twice == Called(first, two)
<1>3. Finish(twice, Newest(twice))
  BY <1>2 DEF Twice
<1>4. /\ config.pattern \in {"NegNeg", "ReluRelu", "ReshapeReshape"}
      /\ value.shape \in Seq(Nat)
  BY ShapesDrawn DEF TInv, Tracked, FinishWithPattern, Patterns
<1>5. value.id \in Nat /\ Named(draft) /\ Pooled(draft, values)
  <2>1. value.id \in Ids(draft.graph)
    BY DEF IInv, PoolInDraft, Range
  <2> QED
    BY <2>1 DEF IInv, PInv, Ids
<1>6. /\ WellDrawn(one) /\ one.op \notin Growing \cup {"Input"}
      /\ Newest(first) \in Nat => WellDrawn(two)
      /\ two.op \notin Growing \cup {"Input"}
  <2> HIDE DEF first
  <2> QED
    BY <1>4, <1>5, PatternWellDrawn
<1>7. values \subseteq values
  OBVIOUS
<1> HIDE DEF one, values
<1>8. Named(first) /\ Beyond(draft, first)
  BY <1>5, <1>6, CallKeepsNames
<1>9. Pooled(first, values)
  BY <1>5, <1>6, <1>7, CallPools
<1>10. first.err = "None" => Newest(first) \in Nat
  BY <1>8 DEF Beyond, Newest
<1> HIDE DEF two, first
<1>11. Named(twice)
  BY <1>6, <1>8, CallKeepsNames
<1>12. Pooled(twice, values)
  BY <1>6, <1>7, <1>8, <1>9, <1>10, CallPools
<1> HIDE DEF twice
<1> QED
  BY <1>3, <1>11, <1>12, FinishPools DEF values

\* Every step of a draw tracks the values whose element count it does not keep.
LEMMA StepPInv == IInv /\ TInv /\ PInv /\ [Next]_vars => PInv'
<1> SUFFICES ASSUME IInv, TInv, PInv, [Next]_vars
             PROVE  PInv'
  OBVIOUS
<1>1. /\ Named(draft) /\ Pooled(draft, Range(pool))
      /\ \A v \in Range(pool) : v.id \in Nat /\ v.shape \in Seq(Nat)
  <2>1. \A v \in Range(pool) : v.id \in Ids(draft.graph)
    BY DEF IInv, PoolInDraft, Range
  <2> QED
    BY <2>1 DEF IInv, TInv, PInv, Tracked, Ids
<1>2. /\ Dims \subseteq Nat
      /\ \A rank \in Nat : RankShapes(rank) \subseteq Seq(Nat)
      /\ AnyShapes \subseteq Seq(Nat)
  BY ShapesDrawn DEF TInv
<1>3. CASE AppendLeaf
  <2>1. PICK shape \in AnyShapes, isInput \in BOOLEAN :
           Drawn(Leaf(draft, shape, isInput), shape)
    BY <1>3 DEF AppendLeaf
  <2> DEFINE e == Leaf(draft, shape, isInput)
             more == Range(pool) \cup {Value(Newest(e), shape)}
  <2>2. Pooled(e, Range(pool)) /\ Drawn(e, shape)
    BY <1>1, <1>2, <2>1, LeafPools
  <2>3. Range(pool) \subseteq more
    OBVIOUS
  <2> HIDE DEF e
  <2>4. Pooled(e, more)
    <3> HIDE DEF more
    <3> QED
      BY <2>2, <2>3, MorePooled
  <2> QED
    BY <2>2, <2>4, DrawnPools
<1>4. CASE AppendBinary
  <2>1. PICK op \in {"Add", "Sub", "Mul"}, left \in Range(pool), right \in Range(pool) :
           Drawn(Called(draft, BinaryNode(op, left.id, right.id)), left.shape)
    BY <1>4 DEF AppendBinary
  <2>2. BinaryNode(op, left.id, right.id).op # "Input" /\ op \in BinaryOps
    BY DEF BinaryNode, BinaryOps
  <2> QED
    BY <1>1, <2>1, <2>2, FormsWellDrawn, CallDrawnPools
<1>5. CASE AppendUnary
  <2>1. PICK op \in UnaryOps, input \in Range(pool) :
           Drawn(Called(draft, UnaryNode(op, input.id)), input.shape)
    BY <1>5 DEF AppendUnary
  <2>2. /\ UnaryNode(op, input.id) = [op |-> op, args |-> <<input.id>>, attr |-> NoAttr]
        /\ UnaryNode(op, input.id).op # "Input"
    BY DEF UnaryNode, UnaryOps
  <2> QED
    BY <1>1, <2>1, <2>2, FormsWellDrawn, CallDrawnPools
<1>6. CASE AppendMatmul
  <2>1. RankShapes(2) \subseteq Seq(Nat)
    BY <1>2
  <2>2. PICK n \in Nat, isInput \in BOOLEAN :
              \/ \E left \in Matrices : Product(draft, left, n, isInput)
              \/ \E shape \in RankShapes(2), leftIsInput \in BOOLEAN :
                    LET left == Leaf(draft, shape, leftIsInput)
                    IN  Product(left, Value(Newest(left), shape), n, isInput)
    BY <1>2, <1>6 DEF AppendMatmul
  <2>3. ASSUME NEW left \in Matrices, Product(draft, left, n, isInput)
        PROVE  PInv'
    <3>1. left.id \in Nat /\ left.shape \in Seq(Nat) /\ Len(left.shape) = 2
      BY <1>1 DEF Matrices
    <3> QED
      BY <1>1, <2>3, <3>1, ProductPools
  <2>4. ASSUME NEW shape \in RankShapes(2), NEW leftIsInput \in BOOLEAN,
               LET left == Leaf(draft, shape, leftIsInput)
               IN  Product(left, Value(Newest(left), shape), n, isInput)
        PROVE  PInv'
    <3> DEFINE d    == Leaf(draft, shape, leftIsInput)
               left == Value(Newest(d), shape)
    <3>1. Named(d) /\ Beyond(draft, d) /\ Product(d, left, n, isInput)
      BY <1>1, <2>4, LeafKeepsNames
    <3>2. Pooled(d, Range(pool))
      BY <1>1, <2>1, LeafPools
    <3>3. left.shape = shape /\ left.id = Newest(d)
      BY DEF Value
    <3> HIDE DEF d, left
    <3>4. d.err = "None" => left.id \in Nat
      BY <3>1, <3>3 DEF Beyond, Newest
    <3>5. left.shape \in Seq(Nat) /\ Len(left.shape) = 2
      <4>1. shape \in Seq(Nat) /\ DOMAIN shape = 1 .. 2
        BY <2>1 DEF RankShapes
      <4> QED
        BY <3>3, <4>1
    <3> QED
      BY <3>1, <3>2, <3>4, <3>5, ProductPools
  <2> QED
    BY <2>2, <2>3, <2>4
<1>7. CASE AppendSum
  <2>1. PICK input \in Range(pool), keepdim \in BOOLEAN :
           \E axes \in AxisLists(input.shape) :
              Drawn(Called(draft, SumNode(input.id, axes, keepdim)),
                    SummedShape(input.shape, axes, keepdim))
    BY <1>7 DEF AppendSum
  <2>2. PICK axes \in AxisLists(input.shape) :
           Drawn(Called(draft, SumNode(input.id, axes, keepdim)),
                 SummedShape(input.shape, axes, keepdim))
    BY <2>1
  <2>3. SumNode(input.id, axes, keepdim).op # "Input"
    BY DEF SumNode
  <2>4. axes \in Seq(Nat)
    BY <1>1, AxesAscend
  <2> QED
    BY <1>1, <2>2, <2>3, <2>4, FormsWellDrawn, CallDrawnPools
<1>8. CASE AppendReshape
  <2>1. PICK input \in Range(pool) :
           \E shape \in ReshapeShapes(input.shape) :
              Drawn(Called(draft, ReshapeNode(input.id, shape)), shape)
    BY <1>8 DEF AppendReshape
  <2>2. PICK shape \in ReshapeShapes(input.shape) :
           Drawn(Called(draft, ReshapeNode(input.id, shape)), shape)
    BY <2>1
  <2>3. ReshapeNode(input.id, shape).op # "Input" /\ shape \in Seq(Nat)
    BY <1>1, ReshapeShapesFit DEF ReshapeNode
  <2> QED
    BY <1>1, <2>2, <2>3, FormsWellDrawn, CallDrawnPools
<1>9. CASE FinishAnywhere
  <2>1. PICK output \in Range(pool) : Finish(draft, output.id)
    BY <1>9 DEF FinishAnywhere
  <2> QED
    BY <1>1, <2>1, FinishPools
<1>10. CASE FinishWithPattern
  BY <1>10, PatternPools
<1>11. CASE UNCHANGED vars
  BY <1>11 DEF vars, PInv
<1> QED
  BY <1>3, <1>4, <1>5, <1>6, <1>7, <1>8, <1>9, <1>10, <1>11 DEF Next

\* No node is there at first.
LEMMA InitPInv == Init => PInv
<1> SUFFICES ASSUME Init
             PROVE  PInv
  OBVIOUS
<1>1. Len(EmptyGraph.nodes) = 0 /\ draft.graph = EmptyGraph
  BY DEF Init, EmptyGraph, EmptyDraft
<1>2. Ids(draft.graph) = {}
  BY <1>1 DEF Ids
<1> QED
  BY <1>2 DEF PInv, Pooled

-----------------------------------------------------------------------------
\* No type of a graph whose values can be sized overflows: the nodes that are not
\* values are leaves, which are sized too, and the nodes of a pattern.
LEMMA SizedTypes ==
  ASSUME NEW g, NodesFit(g), Valid(g), NEW types, Typing(g, types),
         Len(types) = Len(g.nodes), NEW values, TypesOf(values, types),
         \A v \in values : Numel(v.shape) # Overflow,
         \A i \in Ids(g) :
            /\ g.nodes[i].op = "Input" => Numel(g.nodes[i].attr.shape) # Overflow
            /\ g.nodes[i].op \in Growing => \E v \in values : v.id = i
  PROVE  \A i \in Ids(g) : Numel(types[i].shape) # Overflow
<1> DEFINE S == {n \in Nat : \A i \in Ids(g) : i <= n => Numel(types[i].shape) # Overflow}
<1>1. Len(g.nodes) \in Nat /\ Ids(g) = 1 .. Len(g.nodes)
  BY DEF NodesFit, Ids
<1>2. 0 \in S
  BY <1>1
<1>3. ASSUME NEW n \in Nat, n \in S
      PROVE  n + 1 \in S
  <2> SUFFICES ASSUME n + 1 \in Ids(g)
               PROVE  Numel(types[n + 1].shape) # Overflow
    <3>1. ASSUME NEW i \in Ids(g), i <= n + 1
          PROVE  i <= n \/ i = n + 1
      BY <1>1, <3>1
    <3> QED
      BY <1>3, <3>1
  <2> DEFINE node == g.nodes[n + 1]
             t == types[n + 1]
             l == types[node.args[1]]
  <2>1. /\ node.op \in Operations /\ Len(node.args) = Arity(node.op) /\ node.args \in Seq(Nat)
        /\ \A k \in DOMAIN node.args : node.args[k] \in 1 .. n
    <3>1. (n + 1) - 1 = n
      OBVIOUS
    <3> QED
      BY <3>1 DEF NodesFit
  <2>2. DOMAIN types = Ids(g)
    BY <1>1, Lists DEF Typing
  <2>3. t = InferNode(node, types) /\ t.err = "None"
    BY <1>1 DEF Typing
  <2>4. ~ (\E k \in DOMAIN node.args : node.args[k] \notin DOMAIN types)
    BY <1>1, <2>1, <2>2
  <2>5. ASSUME Arity(node.op) \in {1, 2}
        PROVE  Numel(l.shape) # Overflow
    <3>1. node.args[1] \in 1 .. n
      BY <2>1, <2>5
    <3>2. node.args[1] \in Ids(g) /\ node.args[1] <= n
      BY <1>1, <3>1
    <3> QED
      BY <1>3, <3>2
  <2>6. /\ \A kind : TypeErr(kind).err = kind
        /\ \A dtype, shape : TypeOf(dtype, shape).shape = shape
    BY DEF TypeErr, TypeOf
  <2>7. ConstError(node) = "None"
    BY DEF Valid, ConstsFit
  <2>8. /\ node.op = "Input" => Numel(node.attr.shape) # Overflow
        /\ node.op \in Growing => \E v \in values : v.id = n + 1
    OBVIOUS
  <2> HIDE DEF node, t, l
  <2>9. CASE node.op \in {"Input", "Const"}
    <3>1. t = TypeOf(node.attr.dtype, node.attr.shape)
      BY <2>3, <2>4, <2>9 DEF InferNode, UnaryOps
    <3> QED
      BY <2>6, <2>7, <2>8, <2>9, <3>1 DEF ConstError, t
  <2>10. CASE node.op \in {"Add", "Sub", "Mul"}
    <3>1. t = InferElementwise(l, types[node.args[2]])
      BY <2>3, <2>4, <2>10 DEF InferNode, UnaryOps, l
    <3>2. t = l
      BY <2>3, <2>6, <3>1 DEF InferElementwise
    <3>3. Arity(node.op) = 2
      BY <2>10 DEF Arity, UnaryOps, BinaryOps
    <3> QED
      BY <2>5, <3>2, <3>3 DEF t
  <2>11. CASE node.op \in UnaryOps
    <3>1. t = InferUnary(l)
      BY <2>3, <2>4, <2>11 DEF InferNode, UnaryOps, l
    <3>2. t = l
      BY <2>3, <2>6, <3>1 DEF InferUnary
    <3>3. Arity(node.op) = 1
      BY <2>11 DEF Arity, UnaryOps, BinaryOps
    <3> QED
      BY <2>5, <3>2, <3>3 DEF t
  <2>12. CASE node.op \in Growing
    <3>1. PICK v \in values : v.id = n + 1
      BY <2>8, <2>12
    <3>2. t = TypeOf(DType, v.shape)
      BY <3>1 DEF TypesOf, t
    <3> QED
      BY <2>6, <3>2 DEF t
  <2>13. CASE node.op = "Reshape"
    <3>1. t = InferReshape(l, node.attr.shape)
      BY <2>3, <2>4, <2>13 DEF InferNode, UnaryOps, l
    <3>2. t = TypeOf(l.dtype, node.attr.shape) /\ Numel(node.attr.shape) # Overflow
      BY <2>3, <2>6, <3>1 DEF InferReshape
    <3> QED
      BY <2>6, <3>2 DEF t
  <2> QED
    BY <2>1, <2>9, <2>10, <2>11, <2>12, <2>13 DEF Operations, BinaryOps, UnaryOps, Growing
<1>4. Len(g.nodes) \in S
  <2> HIDE DEF S
  <2> QED
    BY <1>1, <1>2, <1>3, SetInduction
<1> QED
  BY <1>1, <1>4

\* Every input is bound to a tensor of its own shape.
LEMMA InputsBound ==
  ASSUME NEW g, NEW names, Numbered(g, names), SizedInputs(g) = Range(g.inputs)
  PROVE  /\ IsEnvironment(RandomInputs(g))
         /\ DOMAIN RandomInputs(g) = Range(names)
         /\ \A i \in Range(g.inputs) :
               /\ g.nodes[i].attr.name \in DOMAIN RandomInputs(g)
               /\ RandomInputs(g)[g.nodes[i].attr.name].shape = g.nodes[i].attr.shape
<1> DEFINE env == RandomInputs(g)
           nm(i) == g.nodes[i].attr.name
           bound == Range(g.inputs)
<1>1. DOMAIN g.inputs = 1 .. Len(names) /\ DOMAIN names = 1 .. Len(names) /\ Len(names) \in Nat
  BY Lists DEF Numbered
<1>2. \A i \in bound : \E k \in 1 .. Len(names) : i = g.inputs[k] /\ nm(i) = k - 1 /\ names[k] = k - 1
  BY <1>1 DEF Numbered, Range
<1>3. \A k \in 1 .. Len(names) : g.inputs[k] \in bound /\ nm(g.inputs[k]) = names[k]
  BY <1>1 DEF Numbered, Range
<1>4. \A i \in bound : i \in Nat
  BY <1>1 DEF Numbered, Range, Ids
<1>5. \A i, j \in bound : nm(i) = nm(j) => i = j
  BY <1>2
<1> HIDE DEF nm
<1>6. ASSUME NEW i \in bound
      PROVE  LastNamed(g, nm(i)) = i
  <2> DEFINE P(x) == nm(x) = nm(i) /\ \A j \in bound : nm(j) = nm(i) => j <= x
  <2>1. P(i) /\ \A x \in bound : P(x) => x = i
    BY <1>4, <1>5
  <2>2. LastNamed(g, nm(i)) = CHOOSE x \in bound : P(x)
    BY DEF LastNamed, nm
  <2> HIDE DEF P, bound
  <2> QED
    BY <2>1, <2>2
<1>7. env = [name \in {nm(i) : i \in bound} |-> RandomTensor(g.nodes[LastNamed(g, name)].attr.shape)]
  BY DEF RandomInputs, nm
<1> HIDE DEF env
<1>8. DOMAIN env = {nm(i) : i \in bound}
  BY <1>7
<1>9. ASSUME NEW i \in bound
      PROVE  nm(i) \in DOMAIN env /\ env[nm(i)] = RandomTensor(g.nodes[i].attr.shape)
  <2>1. nm(i) \in DOMAIN env
    BY <1>8
  <2> QED
    BY <1>6, <1>7, <1>8, <2>1
<1>10. ASSUME NEW shape
       PROVE  /\ RandomTensor(shape).shape = shape
              /\ Numel(shape) # Overflow => IsTensor(RandomTensor(shape))
  BY DEF RandomTensor, IsTensor, Elements
<1>11. \A i \in bound : Numel(g.nodes[i].attr.shape) # Overflow
  BY DEF SizedInputs
<1>12. IsEnvironment(env)
  <2> SUFFICES ASSUME NEW name \in DOMAIN env
               PROVE  IsTensor(env[name])
    BY DEF IsEnvironment
  <2>1. PICK i \in bound : name = nm(i)
    BY <1>8
  <2> QED
    BY <1>9, <1>10, <1>11, <2>1
<1>13. DOMAIN env = Range(names)
  <2>1. ASSUME NEW i \in bound
        PROVE  nm(i) \in Range(names)
    BY <1>1, <1>2 DEF Range
  <2>2. ASSUME NEW name \in Range(names)
        PROVE  \E i \in bound : name = nm(i)
    BY <1>1, <1>3 DEF Range
  <2> HIDE DEF bound
  <2> QED
    BY <1>8, <2>1, <2>2
<1> QED
  BY <1>9, <1>10, <1>12, <1>13 DEF env, nm

\* A graph that the generator returns and the inputs that are drawn for it belong
\* together: every input is named apart and bound, and the interpreter evaluates the
\* graph without any error, whatever the scalars are.
THEOREM InputsFit == Spec => []InputsFitGraph
<1>1. ASSUME IInv, TInv, PInv
      PROVE  InputsFitGraph
  <2> SUFFICES ASSUME status = "Returned", Sized
               PROVE  /\ NamesApart
                      /\ DOMAIN RandomInputs(Graph) = Range(draft.names)
                      /\ Eval(Graph, RandomInputs(Graph)).err = "None"
    BY DEF InputsFitGraph
  <2> DEFINE env == RandomInputs(Graph)
             types == InferTypes(Graph).types
  <2>1. Numbered(Graph, draft.names) /\ draft.err = "None"
    BY <1>1 DEF IInv, Named, Graph
  <2>2. SizedInputs(Graph) = Range(Graph.inputs)
        /\ \A v \in Range(pool) : Numel(v.shape) # Overflow
    BY DEF Sized
  <2>3. /\ IsEnvironment(env) /\ DOMAIN env = Range(draft.names)
        /\ \A i \in Range(Graph.inputs) :
              /\ Graph.nodes[i].attr.name \in DOMAIN env
              /\ env[Graph.nodes[i].attr.name].shape = Graph.nodes[i].attr.shape
    BY <2>1, <2>2, InputsBound
  <2>4. \A i \in Ids(Graph) :
           /\ WellDrawn(Graph.nodes[i])
           /\ Graph.nodes[i].op = "Input" => i \in Range(Graph.inputs)
           /\ Graph.nodes[i].op \in Growing => \E v \in Range(pool) : v.id = i
    BY <1>1, <2>1 DEF PInv, Pooled, Graph
  <2>5. Valid(Graph) /\ Tracked(Graph, Range(pool), Unsized) /\ ~ Unsized
    BY <1>1, <2>2 DEF TInv, Graph, Unsized
  <2>6. NodesFit(Graph)
    <3>1. Len(Graph.nodes) \in Nat
      BY <2>1, Lists DEF Numbered
    <3>2. ASSUME NEW i \in Ids(Graph), NEW k \in DOMAIN Graph.nodes[i].args
          PROVE  Graph.nodes[i].args[k] \in 1 .. (i - 1)
      BY <2>5 DEF Valid, OperandsEarlier, Operands, Range
    <3> QED
      BY <2>4, <3>1, <3>2 DEF NodesFit, WellDrawn
  <2>7. /\ InferTypes(Graph) = Inferred(Graph)
        /\ InferTypes(Graph).err = "None"
        /\ Len(types) = Len(Graph.nodes) /\ TypesOf(Range(pool), types)
    <3>1. InferTypes(Graph) = Inferred(Graph)
      BY <2>5 DEF InferTypes, Inferred
    <3> QED
      BY <2>5, <3>1 DEF Tracked
  <2>8. Typing(Graph, types)
    BY <2>6, <2>7, InferencesFit DEF Inferred
  <2>9. \A i \in Ids(Graph) :
           Graph.nodes[i].op = "Input" => Numel(Graph.nodes[i].attr.shape) # Overflow
    BY <2>2, <2>4 DEF SizedInputs
  <2> HIDE DEF env, types
  <2>10. \A i \in Ids(Graph) : Numel(types[i].shape) # Overflow
    BY <2>2, <2>4, <2>5, <2>6, <2>7, <2>8, <2>9, SizedTypes
  <2>11. Supplied(Graph, env)
    <3> SUFFICES ASSUME NEW i \in Ids(Graph)
                 PROVE  /\ Graph.nodes[i].op = "Input" => InputError(Graph.nodes[i], env) = "None"
                        /\ Graph.nodes[i].op = "Const" => LiteralError(Graph.nodes[i]) = "None"
      BY DEF Supplied
    <3>1. Graph.nodes[i].op \in {"Input", "Const"} => Graph.nodes[i].attr.dtype = "f64"
      BY <2>4 DEF WellDrawn, DType
    <3>2. Graph.nodes[i].op = "Const" =>
             \A k \in DOMAIN Graph.nodes[i].attr.data : IsFinite(Graph.nodes[i].attr.data[k])
      BY <2>4, GeneratorAssumption DEF WellDrawn
    <3> QED
      BY <2>3, <2>4, <3>1, <3>2 DEF InputError, LiteralError
  <2>12. EvalValues(Graph, env).err = "None"
    BY <2>3, <2>5, <2>6, <2>7, <2>10, <2>11, AcceptedGraphEvaluates DEF types
  <2>13. NamesApart
    BY <1>1, NumberedApart
  <2> QED
    BY <2>3, <2>12, <2>13 DEF Eval, Collected, env
<1> QED
  BY <1>1, Inductive, InitTInv, StepTInv, InitPInv, StepPInv, PTL DEF Spec

=============================================================================
