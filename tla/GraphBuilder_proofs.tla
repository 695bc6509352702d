------------------------- MODULE GraphBuilder_proofs -------------------------
(***************************************************************************)
(* The builder fails closed for every set of names, types, shapes and      *)
(* payloads and for graphs of every size: what it has accepted is valid    *)
(* but for the outputs that may not have been marked yet.  What type       *)
(* inference then accepts the interpreter computes, on every environment   *)
(* of tensors and whatever the scalars are, and its sums add every element *)
(* of a tensor once, to the place that the axes which are kept give it.    *)
(***************************************************************************)
EXTENDS GraphBuilder, CommonLemmas

\* A refused node never enters the arena, so everything that validation asks
\* for but an output holds at every moment.
Sound(g) ==
  /\ OperandsEarlier(g)
  /\ InputsAreInputs(g)
  /\ InputsListed(g)
  /\ OutputsInRange(g)
  /\ ConstsFit(g)
  /\ \A i \in Ids(g) : AttrFits(g.nodes[i])

IInv ==
  /\ TypeOK
  /\ Sound(graph)
  /\ BuildFindsOnlyMissingOutputs

-----------------------------------------------------------------------------
\* The nodes a caller can describe are well-formed.
LEMMA DescribedNodes ==
  /\ \A name \in Names, dtype \in DTypes, shape \in Shapes :
        InputNode(name, dtype, shape) \in NodesOver(Attrs)
  /\ \A dtype \in DTypes, shape \in Shapes, data \in Payloads :
        ConstNode(dtype, shape, data) \in NodesOver(Attrs)
  /\ \A op \in BinaryOps, left, right \in HeldIds :
        BinaryNode(op, left, right) \in NodesOver(Attrs)
  /\ \A op \in UnaryOps, input \in HeldIds :
        UnaryNode(op, input) \in NodesOver(Attrs)
  /\ \A input \in HeldIds, axes \in AxisLists, keepdim \in BOOLEAN :
        SumNode(input, axes, keepdim) \in NodesOver(Attrs)
  /\ \A input \in HeldIds, shape \in Shapes :
        ReshapeNode(input, shape) \in NodesOver(Attrs)
<1>1. /\ \A op \in BinaryOps : Arity(op) = 2
      /\ \A op \in UnaryOps \cup {"Sum", "Reshape"} : Arity(op) = 1
      /\ Arity("Input") = 0 /\ Arity("Const") = 0
  BY DEF Arity, BinaryOps, UnaryOps
<1>2. /\ HeldIds \subseteq Nat
      /\ << >> \in Seq(Nat) /\ Len(<< >>) = 0
      /\ \A i \in HeldIds : <<i>> \in Seq(Nat) /\ Len(<<i>>) = 1
      /\ \A i, j \in HeldIds : <<i, j>> \in Seq(Nat) /\ Len(<<i, j>>) = 2
  BY BuilderAssumption DEF HeldIds
<1>3. ASSUME NEW op \in {"Input", "Const", "Sum", "Reshape"} \cup BinaryOps \cup UnaryOps,
             NEW args \in Seq(Nat), NEW attr \in Attrs, Len(args) = Arity(op)
      PROVE  [op |-> op, args |-> args, attr |-> attr] \in NodesOver(Attrs)
  BY <1>3 DEF NodesOver
<1>4. ASSUME NEW name \in Names, NEW dtype \in DTypes, NEW shape \in Shapes
      PROVE  InputNode(name, dtype, shape) \in NodesOver(Attrs)
  <2>1. [name |-> name, dtype |-> dtype, shape |-> shape] \in Attrs
    BY DEF Attrs
  <2> QED
    BY <1>1, <1>2, <1>3, <2>1 DEF InputNode
<1>5. ASSUME NEW dtype \in DTypes, NEW shape \in Shapes, NEW data \in Payloads
      PROVE  ConstNode(dtype, shape, data) \in NodesOver(Attrs)
  <2>1. [dtype |-> dtype, shape |-> shape, data |-> data] \in Attrs
    BY DEF Attrs
  <2> QED
    BY <1>1, <1>2, <1>3, <2>1 DEF ConstNode
<1>6. NoAttr \in Attrs
  BY DEF Attrs
<1>7. ASSUME NEW op \in BinaryOps, NEW left \in HeldIds, NEW right \in HeldIds
      PROVE  BinaryNode(op, left, right) \in NodesOver(Attrs)
  BY <1>1, <1>2, <1>3, <1>6 DEF BinaryNode
<1>8. ASSUME NEW op \in UnaryOps, NEW input \in HeldIds
      PROVE  UnaryNode(op, input) \in NodesOver(Attrs)
  BY <1>1, <1>2, <1>3, <1>6 DEF UnaryNode
<1>9. ASSUME NEW input \in HeldIds, NEW axes \in AxisLists, NEW keepdim \in BOOLEAN
      PROVE  SumNode(input, axes, keepdim) \in NodesOver(Attrs)
  <2>1. [axes |-> axes, keepdim |-> keepdim] \in Attrs
    BY DEF Attrs
  <2> QED
    BY <1>1, <1>2, <1>3, <2>1 DEF SumNode
<1>10. ASSUME NEW input \in HeldIds, NEW shape \in Shapes
       PROVE  ReshapeNode(input, shape) \in NodesOver(Attrs)
  <2>1. [shape |-> shape] \in Attrs
    BY DEF Attrs
  <2> QED
    BY <1>1, <1>2, <1>3, <2>1 DEF ReshapeNode
<1> QED
  BY <1>4, <1>5, <1>7, <1>8, <1>9, <1>10

\* Their attributes are what the Rust types say.
LEMMA DescribedAttributes ==
  /\ \A name \in Names, dtype \in DTypes, shape \in Shapes :
        AttrFits(InputNode(name, dtype, shape))
  /\ \A dtype \in DTypes, shape \in Shapes, data \in Payloads :
        AttrFits(ConstNode(dtype, shape, data))
  /\ \A op \in BinaryOps, left, right \in HeldIds : AttrFits(BinaryNode(op, left, right))
  /\ \A op \in UnaryOps, input \in HeldIds : AttrFits(UnaryNode(op, input))
  /\ \A input \in HeldIds, axes \in AxisLists, keepdim \in BOOLEAN :
        AttrFits(SumNode(input, axes, keepdim))
  /\ \A input \in HeldIds, shape \in Shapes : AttrFits(ReshapeNode(input, shape))
BY BuilderAssumption DEF AttrFits, InputNode, ConstNode, BinaryNode, UnaryNode, SumNode,
                         ReshapeNode, BinaryOps, UnaryOps

\* The payload check has three outcomes.
LEMMA ConstErrorKinds ==
  ASSUME NEW node
  PROVE  ConstError(node) \in {"None", "ShapeOverflow", "ConstDataShapeMismatch"}
BY DEF ConstError

\* Validation finds nothing but missing outputs in a sound graph.
LEMMA SoundValidates ==
  ASSUME NEW g, Sound(g)
  PROVE  StructureError(g) = IF g.outputs = << >> THEN "NoOutputs" ELSE "None"
BY DEF Sound, StructureError

\* validate_structure reports errors of its own kinds only.
LEMMA StructureErrorKinds ==
  ASSUME NEW g
  PROVE  StructureError(g) \in
           {"None", "NoOutputs", "InvalidNodeId", "ForwardReference",
            "NotAnInput", "ShapeOverflow", "ConstDataShapeMismatch"}
BY ConstErrorKinds DEF StructureError

\* Emitting a node that passes the checks keeps a graph well-formed and sound.
LEMMA PushSound ==
  ASSUME NEW g \in GraphsOver(Attrs), Sound(g),
         NEW node \in NodesOver(Attrs), AttrFits(node), EmitError(g, node) = "None"
  PROVE  /\ Push(g, node) \in GraphsOver(Attrs)
         /\ Sound(Push(g, node))
<1> DEFINE h == Push(g, node)
           n == Len(g.nodes)
<1>1. /\ g.nodes \in Seq(NodesOver(Attrs))
      /\ g.inputs \in Seq(Nat)
      /\ g.outputs \in Seq(Nat)
      /\ n \in Nat
      /\ Ids(g) = 1 .. n
  BY DEF GraphsOver, Ids
<1>2. /\ h.nodes = Append(g.nodes, node)
      /\ h.inputs = IF node.op = "Input" THEN Append(g.inputs, n + 1) ELSE g.inputs
      /\ h.outputs = g.outputs
      /\ h \in GraphsOver(Attrs)
  BY <1>1 DEF Push, GraphsOver
<1> HIDE DEF h
<1>3. /\ Ids(h) = 1 .. (n + 1)
      /\ \A i \in Ids(g) : h.nodes[i] = g.nodes[i]
      /\ h.nodes[n + 1] = node
      /\ \A i \in Ids(h) : i \in Ids(g) \/ i = n + 1
  <2>1. Len(h.nodes) = n + 1
    BY <1>1, <1>2
  <2> QED
    BY <1>1, <1>2, <2>1, AppendProperties DEF Ids
<1>4. OperandsEarlier(h)
  <2>1. /\ \A k \in DOMAIN node.args : node.args[k] \in Ids(g)
        /\ ConstError(node) = "None"
    BY DEF EmitError
  <2>2. Operands(node) \subseteq 1 .. n
    BY <1>1, <2>1 DEF Operands, Range
  <2>3. ASSUME NEW i \in Ids(g) PROVE Operands(h.nodes[i]) \subseteq 1 .. (i - 1)
    BY <1>3 DEF Sound, OperandsEarlier
  <2>4. Operands(h.nodes[n + 1]) \subseteq 1 .. ((n + 1) - 1)
    BY <1>1, <1>3, <2>2
  <2> QED
    BY <1>3, <2>3, <2>4 DEF OperandsEarlier
<1>5. InputsAreInputs(h)
  <2>1. ASSUME NEW k \in DOMAIN g.inputs PROVE IsInputId(h, g.inputs[k])
    <3>1. IsInputId(g, g.inputs[k])
      BY DEF Sound, InputsAreInputs
    <3>2. g.inputs[k] \in Ids(g) /\ g.nodes[g.inputs[k]].op = "Input"
      BY <3>1 DEF IsInputId
    <3>3. g.inputs[k] \in Ids(h) /\ h.nodes[g.inputs[k]].op = "Input"
      BY <1>1, <1>3, <3>2
    <3> QED
      BY <3>3 DEF IsInputId
  <2>2. node.op = "Input" => IsInputId(h, n + 1)
    BY <1>1, <1>3 DEF IsInputId
  <2>3. CASE node.op = "Input"
    <3>1. h.inputs = Append(g.inputs, n + 1)
      BY <1>2, <2>3
    <3>2. \A k \in DOMAIN h.inputs : \/ k \in DOMAIN g.inputs /\ h.inputs[k] = g.inputs[k]
                                   \/ h.inputs[k] = n + 1
      BY <1>1, <3>1, AppendProperties
    <3> QED
      BY <2>1, <2>2, <2>3, <3>2 DEF InputsAreInputs
  <2>4. CASE node.op # "Input"
    BY <1>2, <2>1, <2>4 DEF InputsAreInputs
  <2> QED
    BY <2>3, <2>4
<1>6. InputsListed(h)
  <2>1. \A i \in Ids(g) : g.nodes[i].op = "Input" => i \in Range(g.inputs)
    BY DEF Sound, InputsListed
  <2>2. \A k \in DOMAIN g.inputs : g.inputs[k] \in 1 .. n
    BY <1>1 DEF Sound, InputsAreInputs, IsInputId
  <2>3. CASE node.op = "Input"
    <3>1. h.inputs = Append(g.inputs, n + 1)
      BY <1>2, <2>3
    <3>2. /\ DOMAIN h.inputs = 1 .. (Len(g.inputs) + 1)
          /\ DOMAIN g.inputs = 1 .. Len(g.inputs)
          /\ Len(g.inputs) \in Nat
          /\ \A k \in DOMAIN g.inputs : h.inputs[k] = g.inputs[k]
          /\ h.inputs[Len(g.inputs) + 1] = n + 1
      BY <1>1, <3>1, AppendProperties
    <3>3. \A i \in Ids(h) : h.nodes[i].op = "Input" => i \in Range(h.inputs)
      BY <1>3, <2>1, <3>2 DEF Range
    <3>4. ASSUME NEW j \in DOMAIN h.inputs, NEW k \in DOMAIN h.inputs, j < k
          PROVE  h.inputs[j] < h.inputs[k]
      <4>1. j \in DOMAIN g.inputs /\ h.inputs[j] = g.inputs[j]
        BY <3>2, <3>4
      <4>2. CASE k \in DOMAIN g.inputs
        BY <3>2, <3>4, <4>1, <4>2 DEF Sound, InputsListed
      <4>3. CASE k \notin DOMAIN g.inputs
        <5>1. h.inputs[k] = n + 1
          BY <3>2, <4>3
        <5> QED
          BY <1>1, <2>2, <4>1, <5>1
      <4> QED
        BY <4>2, <4>3
    <3> QED
      BY <3>3, <3>4 DEF InputsListed
  <2>4. CASE node.op # "Input"
    BY <1>1, <1>2, <1>3, <2>1, <2>4 DEF Sound, InputsListed
  <2> QED
    BY <2>3, <2>4
<1>7. OutputsInRange(h)
  BY <1>1, <1>2, <1>3 DEF Sound, OutputsInRange
<1>8. ConstsFit(h)
  BY <1>1, <1>2, <1>3 DEF Sound, ConstsFit, EmitError
<1>9. \A i \in Ids(h) : AttrFits(h.nodes[i])
  BY <1>3 DEF Sound
<1> QED
  BY <1>2, <1>4, <1>5, <1>6, <1>7, <1>8, <1>9 DEF Sound, h

-----------------------------------------------------------------------------
\* A graph whose nodes were described is one that type inference may be given.
LEMMA DescribedIsGraph ==
  ASSUME NEW g \in GraphsOver(Attrs), \A i \in Ids(g) : AttrFits(g.nodes[i])
  PROVE  IsGraph(g)
<1> DEFINE attrs == {g.nodes[i].attr : i \in Ids(g)}
<1>1. /\ g \in [nodes : Seq(NodesOver(Attrs)), inputs : Seq(Nat), outputs : Seq(Nat)]
      /\ g.nodes \in Seq(NodesOver(Attrs)) /\ Ids(g) = 1 .. Len(g.nodes)
  BY DEF GraphsOver, Ids
<1>2. ASSUME NEW i \in 1 .. Len(g.nodes)
      PROVE  g.nodes[i] \in NodesOver(attrs)
  <2>1. g.nodes[i] \in NodesOver(Attrs) /\ g.nodes[i].attr \in attrs
    BY <1>1
  <2> HIDE DEF attrs
  <2> QED
    BY <2>1 DEF NodesOver
<1> HIDE DEF attrs
<1>3. g.nodes \in Seq(NodesOver(attrs))
  <2>1. IsList(g.nodes)
    BY <1>1, SeqIsList
  <2> QED
    BY <1>2, <2>1, ListInSeq
<1>4. g \in GraphsOver(attrs)
  BY <1>1, <1>3 DEF GraphsOver
<1> QED
  BY <1>4 DEF IsGraph, attrs

\* The inductive step of every method that emits a node.
LEMMA EmitKeepsIInv ==
  ASSUME IInv, NEW node \in NodesOver(Attrs), AttrFits(node), Emit(node)
  PROVE  IInv'
<1>1. /\ graph' \in GraphsOver(Attrs)
      /\ Sound(graph')
  BY PushSound DEF IInv, TypeOK, Emit
<1> QED
  BY <1>1 DEF IInv, TypeOK, Emit, BuildFindsOnlyMissingOutputs

\* The invariant is inductive.
LEMMA Inductive == Spec => []IInv
<1>1. Init => IInv
  BY DEF Init, EmptyGraph, IInv, TypeOK, GraphsOver, Sound, OperandsEarlier, Ids,
         InputsAreInputs, InputsListed, OutputsInRange, ConstsFit,
         BuildFindsOnlyMissingOutputs
<1>2. IInv /\ [Next]_vars => IInv'
  <2> SUFFICES ASSUME IInv, [Next]_vars PROVE IInv'
    OBVIOUS
  <2>1. ASSUME NEW name \in Names, NEW dtype \in DTypes, NEW shape \in Shapes,
               Input(name, dtype, shape)
        PROVE  IInv'
    BY <2>1, DescribedNodes, DescribedAttributes, EmitKeepsIInv DEF Input
  <2>2. ASSUME NEW dtype \in DTypes, NEW shape \in Shapes, NEW data \in Payloads,
               Constant(dtype, shape, data)
        PROVE  IInv'
    BY <2>2, DescribedNodes, DescribedAttributes, EmitKeepsIInv DEF Constant
  <2>3. ASSUME NEW op \in BinaryOps, NEW left \in HeldIds, NEW right \in HeldIds,
               Binary(op, left, right)
        PROVE  IInv'
    BY <2>3, DescribedNodes, DescribedAttributes, EmitKeepsIInv DEF Binary
  <2>4. ASSUME NEW op \in UnaryOps, NEW input \in HeldIds, Unary(op, input)
        PROVE  IInv'
    BY <2>4, DescribedNodes, DescribedAttributes, EmitKeepsIInv DEF Unary
  <2>5. ASSUME NEW input \in HeldIds, NEW axes \in AxisLists,
               NEW keepdim \in BOOLEAN, Sum(input, axes, keepdim)
        PROVE  IInv'
    BY <2>5, DescribedNodes, DescribedAttributes, EmitKeepsIInv DEF Sum
  <2>6. ASSUME NEW input \in HeldIds, NEW shape \in Shapes, Reshape(input, shape)
        PROVE  IInv'
    BY <2>6, DescribedNodes, DescribedAttributes, EmitKeepsIInv DEF Reshape
  <2>7. ASSUME NEW id \in HeldIds, MarkOutput(id) PROVE IInv'
    <3>1. /\ graph \in GraphsOver(Attrs)
          /\ Sound(graph)
          /\ id \in Ids(graph)
          /\ graph' = [graph EXCEPT !.outputs = Append(graph.outputs, id)]
          /\ result = "Building" /\ result' = "Building"
      BY <2>7 DEF MarkOutput, IInv, TypeOK
    <3>2. /\ graph' \in GraphsOver(Attrs)
          /\ graph'.nodes = graph.nodes
          /\ graph'.inputs = graph.inputs
          /\ graph'.outputs = Append(graph.outputs, id)
      <4>1. id \in Nat /\ graph.outputs \in Seq(Nat)
        BY <3>1, BuilderAssumption DEF GraphsOver, HeldIds
      <4>2. Append(graph.outputs, id) \in Seq(Nat)
        BY <4>1, AppendProperties
      <4> QED
        BY <3>1, <4>2 DEF GraphsOver
    <3>3. /\ OperandsEarlier(graph') /\ ConstsFit(graph')
          /\ InputsAreInputs(graph') /\ InputsListed(graph')
          /\ \A i \in Ids(graph') : AttrFits(graph'.nodes[i])
      BY <3>1, <3>2 DEF Sound, OperandsEarlier, InputsAreInputs, IsInputId,
                        InputsListed, ConstsFit, Ids
    <3>4. OutputsInRange(graph')
      <4>1. graph.outputs \in Seq(Nat) /\ id \in Nat
        BY <3>1, BuilderAssumption DEF GraphsOver, HeldIds
      <4>2. \A k \in DOMAIN graph'.outputs :
               \/ k \in DOMAIN graph.outputs /\ graph'.outputs[k] = graph.outputs[k]
               \/ graph'.outputs[k] = id
        BY <3>2, <4>1, AppendProperties
      <4> QED
        BY <3>1, <3>2, <4>2 DEF Sound, OutputsInRange, Ids
    <3> QED
      BY <3>1, <3>2, <3>3, <3>4 DEF Sound, IInv, TypeOK, BuildFindsOnlyMissingOutputs
  <2>8. CASE Build
    BY <2>8, SoundValidates, StructureErrorKinds
       DEF Build, IInv, TypeOK, BuildFindsOnlyMissingOutputs
  <2>9. CASE UNCHANGED vars
    BY <2>9 DEF vars, IInv, TypeOK, BuildFindsOnlyMissingOutputs
  <2> QED
    BY <2>1, <2>2, <2>3, <2>4, <2>5, <2>6, <2>7, <2>8, <2>9 DEF Next
<1> QED
  BY <1>1, <1>2, PTL DEF Spec

-----------------------------------------------------------------------------
\* The builder holds a well-formed graph, and build returns a known result.
THEOREM TypeCorrect == Spec => []TypeOK
BY Inductive, PTL DEF IInv

\* The builder fails closed: after any calls, the one error build can still
\* find is that no output was marked.
THEOREM FailsClosed == Spec => []BuildFindsOnlyMissingOutputs
BY Inductive, PTL DEF IInv

\* The input list is the Input nodes in arena order, at every moment.
THEOREM InputsInOrder == Spec => []InputListIsInputNodes
BY Inductive, PTL DEF IInv, Sound, InputListIsInputNodes

\* What build returns without an error is valid, lists its inputs and has the
\* attributes that the types say: what the rewriter is assumed to be called with.
BuiltGraphsAreValid ==
  result = "None" => /\ Valid(graph) /\ InputsListed(graph)
                     /\ \A i \in Ids(graph) : AttrFits(graph.nodes[i])

\* A graph that build returns passes validate_structure, with its inputs listed.
THEOREM BuiltIsValid == Spec => []BuiltGraphsAreValid
<1>1. IInv => BuiltGraphsAreValid
  BY DEF IInv, Sound, Valid, BuildFindsOnlyMissingOutputs, BuiltGraphsAreValid
<1> QED
  BY <1>1, Inductive, PTL

\* What type inference accepts of a graph that was built, the interpreter computes: on
\* every environment of tensors it finishes without an internal error, each value in
\* the shape inferred and every index in range, unless an inferred shape has no
\* element count.
THEOREM AcceptedGraphsCompute == Spec => []InternalErrorsOnlyFromOverflow
<1>1. ASSUME IInv
      PROVE  InternalErrorsOnlyFromOverflow
  <2> SUFFICES ASSUME result = "None", NEW env \in Environments,
                      Eval(graph, env).err = "Internal"
               PROVE  \E t \in Range(InferTypes(graph).types) : Numel(t.shape) = Overflow
    BY DEF InternalErrorsOnlyFromOverflow
  <2>1. IsEnvironment(env)
    BY BuilderAssumption
  <2>2. Valid(graph)
    BY <1>1 DEF IInv, Sound, Valid, BuildFindsOnlyMissingOutputs
  <2>3. IsGraph(graph)
    BY <1>1, DescribedIsGraph DEF IInv, TypeOK, Sound
  <2>4. InferTypes(graph).err # "Internal"
    BY <2>2, <2>3, InferTypesErrors
  <2>5. EvalValues(graph, env).err = "Internal"
    BY DEF Eval, Collected
  <2>6. InferTypes(graph).err = "None"
    BY <2>4, <2>5 DEF EvalValues, EvalTyped
  <2>7. PICK i \in Ids(graph) : Numel(InferTypes(graph).types[i].shape) = Overflow
    BY <2>1, <2>2, <2>3, <2>5, <2>6, ValidNodesFit, AcceptedGraphEvaluates
  <2>8. DOMAIN InferTypes(graph).types = Ids(graph)
    BY <2>3, <2>6, InferTypesFit, Lists DEF Typing, Ids
  <2>9. InferTypes(graph).types[i] \in Range(InferTypes(graph).types)
    BY <2>7, <2>8 DEF Range
  <2> QED
    BY <2>7, <2>9
<1> QED
  BY <1>1, Inductive, PTL

-----------------------------------------------------------------------------
(* Sums, for every shape.                                                   *)
\* A quotient is the number that a multiple of it and the next one are around.
LEMMA QuotientIs ==
  ASSUME NEW x \in Nat, NEW q \in Nat \ {0}, NEW m \in Nat, q * m <= x, x < q * m + q
  PROVE  x \div q = m
<1> DEFINE d == x \div q
           y == q * m
           z == q * d
<1>1. d \in Nat /\ x = q * d + (x % q) /\ x % q \in 0 .. q - 1
  OBVIOUS
<1>2. y \in Nat /\ z \in Nat /\ z <= x /\ x < z + q
  BY <1>1
<1>3. q * (d + 1) = z + q /\ q * (m + 1) = y + q
  BY <1>1
<1>4. d + 1 <= m => z + q <= y
  BY <1>1, <1>3, MulMonotone
<1>5. m + 1 <= d => y + q <= z
  BY <1>1, <1>3, MulMonotone
<1>6. y <= x /\ x < y + q
  OBVIOUS
<1> HIDE DEF d, y, z
<1>7. ~ (d + 1 <= m) /\ ~ (m + 1 <= d)
  BY <1>2, <1>4, <1>5, <1>6
<1>8. d = m
  BY <1>1, <1>7
<1> QED
  BY <1>8 DEF d

\* Dividing by a product is dividing twice.
LEMMA QuotientTwice ==
  ASSUME NEW x \in Nat, NEW q \in Nat \ {0}, NEW s \in Nat \ {0}
  PROVE  x \div (q * s) = (x \div q) \div s
<1> DEFINE u == x \div q
           w == u \div s
           a == q * u
           b == s * w
           c == q * b
           d == q * s
<1>1. u \in Nat /\ a <= x /\ x < a + q /\ a \in Nat
  OBVIOUS
<1>2. w \in Nat /\ b <= u /\ u < b + s /\ b \in Nat
  <2> HIDE DEF u
  <2> QED
    BY <1>1
<1>3. c <= a
  <2> HIDE DEF u, b
  <2> QED
    BY <1>1, <1>2, MulMonotone
<1>4. a + q <= c + d
  <2>1. q * (u + 1) <= q * (b + s)
    <3> HIDE DEF u, b
    <3> QED
      BY <1>1, <1>2, MulMonotone
  <2>2. q * (u + 1) = a + q /\ q * (b + s) = c + d
    <3> HIDE DEF u, b
    <3> QED
      BY <1>1, <1>2
  <2> QED
    BY <2>1, <2>2
<1>5. c = d * w /\ d \in Nat \ {0} /\ c \in Nat
  <2> HIDE DEF w
  <2> QED
    BY <1>2
<1>6. d * w <= x /\ x < d * w + d
  <2> DEFINE e == d * w
  <2>1. c = e
    BY <1>5
  <2> HIDE DEF a, c, d, e
  <2>2. e <= x /\ x < e + d
    BY <1>1, <1>3, <1>4, <1>5, <2>1
  <2> QED
    BY <2>2 DEF e
<1> HIDE DEF u, w, d
<1>7. x \div d = w
  BY <1>2, <1>5, <1>6, QuotientIs
<1> QED
  BY <1>7 DEF d, w, u

\* The coordinates of an element are within the shape.
LEMMA CoordinatesBelow ==
  ASSUME NEW shape \in Seq(Nat), Numel(shape) # Overflow, Numel(shape) > 0, NEW flat \in Nat
  PROVE  Below(FlatToMulti(flat, shape), shape)
<1> DEFINE N == Len(shape)
           multi == FlatToMulti(flat, shape)
<1>1. N \in Nat /\ DOMAIN shape = 1 .. N /\ \A a \in 1 .. N : shape[a] \in Nat
  OBVIOUS
<1>2. \A a \in 1 .. N : shape[a] # 0
  BY ElementsHaveExtents
<1>3. ASSUME NEW a \in 1 .. N
      PROVE  multi[a] \in Nat /\ multi[a] < shape[a]
  <2> DEFINE s == RowStride(shape, a)
             d == shape[a]
  <2>1. s \in Nat \ {0}
    <3>1. N - a \in 0 .. N
      BY <1>1
    <3>2. ExtentsFromRight(shape)[N - a] \in Nat \ {0}
      BY <1>2, <3>1, ExtentsFromRightPositive
    <3> QED
      BY <3>2 DEF RowStride
  <2>2. d \in Nat \ {0}
    BY <1>1, <1>2
  <2>3. multi[a] = (flat \div s) % d
    BY <1>1, <1>2 DEF FlatToMulti
  <2> HIDE DEF s, d
  <2>4. flat \div s \in Nat
    BY <2>1
  <2>5. (flat \div s) % d \in 0 .. (d - 1)
    BY <2>2, <2>4
  <2>6. multi[a] \in Nat /\ multi[a] < d
    BY <2>2, <2>3, <2>5
  <2> QED
    BY <2>6 DEF d
<1>4. IsList(multi) /\ Len(multi) = N
  <2>1. multi = [a \in 1 .. N |-> multi[a]]
    BY <1>1 DEF FlatToMulti
  <2> HIDE DEF multi
  <2>2. multi \in [1 .. N -> Nat]
    BY <1>3, <2>1
  <2>3. multi \in Seq(Nat) /\ Len(multi) = N
    BY <1>1, <2>2
  <2> QED
    BY <2>3, SeqIsList
<1>5. IsList(shape)
  BY SeqIsList
<1> HIDE DEF multi
<1>6. Below(multi, shape)
  BY <1>1, <1>3, <1>4, <1>5 DEF Below
<1> QED
  BY <1>6 DEF multi

\* The coordinates of an element lead back to it.
LEMMA OffsetOfCoordinates ==
  ASSUME NEW shape \in Seq(Nat), Numel(shape) # Overflow, Numel(shape) > 0,
         NEW x \in 0 .. Numel(shape) - 1
  PROVE  MultiToFlat(FlatToMulti(x, shape), shape) = x
<1> DEFINE N == Len(shape)
           multi == FlatToMulti(x, shape)
           e == ExtentsFromRight(shape)
           o == Offsets(multi, shape)
           S == {n \in Nat : n <= N => o[n] = e[N - n] * (x \div e[N - n])}
<1>1. N \in Nat /\ DOMAIN shape = 1 .. N /\ \A a \in 1 .. N : shape[a] \in Nat \ {0}
  BY ElementsHaveExtents
<1>2. /\ e[0] = 1 /\ e[N] = Numel(shape)
      /\ \A n \in 0 .. N : e[n] \in Nat \ {0}
      /\ \A n \in 0 .. N - 1 : e[N - n] = e[N - (n + 1)] * shape[n + 1]
  BY <1>1, ExtentsFromRightPositive
<1>3. \A n \in 1 .. N : multi[n] = (x \div e[N - n]) % shape[n]
  <2> SUFFICES ASSUME NEW n \in 1 .. N
               PROVE  multi[n] = (x \div e[N - n]) % shape[n]
    OBVIOUS
  <2>1. shape[n] # 0
    BY <1>1
  <2> QED
    BY <1>1, <2>1 DEF FlatToMulti, RowStride
<1>4. x \in Nat /\ x < e[N]
  <2>1. Numel(shape) \in Nat
    BY NumelFits, MaxUsizeAssumption
  <2> QED
    BY <1>2, <2>1
<1>5. o = [n \in 0 .. N |-> IF n = 0 THEN 0 ELSE o[n - 1] + multi[n] * RowStride(shape, n)]
  <2>1. Below(multi, shape)
    BY <1>4, CoordinatesBelow
  <2> QED
    BY <1>1, <2>1, BelowShape, OffsetsDef
<1>6. \A n \in 0 .. N : RowStride(shape, n) = e[N - n]
  BY DEF RowStride
<1>7. MultiToFlat(multi, shape) = o[N]
  <2>1. Below(multi, shape)
    BY <1>4, CoordinatesBelow
  <2>2. Len(multi) = N
    BY <2>1, BelowShape
  <2> QED
    BY <2>2 DEF MultiToFlat
<1> HIDE DEF e, o, N, multi
<1>8. 0 \in S
  <2>1. N - 0 = N /\ N \in 0 .. N /\ 0 \in 0 .. N
    BY <1>1
  <2> DEFINE q == e[N]
  <2>2. q \in Nat \ {0} /\ q * 0 <= x /\ x < q * 0 + q
    BY <1>2, <1>4, <2>1
  <2>3. o[0] = 0
    BY <1>5, <2>1
  <2> HIDE DEF q
  <2>4. x \div q = 0
    BY <1>4, <2>2, QuotientIs
  <2>5. q * 0 = 0
    BY <2>2
  <2> QED
    BY <2>1, <2>3, <2>4, <2>5 DEF q
<1>9. ASSUME NEW n \in Nat, n \in S
      PROVE  n + 1 \in S
  <2> SUFFICES ASSUME n + 1 <= N
               PROVE  o[n + 1] = e[N - (n + 1)] * (x \div e[N - (n + 1)])
    OBVIOUS
  <2> DEFINE q == e[N - (n + 1)]
             s == shape[n + 1]
             u == x \div q
             w == u \div s
             r == u % s
             y == s * w
  <2>1. /\ n \in 0 .. N - 1 /\ n + 1 \in 1 .. N /\ N - (n + 1) \in 0 .. N /\ n <= N
        /\ n + 1 \in 0 .. N /\ n + 1 # 0 /\ (n + 1) - 1 = n
    BY <1>1
  <2>2. q \in Nat \ {0} /\ s \in Nat \ {0} /\ e[N - n] = q * s
    BY <1>1, <1>2, <2>1
  <2>3. multi[n + 1] = r
    BY <1>3, <2>1
  <2>4. o[n] = (q * s) * (x \div (q * s))
    BY <1>9, <2>1, <2>2
  <2>5. o[n + 1] = o[n] + r * q
    BY <1>5, <1>6, <2>1, <2>3
  <2> HIDE DEF q, s
  <2>6. x \div (q * s) = w
    BY <1>4, <2>2, QuotientTwice
  <2>7. u \in Nat
    BY <1>4, <2>2
  <2> HIDE DEF u
  <2>8. u = y + r /\ w \in Nat /\ r \in Nat
    BY <2>2, <2>7
  <2> HIDE DEF w, r
  <2>9. o[n + 1] = (q * s) * w + r * q
    BY <2>4, <2>5, <2>6
  <2>10. (q * s) * w + r * q = q * (y + r)
    BY <2>2, <2>8
  <2> QED
    BY <2>8, <2>9, <2>10 DEF u, q
<1>10. N \in S
  <2> HIDE DEF S
  <2> QED
    BY <1>1, <1>8, <1>9, SetInduction
<1>11. o[N] = e[0] * (x \div e[0])
  <2>1. N - N = 0
    BY <1>1
  <2> QED
    BY <1>1, <1>10, <2>1
<1>12. 1 * (x \div 1) = x
  BY <1>4
<1> QED
  BY <1>2, <1>7, <1>11, <1>12 DEF multi

\* Elements with the same coordinates are the same.
LEMMA CoordinatesApart ==
  ASSUME NEW shape \in Seq(Nat), Numel(shape) # Overflow, Numel(shape) > 0,
         NEW x \in 0 .. Numel(shape) - 1, NEW y \in 0 .. Numel(shape) - 1,
         FlatToMulti(x, shape) = FlatToMulti(y, shape)
  PROVE  x = y
<1>1. MultiToFlat(FlatToMulti(x, shape), shape) = x
  BY OffsetOfCoordinates
<1>2. MultiToFlat(FlatToMulti(y, shape), shape) = y
  BY OffsetOfCoordinates
<1> QED
  BY <1>1, <1>2

\* An offset lies in the block that the first coordinates make.
LEMMA OffsetBlock ==
  ASSUME NEW multi, NEW shape, Below(multi, shape), Numel(shape) # Overflow
  PROVE  \A n \in 0 .. Len(shape) :
            /\ Offsets(multi, shape)[n] \in Nat
            /\ Offsets(multi, shape)[n] <= MultiToFlat(multi, shape)
            /\ MultiToFlat(multi, shape)
                 < Offsets(multi, shape)[n] + ExtentsFromRight(shape)[Len(shape) - n]
<1> DEFINE N == Len(shape)
           e == ExtentsFromRight(shape)
           o == Offsets(multi, shape)
           R == {n \in Nat : n <= N => o[n] \in Nat}
           S == {k \in Nat : k <= N => /\ o[N - k] <= o[N]
                                       /\ o[N] < o[N - k] + e[k]}
<1>1. /\ shape \in Seq(Nat) /\ N \in Nat /\ Len(multi) = N
      /\ \A a \in 1 .. N : shape[a] # 0
  BY BelowShape
<1>2. /\ e[0] = 1 /\ e[N] = Numel(shape)
      /\ \A n \in 0 .. N : e[n] \in Nat \ {0}
      /\ \A n \in 0 .. N - 1 : e[N - n] = e[N - (n + 1)] * shape[n + 1]
  BY <1>1, ExtentsFromRightPositive
<1>3. o = [n \in 0 .. N |-> IF n = 0 THEN 0 ELSE o[n - 1] + multi[n] * RowStride(shape, n)]
  BY <1>1, OffsetsDef
<1>4. \A n \in 0 .. N : RowStride(shape, n) = e[N - n]
  BY DEF RowStride
<1>5. MultiToFlat(multi, shape) = o[N]
  BY <1>1 DEF MultiToFlat
<1>6. \A a \in 1 .. N : multi[a] \in Nat /\ shape[a] \in Nat /\ multi[a] < shape[a]
  BY DEF Below
<1> HIDE DEF e, o, N
<1>7. \A n \in Nat : n <= N => o[n] \in Nat
  <2>1. 0 \in R
    BY <1>1, <1>3
  <2>2. ASSUME NEW n \in Nat, n \in R
        PROVE  n + 1 \in R
    <3> SUFFICES ASSUME n + 1 <= N
                 PROVE  o[n + 1] \in Nat
      OBVIOUS
    <3>1. n <= N /\ n + 1 \in 1 .. N /\ n + 1 \in 0 .. N /\ (n + 1) - 1 = n /\ n + 1 # 0
          /\ N - (n + 1) \in 0 .. N
      BY <1>1
    <3>2. o[n + 1] = o[n] + multi[n + 1] * e[N - (n + 1)]
      BY <1>3, <1>4, <3>1
    <3>3. o[n] \in Nat /\ multi[n + 1] \in Nat /\ e[N - (n + 1)] \in Nat
      BY <1>2, <1>6, <2>2, <3>1
    <3>4. multi[n + 1] * e[N - (n + 1)] \in Nat
      BY <3>3
    <3> QED
      BY <3>2, <3>3, <3>4
  <2>3. \A n \in Nat : n \in R
    <3> HIDE DEF R
    <3> QED
      BY <2>1, <2>2, SetInduction
  <2> QED
    BY <2>3
<1>8. 0 \in S
  <2>1. N - 0 = N /\ o[N] \in Nat
    BY <1>1, <1>7
  <2> QED
    BY <1>2, <2>1
<1>9. ASSUME NEW k \in Nat, k \in S
      PROVE  k + 1 \in S
  <2> SUFFICES ASSUME k + 1 <= N
               PROVE  o[N - (k + 1)] <= o[N] /\ o[N] < o[N - (k + 1)] + e[k + 1]
    OBVIOUS
  <2> DEFINE n == N - (k + 1)
  <2>1. /\ n \in Nat /\ n <= N /\ n \in 0 .. N - 1 /\ n + 1 = N - k /\ n + 1 \in 1 .. N
        /\ n + 1 \in 0 .. N /\ N - n = k + 1 /\ N - (n + 1) = k /\ k <= N /\ k \in 0 .. N
        /\ n + 1 # 0 /\ (n + 1) - 1 = n /\ n + 1 \in Nat /\ n + 1 <= N
    BY <1>1
  <2> HIDE DEF n
  <2> DEFINE c == multi[n + 1]
             s == shape[n + 1]
             x == e[k]
             y == x * c
             z == x * s
  <2>2. o[n + 1] = o[n] + c * x
    BY <1>3, <1>4, <2>1
  <2>3. e[k + 1] = x * s
    BY <1>2, <2>1
  <2>4. c \in Nat /\ s \in Nat /\ c + 1 <= s /\ x \in Nat
    BY <1>2, <1>6, <2>1
  <2>5. o[n] \in Nat /\ o[N] \in Nat
    BY <1>1, <1>7, <2>1
  <2>6. o[n + 1] <= o[N] /\ o[N] < o[n + 1] + x
    BY <1>9, <2>1
  <2> HIDE DEF c, s, x
  <2>7. x * (c + 1) <= x * s
    BY <2>4, MulMonotone
  <2>8. x * (c + 1) = y + x /\ c * x = y /\ y \in Nat /\ z \in Nat
    BY <2>4
  <2>9. o[n] <= o[N] /\ o[N] < o[n] + z
    <3>1. y + x <= z /\ o[n + 1] = o[n] + y
      BY <2>2, <2>7, <2>8
    <3> HIDE DEF y, z
    <3> QED
      BY <2>4, <2>5, <2>6, <2>8, <3>1
  <2> QED
    BY <2>3, <2>9 DEF n
<1>10. \A k \in Nat : k \in S
  <2> HIDE DEF S
  <2> QED
    BY <1>8, <1>9, SetInduction
<1>11. ASSUME NEW n \in 0 .. N
       PROVE  o[n] \in Nat /\ o[n] <= o[N] /\ o[N] < o[n] + e[N - n]
  <2>1. N - n \in Nat /\ N - n <= N /\ N - (N - n) = n /\ n \in Nat /\ n <= N
    BY <1>1
  <2> DEFINE k == N - n
  <2> HIDE DEF k
  <2>2. k \in Nat /\ k <= N /\ N - k = n
    BY <2>1 DEF k
  <2>3. o[N - k] <= o[N] /\ o[N] < o[N - k] + e[k]
    BY <1>10, <2>2
  <2> QED
    BY <1>7, <2>1, <2>2, <2>3 DEF k
<1> QED
  BY <1>5, <1>11 DEF o, e, N

\* So different coordinates have different offsets.
LEMMA OffsetsApart ==
  ASSUME NEW multi, NEW other, NEW shape, Below(multi, shape), Below(other, shape),
         Numel(shape) # Overflow, MultiToFlat(multi, shape) = MultiToFlat(other, shape)
  PROVE  multi = other
<1> DEFINE N == Len(shape)
           e == ExtentsFromRight(shape)
           o == Offsets(multi, shape)
           p == Offsets(other, shape)
           F == MultiToFlat(multi, shape)
           S == {n \in Nat : n <= N => o[n] = p[n] /\ \A a \in 1 .. n : multi[a] = other[a]}
<1>1. /\ shape \in Seq(Nat) /\ N \in Nat /\ Len(multi) = N /\ Len(other) = N
      /\ \A a \in 1 .. N : shape[a] # 0
  BY BelowShape
<1>2. \A n \in 0 .. N : e[n] \in Nat \ {0}
  BY <1>1, ExtentsFromRightPositive
<1>3. /\ o = [n \in 0 .. N |-> IF n = 0 THEN 0 ELSE o[n - 1] + multi[n] * RowStride(shape, n)]
      /\ p = [n \in 0 .. N |-> IF n = 0 THEN 0 ELSE p[n - 1] + other[n] * RowStride(shape, n)]
  BY <1>1, OffsetsDef
<1>4. \A n \in 0 .. N : RowStride(shape, n) = e[N - n]
  BY DEF RowStride
<1>5. \A n \in 0 .. N : /\ o[n] \in Nat /\ o[n] <= F /\ F < o[n] + e[N - n]
                        /\ p[n] \in Nat /\ p[n] <= F /\ F < p[n] + e[N - n]
  BY OffsetBlock
<1>6. \A a \in 1 .. N : multi[a] \in Nat /\ other[a] \in Nat
  BY DEF Below
<1>7. F \in Nat
  BY OffsetInRange, <1>1, NumelFits, MaxUsizeAssumption
<1>8. IsList(multi) /\ IsList(other)
  BY DEF Below
<1> HIDE DEF e, o, p, F, N
<1>9. 0 \in S
  BY <1>1, <1>3
<1>10. ASSUME NEW n \in Nat, n \in S
       PROVE  n + 1 \in S
  <2> SUFFICES ASSUME n + 1 <= N
               PROVE  o[n + 1] = p[n + 1] /\ \A a \in 1 .. (n + 1) : multi[a] = other[a]
    OBVIOUS
  <2>1. /\ n <= N /\ n + 1 \in 1 .. N /\ n + 1 \in 0 .. N /\ (n + 1) - 1 = n /\ n + 1 # 0
        /\ N - (n + 1) \in 0 .. N /\ n \in 0 .. N
    BY <1>1
  <2> DEFINE x == e[N - (n + 1)]
             c == multi[n + 1]
             d == other[n + 1]
             y == x * c
             z == x * d
  <2>2. o[n + 1] = o[n] + c * x /\ p[n + 1] = p[n] + d * x
    BY <1>3, <1>4, <2>1
  <2>3. c \in Nat /\ d \in Nat /\ x \in Nat /\ o[n] \in Nat
    BY <1>2, <1>5, <1>6, <2>1
  <2>4. o[n] = p[n] /\ \A a \in 1 .. n : multi[a] = other[a]
    BY <1>10, <2>1
  <2>5. o[n + 1] <= F /\ F < o[n + 1] + x /\ p[n + 1] <= F /\ F < p[n + 1] + x
    BY <1>5, <2>1
  <2> HIDE DEF x, c, d
  <2>6. c * x = y /\ d * x = z /\ y \in Nat /\ z \in Nat
        /\ x * (c + 1) = y + x /\ x * (d + 1) = z + x
    BY <2>3
  <2>7. c + 1 <= d => y + x <= z
    BY <2>3, <2>6, MulMonotone
  <2>8. d + 1 <= c => z + x <= y
    BY <2>3, <2>6, MulMonotone
  <2>9. o[n + 1] = o[n] + y /\ p[n + 1] = o[n] + z
    BY <2>2, <2>4, <2>6
  <2> HIDE DEF y, z
  <2>10. ~ (c + 1 <= d) /\ ~ (d + 1 <= c)
    BY <1>7, <2>3, <2>5, <2>6, <2>7, <2>8, <2>9
  <2>11. c = d
    BY <2>3, <2>10
  <2>12. \A a \in 1 .. (n + 1) : a \in 1 .. n \/ a = n + 1
    OBVIOUS
  <2> QED
    BY <2>2, <2>4, <2>11, <2>12 DEF c, d
<1>11. N \in S
  <2> HIDE DEF S
  <2> QED
    BY <1>1, <1>9, <1>10, SetInduction
<1>12. \A a \in 1 .. N : multi[a] = other[a]
  BY <1>1, <1>11
<1> QED
  BY <1>1, <1>8, <1>12, ListsEqual

\* An offset leads back to its coordinates.
LEMMA CoordinatesOfOffset ==
  ASSUME NEW multi, NEW shape, Below(multi, shape), Numel(shape) # Overflow
  PROVE  FlatToMulti(MultiToFlat(multi, shape), shape) = multi
<1> DEFINE x == MultiToFlat(multi, shape)
           other == FlatToMulti(x, shape)
<1>1. shape \in Seq(Nat) /\ Numel(shape) \in Nat /\ x \in 0 .. Numel(shape) - 1
  BY BelowShape, OffsetInRange, NumelFits, MaxUsizeAssumption
<1> HIDE DEF x
<1>2. Numel(shape) > 0 /\ x \in Nat
  BY <1>1
<1>3. Below(other, shape) /\ MultiToFlat(other, shape) = x
  BY <1>1, <1>2, CoordinatesBelow, OffsetOfCoordinates
<1> HIDE DEF other
<1>4. other = multi
  BY <1>3, OffsetsApart DEF x
<1> QED
  BY <1>4 DEF other, x

\* Coordinates with axes dropped are equal when those kept are.
LEMMA KeptAgree ==
  ASSUME NEW m, NEW k, Len(m) \in Nat, Len(k) = Len(m), NEW axes
  PROVE  KeptEntries(m, axes)[Len(m)] = KeptEntries(k, axes)[Len(k)]
           <=> \A a \in 1 .. Len(m) : a \notin Range(axes) => m[a] = k[a]
<1> DEFINE N == Len(m)
           p == KeptEntries(m, axes)
           q == KeptEntries(k, axes)
           Agree(n) == \A a \in 1 .. n : a \notin Range(axes) => m[a] = k[a]
           S == {n \in Nat : n <= N => /\ IsList(p[n]) /\ IsList(q[n]) /\ Len(p[n]) = Len(q[n])
                                       /\ p[n] = q[n] <=> Agree(n)}
<1>1. N \in Nat /\ Len(k) = N
  OBVIOUS
<1>2. p = [n \in 0 .. N |-> IF n = 0 THEN << >> ELSE IF n \in Range(axes) THEN p[n - 1]
                            ELSE Append(p[n - 1], m[n])]
  BY <1>1, KeptEntriesDef
<1>3. q = [n \in 0 .. N |-> IF n = 0 THEN << >> ELSE IF n \in Range(axes) THEN q[n - 1]
                            ELSE Append(q[n - 1], k[n])]
  BY <1>1, KeptEntriesDef
<1> HIDE DEF p, q, N
<1>4. 0 \in S
  <2> DEFINE none == << >>
  <2>1. none \in Seq({})
    OBVIOUS
  <2>2. p[0] = none /\ q[0] = none
    BY <1>1, <1>2, <1>3
  <2>3. \A a \in 1 .. 0 : FALSE
    OBVIOUS
  <2> HIDE DEF none
  <2>4. IsList(none)
    BY <2>1, SeqIsList
  <2> QED
    BY <2>2, <2>3, <2>4
<1>5. ASSUME NEW n \in Nat, n \in S
      PROVE  n + 1 \in S
  <2> SUFFICES ASSUME n + 1 <= N
               PROVE  /\ IsList(p[n + 1]) /\ IsList(q[n + 1]) /\ Len(p[n + 1]) = Len(q[n + 1])
                      /\ p[n + 1] = q[n + 1] <=> Agree(n + 1)
    OBVIOUS
  <2>1. n + 1 \in 0 .. N /\ n + 1 # 0 /\ (n + 1) - 1 = n /\ n <= N
    BY <1>1
  <2> DEFINE l == p[n]
             r == q[n]
             x == m[n + 1]
             y == k[n + 1]
  <2>2. IsList(l) /\ IsList(r) /\ Len(l) = Len(r) /\ (l = r <=> Agree(n))
    BY <1>5, <2>1
  <2>3. p[n + 1] = IF n + 1 \in Range(axes) THEN l ELSE Append(l, x)
    BY <1>2, <2>1
  <2>4. q[n + 1] = IF n + 1 \in Range(axes) THEN r ELSE Append(r, y)
    BY <1>3, <2>1
  <2>5. Agree(n + 1) <=> Agree(n) /\ (n + 1 \notin Range(axes) => x = y)
    <3>1. \A a \in 1 .. (n + 1) : a \in 1 .. n \/ a = n + 1
      OBVIOUS
    <3>2. n + 1 \in 1 .. (n + 1) /\ \A a \in 1 .. n : a \in 1 .. (n + 1)
      OBVIOUS
    <3> QED
      BY <3>1, <3>2
  <2> HIDE DEF l, r, x, y, Agree
  <2>6. CASE n + 1 \in Range(axes)
    BY <2>2, <2>3, <2>4, <2>5, <2>6
  <2>7. CASE n + 1 \notin Range(axes)
    <3> DEFINE c == Len(l)
               u == Append(l, x)
               v == Append(r, y)
    <3>1. /\ IsList(u) /\ Len(u) = c + 1 /\ u[c + 1] = x
          /\ \A i \in 1 .. c : u[i] = l[i]
      BY <2>2, AppendToList
    <3>2. /\ IsList(v) /\ Len(v) = c + 1 /\ v[c + 1] = y
          /\ \A i \in 1 .. c : v[i] = r[i]
      BY <2>2, AppendToList
    <3>3. l = r /\ x = y => u = v
      OBVIOUS
    <3> HIDE DEF u, v
    <3>4. ASSUME u = v
          PROVE  l = r /\ x = y
      <4>1. x = y
        BY <3>1, <3>2, <3>4
      <4>2. \A i \in 1 .. Len(l) : l[i] = r[i]
        BY <3>1, <3>2, <3>4
      <4> QED
        BY <2>2, <4>1, <4>2, ListsEqual
    <3>5. p[n + 1] = u /\ q[n + 1] = v
      BY <2>3, <2>4, <2>7 DEF u, v
    <3>6. (u = v) <=> Agree(n + 1)
      BY <2>2, <2>5, <2>7, <3>3, <3>4
    <3> QED
      BY <3>1, <3>2, <3>5, <3>6
  <2> QED
    BY <2>6, <2>7
<1>6. N \in S
  <2> HIDE DEF S
  <2> QED
    BY <1>1, <1>4, <1>5, SetInduction
<1>7. p[N] = q[N] <=> Agree(N)
  BY <1>1, <1>6
<1> QED
  BY <1>1, <1>7 DEF p, q, N

\* Distinct axes, as many as there are, are all the axes.
LEMMA AllAxes ==
  ASSUME NEW N \in Nat, NEW axes \in Seq(1 .. N), Len(axes) = N,
         \A i, j \in 1 .. Len(axes) : i # j => axes[i] # axes[j]
  PROVE  \A a \in 1 .. N : a \in Range(axes)
<1>1. axes \in [1 .. N -> 1 .. N] /\ DOMAIN axes = 1 .. N
  OBVIOUS
<1>2. axes \in Injection(1 .. N, 1 .. N)
  BY <1>1 DEF Injection, IsInjective
<1>3. IsFiniteSet(1 .. N)
  BY FS_Interval
<1>4. axes \in Surjection(1 .. N, 1 .. N)
  BY <1>2, <1>3, FS_Injection
<1> QED
  BY <1>1, <1>4 DEF Surjection, Range

\* Numbers from one on with a number each are a list.
LEMMA NumbersListed ==
  ASSUME NEW n \in Nat, NEW f \in [1 .. n -> Nat]
  PROVE  f \in Seq(Nat) /\ Len(f) = n
OBVIOUS

\* Two elements that differ at most along the axes summed over.
SameSlice(x, y, shape, axes) ==
  \A a \in 1 .. Len(shape) :
     a \notin Range(axes) => FlatToMulti(x, shape)[a] = FlatToMulti(y, shape)[a]

\* What the first n elements add up to along the slice of x, in flat order.
SliceSums(t, axes, x) ==
  LET sum[n \in 0 .. Cardinality(Elements(t))] ==
        IF n = 0 THEN Zero
        ELSE IF SameSlice(n - 1, x, t.shape, axes) THEN Plus(sum[n - 1], t.data[n - 1])
        ELSE sum[n - 1]
  IN  sum

\* What is left of the coordinates of an element when axes are summed over.
KeptCoordinates(c, axes, keepdim) ==
  IF keepdim THEN [a \in DOMAIN c |-> IF a \in Range(axes) THEN 0 ELSE c[a]]
             ELSE KeptEntries(c, axes)[Len(c)]

\* They are coordinates of the sum.
LEMMA KeptWithin ==
  ASSUME NEW shape, NEW c, Below(c, shape), NEW axes, NEW keepdim \in BOOLEAN
  PROVE  Below(KeptCoordinates(c, axes, keepdim), SumOutputShape(shape, axes, keepdim))
<1> DEFINE N == Len(shape)
           d == KeptCoordinates(c, axes, keepdim)
           out == SumOutputShape(shape, axes, keepdim)
<1>1. N \in Nat /\ DOMAIN shape = 1 .. N /\ DOMAIN c = 1 .. N
  BY Lists DEF Below
<1>2. CASE ~ keepdim
  <2>1. d = KeptEntries(c, axes)[Len(c)]
    BY <1>2 DEF KeptCoordinates
  <2>2. out = KeptEntries(shape, axes)[Len(shape)]
    BY <1>2 DEF SumOutputShape
  <2> HIDE DEF d, out
  <2>3. Below(d, out)
    BY <2>1, <2>2, KeptBelow
  <2> QED
    BY <2>3 DEF d, out
<1>3. CASE keepdim
  <2>1. d = [a \in 1 .. N |-> IF a \in Range(axes) THEN 0 ELSE c[a]]
    BY <1>1, <1>3 DEF KeptCoordinates
  <2>2. out = [a \in 1 .. N |-> IF a \in Range(axes) THEN 1 ELSE shape[a]]
    BY <1>1, <1>3 DEF SumOutputShape
  <2>3. \A a \in 1 .. N : c[a] \in Nat /\ shape[a] \in Nat /\ c[a] < shape[a]
    BY DEF Below
  <2> HIDE DEF d, out, N
  <2>4. \A a \in 1 .. N : d[a] \in Nat /\ out[a] \in Nat /\ d[a] < out[a]
    BY <2>1, <2>2, <2>3
  <2>5. d \in [1 .. N -> Nat] /\ out \in [1 .. N -> Nat]
    BY <2>1, <2>2, <2>4
  <2>6. d \in Seq(Nat) /\ Len(d) = N /\ out \in Seq(Nat) /\ Len(out) = N
    BY <1>1, <2>5, NumbersListed
  <2>7. IsList(d) /\ IsList(out)
    BY <2>6, SeqIsList
  <2>8. Below(d, out)
    BY <2>4, <2>6, <2>7 DEF Below
  <2> QED
    BY <2>8 DEF d, out
<1> QED
  BY <1>2, <1>3

\* They are the same for elements of the same slice only.
LEMMA KeptApart ==
  ASSUME NEW shape \in Seq(Nat), Numel(shape) # Overflow, Numel(shape) > 0,
         NEW axes, NEW keepdim \in BOOLEAN, NEW x \in Nat, NEW y \in Nat
  PROVE  KeptCoordinates(FlatToMulti(x, shape), axes, keepdim)
           = KeptCoordinates(FlatToMulti(y, shape), axes, keepdim)
           <=> SameSlice(x, y, shape, axes)
<1> DEFINE N == Len(shape)
           m == FlatToMulti(x, shape)
           k == FlatToMulti(y, shape)
           u == KeptCoordinates(m, axes, keepdim)
           v == KeptCoordinates(k, axes, keepdim)
           Agree == \A a \in 1 .. N : a \notin Range(axes) => m[a] = k[a]
<1>1. N \in Nat
  OBVIOUS
<1>2. Len(m) = N /\ Len(k) = N /\ DOMAIN m = 1 .. N /\ DOMAIN k = 1 .. N
  <2>1. Below(m, shape) /\ Below(k, shape)
    BY CoordinatesBelow
  <2> HIDE DEF m, k
  <2> QED
    BY <2>1, Lists DEF Below
<1>3. SameSlice(x, y, shape, axes) <=> Agree
  BY DEF SameSlice
<1> HIDE DEF m, k
<1>4. CASE ~ keepdim
  <2>1. u = KeptEntries(m, axes)[Len(m)] /\ v = KeptEntries(k, axes)[Len(k)]
    BY <1>4 DEF KeptCoordinates
  <2>2. Len(m) \in Nat /\ Len(k) = Len(m)
    BY <1>1, <1>2
  <2>3. KeptEntries(m, axes)[Len(m)] = KeptEntries(k, axes)[Len(k)]
          <=> \A a \in 1 .. Len(m) : a \notin Range(axes) => m[a] = k[a]
    BY <2>2, KeptAgree
  <2>4. Len(m) = N
    BY <1>2
  <2> HIDE DEF u, v, N
  <2>5. u = v <=> Agree
    BY <2>1, <2>3, <2>4
  <2> QED
    BY <1>3, <2>5 DEF u, v, m, k
<1>5. CASE keepdim
  <2>1. /\ u = [a \in 1 .. N |-> IF a \in Range(axes) THEN 0 ELSE m[a]]
        /\ v = [a \in 1 .. N |-> IF a \in Range(axes) THEN 0 ELSE k[a]]
    BY <1>2, <1>5 DEF KeptCoordinates
  <2> HIDE DEF u, v, N
  <2>2. /\ \A a \in 1 .. N : u[a] = IF a \in Range(axes) THEN 0 ELSE m[a]
        /\ \A a \in 1 .. N : v[a] = IF a \in Range(axes) THEN 0 ELSE k[a]
    BY <2>1
  <2>3. u = v => Agree
    BY <2>2
  <2>4. Agree => u = v
    BY <2>1
  <2> HIDE DEF Agree
  <2>5. u = v <=> Agree
    BY <2>3, <2>4
  <2> QED
    BY <1>3, <2>5 DEF u, v, m, k
<1> QED
  BY <1>4, <1>5

\* When every axis is dropped nothing is left.
LEMMA NothingKept ==
  ASSUME NEW list, Len(list) \in Nat, NEW axes, \A a \in 1 .. Len(list) : a \in Range(axes)
  PROVE  KeptEntries(list, axes)[Len(list)] = << >>
<1> DEFINE N == Len(list)
           p == KeptEntries(list, axes)
           S == {n \in Nat : n <= N => p[n] = << >>}
<1>1. N \in Nat /\ \A a \in 1 .. N : a \in Range(axes)
  OBVIOUS
<1>2. p = [n \in 0 .. N |-> IF n = 0 THEN << >> ELSE IF n \in Range(axes) THEN p[n - 1]
                            ELSE Append(p[n - 1], list[n])]
  BY <1>1, KeptEntriesDef
<1> HIDE DEF p, N
<1>3. 0 \in S
  BY <1>1, <1>2
<1>4. ASSUME NEW n \in Nat, n \in S
      PROVE  n + 1 \in S
  <2> SUFFICES ASSUME n + 1 <= N
               PROVE  p[n + 1] = << >>
    OBVIOUS
  <2>1. n + 1 \in 0 .. N /\ n + 1 # 0 /\ (n + 1) - 1 = n /\ n <= N /\ n + 1 \in 1 .. N
    BY <1>1
  <2>2. p[n + 1] = p[n]
    BY <1>1, <1>2, <2>1
  <2> QED
    BY <1>4, <2>1, <2>2
<1>5. N \in S
  <2> HIDE DEF S
  <2> QED
    BY <1>1, <1>3, <1>4, SetInduction
<1>6. p[N] = << >>
  BY <1>1, <1>5
<1> QED
  BY <1>6 DEF p, N

\* The case that the code makes of a sum over every axis is none.
LEMMA TargetIsOffset ==
  ASSUME NEW shape \in Seq(Nat), Numel(shape) # Overflow, Numel(shape) > 0,
         NEW axes \in Seq(1 .. Len(shape)), NEW keepdim \in BOOLEAN,
         \A i, j \in 1 .. Len(axes) : i # j => axes[i] # axes[j], NEW x \in Nat
  PROVE  SumTarget(x, shape, axes, keepdim) =
           MultiToFlat(KeptCoordinates(FlatToMulti(x, shape), axes, keepdim),
                       SumOutputShape(shape, axes, keepdim))
<1> DEFINE N == Len(shape)
           m == FlatToMulti(x, shape)
           at == KeptCoordinates(m, axes, keepdim)
           out == SumOutputShape(shape, axes, keepdim)
<1>1. N \in Nat /\ DOMAIN shape = 1 .. N
  OBVIOUS
<1>2. Len(m) = N /\ DOMAIN m = 1 .. N
  <2>1. Below(m, shape)
    BY CoordinatesBelow
  <2> HIDE DEF m
  <2> QED
    BY <2>1, Lists DEF Below
<1>3. SumTarget(x, shape, axes, keepdim) =
        IF Len(shape) = Len(axes) /\ ~ keepdim THEN 0 ELSE MultiToFlat(at, out)
  BY <1>1, <1>2 DEF SumTarget, KeptCoordinates
<1>4. CASE Len(shape) = Len(axes) /\ ~ keepdim
  <2>1. \A a \in 1 .. N : a \in Range(axes)
    BY <1>1, <1>4, AllAxes
  <2>2. KeptEntries(m, axes)[Len(m)] = << >>
    <3> HIDE DEF m
    <3> QED
      BY <1>1, <1>2, <2>1, NothingKept
  <2>3. at = << >>
    BY <1>4, <2>2 DEF KeptCoordinates
  <2> HIDE DEF at
  <2>4. Len(at) = 0
    BY <2>3
  <2>5. Offsets(at, out)[0] = 0
    <3> DEFINE f == Offsets(at, out)
    <3>1. Len(at) \in Nat
      BY <2>4
    <3> HIDE DEF out
    <3>2. f = [n \in 0 .. Len(at) |-> IF n = 0 THEN 0 ELSE f[n - 1] + at[n] * RowStride(out, n)]
      BY <3>1, OffsetsDef
    <3> HIDE DEF f
    <3>3. f[0] = 0
      BY <2>4, <3>2
    <3> QED
      BY <3>3 DEF f
  <2> QED
    BY <1>3, <1>4, <2>4, <2>5 DEF MultiToFlat, at
<1>5. CASE ~ (Len(shape) = Len(axes) /\ ~ keepdim)
  BY <1>3, <1>5
<1> QED
  BY <1>4, <1>5

\* The sum of a slice, as a recursion over the elements.
LEMMA SliceSumsDef ==
  ASSUME NEW t, Cardinality(Elements(t)) \in Nat, NEW axes, NEW x
  PROVE  SliceSums(t, axes, x) =
           [n \in 0 .. Cardinality(Elements(t)) |->
              IF n = 0 THEN Zero
              ELSE IF SameSlice(n - 1, x, t.shape, axes)
                   THEN Plus(SliceSums(t, axes, x)[n - 1], t.data[n - 1])
              ELSE SliceSums(t, axes, x)[n - 1]]
<1> DEFINE N == Cardinality(Elements(t))
           next(n, old) == IF SameSlice(n - 1, x, t.shape, axes)
                           THEN Plus(old, t.data[n - 1]) ELSE old
           Upto(m, f) == f = [n \in 0 .. m |-> IF n = 0 THEN Zero ELSE next(n, f[n - 1])]
           S == {m \in Nat : \E f : Upto(m, f)}
<1>0. N \in Nat
  OBVIOUS
<1>1. SliceSums(t, axes, x) = CHOOSE f : Upto(N, f)
  BY DEF SliceSums
<1> HIDE DEF next
<1>2. 0 \in S
  <2> DEFINE f == [n \in 0 .. 0 |-> Zero]
  <2>1. Upto(0, f)
    OBVIOUS
  <2> QED
    BY <2>1
<1>3. ASSUME NEW m \in Nat, m \in S
      PROVE  m + 1 \in S
  <2>1. PICK f : Upto(m, f)
    BY <1>3
  <2> DEFINE h == [n \in 0 .. (m + 1) |-> IF n = m + 1 THEN next(n, f[m]) ELSE f[n]]
  <2>2. ASSUME NEW n \in 0 .. (m + 1)
        PROVE  h[n] = IF n = 0 THEN Zero ELSE next(n, h[n - 1])
    <3>1. CASE n = 0
      BY <2>1, <3>1
    <3>2. CASE n = m + 1
      BY <3>2
    <3>3. CASE n # 0 /\ n # m + 1
      <4>1. n \in 0 .. m /\ n - 1 \in 0 .. m
        BY <3>3
      <4>2. h[n] = f[n] /\ h[n - 1] = f[n - 1]
        BY <4>1, <3>3
      <4>3. f[n] = next(n, f[n - 1])
        BY <2>1, <4>1, <3>3
      <4> QED
        BY <4>2, <4>3, <3>3
    <3> QED
      BY <3>1, <3>2, <3>3
  <2>3. Upto(m + 1, h)
    <3> HIDE DEF h
    <3>1. h = [n \in 0 .. (m + 1) |-> h[n]]
      BY DEF h
    <3> QED
      BY <2>2, <3>1
  <2> HIDE DEF Upto, h
  <2> QED
    BY <2>3
<1>4. N \in S
  <2> HIDE DEF N, S
  <2> QED
    BY <1>0, <1>2, <1>3, SetInduction
<1>5. Upto(N, SliceSums(t, axes, x))
  <2> HIDE DEF Upto
  <2>1. \E f : Upto(N, f)
    BY <1>4
  <2> QED
    BY <1>1, <2>1
<1> QED
  BY <1>5 DEF next

\* The operand of a sum that inference accepts is a tensor, the axes are axes
\* of it, each named once, and the result can be sized.
SumAccepted(t, axes, keepdim) ==
  /\ t.shape \in Seq(Nat) /\ IsTensor(t)
  /\ axes \in Seq(1 .. Len(t.shape))
  /\ \A i, j \in 1 .. Len(axes) : i # j => axes[i] # axes[j]
  /\ keepdim \in BOOLEAN
  /\ Numel(SumOutputShape(t.shape, axes, keepdim)) # Overflow

\* Element i of a sum is at the coordinates that element x of the operand keeps.
Receives(i, x, t, axes, keepdim, sum) ==
  FlatToMulti(i, sum.shape) = KeptCoordinates(FlatToMulti(x, t.shape), axes, keepdim)

\* A tensor is the sum of another: the elements of each slice come together at
\* one place, those of other slices at others; what is found there is what the
\* slice adds up to from zero, each element once and in row-major order; and
\* there is zero where nothing comes.
SumsSlices(t, axes, keepdim, sum) ==
  /\ \A x \in Elements(t) : \E i \in Elements(sum) : Receives(i, x, t, axes, keepdim, sum)
  /\ \A i \in Elements(sum), x, y \in Elements(t) :
        Receives(i, x, t, axes, keepdim, sum) =>
           (Receives(i, y, t, axes, keepdim, sum) <=> SameSlice(x, y, t.shape, axes))
  /\ \A i \in Elements(sum), x \in Elements(t) :
        Receives(i, x, t, axes, keepdim, sum) =>
           sum.data[i] = SliceSums(t, axes, x)[Numel(t.shape)]
  /\ \A i \in Elements(sum) :
        (\A x \in Elements(t) : ~ Receives(i, x, t, axes, keepdim, sum)) => sum.data[i] = Zero

\* The interpreter's sum is one, for every shape and choice of axes.
LEMMA EvalSumSumsSlices ==
  ASSUME NEW t, NEW axes, NEW keepdim, SumAccepted(t, axes, keepdim)
  PROVE  SumsSlices(t, axes, keepdim, EvalSum(t, axes, keepdim))
<1> DEFINE shape == t.shape
           sum == EvalSum(t, axes, keepdim)
           out == SumOutputShape(shape, axes, keepdim)
           N == Numel(shape)
           D == 0 .. (Numel(out) - 1)
           f == Scattered(t, axes, keepdim)
           target(n) == SumTarget(n, shape, axes, keepdim)
           kept(n) == KeptCoordinates(FlatToMulti(n, shape), axes, keepdim)
           sums(x) == SliceSums(t, axes, x)
           same(x, y) == SameSlice(x, y, shape, axes)
           receives(i, x) == Receives(i, x, t, axes, keepdim, sum)
           E == 0 .. (N - 1)
           zeros == Zeros(out)
           S == {n \in Nat : n <= N =>
                   /\ DOMAIN f[n] = D
                   /\ \A x \in E : f[n][target(x)] = sums(x)[n]
                   /\ \A i \in D : (\A x \in E : target(x) # i) => f[n][i] = Zero}
<1>1. N \in Nat /\ N # Overflow /\ Elements(t) = E
  BY NumelFits, MaxUsizeAssumption DEF SumAccepted, IsTensor
<1>2. Cardinality(Elements(t)) = N
  BY <1>1, FS_Interval
<1>3. ASSUME NEW x \in E
      PROVE  /\ x \in Nat /\ N > 0 /\ target(x) \in D
             /\ FlatToMulti(target(x), out) = kept(x)
  <2>1. x \in Nat /\ N > 0
    BY <1>1
  <2>2. target(x) \in D
    BY <1>1, <2>1, SumTargetInRange DEF SumAccepted
  <2>3. target(x) = MultiToFlat(kept(x), out)
    BY <1>1, <2>1, TargetIsOffset DEF SumAccepted
  <2>4. Below(kept(x), out)
    <3>1. Below(FlatToMulti(x, shape), shape)
      BY <1>1, <2>1, CoordinatesBelow DEF SumAccepted
    <3>2. keepdim \in BOOLEAN
      BY DEF SumAccepted
    <3> QED
      BY <3>1, <3>2, KeptWithin
  <2>5. Numel(out) # Overflow
    BY DEF SumAccepted
  <2> HIDE DEF kept, out
  <2>6. FlatToMulti(MultiToFlat(kept(x), out), out) = kept(x)
    BY <2>4, <2>5, CoordinatesOfOffset
  <2> QED
    BY <2>1, <2>2, <2>3, <2>6 DEF out
<1>4. ASSUME NEW x \in E, NEW y \in E
      PROVE  kept(x) = kept(y) <=> same(x, y)
  BY <1>1, <1>3, <1>4, KeptApart DEF SumAccepted
<1>5. ASSUME NEW i \in D, NEW j \in D, FlatToMulti(i, out) = FlatToMulti(j, out), NEW x \in E
      PROVE  i = j
  <2>1. Below(FlatToMulti(x, shape), shape) /\ keepdim \in BOOLEAN
    BY <1>1, <1>3, CoordinatesBelow DEF SumAccepted
  <2>2. Below(kept(x), out)
    BY <2>1, KeptWithin
  <2>3. out \in Seq(Nat) /\ Numel(out) # Overflow
    BY <2>2, BelowShape DEF SumAccepted
  <2> HIDE DEF out
  <2>4. Numel(out) \in Nat
    BY <2>3, NumelFits, MaxUsizeAssumption
  <2> QED
    BY <1>5, <2>3, <2>4, CoordinatesApart
<1>6. f = [n \in 0 .. N |-> IF n = 0 THEN zeros
                            ELSE AddAt(f[n - 1], target(n - 1), t.data[n - 1])]
  BY <1>1, <1>2, ScatteredDef
<1>7. ASSUME NEW x \in E
      PROVE  sums(x) = [n \in 0 .. N |->
               IF n = 0 THEN Zero
               ELSE IF same(n - 1, x) THEN Plus(sums(x)[n - 1], t.data[n - 1])
               ELSE sums(x)[n - 1]]
  BY <1>1, <1>2, SliceSumsDef
<1>8. DOMAIN zeros = D /\ \A i \in D : zeros[i] = Zero
  BY DEF Zeros
<1>9. sum.data = f[N] /\ sum.shape = out
  BY <1>2 DEF EvalSum
<1>10. Elements(sum) = DOMAIN f[N]
  BY <1>9 DEF Elements
<1>11. \A i, x : receives(i, x) <=> FlatToMulti(i, out) = kept(x)
  BY <1>9 DEF Receives
<1> HIDE DEF f, N, zeros, D, target, kept, sums, same, receives, E, out, sum
<1>12. ASSUME NEW x \in E, NEW y \in E
       PROVE  target(x) = target(y) <=> same(x, y)
  BY <1>3, <1>4, <1>5
<1>13. ASSUME NEW i \in D, NEW x \in E
       PROVE  receives(i, x) <=> target(x) = i
  BY <1>3, <1>5, <1>11
<1>14. 0 \in S
  <2>1. 0 \in 0 .. N
    BY <1>1
  <2>2. f[0] = zeros /\ \A x \in E : sums(x)[0] = Zero
    BY <1>6, <1>7, <2>1
  <2> QED
    BY <1>3, <1>8, <2>2
<1>15. ASSUME NEW n \in Nat, n \in S
       PROVE  n + 1 \in S
  <2> SUFFICES ASSUME n + 1 <= N
               PROVE  /\ DOMAIN f[n + 1] = D
                      /\ \A x \in E : f[n + 1][target(x)] = sums(x)[n + 1]
                      /\ \A i \in D : (\A x \in E : target(x) # i) => f[n + 1][i] = Zero
    OBVIOUS
  <2>1. n + 1 \in 0 .. N /\ n + 1 # 0 /\ (n + 1) - 1 = n /\ n <= N /\ n \in E
    BY <1>1 DEF E
  <2> DEFINE old == f[n]
             e == t.data[n]
             k == target(n)
  <2>2. /\ DOMAIN old = D
        /\ \A x \in E : old[target(x)] = sums(x)[n]
        /\ \A i \in D : (\A x \in E : target(x) # i) => old[i] = Zero
    BY <1>15, <2>1
  <2>3. f[n + 1] = AddAt(old, k, e)
    BY <1>6, <2>1
  <2>4. f[n + 1] = [old EXCEPT ![k] = Plus(old[k], e)]
    BY <2>3 DEF AddAt
  <2>5. ASSUME NEW x \in E
        PROVE  sums(x)[n + 1] = IF same(n, x) THEN Plus(sums(x)[n], e) ELSE sums(x)[n]
    <3> DEFINE g == sums(x)
               p(i) == same(i, x)
               q(i) == Plus(g[i], t.data[i])
    <3>1. g = [i \in 0 .. N |-> IF i = 0 THEN Zero
                               ELSE IF same(i - 1, x) THEN Plus(g[i - 1], t.data[i - 1])
                               ELSE g[i - 1]]
      BY <1>7
    <3>2. g = [i \in 0 .. N |-> IF i = 0 THEN Zero
                               ELSE IF p(i - 1) THEN q(i - 1) ELSE g[i - 1]]
      BY <3>1
    <3> HIDE DEF g, p, q
    <3>3. g[n + 1] = IF p((n + 1) - 1) THEN q((n + 1) - 1) ELSE g[(n + 1) - 1]
      BY <2>1, <3>2
    <3>4. g[n + 1] = IF p(n) THEN q(n) ELSE g[n]
      BY <2>1, <3>3
    <3> QED
      BY <3>4 DEF g, p, q
  <2>6. k \in D
    BY <1>3, <2>1
  <2> HIDE DEF old, e
  <2>7. \A i \in D : f[n + 1][i] = IF i = k THEN Plus(old[k], e) ELSE old[i]
    BY <2>2, <2>4, <2>6
  <2>8. ASSUME NEW x \in E
        PROVE  f[n + 1][target(x)] = sums(x)[n + 1]
    <3>1. target(x) \in D
      BY <1>3
    <3>2. k = target(x) <=> same(n, x)
      BY <1>12, <2>1
    <3> QED
      BY <2>2, <2>5, <2>7, <3>1, <3>2
  <2>9. ASSUME NEW i \in D, \A x \in E : target(x) # i
        PROVE  f[n + 1][i] = Zero
    BY <2>1, <2>2, <2>7, <2>9
  <2>10. DOMAIN f[n + 1] = D
    BY <2>2, <2>4
  <2> QED
    BY <2>8, <2>9, <2>10
<1>16. N \in S
  <2> HIDE DEF S
  <2> QED
    BY <1>1, <1>14, <1>15, SetInduction
<1>17. /\ DOMAIN f[N] = D
       /\ \A x \in E : f[N][target(x)] = sums(x)[N]
       /\ \A i \in D : (\A x \in E : target(x) # i) => f[N][i] = Zero
  BY <1>1, <1>16
<1>18. Elements(sum) = D
  BY <1>10, <1>17
<1>19. \A x \in E : \E i \in D : receives(i, x)
  BY <1>3, <1>13
<1>20. \A i \in D, x, y \in E : receives(i, x) => (receives(i, y) <=> same(x, y))
  BY <1>12, <1>13
<1>21. \A i \in D, x \in E : receives(i, x) => sum.data[i] = sums(x)[N]
  BY <1>9, <1>13, <1>17
<1>22. \A i \in D : (\A x \in E : ~ receives(i, x)) => sum.data[i] = Zero
  BY <1>9, <1>13, <1>17
<1>23. SumsSlices(t, axes, keepdim, sum)
  BY <1>1, <1>18, <1>19, <1>20, <1>21, <1>22 DEF SumsSlices, receives, sums, same, N
<1> QED
  BY <1>23 DEF sum

\* The sums of a graph that was built: whenever evaluation succeeds, the value of
\* each is the sum of its operand's over the slices.
SumsAddSlices(g, values) ==
  \A i \in Ids(g) : g.nodes[i].op = "Sum" =>
     SumsSlices(values[g.nodes[i].args[1]], g.nodes[i].attr.axes, g.nodes[i].attr.keepdim,
                values[i])

\* What inference has accepted is a sum over distinct axes of a tensor.
LEMMA SumsAreAccepted ==
  ASSUME NEW g, NodesFit(g), NEW types, Typing(g, types), Len(types) = Len(g.nodes),
         NEW env, NEW values, ValuesAre(g, env, types, values),
         NEW i \in Ids(g), g.nodes[i].op = "Sum"
  PROVE  /\ SumAccepted(values[g.nodes[i].args[1]], g.nodes[i].attr.axes,
                        g.nodes[i].attr.keepdim)
         /\ values[i] = EvalSum(values[g.nodes[i].args[1]], g.nodes[i].attr.axes,
                                g.nodes[i].attr.keepdim)
<1> DEFINE node == g.nodes[i]
           N == Len(g.nodes)
           a == node.args[1]
           t == values[a]
           s == t.shape
           axes == node.attr.axes
           keepdim == node.attr.keepdim
           bad == {k \in DOMAIN axes : \/ axes[k] \notin DOMAIN s
                                       \/ \E j \in 1 .. (k - 1) : axes[j] = axes[k]}
<1>1. /\ N \in Nat /\ i \in 1 .. N /\ node.args \in Seq(Nat) /\ Len(node.args) = 1
      /\ \A k \in DOMAIN node.args : node.args[k] \in 1 .. (i - 1)
      /\ AttrFits(node)
  BY DEF NodesFit, Ids, Arity, BinaryOps, UnaryOps
<1>2. 1 \in DOMAIN node.args /\ a \in 1 .. (i - 1) /\ a \in 1 .. N
  BY <1>1
<1>3. /\ values[i] = EvalNode(node, env, values) /\ values[i].shape = types[i].shape
      /\ IsTensor(values[i]) /\ IsTensor(t) /\ s = types[a].shape
  BY <1>1, <1>2 DEF ValuesAre, ValuesUpTo
<1>4. values[i] = EvalSum(t, axes, keepdim)
  BY <1>3 DEF EvalNode
<1>5. /\ types[i] = InferNode(node, types) /\ types[i].err = "None"
      /\ TypeFits(node, types[i].shape, ShapesOf(node, types))
  BY <1>1 DEF Typing
<1>6. s \in Seq(Nat)
  <2>1. ShapesOf(node, types)[1] = s
    BY <1>2, <1>3 DEF ShapesOf
  <2> QED
    BY <1>5, <2>1 DEF TypeFits
<1>7. types[i] = InferSum(types[a], axes, keepdim)
  <2>1. \A k \in DOMAIN node.args : node.args[k] \in DOMAIN types
    <3>1. DOMAIN types = 1 .. N
      BY Lists DEF Typing
    <3> QED
      BY <1>1, <3>1
  <2> QED
    BY <1>5, <2>1 DEF InferNode, UnaryOps
<1>8. axes \in Seq(Nat) /\ keepdim \in BOOLEAN
  BY <1>1 DEF AttrFits
<1>9. bad = {}
  <2> SUFFICES ASSUME bad # {}
               PROVE  FALSE
    OBVIOUS
  <2> DEFINE type == types[a]
             worse == {k \in DOMAIN axes : \/ axes[k] \notin DOMAIN type.shape
                                          \/ \E j \in 1 .. (k - 1) : axes[j] = axes[k]}
             first == CHOOSE k \in worse : \A j \in worse : k <= j
  <2>1. bad = worse
    BY <1>3
  <2>2. \/ types[i] = TypeErr("NonNumericDType")
        \/ types[i] = TypeErr(IF axes[first] \notin DOMAIN type.shape
                             THEN "SumAxisOutOfRange" ELSE "SumDuplicateAxis")
    BY <1>7, <2>1 DEF InferSum
  <2> HIDE DEF first, type
  <2>3. types[i].err \in {"NonNumericDType", "SumAxisOutOfRange", "SumDuplicateAxis"}
    BY <2>2 DEF TypeErr
  <2> QED
    BY <1>5, <2>3
<1>10. axes \in Seq(1 .. Len(s))
  <2>1. \A k \in DOMAIN axes : axes[k] \in 1 .. Len(s)
    <3> SUFFICES ASSUME NEW k \in DOMAIN axes
                 PROVE  axes[k] \in 1 .. Len(s)
      OBVIOUS
    <3>1. axes[k] \in DOMAIN s
      <4> HIDE DEF s, axes
      <4> QED
        BY <1>9
    <3>2. DOMAIN s = 1 .. Len(s)
      BY <1>6
    <3> QED
      BY <3>1, <3>2
  <2> DEFINE A == axes
             R == 1 .. Len(s)
  <2>2. A \in Seq(Nat) /\ \A k \in DOMAIN A : A[k] \in R
    BY <1>8, <2>1
  <2> HIDE DEF A, R
  <2>3. A \in Seq(R)
    BY <2>2
  <2> QED
    BY <2>3 DEF A, R
<1>11. \A j, k \in 1 .. Len(axes) : j # k => axes[j] # axes[k]
  <2>1. \A k \in 1 .. Len(axes) : \A j \in 1 .. (k - 1) : axes[j] # axes[k]
    BY <1>8, <1>9
  <2> SUFFICES ASSUME NEW j \in 1 .. Len(axes), NEW k \in 1 .. Len(axes), j # k
               PROVE  axes[j] # axes[k]
    OBVIOUS
  <2>2. j \in 1 .. (k - 1) \/ k \in 1 .. (j - 1)
    BY <1>8
  <2> QED
    BY <2>1, <2>2
<1>12. Numel(SumOutputShape(s, axes, keepdim)) # Overflow
  <2>1. values[i].shape = SumOutputShape(s, axes, keepdim)
    BY <1>4 DEF EvalSum
  <2> QED
    BY <1>3, <2>1 DEF IsTensor
<1>13. SumAccepted(t, axes, keepdim)
  BY <1>3, <1>6, <1>8, <1>10, <1>11, <1>12 DEF SumAccepted
<1> QED
  BY <1>4, <1>13

\* On a graph that was built, sum adds every element of its operand exactly once, to
\* the element of the result whose coordinates are those it keeps, in row-major order
\* from zero: for every shape, every choice of axes and whatever the scalars are.
THEOREM SumAddsSlices ==
  Spec => [](result = "None" =>
               \A env \in Environments :
                  EvalValues(graph, env).err = "None" =>
                     SumsAddSlices(graph, EvalValues(graph, env).values))
<1> DEFINE Adds == result = "None" =>
                     \A env \in Environments :
                        EvalValues(graph, env).err = "None" =>
                           SumsAddSlices(graph, EvalValues(graph, env).values)
<1>1. ASSUME IInv
      PROVE  Adds
  <2> SUFFICES ASSUME result = "None", NEW env \in Environments,
                      EvalValues(graph, env).err = "None"
               PROVE  SumsAddSlices(graph, EvalValues(graph, env).values)
    OBVIOUS
  <2> DEFINE types == InferTypes(graph).types
             values == EvalValues(graph, env).values
  <2>1. Valid(graph)
    BY <1>1 DEF IInv, Sound, Valid, BuildFindsOnlyMissingOutputs
  <2>2. IsGraph(graph)
    BY <1>1, DescribedIsGraph DEF IInv, TypeOK, Sound
  <2>3. NodesFit(graph)
    BY <2>1, <2>2, ValidNodesFit
  <2>4. InferTypes(graph).err = "None"
    BY DEF EvalValues, EvalTyped
  <2>5. EvalValues(graph, env) = Evaluations(graph, env, types)[Len(graph.nodes)]
    BY <2>4 DEF EvalValues, EvalTyped
  <2>6. Typing(graph, types) /\ Len(types) = Len(graph.nodes)
    BY <2>2, <2>3, <2>4, InferTypesFit
  <2>7. ValuesAre(graph, env, types, values)
    BY <2>3, <2>5, <2>6, RunValues
  <2> HIDE DEF types, values
  <2>8. ASSUME NEW i \in Ids(graph), graph.nodes[i].op = "Sum"
        PROVE  SumsSlices(values[graph.nodes[i].args[1]], graph.nodes[i].attr.axes,
                          graph.nodes[i].attr.keepdim, values[i])
    BY <2>3, <2>6, <2>7, <2>8, SumsAreAccepted, EvalSumSumsSlices
  <2> QED
    BY <2>8 DEF SumsAddSlices, values
<1> QED
  BY <1>1, Inductive, PTL
=============================================================================
