----------------------------- MODULE RandomGraph -----------------------------
(***************************************************************************)
(* The random graph generator of crates/rewrite/src/gen.rs, which supplies *)
(* the differential tests of the whole repository.  It draws a graph value *)
(* by value through a GraphBuilder, and tracks beside the builder the      *)
(* shape that each value will have; no type is ever inferred.  When a      *)
(* builder call is refused it reseeds its source of randomness and draws a *)
(* new graph.  Every draw is a free choice here.                           *)
(*                                                                         *)
(* All values have one dtype.  Literals and input values are all one finite *)
(* number: no step of the generator looks at them.                         *)
(***************************************************************************)
EXTENDS TensorEval, AscendingIds

INITIAL_LEAVES == 2

Patterns == {"None", "NegNeg", "ReluRelu", "ReshapeReshape"}

CONSTANTS Configs,   \* [size, max_dim, pattern]
          MAX_RANK,  \* of a leaf; 3 in the code
          Literal    \* an element of a constant or of an input

ASSUME GeneratorAssumption ==
  /\ MAX_RANK \in Nat \ {0}
  /\ Configs \subseteq [size : Nat, max_dim : Nat \ {0}, pattern : Patterns]
  /\ IsFinite(Literal)

VARIABLES config,
          draft,   \* what the builder holds, and the inputs' names: [err, graph, names]
          pool,    \* the values drawn, [id, shape], in order
          status   \* "Drawing" or "Returned"

vars == <<config, draft, pool, status>>

EmptyDraft == [err |-> "None", graph |-> EmptyGraph, names |-> << >>]

Init ==
  /\ config \in Configs
  /\ draft = EmptyDraft
  /\ pool = << >>
  /\ status = "Drawing"

-----------------------------------------------------------------------------
(* Drawing.                                                                 *)
DType == "f64"

Value(id, shape) == [id |-> id, shape |-> shape]

Dims       == 1 .. config.max_dim
RankShapes(rank) == [1 .. rank -> Dims]
AnyShapes  == UNION {RankShapes(rank) : rank \in 1 .. MAX_RANK}

\* A call to the builder; the first refusal is the error of the whole draft.
Called(d, node) ==
  IF d.err # "None" THEN d
  ELSE IF EmitError(d.graph, node) # "None"
  THEN [d EXCEPT !.err = EmitError(d.graph, node)]
  ELSE [d EXCEPT !.graph = Push(d.graph, node)]

Newest(d) == Len(d.graph.nodes)

\* tensor_data_for_shape has no data for a shape that cannot be sized.
Payload(shape) == [k \in 1 .. Numel(shape) |-> Literal]

\* A slip: an input is named after the number of values drawn.
LeafNamedByPool(d, shape, isInput) ==
  IF isInput THEN [Called(d, InputNode(Len(pool), DType, shape))
                     EXCEPT !.names = Append(@, Len(pool))]
             ELSE Called(d, ConstNode(DType, shape, Payload(shape)))

\* append_leaf: an input named after the number of inputs, or a constant.
Leaf(d, shape, isInput) ==
  IF isInput THEN [Called(d, InputNode(Len(d.names), DType, shape))
                     EXCEPT !.names = Append(@, Len(d.names))]
             ELSE Called(d, ConstNode(DType, shape, Payload(shape)))

\* random_axes: any of the axes, ascending.
AxisLists(shape) == {Ascending(axes) : axes \in SUBSET (DOMAIN shape)}

\* A slip: an axis summed over disappears, whatever keepdim says.
SummedShapeDropped(shape, axes, keepdim) == ReducedShape(shape, axes, FALSE)

\* sum_output_shape
SummedShape(shape, axes, keepdim) ==
  IF keepdim THEN [a \in DOMAIN shape |-> IF a \in Range(axes) THEN 1 ELSE shape[a]]
             ELSE KeptEntries(shape, axes)[Len(shape)]

\* random_reshape_shape: a shape that cannot be sized is taken for one element.
ReshapeShapes(shape) ==
  LET numel == IF Numel(shape) = Overflow THEN 1 ELSE Numel(shape)
  IN  {<<numel>>} \cup {<<d, numel \div d>> : d \in {e \in 1 .. numel : numel % e = 0}}

-----------------------------------------------------------------------------
(* One step of try_generated_graph: a value is appended, or the graph drawn *)
(* so far is given up and the next one begun.                               *)
Drawn(d, shape) ==
  /\ IF d.err = "None"
     THEN draft' = d /\ pool' = Append(pool, Value(Newest(d), shape))
     ELSE draft' = EmptyDraft /\ pool' = << >>
  /\ UNCHANGED <<config, status>>

Complete  == Len(pool) = INITIAL_LEAVES + config.size
Operation == status = "Drawing" /\ Len(pool) >= INITIAL_LEAVES /\ ~ Complete

AppendLeaf ==
  /\ status = "Drawing" /\ ~ Complete
  /\ \E shape \in AnyShapes, isInput \in BOOLEAN :
        Drawn(Leaf(draft, shape, isInput), shape)

\* Its right operand is any value of the same shape, the left one included.
AppendBinary ==
  /\ Operation
  /\ \E op \in {"Add", "Sub", "Mul"}, left, right \in Range(pool) :
        /\ right.shape = left.shape
        /\ Drawn(Called(draft, BinaryNode(op, left.id, right.id)), left.shape)

AppendUnary ==
  /\ Operation
  /\ \E op \in UnaryOps, input \in Range(pool) :
        Drawn(Called(draft, UnaryNode(op, input.id)), input.shape)

\* The product of a matrix with a new leaf that fits it.
Product(d, left, n, isInput) ==
  LET right == Leaf(d, <<left.shape[2], n>>, isInput)
  IN  Drawn(Called(right, BinaryNode("Matmul", left.id, Newest(right))),
            <<left.shape[1], n>>)

Matrices == {value \in Range(pool) : Len(value.shape) = 2}

\* Without a matrix in the pool the left operand is a new leaf as well.
AppendMatmul ==
  /\ Operation
  /\ \E n \in Dims, isInput \in BOOLEAN :
        \/ \E left \in Matrices : Product(draft, left, n, isInput)
        \/ /\ Matrices = {}
           /\ \E shape \in RankShapes(2), leftIsInput \in BOOLEAN :
                 LET left == Leaf(draft, shape, leftIsInput)
                 IN  Product(left, Value(Newest(left), shape), n, isInput)

AppendSum ==
  /\ Operation
  /\ \E input \in Range(pool), keepdim \in BOOLEAN :
        \E axes \in AxisLists(input.shape) :
           Drawn(Called(draft, SumNode(input.id, axes, keepdim)),
                 SummedShape(input.shape, axes, keepdim))

AppendReshape ==
  /\ Operation
  /\ \E input \in Range(pool) :
        \E shape \in ReshapeShapes(input.shape) :
           Drawn(Called(draft, ReshapeNode(input.id, shape)), shape)

\* mark_output and build; a refusal would begin again.
Finish(d, output) ==
  LET marked == [d.graph EXCEPT !.outputs = Append(@, output)]
      built  == d.err = "None" /\ StructureError(marked) = "None"
  IN  /\ draft'  = IF built THEN [d EXCEPT !.graph = marked] ELSE EmptyDraft
      /\ pool'   = IF built THEN pool ELSE << >>
      /\ status' = IF built THEN "Returned" ELSE "Drawing"
      /\ UNCHANGED config

FinishAnywhere ==
  /\ status = "Drawing" /\ Complete
  /\ config.pattern = "None"
  /\ \E output \in Range(pool) : Finish(draft, output.id)

Applied(part, input) == [op |-> part.op, args |-> <<input>>, attr |-> part.attr]

\* A slip: both operations are applied to the value drawn.
TwiceApart(d, outer, inner, input) ==
  Called(Called(d, Applied(inner, input)), Applied(outer, input))

\* The outer operation applied to the inner one applied to a value.
Twice(d, outer, inner, input) ==
  LET first == Called(d, Applied(inner, input))
  IN  Called(first, Applied(outer, Newest(first)))

\* append_pattern; the output is the outer of the two nodes.
PatternOps(value) ==
  CASE config.pattern = "NegNeg"         -> {[op |-> "Neg", attr |-> NoAttr]}
    [] config.pattern = "ReluRelu"       -> {[op |-> "Relu", attr |-> NoAttr]}
    [] config.pattern = "ReshapeReshape" ->
         {[op |-> "Reshape", attr |-> [shape |-> shape]] :
            shape \in ReshapeShapes(value.shape)}

FinishWithPattern ==
  /\ status = "Drawing" /\ Complete
  /\ config.pattern # "None"
  /\ \E value \in Range(pool) :
        \E outer, inner \in PatternOps(value) :
           LET twice == Twice(draft, outer, inner, value.id)
           IN  Finish(twice, Newest(twice))

Next ==
  \/ AppendLeaf \/ AppendBinary \/ AppendUnary \/ AppendMatmul
  \/ AppendSum \/ AppendReshape
  \/ FinishAnywhere \/ FinishWithPattern

Spec == Init /\ [][Next]_vars

-----------------------------------------------------------------------------
\* The name of the k-th input declared.
InputName(k) == draft.graph.nodes[draft.graph.inputs[k]].attr.name

\* The generator returns the names of the inputs beside the graph, and callers
\* bind values by name: one name for each input, and no two inputs share one,
\* though a matmul may draw two leaves at once (gen.rs:356) and graphs are drawn
\* anew after a refusal.
NamesApart ==
  /\ Len(draft.names) = Len(draft.graph.inputs)
  /\ \A k \in DOMAIN draft.names : draft.names[k] = InputName(k)
  /\ \A j, k \in DOMAIN draft.names : InputName(j) = InputName(k) => j = k

\* Each value of the pool is a node of the graph at hand and never one of a graph
\* that was given up: no call is refused for its operands.
PoolInDraft ==
  \A p \in DOMAIN pool : pool[p].id \in Ids(draft.graph)

-----------------------------------------------------------------------------
(* random_inputs: a value for every declared input that can be sized; of    *)
(* two inputs with one name the later one is bound.                         *)
SizedInputs(g) == {i \in Range(g.inputs) : Numel(g.nodes[i].attr.shape) # Overflow}

LastNamed(g, name) ==
  CHOOSE i \in SizedInputs(g) :
     /\ g.nodes[i].attr.name = name
     /\ \A j \in SizedInputs(g) : g.nodes[j].attr.name = name => j <= i

RandomTensor(shape) ==
  [shape |-> shape, data |-> [k \in 0 .. (Numel(shape) - 1) |-> LiftLiteral(Literal)]]

RandomInputs(g) ==
  [name \in {g.nodes[i].attr.name : i \in SizedInputs(g)} |->
     RandomTensor(g.nodes[LastNamed(g, name)].attr.shape)]

-----------------------------------------------------------------------------
Graph == draft.graph

\* No value of the graph has more elements than usize can count.
Sized ==
  /\ \A value \in Range(pool) : Numel(value.shape) # Overflow
  /\ SizedInputs(Graph) = Range(Graph.inputs)

\* "Generates a random well-typed graph" (gen.rs:59): though no type is inferred
\* while drawing, every value has the shape the generator tracked for it, after
\* any draws; only an element count that overflows can be refused.
GeneratedIsWellTyped ==
  status = "Returned" =>
     LET inferred == InferTypes(Graph)
     IN  /\ inferred.err \in {"None", "ShapeOverflow"}
         /\ Sized => inferred.err = "None"
         /\ inferred.err = "None" =>
               \A value \in Range(pool) :
                  inferred.types[value.id] = TypeOf(DType, value.shape)

\* The graph and the inputs drawn for it belong together: each name returned is
\* that of one declared input, all are bound, and the interpreter evaluates the
\* graph.  A differential test would otherwise compare two errors.
InputsFitGraph ==
  status = "Returned" /\ Sized =>
     /\ NamesApart
     /\ DOMAIN RandomInputs(Graph) = Range(draft.names)
     /\ Eval(Graph, RandomInputs(Graph)).err = "None"

=============================================================================
