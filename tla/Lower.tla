-------------------------------- MODULE Lower --------------------------------
(***************************************************************************)
(* lower of crates/loopir/src/lower.rs: from a graph to a kernel, or to an *)
(* error, node by node in topological order.  A kernel is                  *)
(* [err, buffers, body, inputs, outputs, output_shapes]; its buffers count *)
(* from 1 here and from 0 in the code, its loop variables from 0.          *)
(***************************************************************************)
EXTENDS LoopIR, AscendingIds

-----------------------------------------------------------------------------
(* topo_order of a graph whose operands are all earlier (module TopoOrder  *)
(* has the algorithm, and the proof that it succeeds for such a graph):     *)
(* this function is its result.  The order decides which nests are adjacent.*)
ReadyAfter(g, order) ==
  {i \in Ids(g) : /\ Last(order) \in Operands(g.nodes[i])
                  /\ Operands(g.nodes[i]) \subseteq Range(order)}

PopReady(g, s) ==
  LET order == Append(s.order, Head(s.ready))
  IN  IF s.ready = << >> THEN s
      ELSE [order |-> order,
            ready |-> Tail(s.ready) \o Ascending(ReadyAfter(g, order))]

\* The order and the queue after n rounds of the loop.
Pops(g) ==
  LET popped[n \in 0 .. Len(g.nodes)] ==
        IF n = 0
        THEN [order |-> << >>,
              ready |-> Ascending({i \in Ids(g) : Operands(g.nodes[i]) = {}})]
        ELSE PopReady(g, popped[n - 1])
  IN  popped

KahnOrder(g) == Pops(g)[Len(g.nodes)].order

-----------------------------------------------------------------------------
(* Affine addresses.                                                        *)
\* The extents after an axis; their product is its row-major stride.  Strides are
\* multiplied from the right, element counts from the left.
After(shape, axis) == SubSeq(shape, axis + 1, Len(shape))

Stride(shape, axis) == Numel(Reverse(After(shape, axis)))

\* row_major_affine multiplies beyond the first axis.
Addressable(shape) ==
  /\ Numel(Reverse(shape)) # Overflow
  /\ \A a \in DOMAIN shape :
        shape[a] <= MaxI64 /\ Stride(shape, a) \in 0 .. MaxI64

RowMajorAffine(shape, vars) ==
  Affine([v \in Range(vars) |->
            Stride(shape, CHOOSE a \in DOMAIN vars : vars[a] = v)])

\* The output address that an input element is added to: the kept variables
\* with the strides of their axes in the output.
SumOutputAffine(outShape, axes, keepdim, inVars) ==
  LET kept == Ascending({a \in DOMAIN inVars : a \notin Range(axes)})
      OutAxis(k) == IF keepdim THEN kept[k] ELSE k
  IN  Affine([v \in {inVars[a] : a \in Range(kept)} |->
                Stride(outShape,
                       OutAxis(CHOOSE k \in DOMAIN kept : inVars[kept[k]] = v))])

-----------------------------------------------------------------------------
(* The lowerer.  node_buffers holds the buffer of each node lowered so far. *)
FreshVars(lowerer, from, count) ==
  [k \in 1 .. count |-> lowerer.next_loop_var + from + k - 1]

LevelsOf(shape, vars) == [a \in DOMAIN vars |-> Level(vars[a], shape[a])]

NewBuffer(lowerer) == Len(lowerer.buffers) + 1

AddBuffer(lowerer, buffer) ==
  [lowerer EXCEPT !.buffers = Append(@, buffer)]

\* add_temp, the nests that fill it, and the loop variables they take.
AddNests(lowerer, shape, nests, taken) ==
  [lowerer EXCEPT !.buffers = Append(@, Buffer("Temp", shape, << >>)),
                  !.body = @ \o nests,
                  !.next_loop_var = @ + taken]

Elementwise(lowerer, shape, op, operands) ==
  LET vars == FreshVars(lowerer, 0, Len(shape))
      flat == RowMajorAffine(shape, vars)
      loads == [k \in DOMAIN operands |-> Ref(operands[k], flat)]
  IN  AddNests(lowerer, shape,
        <<Nest(LevelsOf(shape, vars),
               <<Assign(Ref(NewBuffer(lowerer), flat), op, loads)>>)>>,
        Len(shape))

LowerMatmul(lowerer, left, leftShape, right, rightShape) ==
  LET vars == FreshVars(lowerer, 0, 3)
      dims == <<leftShape[1], rightShape[2], leftShape[2]>>       \* m, n, k
      out  == Ref(NewBuffer(lowerer),
                  Affine(TwoTerms(vars[1], dims[2], vars[2], 1)))
      lhs  == Ref(left,  Affine(TwoTerms(vars[1], dims[3], vars[3], 1)))
      rhs  == Ref(right, Affine(TwoTerms(vars[3], dims[2], vars[2], 1)))
      levels == LevelsOf(dims, vars)
  IN  AddNests(lowerer, <<dims[1], dims[2]>>,
        <<Nest(SubSeq(levels, 1, 2), <<Assign(out, "Zero", << >>)>>),
          Nest(levels, <<Assign(out, "MulAdd", <<out, lhs, rhs>>)>>)>>,
        3)

\* A slip: the result is not zeroed first.
LowerSumNotZeroed(lowerer, outShape, input, inShape, axes, keepdim) ==
  LET inVars == FreshVars(lowerer, Len(outShape), Len(inShape))
      out    == Ref(NewBuffer(lowerer),
                    SumOutputAffine(outShape, axes, keepdim, inVars))
      in     == Ref(input, RowMajorAffine(inShape, inVars))
  IN  AddNests(lowerer, outShape,
        <<Nest(LevelsOf(inShape, inVars), <<Assign(out, "Add", <<out, in>>)>>)>>,
        Len(outShape) + Len(inShape))

LowerSum(lowerer, outShape, input, inShape, axes, keepdim) ==
  LET outVars == FreshVars(lowerer, 0, Len(outShape))
      inVars  == FreshVars(lowerer, Len(outShape), Len(inShape))
      zero    == Ref(NewBuffer(lowerer), RowMajorAffine(outShape, outVars))
      out     == Ref(NewBuffer(lowerer),
                     SumOutputAffine(outShape, axes, keepdim, inVars))
      in      == Ref(input, RowMajorAffine(inShape, inVars))
  IN  AddNests(lowerer, outShape,
        <<Nest(LevelsOf(outShape, outVars), <<Assign(zero, "Zero", << >>)>>),
          Nest(LevelsOf(inShape, inVars), <<Assign(out, "Add", <<out, in>>)>>)>>,
        Len(outShape) + Len(inShape))

AddInput(lowerer, node) ==
  [AddBuffer(lowerer, Buffer("Input", node.attr.shape, node.attr.name))
     EXCEPT !.inputs = Append(@, NewBuffer(lowerer))]

\* The lowerer after a node, its shape and its operands' shapes being given.
Emit(lowerer, node, shape, operands, shapes) ==
  CASE node.op = "Input" -> AddInput(lowerer, node)
    [] node.op = "Const" ->
         AddBuffer(lowerer, Buffer("Const", node.attr.shape, node.attr.data))
    [] node.op \in {"Add", "Sub", "Mul", "Neg", "Relu"} ->
         Elementwise(lowerer, shape, node.op, operands)
    [] node.op = "Matmul" ->
         LowerMatmul(lowerer, operands[1], shapes[1], operands[2], shapes[2])
    [] node.op = "Sum" ->
         LowerSum(lowerer, shape, operands[1], shapes[1],
                  node.attr.axes, node.attr.keepdim)
    [] node.op = "Reshape" -> lowerer     \* an alias of its operand's buffer

\* The shapes whose elements a node's nests address; a matmul's addresses take
\* its three extents and no product of them.
Addressed(node, shape, shapes) ==
  CASE node.op \in {"Add", "Sub", "Mul", "Neg", "Relu"} -> {shape}
    [] node.op = "Sum"    -> {shape, shapes[1]}
    [] node.op = "Matmul" -> {<<d>> : d \in Range(shapes[1]) \cup Range(shapes[2])}
    [] node.op \in {"Input", "Const", "Reshape"} -> {}

LoopVarsTaken(node, shape, shapes) ==
  CASE node.op \in {"Add", "Sub", "Mul", "Neg", "Relu"} -> Len(shape)
    [] node.op = "Sum"    -> Len(shape) + Len(shapes[1])
    [] node.op = "Matmul" -> 3
    [] node.op \in {"Input", "Const", "Reshape"} -> 0

\* take_loop_var counts past the variable it returns, so the largest id is
\* never returned.
LowerError(lowerer, node, shape, shapes) ==
  IF node.op \in {"Input", "Const"} /\ node.attr.dtype = "bool" THEN "Unsupported"
  ELSE IF \/ lowerer.next_loop_var + LoopVarsTaken(node, shape, shapes) > MaxLoopVar
          \/ \E s \in Addressed(node, shape, shapes) : ~ Addressable(s)
  THEN "Internal" ELSE "None"

ResultBuffer(lowerer, node, operands) ==
  IF node.op = "Reshape" THEN operands[1] ELSE NewBuffer(lowerer)

LowerNode(lowerer, i, node, types) ==
  LET operands == [k \in DOMAIN node.args |-> lowerer.node_buffers[node.args[k]]]
      shapes   == [k \in DOMAIN node.args |-> types[node.args[k]].shape]
      shape    == types[i].shape
  IN  IF lowerer.err # "None" THEN lowerer
      ELSE IF LowerError(lowerer, node, shape, shapes) # "None"
      THEN [lowerer EXCEPT !.err = LowerError(lowerer, node, shape, shapes)]
      ELSE [Emit(lowerer, node, shape, operands, shapes)
              EXCEPT !.node_buffers[i] = ResultBuffer(lowerer, node, operands)]

NoKernel(err) ==
  [err |-> err, buffers |-> << >>, body |-> << >>, inputs |-> << >>,
   outputs |-> << >>, output_shapes |-> << >>]

KernelOf(g, lowerer, types) ==
  IF lowerer.err # "None" THEN NoKernel(lowerer.err)
  ELSE [err |-> "None", buffers |-> lowerer.buffers, body |-> lowerer.body,
        inputs |-> lowerer.inputs,
        outputs |-> [k \in DOMAIN g.outputs |-> lowerer.node_buffers[g.outputs[k]]],
        output_shapes |-> [k \in DOMAIN g.outputs |-> types[g.outputs[k]].shape]]

EmptyLowerer(g) ==
  [err |-> "None", buffers |-> << >>, body |-> << >>, inputs |-> << >>,
   next_loop_var |-> 0, node_buffers |-> [i \in Ids(g) |-> 0]]

\* The lowerer after the first n nodes of an order.
Lowerings(g, types, order) ==
  LET lowered[n \in 0 .. Len(order)] ==
        IF n = 0 THEN EmptyLowerer(g)
        ELSE LowerNode(lowered[n - 1], order[n], g.nodes[order[n]], types)
  IN  lowered

LowerInOrder(g, types, order) ==
  KernelOf(g, Lowerings(g, types, order)[Len(order)], types)

LowerTyped(g, inferred) ==
  IF inferred.err # "None" THEN NoKernel(inferred.err)
  ELSE LowerInOrder(g, inferred.types, KahnOrder(g))

LoweredKernel(g) == LowerTyped(g, InferTypes(g))

=============================================================================
