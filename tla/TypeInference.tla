---------------------------- MODULE TypeInference ----------------------------
(***************************************************************************)
(* infer_types of crates/ir/src/infer.rs: the output type of every node,   *)
(* or the error of the first node that has none.  A type is               *)
(* [err, dtype, shape] with err = "None".                                  *)
(***************************************************************************)
EXTENDS TensorGraph

TypeOf(dtype, shape) == [err |-> "None", dtype |-> dtype, shape |-> shape]
TypeErr(kind)        == [err |-> kind, dtype |-> "none", shape |-> << >>]

IsNumeric(dtype) == dtype # "bool"

\* A slip: keepdim is forgotten.
ReducedShapeDropped(shape, axes, keepdim) ==
  LET keep == {a \in DOMAIN shape : a \notin Range(axes)}
  IN  [k \in 1 .. Cardinality(keep) |->
         shape[CHOOSE a \in keep : Cardinality({b \in keep : b <= a}) = k]]

\* Dimensions left by a sum: a reduced one becomes 1 or disappears.
ReducedShape(shape, axes, keepdim) ==
  LET keep == {a \in DOMAIN shape : a \notin Range(axes)}
  IN  IF keepdim
      THEN [a \in DOMAIN shape |-> IF a \in keep THEN shape[a] ELSE 1]
      ELSE [k \in 1 .. Cardinality(keep) |->
              shape[CHOOSE a \in keep :
                       Cardinality({b \in keep : b <= a}) = k]]

InferElementwise(l, r) ==
  IF l.shape # r.shape            THEN TypeErr("ShapeMismatch")
  ELSE IF l.dtype # r.dtype       THEN TypeErr("DTypeMismatch")
  ELSE IF ~ IsNumeric(l.dtype)    THEN TypeErr("NonNumericDType")
  ELSE l

InferUnary(t) == IF IsNumeric(t.dtype) THEN t ELSE TypeErr("NonNumericDType")

InferMatmul(l, r) ==
  IF Len(l.shape) # 2 \/ Len(r.shape) # 2 THEN TypeErr("MatmulRank")
  ELSE IF l.dtype # r.dtype               THEN TypeErr("DTypeMismatch")
  ELSE IF ~ IsNumeric(l.dtype)            THEN TypeErr("NonNumericDType")
  ELSE IF l.shape[2] # r.shape[1]         THEN TypeErr("MatmulContraction")
  ELSE TypeOf(l.dtype, <<l.shape[1], r.shape[2]>>)

\* Axes are examined in order: the first bad one names the error.
InferSum(t, axes, keepdim) ==
  LET bad == {k \in DOMAIN axes : \/ axes[k] \notin DOMAIN t.shape
                                  \/ \E j \in 1 .. (k - 1) : axes[j] = axes[k]}
      first == CHOOSE k \in bad : \A j \in bad : k <= j
  IN  IF ~ IsNumeric(t.dtype) THEN TypeErr("NonNumericDType")
      ELSE IF bad # {}
      THEN TypeErr(IF axes[first] \notin DOMAIN t.shape
                   THEN "SumAxisOutOfRange" ELSE "SumDuplicateAxis")
      ELSE TypeOf(t.dtype, ReducedShape(t.shape, axes, keepdim))

InferReshape(t, shape) ==
  IF Overflow \in {Numel(t.shape), Numel(shape)} THEN TypeErr("ShapeOverflow")
  ELSE IF Numel(t.shape) # Numel(shape) THEN TypeErr("ReshapeNumelMismatch")
  ELSE TypeOf(t.dtype, shape)

\* infer_node_type: the type of a node from those of the nodes before it.
InferNode(node, types) ==
  LET arg(k) == types[node.args[k]]
  IN  IF \E k \in DOMAIN node.args : node.args[k] \notin DOMAIN types
      THEN TypeErr("InvalidNodeId")
      ELSE CASE node.op \in {"Input", "Const"} ->
                  TypeOf(node.attr.dtype, node.attr.shape)
             [] node.op \in {"Add", "Sub", "Mul"} ->
                  InferElementwise(arg(1), arg(2))
             [] node.op \in UnaryOps  -> InferUnary(arg(1))
             [] node.op = "Matmul"    -> InferMatmul(arg(1), arg(2))
             [] node.op = "Sum"       ->
                  InferSum(arg(1), node.attr.axes, node.attr.keepdim)
             [] node.op = "Reshape"   -> InferReshape(arg(1), node.attr.shape)

\* infer_types: [err, types]; the loop stops at the first node in error.
Typed(acc, t) ==
  IF acc.err # "None" THEN acc
  ELSE IF t.err # "None" THEN [acc EXCEPT !.err = t.err]
  ELSE [acc EXCEPT !.types = Append(@, t)]

InferNext(acc, node) == Typed(acc, InferNode(node, acc.types))

\* What is inferred of the first n nodes.
Inferences(g) ==
  LET inferred[n \in 0 .. Len(g.nodes)] ==
        IF n = 0 THEN [err |-> "None", types |-> << >>]
                 ELSE InferNext(inferred[n - 1], g.nodes[n])
  IN  inferred

InferTypes(g) ==
  IF ~ Valid(g) THEN [err |-> StructureError(g), types |-> << >>]
                ELSE Inferences(g)[Len(g.nodes)]

=============================================================================
