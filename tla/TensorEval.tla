------------------------------ MODULE TensorEval ------------------------------
(***************************************************************************)
(* The graph interpreter of crates/interp, written once for both of its   *)
(* number domains: eval.rs computes over exact rationals and eval_f64.rs   *)
(* over IEEE doubles, and the two differ only in the scalar operations,    *)
(* which are the operator parameters below.                                *)
(*                                                                         *)
(* A tensor is [shape, data], data a function on the row-major offsets     *)
(* 0 .. numel - 1.  The result of an evaluation is [err, outputs]; the     *)
(* errors of the interpreter's own consistency checks are "Internal".      *)
(***************************************************************************)
EXTENDS TypeInference

CONSTANTS Zero,          \* the accumulators' starting value
          Plus(_, _), Minus(_, _), Times(_, _), Negate(_),
          IsPositive(_), \* value > zero
          LiftLiteral(_),\* a constant's literal as a scalar
          IsFinite(_)    \* literals that are not are refused

Elements(t) == DOMAIN t.data

Tensor(shape, f(_)) ==
  [shape |-> shape, data |-> [i \in 0 .. (Numel(shape) - 1) |-> f(i)]]

\* What Tensor::new accepts, and so what every tensor is.
IsTensor(t) ==
  Numel(t.shape) # Overflow /\ Elements(t) = 0 .. (Numel(t.shape) - 1)

\* What a caller may bind to names.
IsEnvironment(env) == \A name \in DOMAIN env : IsTensor(env[name])

-----------------------------------------------------------------------------
(* Row-major addressing (tensor.rs).  The code's strides saturate, which is *)
(* of no account: a shape whose strides do has no elements or too many.     *)
\* The products of the last extents.
ExtentsFromRight(shape) ==
  LET product[n \in 0 .. Len(shape)] ==
        IF n = 0 THEN 1 ELSE product[n - 1] * shape[(Len(shape) - n) + 1]
  IN  product

\* A slip: the axis itself is counted.
RowStrideInclusive(shape, axis) == ExtentsFromRight(shape)[(Len(shape) - axis) + 1]

RowStride(shape, axis) == ExtentsFromRight(shape)[Len(shape) - axis]

FlatToMulti(flat, shape) ==
  [a \in DOMAIN shape |->
     IF shape[a] = 0 THEN 0 ELSE (flat \div RowStride(shape, a)) % shape[a]]

\* What the first n indices contribute to the offset.
Offsets(multi, shape) ==
  LET offset[n \in 0 .. Len(multi)] ==
        IF n = 0 THEN 0 ELSE offset[n - 1] + multi[n] * RowStride(shape, n)
  IN  offset

MultiToFlat(multi, shape) == Offsets(multi, shape)[Len(multi)]

-----------------------------------------------------------------------------
(* Operations.                                                              *)
EvalAdd(l, r) == Tensor(l.shape, LAMBDA i : Plus(l.data[i], r.data[i]))

EvalSub(l, r) == Tensor(l.shape, LAMBDA i : Minus(l.data[i], r.data[i]))

EvalMul(l, r) == Tensor(l.shape, LAMBDA i : Times(l.data[i], r.data[i]))

EvalNeg(t)  == Tensor(t.shape, LAMBDA i : Negate(t.data[i]))

EvalRelu(t) ==
  Tensor(t.shape, LAMBDA i : IF IsPositive(t.data[i]) THEN t.data[i] ELSE Zero)

\* Row-major offsets into the factors of a product.
LeftOffset(row, inner, l)  == row * l.shape[2] + inner
RightOffset(inner, col, r) == inner * r.shape[2] + col

\* What the first n products of a row and a column add up to.
Products(l, r, row, col) ==
  LET sum[n \in 0 .. l.shape[2]] ==
        IF n = 0 THEN Zero
        ELSE Plus(sum[n - 1], Times(l.data[LeftOffset(row, n - 1, l)],
                                    r.data[RightOffset(n - 1, col, r)]))
  IN  sum

\* Each element accumulates its products with the contraction index ascending.
EvalMatmul(l, r) ==
  LET n == r.shape[2]
  IN  Tensor(<<l.shape[1], n>>,
             LAMBDA i : Products(l, r, i \div n, i % n)[l.shape[2]])

\* What is left of the first n entries, one to an axis, when axes are dropped.
KeptEntries(list, axes) ==
  LET kept[n \in 0 .. Len(list)] ==
        IF n = 0 THEN << >>
        ELSE IF n \in Range(axes) THEN kept[n - 1]
        ELSE Append(kept[n - 1], list[n])
  IN  kept

SumOutputShape(shape, axes, keepdim) ==
  IF keepdim
  THEN [a \in DOMAIN shape |-> IF a \in Range(axes) THEN 1 ELSE shape[a]]
  ELSE KeptEntries(shape, axes)[Len(shape)]

\* The output offset that element `flat` of the input is added to.
SumTarget(flat, shape, axes, keepdim) ==
  LET multi == FlatToMulti(flat, shape)
      out   == IF keepdim
               THEN [a \in DOMAIN shape |->
                       IF a \in Range(axes) THEN 0 ELSE multi[a]]
               ELSE KeptEntries(multi, axes)[Len(multi)]
  IN  IF Len(shape) = Len(axes) /\ ~ keepdim THEN 0
      ELSE MultiToFlat(out, SumOutputShape(shape, axes, keepdim))

Zeros(shape) == [i \in 0 .. (Numel(shape) - 1) |-> Zero]

AddAt(data, i, x) == [data EXCEPT ![i] = Plus(@, x)]

\* The output after the first n elements are scattered into it, in flat order.
Scattered(t, axes, keepdim) ==
  LET sums[n \in 0 .. Cardinality(Elements(t))] ==
        IF n = 0 THEN Zeros(SumOutputShape(t.shape, axes, keepdim))
        ELSE AddAt(sums[n - 1], SumTarget(n - 1, t.shape, axes, keepdim), t.data[n - 1])
  IN  sums

EvalSum(t, axes, keepdim) ==
  [shape |-> SumOutputShape(t.shape, axes, keepdim),
   data  |-> Scattered(t, axes, keepdim)[Cardinality(Elements(t))]]

EvalReshape(t, shape) == [shape |-> shape, data |-> t.data]

-----------------------------------------------------------------------------
(* eval: every node in topological order.  Build order is one, and the      *)
(* value of a node does not depend on which one is taken.                   *)
InputError(node, env) ==
  IF node.attr.name \notin DOMAIN env               THEN "MissingInput"
  ELSE IF env[node.attr.name].shape # node.attr.shape
                                                THEN "InputShapeMismatch"
  ELSE IF node.attr.dtype = "bool"                  THEN "UnsupportedDtype"
  ELSE "None"

LiteralError(node) ==
  IF node.attr.dtype = "bool"                        THEN "UnsupportedDtype"
  ELSE IF \E k \in DOMAIN node.attr.data : ~ IsFinite(node.attr.data[k])
                                                     THEN "NonFiniteFloat"
  ELSE "None"

\* What the operations check of their operands, and of each index they compute.
ProductFits(l, r) ==
  /\ Len(l.shape) = 2 /\ Len(r.shape) = 2
  /\ l.shape[2] = r.shape[1]
  /\ \A row \in 0 .. (l.shape[1] - 1), inner \in 0 .. (l.shape[2] - 1),
        col \in 0 .. (r.shape[2] - 1) :
        /\ LeftOffset(row, inner, l) \in Elements(l)
        /\ RightOffset(inner, col, r) \in Elements(r)

SumFits(t, axes, keepdim) ==
  \A flat \in Elements(t) :
     SumTarget(flat, t.shape, axes, keepdim)
       \in 0 .. (Numel(SumOutputShape(t.shape, axes, keepdim)) - 1)

OperandsFit(node, values) ==
  LET v(k) == values[node.args[k]]
  IN  CASE node.op \in {"Add", "Sub", "Mul"} ->
             v(1).shape = v(2).shape /\ Elements(v(1)) = Elements(v(2))
        [] node.op = "Matmul" -> ProductFits(v(1), v(2))
        [] node.op = "Sum" -> SumFits(v(1), node.attr.axes, node.attr.keepdim)
        [] OTHER -> TRUE

NodeError(node, env, values) ==
  CASE node.op = "Input" -> InputError(node, env)
    [] node.op = "Const" -> LiteralError(node)
    [] OTHER -> IF OperandsFit(node, values) THEN "None" ELSE "Internal"

EvalNode(node, env, values) ==
  LET v(k) == values[node.args[k]]
  IN  CASE node.op = "Input" -> env[node.attr.name]
        [] node.op = "Const" ->
             Tensor(node.attr.shape,
                    LAMBDA i : LiftLiteral(node.attr.data[i + 1]))
        [] node.op = "Add"     -> EvalAdd(v(1), v(2))
        [] node.op = "Sub"     -> EvalSub(v(1), v(2))
        [] node.op = "Mul"     -> EvalMul(v(1), v(2))
        [] node.op = "Neg"     -> EvalNeg(v(1))
        [] node.op = "Relu"    -> EvalRelu(v(1))
        [] node.op = "Matmul"  -> EvalMatmul(v(1), v(2))
        [] node.op = "Sum"     ->
             EvalSum(v(1), node.attr.axes, node.attr.keepdim)
        [] node.op = "Reshape" -> EvalReshape(v(1), node.attr.shape)

\* The checks of a result: its data fill its shape, which is the one inferred.
Checked(run, t, type) ==
  IF t.shape = type.shape /\ IsTensor(t)
  THEN [run EXCEPT !.values = Append(@, t)]
  ELSE [run EXCEPT !.err = "Internal"]

EvalNext(run, node, env, type) ==
  IF run.err # "None" THEN run
  ELSE IF NodeError(node, env, run.values) # "None"
  THEN [run EXCEPT !.err = NodeError(node, env, run.values)]
  ELSE Checked(run, EvalNode(node, env, run.values), type)

\* What the first n nodes evaluate to, given the types of all.
Evaluations(g, env, types) ==
  LET run[n \in 0 .. Len(g.nodes)] ==
        IF n = 0 THEN [err |-> "None", values |-> << >>]
                 ELSE EvalNext(run[n - 1], g.nodes[n], env, types[n])
  IN  run

EvalTyped(g, env, inferred) ==
  IF inferred.err # "None" THEN [err |-> inferred.err, values |-> << >>]
                           ELSE Evaluations(g, env, inferred.types)[Len(g.nodes)]

\* The values of all nodes.
EvalValues(g, env) == EvalTyped(g, env, InferTypes(g))

Collected(g, run) ==
  [err     |-> run.err,
   outputs |-> IF run.err # "None" THEN << >>
               ELSE [k \in DOMAIN g.outputs |-> run.values[g.outputs[k]]]]

Eval(g, env) == Collected(g, EvalValues(g, env))

=============================================================================
